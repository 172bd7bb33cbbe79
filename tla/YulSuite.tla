------------------------------ MODULE YulSuite ------------------------------
(***************************************************************************)
(* One program on its way through the Yul optimiser and the code           *)
(* generator.  The suite is run as the command line tools run it: pass     *)
(* after pass on one tree; three further passes are applied on their own   *)
(* to the disambiguated tree.  At every point the tree can be given to the *)
(* analyser and the code generator.                                        *)
(*                                                                         *)
(* rule picks one of the shared rewriting rules instead of a program.      *)
(***************************************************************************)
EXTENDS YulOptimiser, YulCodegen

CONSTANTS Programs,     \* Yul programs: the suite is applied to these
          Units,        \* inline assembly that names Solidity declarations, is loose or is wrong
          Rounds        \* 4 in the code: the number of turns of the main loop

VARIABLES src,      \* the program as written, << >> when none is chosen
          p,        \* tree and name dispenser
          pos,      \* passes done; -1 when a lone pass was applied
          unit,     \* << >> or one unit
          rule      \* 0 or the number of a rule

suiteVars == <<src, p, pos, unit, rule>>

MainLoop == FlattenSeq([i \in 1 .. Rounds |-> Round])
Suite == Preparation \o MainLoop \o Finish \o Finish
Alone == {"Rematerialiser", "BlockFlattener", "MainFunction"}

SuiteInit ==
    /\ src = << >> /\ p = [b |-> << >>, d |-> Dispenser({})] /\ pos = 0 /\ unit = << >> /\ rule = 0

Idle == src = << >> /\ unit = << >> /\ rule = 0

ChooseProgram ==
    /\ Idle
    /\ \E b \in Programs : src' = b /\ p' = [p EXCEPT !.b = b]
    /\ UNCHANGED <<pos, unit, rule>>

(* The next pass of OptimiserSuite::run *)
RunPass ==
    /\ src # << >> /\ pos \in 0 .. Len(Suite) - 1
    /\ pos' = pos + 1
    /\ p' = Apply(Suite[pos + 1], p)
    /\ UNCHANGED <<src, unit, rule>>

(* Passes that are applied to a disambiguated tree by themselves; the main function needs the grouper first *)
RunAlone ==
    /\ src # << >> /\ pos = 1
    /\ \E pass \in Alone :
        p' = IF pass = "MainFunction" THEN Apply(pass, Apply("FunctionGrouper", p)) ELSE Apply(pass, p)
    /\ pos' = -1
    /\ UNCHANGED <<src, unit, rule>>

ChooseUnit == Idle /\ \E u \in Units : unit' = <<u>> /\ UNCHANGED <<src, p, pos, rule>>
ChooseRule == Idle /\ \E i \in DOMAIN RuleList : rule' = i /\ UNCHANGED <<src, p, pos, unit>>

SuiteNext == ChooseProgram \/ RunPass \/ RunAlone \/ ChooseUnit \/ ChooseRule
SuiteSpec == SuiteInit /\ [][SuiteNext]_suiteVars

(***************************************************************************)
(* Properties                                                              *)
(***************************************************************************)
(* The main function is only called from outside: call it *)
Called(b) == IF \E i \in DOMAIN b : b[i].k = "fn" /\ b[i].f = "main"
             THEN Append(b, Ex(Call("main", << >>))) ELSE b

Declared(b) == Cardinality(Names(b))
RECURSIVE DeclarationsIn(_)
DeclarationsIn(b) ==
    Through(LAMBDA n, s : n + (IF s.k = "let" THEN Len(s.n) ELSE IF s.k = "fn" THEN 1 + Len(s.ps) + Len(s.rs) ELSE 0)
                             + Through(LAMBDA m, x : m + DeclarationsIn(x), 0, s.bs), 0, b)
(* libyul/optimiser/README.md: the stages transform the program "in a semantically equivalent way".
   Whatever passes ran, the program reads and writes the same storage in the same order as the source.
   It is a program the analyser accepts, in which no two declarations share a name once the
   Disambiguator ran: the passes move code between scopes and rely on it. *)
MeaningKept ==
    src # << >> =>
        /\ Behaviour(Called(p.b)) = Behaviour(src)
        /\ Analyzed(Unit(p.b, << >>, 0, FALSE)).a.ok
        /\ pos # 0 => Declared(p.b) = DeclarationsIn(p.b)

(* No assertion of CodeTransform fails on a tree the analyser accepts: the heights of AsmAnalyzer and
   the deposit of the assembly agree at every node, and every block and function ends where it began. *)
CodeOf(u) == With(Analyzed(u), LAMBDA an : [ok |-> an.a.ok, gen |-> Assembled(u, an)])
Pending == ToSet(unit) \cup (IF src = << >> THEN {} ELSE {Unit(p.b, << >>, 2, FALSE)})
HeightsAgree == \A u \in Pending : With(CodeOf(u), LAMBDA c : c.ok => c.gen.err \subseteq {"deep"})

Machine(input) == [sto |-> (0 :> 0) @@ (1 :> 5), log |-> << >>, cd |-> (0 :> input[1]) @@ (1 :> input[2])]
Below(u) == [i \in 1 .. u.h0 |-> i % Modulus]
Executed(u, code, input) == RunItems(code, [pc |-> 1, st |-> Below(u), m |-> Machine(input)])
(* The emitted code does what the program means, and ends with the stack it began with: nothing below
   the block is disturbed, whatever functions, loops and switches were run. *)
CodeFaithful ==
    /\ HeightsAgree
    /\ src # << >> =>
        With(Unit(Called(p.b), << >>, 2, FALSE), LAMBDA u :
        With(CodeOf(u).gen, LAMBDA c :
            c.err = {} => \A i \in Inputs : With(Executed(u, c.code, i), LAMBDA x : x.m.log = Run(src, i) /\ x.st = Below(u))))

(* A rule rewrites an expression into one with the same value, for all words.  RuleList.h: the rules
   "should never change the order of evaluation"; arguments that may have
   side effects are evaluated once and in the same order, unless the rule says that it removes them. *)
RulesSound == rule # 0 => RuleSound(rule) /\ RuleOrdered(rule)
=============================================================================
