--------------------------- MODULE ContractPhases ---------------------------
(***************************************************************************)
(* A contract's way through the compiler and into use: the inheritance of  *)
(* its rules is resolved during analysis (RuleInheritance), its code is    *)
(* generated function by function afterwards (CodegenQueue), and the code  *)
(* of a rule's network runs, again and again (ReteNetwork).  Each stage    *)
(* begins when the one before has come to its end.                         *)
(***************************************************************************)
EXTENDS Naturals, Sequences, FiniteSets

CONSTANTS
    Names, NoBase, MaxFacts,    \* see RuleInheritance
    Funcs, Contracts, This,     \* see CodegenQueue
    Facts, Memories, Garbage, MaxStrays,    \* see ReteNetwork
    Sources                     \* contracts: [rules, funs, net], net the when part of a rule

(* Rules have names.                                                       *)
ASSUME RulesAssumption ==
    \A s \in Sources :
        /\ Len(s.rules) \in Nat
        /\ DOMAIN s.rules = 1..Len(s.rules)
        /\ \A i \in DOMAIN s.rules : s.rules[i].name \in Names

(* There are finitely many functions, and they refer to each other.        *)
ASSUME FunctionsAssumption ==
    /\ IsFiniteSet(Funcs)
    /\ \A s \in Sources :
        /\ s.funs.calls \in [Funcs -> SUBSET Funcs]
        /\ s.funs.points \in [Funcs -> SUBSET Funcs]
        /\ s.funs.public \subseteq Funcs
        /\ s.funs.then \subseteq Funcs
        /\ s.funs.constructor \subseteq Funcs
        /\ s.funs.pointers \subseteq Funcs

(* A rule has at least one pattern, the last of which endVisit(Rule) looks *)
(* up, and working memory lists facts under the patterns' types.           *)
ASSUME PatternsAssumption ==
    \A s \in Sources :
        /\ Len(s.net) \in Nat \ {0}
        /\ \A w \in Memories, i \in 1..Len(s.net) : w[s.net[i].type] \in Seq(Facts)

VARIABLES
    src,                                    \* the contract
    table, copied, facts, cur, base,        \* of RuleInheritance
    phase, labels, queue, compiled, placed, rulesUsed, rulesPlaced,    \* of CodegenQueue
    wm, val, flag, order, out, step, strays \* of ReteNetwork

RulePrograms == {s.rules : s \in Sources}
FunctionPrograms == {s.funs : s \in Sources}
WhenParts == {s.net : s \in Sources}

Bases ==
    INSTANCE RuleInheritance WITH
        Programs <- RulePrograms, prog <- src.rules, rules <- table

Code ==
    INSTANCE CodegenQueue WITH
        Programs <- FunctionPrograms, prog <- src.funs

Network == INSTANCE ReteNetwork WITH Rules <- WhenParts, rule <- src.net

networkVars == <<wm, val, flag, order, out, step, strays>>
codeVars == <<phase, labels, queue, compiled, placed, rulesUsed, rulesPlaced>>
phaseVars == <<src, table, copied, facts, cur, base, codeVars, networkVars>>

PhasesInit == src \in Sources /\ Bases!Init /\ Code!Init /\ Network!Init

(* CompilerStack::analyze *)
ResolveRules == UNCHANGED <<src, codeVars, networkVars>> /\ Bases!Next

(* CompilerStack::compile *)
GenerateCode ==
    /\ Bases!Done
    /\ UNCHANGED <<src, table, copied, facts, cur, base, networkVars>>
    /\ Code!Next

(* rulesExec, as often as then blocks ask for it *)
RunNetwork ==
    /\ phase = "done"
    /\ UNCHANGED <<src, table, copied, facts, cur, base, codeVars>>
    /\ Network!Next

PhasesNext == ResolveRules \/ GenerateCode \/ RunNetwork

(* The stages are loops that never block.                                  *)
PhasesSpec == PhasesInit /\ [][PhasesNext]_phaseVars /\ WF_phaseVars(PhasesNext)

-----------------------------------------------------------------------------
(* The properties of the stages, see their modules.                        *)

(* If every base is declared before the rules that extend it, a rule ends  *)
(* up with the facts, and so the constraints, of all its ancestors and of  *)
(* no other rule, its own coming last; one whose base extends nothing has  *)
(* exactly the facts it stands for.                                        *)
ConstraintsKept == Bases!ConstraintsKept /\ Bases!OneLevelExact

(* Every entry label of a function that some code refers to has exactly    *)
(* one place in its assembly, whichever context asked for it and when, and *)
(* code is emitted for a function exactly where something reaches it.  The *)
(* label of the rules has a place only in the runtime code of the contract *)
(* that declares them: creation code and inherited functions that fire     *)
(* rules refer to a label without a place, and to no other.                *)
LabelsPlacedOnce ==
    Code!LabelsPlacedOnce /\ Code!OnlyReachable /\ Code!RulesLabelFound

(* The walk over base rules comes to its end unless the bases of a rule,   *)
(* as declared before it, lead into a circle, from which the walk never    *)
(* returns; and once it has, the queue of functions is emptied, however    *)
(* they refer to each other.                                               *)
CompilationEnds ==
    Bases!ResolutionEnds /\ (<>Bases!Done => Code!CompilationEnds)

(* Every run of a rule's network finds exactly the sets of facts that meet *)
(* its conditions, whatever the runs before left in the nodes' lists, as   *)
(* long as the arrays the nodes allocate happen to begin empty.            *)
NetworkExact == Network!NetworkExact
=============================================================================
