--------------------------- MODULE RuleInheritance ---------------------------
(***************************************************************************)
(* Resolution of "extends" between rules: RuleInheritanceResolver visits   *)
(* the rules of all contracts of all sources in order, enters each in one  *)
(* common table by its name and puts the facts of its base rules in front  *)
(* of its own.  A base rule is looked up by name in a copy of the table    *)
(* made when the visit begins; a name that is not in it is passed over.    *)
(* The fact a rule declares itself is known by the rule's number.          *)
(***************************************************************************)
EXTENDS Naturals, Sequences, Functions, FiniteSetsExt

CONSTANTS
    Names,      \* names of rules
    Programs,   \* sequences of rules: their names and those of their bases
    NoBase,     \* the base of a rule without extends
    MaxFacts    \* bound: facts of a rule

VARIABLES
    prog,       \* the rules, in the order of the visit
    rules,      \* NameAndTypeResolver::m_rules: the latest rule of a name, or 0
    copied,     \* the visit's copy of the table
    facts,      \* the facts of every rule
    cur,        \* rules visited so far, the last perhaps not yet done
    base        \* the base rule whose facts come next, or 0

vars == <<prog, rules, copied, facts, cur, base>>

Init ==
    /\ prog \in Programs
    /\ rules = [n \in Names |-> 0]
    /\ copied = rules
    /\ facts = [i \in DOMAIN prog |-> <<i>>]
    /\ cur = 0
    /\ base = 0

Lookup(table, name) == IF name \in Names THEN table[name] ELSE 0

(* The rule enters the table; the walk begins at its base.                 *)
Visit ==
    /\ base = 0
    /\ cur < Len(prog)
    /\ cur' = cur + 1
    /\ copied' = rules
    /\ rules' = [rules EXCEPT ![prog[cur + 1].name] = cur + 1]
    /\ base' = Lookup(rules, prog[cur + 1].base)
    /\ UNCHANGED <<prog, facts>>

(* Mutant: the facts go behind those of the rule and replace them.         *)
MutPrepend(own, more) == more

(* addFactInFront, for the facts of the base from the last to the first.   *)
Prepend(own, more) == more \o own

BaseOf(i) == Lookup(copied, prog[i].base)

Walk ==
    /\ base # 0
    /\ Len(facts[cur]) + Len(facts[base]) <= MaxFacts
    /\ facts' = [facts EXCEPT ![cur] = Prepend(@, facts[base])]
    /\ base' = BaseOf(base)
    /\ UNCHANGED <<prog, rules, copied, cur>>

Done == base = 0 /\ cur = Len(prog)

Next == Visit \/ Walk

Spec == Init /\ [][Next]_vars

-----------------------------------------------------------------------------
(* Properties.                                                             *)

(* The rules of the given name, wherever they are declared.                *)
Declared(name) == {i \in DOMAIN prog : prog[i].name = name}
BaseRules(i) == Declared(prog[i].base)

(* No two rules share a name, and every base is declared before the rules  *)
(* that extend it, or nowhere.                                             *)
BasesFirst ==
    /\ \A i, j \in DOMAIN prog : prog[i].name = prog[j].name => i = j
    /\ \A i \in DOMAIN prog : \A j \in BaseRules(i) : j < i

(* The rule, its base, the base of that, and so on.                        *)
Lineage(i) ==
    {j \in DOMAIN prog : \A S \in SUBSET DOMAIN prog :
        i \in S /\ (\A k \in S : BaseRules(k) \subseteq S) => j \in S}

(* A rule ends up with the facts, and so the constraints, of all its       *)
(* ancestors and of no other rule, its own coming last; only that some may *)
(* be repeated.                                                            *)
ConstraintsKept ==
    Done /\ BasesFirst => \A i \in DOMAIN prog :
        /\ Range(facts[i]) = Lineage(i)
        /\ facts[i][Len(facts[i])] = i

(* A rule without a base, or with one that extends nothing, has exactly    *)
(* the facts it stands for.                                                *)
ExactFacts(i) ==
    /\ BaseRules(i) = {} => facts[i] = <<i>>
    /\ \A j \in BaseRules(i) : BaseRules(j) = {} => facts[i] = <<j, i>>

OneLevelExact == Done /\ BasesFirst => \A i \in DOMAIN prog : ExactFacts(i)

(* What Visit finds for a name when rule i comes up, read off the program: *)
(* the latest rule of that name before it, or 0.                           *)
Before(i, name) == Max({0} \cup {j \in Declared(name) : j < i})

(* The bases of rule i, as known when it comes up, lead into a circle.     *)
Endless(i) ==
    \E S \in SUBSET (1..i - 1) :
        Before(i, prog[i].base) \in S /\ \A j \in S : Before(i, prog[j].base) \in S

(* The resolution comes to its end unless it meets such a circle.          *)
ResolutionEnds ==
    /\ (\A i \in DOMAIN prog : ~Endless(i)) => <>Done
    /\ (\E i \in DOMAIN prog : Endless(i)) => []~Done
=============================================================================
