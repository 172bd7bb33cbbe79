-------------------------- MODULE MCContractPhases --------------------------
(***************************************************************************)
(* All sequences of up to four rules with bases declared before them, and  *)
(* of three rules with any bases or with names used twice, with one        *)
(* program of functions; a sample of programs of three functions, one of   *)
(* which may be inherited, with one sequence of rules: the stages share no *)
(* state.  And rules of up to three patterns over two types, with all      *)
(* combinations of conditions that mention at most two facts (three        *)
(* patterns: own fact, and the one or two patterns before), with lists of  *)
(* up to two facts.                                                        *)
(***************************************************************************)
EXTENDS ContractPhases, FiniteSets

CONSTANTS f, g, h, Inherited

NamesSeq == <<"r1", "r2", "r3", "r4">>

(* Distinct names, every base before the rules that extend it, or unknown. *)
OrderedRules ==
    UNION {{[i \in 1..n |-> [name |-> NamesSeq[i], base |-> b[i]]] :
              b \in {c \in [1..n -> Names \cup {NoBase, "unknown"}] :
                        \A i \in 1..n : c[i] \in Names => \E j \in 1..i - 1 : NamesSeq[j] = c[i]}}
           : n \in 1..4}

(* Any names and bases: circles, bases declared later, names used twice.   *)
AnyRules ==
    {[i \in 1..3 |-> [name |-> NamesSeq[i], base |-> b[i]]] : b \in [1..3 -> {"r1", "r2", "r3", NoBase}]}
        \cup [1..3 -> [name : {"r1", "r2"}, base : {"r1", "r2", NoBase}]]

Graph(a, b, c) == [x \in Funcs |-> CASE x = f -> a [] x = g -> b [] x = h -> c]

Graphs3 ==
    {Graph(a, b, c) : a \in {{g}, {f, h}}, b \in {{h}, {f, g}}, c \in {{}, {f}}}

Pointers3 == {Graph({}, {}, {}), Graph({}, {h}, {g}), Graph({h}, {}, {})}

(* what fires rules: a function of the contract, one of a base, or the     *)
(* constructor                                                             *)
Firing ==
    {[home |-> Graph(This, This, This), fires |-> {f}, constructor |-> {}],
     [home |-> Graph(This, Inherited, This), fires |-> {f, g}, constructor |-> {}],
     [home |-> Graph(This, This, This), fires |-> {}, constructor |-> {This}]}

Functions3 ==
    {[calls |-> k, points |-> o, home |-> r.home, fires |-> r.fires, public |-> p, then |-> t,
      constructor |-> n, constructorFires |-> r.constructor, pointers |-> q] :
        k \in Graphs3, o \in Pointers3, r \in Firing, p \in {{}, {g, h}}, t \in {{}, {g}},
        n \in {{}, {f}, {h}}, q \in {{}, {g}}}

NoFunctions ==
    [calls |-> Graph({}, {}, {}), points |-> Graph({}, {}, {}), home |-> Graph(This, This, This),
     fires |-> {}, public |-> {}, then |-> {}, constructor |-> {}, constructorFires |-> {}, pointers |-> {}]
OneRule == <<[name |-> "r1", base |-> NoBase]>>

CondsUpTo(n) == {c \in SUBSET (1..n) : Cardinality(c) <= 2}

Shapes(n, types) == {[type |-> ty, conds |-> cs] : ty \in types, cs \in SUBSET CondsUpTo(n)}

Single == {<<p>> : p \in Shapes(1, {"P"})}
Double == Shapes(1, {"P"}) \X Shapes(2, {"P", "Q"})
Triple ==
    {<<[type |-> "P", conds |-> a], [type |-> "Q", conds |-> b],
       [type |-> "P", conds |-> c]>> :
        a \in {{}, {{1}}}, b \in SUBSET {{2}, {1, 2}},
        c \in SUBSET {{}, {1, 3}, {2, 3}}}

AllRules == Single \cup Double \cup Triple

AllMemories ==
    {[P |-> <<"a", "b">>, Q |-> <<"b", "a">>], [P |-> <<"b", "b">>, Q |-> <<"a">>]}
OnePattern == <<[type |-> "P", conds |-> {}]>>

MCSources ==
    {[rules |-> r, funs |-> NoFunctions, net |-> OnePattern] : r \in OrderedRules \cup AnyRules}
        \cup {[rules |-> OneRule, funs |-> p, net |-> OnePattern] : p \in Functions3}
        \cup {[rules |-> OneRule, funs |-> NoFunctions, net |-> w] : w \in AllRules}

(* The network of the first two groups has nothing to choose, and does not *)
(* run.                                                                    *)
Rests == src.rules # OneRule \/ src.funs # NoFunctions
MCInit ==
    /\ PhasesInit
    /\ Rests => wm.P = <<"b", "b">> /\ wm.Q = <<"a">> /\ ~flag /\ \A x \in Facts : val[x] = 0
MCNext == PhasesNext /\ (Rests => UNCHANGED networkVars)
MCSpec == MCInit /\ [][MCNext]_phaseVars /\ WF_phaseVars(MCNext)
=============================================================================
