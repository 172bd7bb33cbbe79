----------------------------- MODULE ReteNetwork -----------------------------
(***************************************************************************)
(* The network RuleEngineCompiler builds from the when part of one rule    *)
(* and the code it emits for the nodes.  Every pattern has a type node,    *)
(* which reads the list of facts from storage, an alpha node, which        *)
(* filters it, and a join node, which combines what survives with the      *)
(* tuples of the patterns before; the term node takes over the list of the *)
(* last join node.  Each rulesExec runs the nodes in the order genOrder    *)
(* gives them; in between the contents of facts and the contract's state   *)
(* change.  A node's list is a dynamic array (DynArr) that it allocates    *)
(* anew in every run; alloc leaves the header as it is, so the list begins *)
(* with whatever the words there look like.                                *)
(*                                                                         *)
(* A condition (FieldExpression) is known by the set of patterns whose     *)
(* facts it mentions.  With none it is a state variable of the contract,   *)
(* with one it holds for a fact with contents 1, with more it holds for    *)
(* facts that do not all have the same contents.                           *)
(***************************************************************************)
EXTENDS Naturals, Sequences, SequencesExt

CONSTANTS
    Facts,      \* addresses of structs
    Rules,      \* when parts: for each pattern a type and its conditions
    Memories,   \* working memories: for each type a list of facts
    Garbage,    \* the facts that words left in memory may look like
    MaxStrays   \* bound: lists that do not begin empty

VARIABLES
    rule,       \* the when part
    wm,         \* working memory
    val,        \* contents of the facts, 0 or 1
    flag,       \* the state variable
    order,      \* m_ReteNodeOrder
    out,        \* the list of each node
    step,       \* nodes run so far
    strays      \* history: lists of this message that did not begin empty

vars == <<rule, wm, val, flag, order, out, step, strays>>

Patterns == 1..Len(rule)

-----------------------------------------------------------------------------
(* The network.                                                            *)

(* ExprUtils::isAlpha *)
IsAlpha(cond) == Cardinality(cond) = 1

AlphaExprs(i) == {c \in rule[i].conds : IsAlpha(c)}
BetaExprs(i) == rule[i].conds \ AlphaExprs(i)

TypeNode(i) == <<"type", i>>
AlphaNode(i) == <<"alpha", i>>
JoinNode(i) == <<"join", i>>
TermNode == <<"term", Len(rule)>>

Nodes == {"type", "alpha", "join"} \X Patterns \cup {TermNode}

Parents(node) ==
    CASE node[1] = "type"  -> <<>>
      [] node[1] = "alpha" -> <<TypeNode(node[2])>>
      [] node[1] = "join"  -> IF node[2] = 1 THEN <<AlphaNode(1)>>
                              ELSE <<JoinNode(node[2] - 1), AlphaNode(node[2])>>
      [] node[1] = "term"  -> <<JoinNode(node[2])>>

(* genOrder: first what a node's parents need, then the node.              *)
GenOrder ==
    LET PostOrder[node \in Nodes] ==
            FlattenSeq([p \in DOMAIN Parents(node) |-> PostOrder[Parents(node)[p]]])
                \o <<node>>
    IN PostOrder[TermNode]

(* The alpha node of a pattern knows its own fact only, the join node the  *)
(* facts up to its pattern; any other fact is not on the stack and the     *)
(* compiler stops.  The first join node compiles no condition.             *)
Compilable ==
    \A i \in Patterns :
        /\ AlphaExprs(i) \subseteq {{i}}
        /\ i # 1 => \A c \in BetaExprs(i) : c \subseteq 1..i

-----------------------------------------------------------------------------
(* The emitted code.                                                       *)

Holds(cond, t) ==
    CASE cond = {}  -> flag
      [] Cardinality(cond) = 1 -> \A i \in cond : val[t[i]] = 1
      [] OTHER -> \E i, j \in cond : val[t[i]] # val[t[j]]

(* An alpha node holds the fact of its pattern alone.                      *)
AlphaPasses(i, t) == AlphaExprs(i) # {} => val[t[1]] = 1

(* What the nodes push.                                                    *)
TypePushes(i) ==
    LET list == wm[rule[i].type] IN [n \in DOMAIN list |-> <<list[n]>>]

(* DynArrUtils::forEachDo, with a body that pushes the elements in good.   *)
Select(list, good) ==
    LET kept[n \in 0..Len(list)] ==
            IF n = 0 THEN <<>>
            ELSE IF list[n] \in good THEN Append(kept[n - 1], list[n])
            ELSE kept[n - 1]
    IN kept[Len(list)]

AlphaPushes(i) ==
    LET list == out[TypeNode(i)]
    IN Select(list, {t \in Range(list) : AlphaPasses(i, t)})

(* For every fact on the right, all tuples on the left.                    *)
Joined(i) ==
    FlattenSeq([n \in DOMAIN out[AlphaNode(i)] |->
        LET right == out[AlphaNode(i)][n]
            left == out[JoinNode(i - 1)]
            pairs == [m \in DOMAIN left |-> left[m] \o right]
        IN Select(pairs, {t \in Range(pairs) : \A c \in BetaExprs(i) : Holds(c, t)})])

(* Mutant: a join node pushes onto its array of the run before.            *)
MutJoinPushes(i) == IF i = 1 THEN out[AlphaNode(1)] ELSE out[JoinNode(i)] \o Joined(i)

(* The first join node is an alias of its alpha node.                      *)
JoinPushes(i) == IF i = 1 THEN out[AlphaNode(1)] ELSE Joined(i)

Init ==
    /\ rule \in Rules
    /\ Compilable
    /\ wm \in Memories
    /\ val \in [Facts -> {0, 1}]
    /\ flag \in BOOLEAN
    /\ order = GenOrder
    /\ out = [node \in Nodes |-> <<>>]
    /\ step = 0
    /\ strays = 0

Node == order[step + 1]

At(kind) == step < Len(order) /\ Node[1] = kind

Run(list, count) ==
    /\ out' = [out EXCEPT ![Node] = list]
    /\ strays' = count
    /\ step' = step + 1
    /\ UNCHANGED <<rule, wm, val, flag, order>>

(* A node that allocates an array for n-tuples: its header is empty, or    *)
(* shows something already.                                                *)
Fill(n, pushed) ==
    \/ Run(pushed, strays)
    \/ /\ strays < MaxStrays
       /\ \E t \in [1..n -> Garbage] : Run(<<t>> \o pushed, strays + 1)

RunType == At("type") /\ Fill(1, TypePushes(Node[2]))
RunAlpha == At("alpha") /\ Fill(1, AlphaPushes(Node[2]))

(* The alias has no array of its own.                                      *)
RunJoin ==
    /\ At("join")
    /\ \/ Node[2] = 1 /\ Run(JoinPushes(1), strays)
       \/ Node[2] # 1 /\ Fill(Node[2], JoinPushes(Node[2]))

RunTerm == At("term") /\ Run(out[JoinNode(Node[2])], strays)

(* A then block changes facts and state and calls update: the lists of the *)
(* type, alpha and term nodes are emptied, with them the join nodes that   *)
(* are aliases, and the nodes run again.                                   *)
Reevaluate ==
    /\ step = Len(order)
    /\ val' \in [Facts -> {0, 1}]
    /\ flag' \in BOOLEAN
    /\ out' = [node \in Nodes |->
                IF node[1] = "join" /\ node[2] \in 2..Len(rule) - 1
                  THEN out[node] ELSE <<>>]
    /\ step' = 0
    /\ UNCHANGED <<rule, wm, order, strays>>

Next == RunType \/ RunAlpha \/ RunJoin \/ RunTerm \/ Reevaluate

Spec == Init /\ [][Next]_vars

-----------------------------------------------------------------------------
(* Properties.                                                             *)

(* The set of facts meets all conditions of all patterns.                  *)
Meets(t) == \A i \in Patterns : \A c \in rule[i].conds : Holds(c, t)

Times(list, x) == Cardinality({n \in DOMAIN list : list[n] = x})

(* How often the facts can be chosen from working memory: a fact inserted  *)
(* twice counts twice.                                                     *)
Multiplicity(t) ==
    LET ways[i \in 0..Len(rule)] ==
            IF i = 0 THEN 1 ELSE ways[i - 1] * Times(wm[rule[i].type], t[i])
    IN ways[Len(rule)]

Exact ==
    step = Len(order) =>
        \A t \in [Patterns -> Facts] :
            Times(out[TermNode], t) = IF Meets(t) THEN Multiplicity(t) ELSE 0

(* Every run of the network hands the then block exactly the sets of facts *)
(* that meet the conditions on the present contents, also when runs before *)
(* left other lists behind, provided the conditions of the first pattern   *)
(* are all about its own fact, and as long as every list of the message    *)
(* began empty: alloc does not see to that, and what is pushed to a list   *)
(* that did not may overwrite others, see DynArr.                          *)
NetworkExact == strays = 0 /\ BetaExprs(1) = {} => Exact
=============================================================================
