----------------------------- MODULE KnownState -----------------------------
(***************************************************************************)
(* What the optimiser of the assembly knows at a point of a straight piece *)
(* of code: classes of expressions that are known to be equal              *)
(* (ExpressionClasses), which class is at which height of the stack, in    *)
(* which storage slot and at which place of memory (KnownState).           *)
(*                                                                         *)
(* An item is its type, its instruction and its number; DUPn and SWAPn are *)
(* the instructions "dup" and "swap" with the number n.  An expression is  *)
(* an item, the classes of its arguments and a sequence number (0: none).  *)
(* Source locations are left out.                                          *)
(***************************************************************************)
EXTENDS SimplificationRules, Eager, TLC

Item(t, n, v) == [t |-> t, n |-> n, v |-> v]
Const(v) == Item("push", "", v)
Label(v) == Item("pushtag", "", v)
Unknown(h) == Item("undef", "", h)
Ins(n) == Item("op", n, 0)
Dup(n) == Item("op", "dup", n)
Swap(n) == Item("op", "swap", n)
Exp(i, a, q) == [i |-> i, a |-> a, q |-> q]

(* instructionInfo: the number of arguments of an instruction, and whether it leaves a result *)
NoArgument == {"address", "caller", "origin", "coinbase", "callvalue", "gas", "msize", "stop"}
OneArgument == {"iszero", "not", "sload", "mload", "pop", "jump", "calldataload", "balance"}
ThreeArguments == {"addmod", "mulmod", "calldatacopy", "codecopy", "log1"}
args(n) == IF n \in NoArgument THEN 0 ELSE IF n \in OneArgument THEN 1 ELSE IF n \in ThreeArguments THEN 3 ELSE 2
NoResult == {"sstore", "mstore", "mstore8", "pop", "jump", "jumpi", "return", "stop", "calldatacopy", "codecopy", "log1"}
ret(n) == IF n \in NoResult THEN 0 ELSE 1
deposit(it) == IF it.t # "op" \/ it.n = "dup" THEN 1 ELSE IF it.n = "swap" THEN 0 ELSE ret(it.n) - args(it.n)

(* SemanticInformation *)
isCommutativeOperation(n) == n \in {"add", "mul", "eq", "and", "or", "xor"}
isDeterministic(it) == it.n \notin {"gas", "pc", "msize", "balance"}
invalidatesMemory(n) == n \in {"calldatacopy", "codecopy", "mstore", "mstore8"}
breaksCSEAnalysisBlock(it, msizeImportant) ==
    \/ it.t = "tag"
    \/ it.t = "op" /\ it.n \in {"gas", "pc", "msize", "mstore8", "jump", "jumpi", "return", "stop"} \cup ThreeArguments
    \/ msizeImportant /\ it.t = "op" /\ it.n \in {"mload", "keccak256"}

(***************************************************************************)
(* ExpressionClasses: reps, the first expression of every class, and ids,  *)
(* the class of every expression seen.                                     *)
(***************************************************************************)
NoClasses == [reps |-> << >>, ids |-> << >>]
Of(c, id) == [c |-> c, id |-> id]
Known(c, e) == isDeterministic(e.i) /\ e \in DOMAIN c.ids
Insert(c, e, id) == IF e \in DOMAIN c.ids THEN c ELSE [c EXCEPT !.ids = (e :> id) @@ @]
NewClass(c, e) == With(Len(c.reps) + 1, LAMBDA id : Of(Insert([c EXCEPT !.reps = Append(@, e)], e, id), id))
(* find, for expressions that no rule applies to *)
findPlain(c, e) == IF Known(c, e) THEN Of(c, c.ids[e]) ELSE NewClass(c, e)
findConstant(c, v) == findPlain(c, Exp(Const(v), << >>, 0))

(* Pattern::matchesBaseItem and Pattern::matches: m is << >> when the match has failed,
   and <<the classes of the groups>> otherwise *)
matchesBaseItem(p, it) ==
    CASE p.k = "any" -> TRUE
      [] p.k = "const" -> it.t = "push"
      [] p.k = "lit" -> it.t = "push" /\ it.v = p.v
      [] p.k = "op" -> it.t = "op" /\ it.n = p.n
RECURSIVE matches(_, _, _, _)
matches(c, p, id, m) ==
    IF m = << >> \/ ~matchesBaseItem(p, c.reps[id].i) THEN << >>
    ELSE IF p.k \in {"any", "const"}
    THEN IF p.n \notin DOMAIN m[1] THEN <<(p.n :> id) @@ m[1]>> ELSE IF m[1][p.n] = id THEN m ELSE << >>
    ELSE Through(LAMBDA acc, i : matches(c, p.a[i], c.reps[id].a[i], acc), m, [i \in DOMAIN p.a |-> i])

(* Rules::findFirstMatch *)
RECURSIVE findFirstMatch(_, _, _)
findFirstMatch(c, rules, a) ==
    IF rules = << >> THEN << >>
    ELSE With(Through(LAMBDA acc, i : matches(c, rules[1].p.a[i], a[i], acc), <<<< >>>>, [i \in DOMAIN a |-> i]), LAMBDA m :
         IF m # << >> THEN <<[r |-> rules[1].r, g |-> m[1]]>> ELSE findFirstMatch(c, Tail(rules), a))

(* sort: only instructions with two arguments are commutative *)
Sorted(n, a) == IF isCommutativeOperation(n) /\ a[1] > a[2] THEN <<a[2], a[1]>> ELSE a
Numbers(c, t, g) == [i \in DOMAIN t.a |-> c.reps[g[t.a[i].n]].i.v]

(* rebuildExpression and find: the class of a template whose placeholders g stand for classes *)
RECURSIVE rebuildExpression(_, _, _)
rebuildExpression(c, t, g) ==
    CASE t.k \in {"any", "const"} -> Of(c, g[t.n])
      [] t.k = "lit" -> findConstant(c, t.v)
      [] t.k = "fold" -> findConstant(c, Folded(t.n, Numbers(c, t, g)))
      [] t.k = "iflt" -> With(Numbers(c, [a |-> <<t.a[1], t.a[2]>>], g), LAMBDA d :
                              rebuildExpression(c, IF d[1] < d[2] THEN t.a[3] ELSE t.a[4], g))
      [] t.k = "op" ->
            With(Through(LAMBDA acc, x : With(rebuildExpression(acc.c, x, g), LAMBDA y : [c |-> y.c, ids |-> Append(acc.ids, y.id)]),
                         [c |-> c, ids |-> << >>], t.a), LAMBDA r :
            With(Exp(Ins(t.n), Sorted(t.n, r.ids), 0), LAMBDA e :
            IF Known(r.c, e) THEN Of(r.c, r.c.ids[e])
            ELSE With(IF t.n \in DOMAIN RulesOf THEN findFirstMatch(r.c, RulesOf[t.n], e.a) ELSE << >>, LAMBDA m :
                 IF m = << >> THEN NewClass(r.c, e)
                 ELSE With(rebuildExpression(r.c, m[1].r, m[1].g), LAMBDA y : Of(Insert(y.c, e, y.id), y.id)))))

Operands == <<<< >>, <<AnyOf("1")>>, <<AnyOf("1"), AnyOf("2")>>, <<AnyOf("1"), AnyOf("2"), AnyOf("3")>>>>
Positions == <<"1", "2", "3">>
find(c, n, ids) ==
    rebuildExpression(c, Op(n, Operands[Len(ids) + 1]),
                      [p \in {Positions[i] : i \in DOMAIN ids} |-> ids[CHOOSE i \in DOMAIN ids : Positions[i] = p]])

IsConstant(c, id) == c.reps[id].i.t = "push"
knownConstant(c, id) == c.reps[id].i.v
knownZero(c, id) == IsConstant(c, id) /\ knownConstant(c, id) = 0
Answer(c, yes) == [c |-> c, yes |-> yes]
knownNonZero(c, id) == With(find(c, "iszero", <<id>>), LAMBDA r : Answer(r.c, knownZero(r.c, r.id)))
knownToBeDifferent(c, a, b) == With(find(c, "sub", <<a, b>>), LAMBDA r : knownNonZero(r.c, r.id))
(* 32 is the number of bytes of a word; the forbidden interval is ["-31", 31] *)
knownToBeDifferentBy32(c, a, b) ==
    With(find(c, "sub", <<a, b>>), LAMBDA r :
        Answer(r.c, IsConstant(r.c, r.id) /\ Wrap(knownConstant(r.c, r.id) + WordBytes - 1) > 2 * (WordBytes - 1)))

(***************************************************************************)
(* KnownState; ops holds the store operations the eliminator collects.     *)
(***************************************************************************)
EmptyState == [c |-> NoClasses, h |-> 0, st |-> << >>, sto |-> << >>, mem |-> << >>, seq |-> 1, hash |-> << >>, ops |-> << >>]
Kept(f, keep) == [x \in DOMAIN f \cap keep |-> f[x]] @@ << >>
At(k, id) == [k |-> k, id |-> id]

stackElement(k, h) ==
    IF h \in DOMAIN k.st THEN At(k, k.st[h])
    ELSE With(findPlain(k.c, Exp(Unknown(h), << >>, 0)), LAMBDA f : At([k EXCEPT !.c = f.c, !.st = (h :> f.id) @@ @], f.id))
relativeStackElement(k, offset) == stackElement(k, k.h + offset)
(* The classes of the n topmost elements, the topmost first *)
Topmost(k, n) ==
    Through(LAMBDA acc, i : With(relativeStackElement(acc.k, 1 - i), LAMBDA e : [k |-> e.k, ids |-> Append(acc.ids, e.id)]),
            [k |-> k, ids |-> << >>], [i \in 1 .. n |-> i])

(* The entries of a map of slots that a write leaves valid *)
StillStored(k, slot, value) ==
    Through(LAMBDA acc, s : With(knownToBeDifferent(acc.c, s, slot), LAMBDA r :
                [c |-> r.c, keep |-> IF r.yes \/ k.sto[s] = value THEN acc.keep \cup {s} ELSE acc.keep]),
            [c |-> k.c, keep |-> {}], SetToSortSeq(DOMAIN k.sto, <))
MutStillInMemory(k, slot) == [c |-> k.c, keep |-> DOMAIN k.mem \ {slot}]
StillInMemory(k, slot) ==
    Through(LAMBDA acc, s : With(knownToBeDifferentBy32(acc.c, s, slot), LAMBDA r :
                [c |-> r.c, keep |-> IF r.yes THEN acc.keep \cup {s} ELSE acc.keep]),
            [c |-> k.c, keep |-> {}], SetToSortSeq(DOMAIN k.mem, <))

(* The class of the store, the operation, and the second increment of the sequence number *)
Stored(k, target, n, slot, value) ==
    With(findPlain(k.c, Exp(Ins(n), <<slot, value>>, k.seq + 1)), LAMBDA f :
        [k EXCEPT !.c = f.c, !.seq = @ + 2, !.ops = Append(@, [target |-> target, slot |-> slot, seq |-> k.seq + 1, id |-> f.id])])
storeInStorage(k, slot, value) ==
    IF slot \in DOMAIN k.sto /\ k.sto[slot] = value THEN k
    ELSE With(StillStored(k, slot, value), LAMBDA s :
              Stored([k EXCEPT !.c = s.c, !.sto = (slot :> value) @@ Kept(@, s.keep)], "storage", "sstore", slot, value))
storeInMemory(k, slot, value) ==
    IF slot \in DOMAIN k.mem /\ k.mem[slot] = value THEN k
    ELSE With(StillInMemory(k, slot), LAMBDA s :
              Stored([k EXCEPT !.c = s.c, !.mem = (slot :> value) @@ Kept(@, s.keep)], "memory", "mstore", slot, value))
loadFromStorage(k, slot) ==
    IF slot \in DOMAIN k.sto THEN At(k, k.sto[slot])
    ELSE With(findPlain(k.c, Exp(Ins("sload"), <<slot>>, k.seq)), LAMBDA f : At([k EXCEPT !.c = f.c, !.sto = (slot :> f.id) @@ @], f.id))
loadFromMemory(k, slot) ==
    IF slot \in DOMAIN k.mem THEN At(k, k.mem[slot])
    ELSE With(findPlain(k.c, Exp(Ins("mload"), <<slot>>, k.seq)), LAMBDA f : At([k EXCEPT !.c = f.c, !.mem = (slot :> f.id) @@ @], f.id))

(* toBigEndian: the bytes of a word.  Keccak is any function of the bytes. *)
Bytes(w) == [i \in 1 .. WordBytes |-> ByteOf(i - 1, w)]
keccak256(bytes) == Through(LAMBDA h, b : Wrap(3 * h + b + 1), Len(bytes), bytes)
Words(k, start, length) ==
    Through(LAMBDA acc, i :
        With(findConstant(acc.k.c, WordBytes * (i - 1)), LAMBDA n :
        With(find(n.c, "add", <<start, n.id>>), LAMBDA slot :
        With(loadFromMemory([acc.k EXCEPT !.c = slot.c], slot.id), LAMBDA w : [k |-> w.k, ids |-> Append(acc.ids, w.id)]))),
        [k |-> k, ids |-> << >>], [i \in 1 .. (length + WordBytes - 1) \div WordBytes |-> i])
(* The class of the hash of the classes ids, in memory of the given length *)
HashClass(k, start, length, ids) ==
    IF \A i \in DOMAIN ids : IsConstant(k.c, ids[i])
    THEN findConstant(k.c, keccak256(SubSeq(FlattenSeq([i \in DOMAIN ids |-> Bytes(knownConstant(k.c, ids[i]))]), 1, knownConstant(k.c, length))))
    ELSE findPlain(k.c, Exp(Ins("keccak256"), <<start, length>>, k.seq))
applyKeccak256(k, start, length) ==
    IF ~IsConstant(k.c, length) \/ knownConstant(k.c, length) > 4 * WordBytes
    THEN With(findPlain(k.c, Exp(Ins("keccak256"), <<start, length>>, k.seq)), LAMBDA f : At([k EXCEPT !.c = f.c], f.id))
    ELSE With(Words(k, start, knownConstant(k.c, length)), LAMBDA w :
         IF w.ids \in DOMAIN w.k.hash THEN At(w.k, w.k.hash[w.ids])
         ELSE With(HashClass(w.k, start, length, w.ids), LAMBDA f : At([w.k EXCEPT !.c = f.c, !.hash = (w.ids :> f.id) @@ @], f.id)))

(* The other instructions *)
Invalidated(k, n) == IF invalidatesMemory(n) THEN [k EXCEPT !.mem = << >>, !.seq = @ + 2] ELSE k
applyOther(k, n, ids) ==
    With(Invalidated(k, n), LAMBDA q :
        IF ret(n) = 0 THEN At(q, 0)
        ELSE With(IF isDeterministic(Ins(n)) THEN find(q.c, n, ids) ELSE NewClass(q.c, Exp(Ins(n), ids, 0)),
                  LAMBDA f : At([q EXCEPT !.c = f.c], f.id)))
Performed(k, n, a) ==
    CASE n = "sstore" -> At(storeInStorage(k, a[1], a[2]), 0)
      [] n = "mstore" -> At(storeInMemory(k, a[1], a[2]), 0)
      [] n = "sload" -> loadFromStorage(k, a[1])
      [] n = "mload" -> loadFromMemory(k, a[1])
      [] n = "keccak256" -> applyKeccak256(k, a[1], a[2])
      [] OTHER -> applyOther(k, n, a)

(* The stack after an item: everything above the new height is forgotten *)
Settled(k, h, top) == [k EXCEPT !.h = h, !.st = top @@ Kept(@, {x \in DOMAIN @ : x <= h})]
Pushed(e) == Settled(e.k, e.k.h + 1, (e.k.h + 1) :> e.id)
Swapped(k, i, j) == [k EXCEPT !.st = (i :> k.st[j]) @@ (j :> k.st[i]) @@ @]
feedItem(k, it) ==
    CASE it.t = "tag" -> k
      [] it.t \in {"push", "pushtag"} -> With(findPlain(k.c, Exp(it, << >>, 0)), LAMBDA f : Pushed(At([k EXCEPT !.c = f.c], f.id)))
      [] it.t = "op" /\ it.n = "dup" -> With(relativeStackElement(k, 1 - it.v), LAMBDA e : Pushed(e))
      [] it.t = "op" /\ it.n = "swap" -> With(relativeStackElement(k, 0), LAMBDA e :
                                         With(relativeStackElement(e.k, -it.v), LAMBDA f : Swapped(f.k, k.h, k.h - it.v)))
      [] it.t = "op" /\ it.n = "pop" -> Settled(k, k.h - 1, << >>)
      [] OTHER -> With(Topmost(k, args(it.n)), LAMBDA a :
                  With(Performed(a.k, it.n, a.ids), LAMBDA e :
                       Settled(e.k, k.h + deposit(it), IF ret(it.n) = 1 THEN (k.h + deposit(it)) :> e.id ELSE << >>)))

(***************************************************************************)
(* CommonSubexpressionEliminator.cpp: from what is known at the end of a   *)
(* block, the code that makes it true.  The generator g has the items made *)
(* so far, the height of the stack, the class at each height, where each   *)
(* class is (present with an empty set: made and no longer there), which   *)
(* class is needed to make which, and the first failure: "deep" and        *)
(* "unavailable" are the exceptions the optimiser expects, "assert" is an  *)
(* OptimizerException.                                                     *)
(***************************************************************************)

CONSTANT StackReach  \* how deep DUP and SWAP reach: 16

Fail(g, e) == IF g.err = "" THEN [g EXCEPT !.err = e] ELSE g
Assert_(g, cond) == IF cond THEN g ELSE Fail(g, "assert")
(* F on a generator that has not failed *)
Then(g, F(_)) == With(g, LAMBDA x : IF x.err # "" THEN x ELSE F(x))

Item_(g, it) == [g EXCEPT !.items = Append(@, it), !.h = @ + deposit(it)]
PutAt(g, id, p) == [g EXCEPT !.st = (p :> id) @@ @, !.pos = (id :> ((IF id \in DOMAIN @ THEN @[id] ELSE {}) \cup {p})) @@ @]
Unplace(g, p) == [g EXCEPT !.pos[g.st[p]] = @ \ {p}, !.st = Kept(@, DOMAIN @ \ {p})]

classElementPosition(g, id) == Max(g.pos[id])
Present(g, id) == id \in DOMAIN g.pos /\ g.pos[id] # {}

appendDup(g, from) ==
    With(1 + g.h - from, LAMBDA n :
        IF n > StackReach THEN Fail(g, "deep") ELSE IF n < 1 THEN Fail(g, "assert")
        ELSE With(Item_(g, Dup(n)), LAMBDA x : PutAt(x, g.st[from], x.h)))
appendOrRemoveSwap(g, from) ==
    LET n == g.h - from
        top == g.st[g.h]
        other == g.st[from]
        moved == IF top = other THEN g ELSE PutAt(PutAt(Unplace(Unplace(g, g.h), from), top, from), other, g.h)
        undoes == g.items # << >> /\ Last(g.items) = Swap(n)
    IN IF n = 0 THEN g
       ELSE IF n > StackReach THEN Fail(g, "deep") ELSE IF n < 1 THEN Fail(g, "assert")
       ELSE [moved EXCEPT !.items = IF undoes THEN Front(@) ELSE Append(@, Swap(n))]
(* The same, for an element that is found by its class *)
dupClass(g, id) == IF Present(g, id) THEN appendDup(g, classElementPosition(g, id)) ELSE Fail(g, "assert")
swapClass(g, id) == IF Present(g, id) THEN appendOrRemoveSwap(g, classElementPosition(g, id)) ELSE Fail(g, "assert")

(* canBeRemoved: result is the class being made, 0 when none is *)
canBeRemoved(g, id, result, from) ==
    LET haveCopy == Cardinality(g.pos[id]) > 1
    IN IF id \in g.final THEN haveCopy /\ ~(from \in DOMAIN g.target /\ g.target[from] = id)
       ELSE haveCopy \/ \A n \in g.need : n[1] = id => n[2] = result \/ n[2] \in DOMAIN g.pos
Removable(g, id, result) == Present(g, id) /\ canBeRemoved(g, id, result, classElementPosition(g, id))

TopRemovable(g) == DOMAIN g.st # {} /\ g.h \in DOMAIN g.st /\ canBeRemoved(g, g.st[g.h], 0, g.h)
removeStackTopIfPossible(g) ==
    IF DOMAIN g.st # {} /\ g.h \notin DOMAIN g.st THEN Fail(g, "assert")
    ELSE IF TopRemovable(g) THEN Item_(Unplace(g, g.h), Ins("pop")) ELSE g
RECURSIVE removeSurplus(_)
removeSurplus(g) == Then(g, LAMBDA x : IF TopRemovable(x) THEN removeSurplus(removeStackTopIfPossible(x)) ELSE removeStackTopIfPossible(x))

(***************************************************************************)
(* What a class needs: its arguments and, if it is a load, the latest of   *)
(* the earlier stores to every place that may be the same.                 *)
(***************************************************************************)
Targets(ops) == {<<ops[i].target, ops[i].slot>> : i \in DOMAIN ops}
StoresTo(ops, t) == SelectSeq(ops, LAMBDA o : <<o.target, o.slot>> = t)
Reads(n) == IF n = "sload" THEN "storage" ELSE "memory"
Loads == {"sload", "mload", "keccak256"}

(* KECCAK256: the distance of the slot from the start is a constant before or behind the area *)
outsideArea(c, slot, start, length) ==
    With(find(c, "sub", <<slot, start>>), LAMBDA r :
        Answer(r.c, \/ knownZero(r.c, length)
                    \/ IsConstant(r.c, r.id) /\ \/ u2s(knownConstant(r.c, r.id)) <= -WordBytes
                                                \/ /\ IsConstant(r.c, length)
                                                   /\ u2s(knownConstant(r.c, r.id)) >= 0
                                                   /\ knownConstant(r.c, r.id) >= knownConstant(r.c, length)))
knownToBeIndependent(c, e, slot) ==
    CASE e.i.n = "sload" -> knownToBeDifferent(c, slot, e.a[1])
      [] e.i.n = "mload" -> knownToBeDifferentBy32(c, slot, e.a[1])
      [] e.i.n = "keccak256" -> outsideArea(c, slot, e.a[1], e.a[2])
LatestStore(stores, q) ==
    With({i \in DOMAIN stores : i = 1 \/ stores[i].seq < q}, LAMBDA s : stores[Max(s)].id)

Needs(g, id, by) == [g EXCEPT !.need = @ \cup {<<id, by>>}]
(* The stores to t that the load e, of class id, depends on: << >> or the latest one *)
MayMatter(g, e, t) ==
    IF t[1] # Reads(e.i.n) \/ StoresTo(g.ops, t)[1].seq > e.q THEN Answer(g.c, FALSE)
    ELSE With(knownToBeIndependent(g.c, e, t[2]), LAMBDA r : Answer(r.c, ~r.yes))
RECURSIVE addDependencies(_, _)
addDependencies(g, id) ==
    IF g.err # "" \/ id \in DOMAIN g.pos \/ \E n \in g.need : n[1] = id THEN g
    ELSE With(g.c.reps[id], LAMBDA e :
         IF e.i.t = "undef" THEN Fail(g, "unavailable")
         ELSE With(Through(LAMBDA x, a : With(addDependencies(x, a), LAMBDA y : Needs(y, a, id)), g, e.a), LAMBDA x :
              IF e.i.n \notin Loads THEN x
              ELSE Through(LAMBDA y, t : With(MayMatter(y, e, t), LAMBDA m :
                               IF ~m.yes THEN [y EXCEPT !.c = m.c]
                               ELSE With(LatestStore(StoresTo(g.ops, t), e.q), LAMBDA s :
                                    Needs(addDependencies([y EXCEPT !.c = m.c], s), s, id))),
                           x, SetToSeq(Targets(g.ops)))))

(***************************************************************************)
(* generateClassElement                                                    *)
(***************************************************************************)
(* Bring the arguments to the top of the stack, the first one topmost *)
arrangeOne(g, id, a) == IF Removable(g, a[1], id) THEN swapClass(g, a[1]) ELSE dupClass(g, a[1])
arrangeTwo(g, id, a) ==
    IF Removable(g, a[2], id)
    THEN Then(swapClass(g, a[2]), LAMBDA x :
         IF a[1] = a[2] THEN appendDup(x, x.h)
         ELSE IF Removable(x, a[1], id) THEN Then(appendOrRemoveSwap(x, x.h - 1), LAMBDA y : swapClass(y, a[1]))
         ELSE dupClass(x, a[1]))
    ELSE IF a[1] = a[2] THEN Then(dupClass(g, a[1]), LAMBDA x : appendDup(x, x.h))
    ELSE IF Removable(g, a[1], id)
    THEN Then(swapClass(g, a[1]), LAMBDA x : Then(dupClass(x, a[2]), LAMBDA y : appendOrRemoveSwap(y, y.h - 1)))
    ELSE Then(dupClass(g, a[2]), LAMBDA x : dupClass(x, a[1]))
arranged(g, id, a) ==
    CASE Len(a) = 0 -> g
      [] Len(a) = 1 -> arrangeOne(g, id, a)
      [] Len(a) = 2 -> arrangeTwo(g, id, a)
      [] OTHER -> Fail(g, "assert")
InPlace(g, a) == \A i \in DOMAIN a : (g.h - i + 1) \in DOMAIN g.st /\ g.st[g.h - i + 1] = a[i]

(* The order of the arguments of a commutative operation does not matter *)
withoutSwap(g, n) ==
    IF isCommutativeOperation(n) /\ g.items # << >> /\ Last(g.items) = Swap(1) THEN appendOrRemoveSwap(g, g.h - 1) ELSE g
(* The operation takes its arguments and leaves the class; one without result is marked as made *)
applied(g, id, e) ==
    With(Through(LAMBDA x, p : Unplace(x, p), g, [i \in DOMAIN e.a |-> g.h - i + 1]), LAMBDA x :
    With(Item_(x, e.i), LAMBDA y :
        IF e.i.t # "op" \/ ret(e.i.n) = 1 THEN PutAt(y, id, y.h) ELSE [y EXCEPT !.pos = (id :> {}) @@ @]))

RECURSIVE generateClassElement(_, _, _)
generateClassElement(g0, id, allowSequenced) ==
    Then(removeStackTopIfPossible(Assert_(g0, \A c \in DOMAIN g0.pos : \A p \in g0.pos[c] : p <= g0.h)), LAMBDA g :
    IF id \in DOMAIN g.pos THEN Assert_(g, g.pos[id] # {})
    ELSE With(g.c.reps[id], LAMBDA e :
         IF (e.q # 0 /\ ~allowSequenced) \/ e.i.t = "undef" THEN Fail(g, "assert")
         ELSE Then(Through(LAMBDA x, a : Then(x, LAMBDA y : generateClassElement(y, a, FALSE)), g, Reverse(e.a)), LAMBDA x :
              Then(arranged(x, id, e.a), LAMBDA y :
              IF ~InPlace(y, e.a) THEN Fail(y, "assert")
              ELSE With(withoutSwap(y, e.i.n), LAMBDA z : applied(z, id, e))))))

(***************************************************************************)
(* generateCode, and the two passes over the target stack                  *)
(***************************************************************************)
Ascending(f) == SetToSortSeq(DOMAIN f, <)
LastStores(ops) == {Last(StoresTo(ops, t)).id : t \in Targets(ops)}
Generator(c, ops, h, initial, target) ==
    [c |-> c, ops |-> ops, items |-> << >>, h |-> h, st |-> initial, target |-> target, need |-> {}, err |-> "",
     final |-> {target[p] : p \in DOMAIN target},
     pos |-> [id \in {initial[p] : p \in DOMAIN initial} |-> {p \in DOMAIN initial : initial[p] = id}] @@ << >>]
Dependencies(g) ==
    With(Through(LAMBDA x, id : addDependencies(x, id), g, SetToSeq(LastStores(g.ops))), LAMBDA x :
         Through(LAMBDA y, p : addDependencies(y, g.target[p]), x, Ascending(g.target)))

(* The stores and loads that are needed, in the order of their sequence numbers *)
Sequenced(g) == {id \in UNION {{n[1], n[2]} : n \in g.need} : g.c.reps[id].q # 0}
InSequence(g, ids) == SetToSortSeq(ids, LAMBDA a, b : g.c.reps[a].q < g.c.reps[b].q \/ (g.c.reps[a].q = g.c.reps[b].q /\ a < b))
generateSequenced(g, first) ==
    IF \E id \in Sequenced(g) : g.c.reps[id].q < first THEN Fail(g, "deep")
    ELSE Through(LAMBDA x, id : IF x.err # "" \/ id \in DOMAIN x.pos THEN x ELSE generateClassElement(x, id, TRUE),
                 g, InSequence(g, Sequenced(g)))

generateTarget(g, p) ==
    IF p \in DOMAIN g.st /\ g.st[p] = g.target[p] THEN g
    ELSE Then(generateClassElement(g, g.target[p], FALSE), LAMBDA x :
         IF ~Present(x, x.target[p]) THEN Fail(x, "assert")
         ELSE IF p \in x.pos[x.target[p]] THEN x
         ELSE Then(With(classElementPosition(x, x.target[p]), LAMBDA q : IF q < p THEN appendDup(x, q) ELSE appendOrRemoveSwap(x, q)),
                   LAMBDA y : appendOrRemoveSwap(y, p)))

FinalHeight(h, initial, target) ==
    IF DOMAIN target # {} THEN Max(DOMAIN target) ELSE IF DOMAIN initial # {} THEN Min(DOMAIN initial) - 1 ELSE h
generateCode(c, ops, first, h, initial, target) ==
    Then(Dependencies(Generator(c, ops, h, initial, target)), LAMBDA a :
    Then(generateSequenced(a, first), LAMBDA b :
    Then(Through(LAMBDA x, p : Then(x, LAMBDA y : generateTarget(y, p)), b, Ascending(target)), LAMBDA d :
    Then(removeSurplus(d), LAMBDA e : Assert_(e, e.h = FinalHeight(h, initial, target))))))

(***************************************************************************)
(* CommonSubexpressionEliminator, started in the empty state               *)
(***************************************************************************)
Feed(k, its) == Through(LAMBDA x, it : feedItem(x, it), k, its)
(* optimizeBreakingItem: a jump whose condition is known, and a return of nothing *)
optimizeBreakingItem(k, b) ==
    CASE b = <<Ins("jumpi")>> ->
            With(relativeStackElement(k, -1), LAMBDA cond :
            With(knownNonZero(cond.k.c, cond.id), LAMBDA r :
            With([cond.k EXCEPT !.c = r.c], LAMBDA x :
                IF r.yes THEN [k |-> Feed(x, <<Swap(1), Ins("pop")>>), b |-> <<Ins("jump")>>]
                ELSE IF knownZero(x.c, cond.id) THEN [k |-> Feed(x, <<Ins("pop"), Ins("pop")>>), b |-> << >>]
                ELSE [k |-> x, b |-> b])))
      [] b = <<Ins("return")>> ->
            With(relativeStackElement(k, -1), LAMBDA size :
                IF knownZero(size.k.c, size.id) THEN [k |-> Feed(size.k, <<Ins("pop"), Ins("pop")>>), b |-> <<Ins("stop")>>]
                ELSE [k |-> size.k, b |-> b])
      [] OTHER -> [k |-> k, b |-> b]

(* The unknown elements of the initial stack get their classes in the order of their heights *)
Elements(k, from, to) ==
    Through(LAMBDA acc, h : With(stackElement(acc.k, h), LAMBDA e : [k |-> e.k, f |-> (h :> e.id) @@ acc.f]),
            [k |-> k, f |-> << >>], [i \in 1 .. to - from + 1 |-> from + i - 1])
getOptimizedItems(k0, b0) ==
    With(optimizeBreakingItem(k0, b0), LAMBDA o :
    With(Min({o.k.h + 1} \cup DOMAIN o.k.st), LAMBDA low :
    With(Elements([EmptyState EXCEPT !.c = o.k.c], low, 0), LAMBDA initial :
    With(Elements([o.k EXCEPT !.c = initial.k.c], low, o.k.h), LAMBDA target :
    With(generateCode(target.k.c, target.k.ops, EmptyState.seq, 0, initial.f, target.f), LAMBDA g :
        [err |-> g.err, items |-> g.items \o o.b])))))
=============================================================================
