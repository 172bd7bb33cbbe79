------------------------ MODULE ContractPhases_proofs ------------------------
(***************************************************************************)
(* Proofs about the stages of ContractPhases, for any rules, functions and *)
(* facts.                                                                  *)
(***************************************************************************)
EXTENDS ContractPhases, FiniteSetTheorems, SequenceTheorems, FunctionTheorems,
        WellFoundedInduction, Loops_proofs, TLAPS

-----------------------------------------------------------------------------
(* Sequences.                                                              *)

(* The functions entryLabel meets are queued once each.                    *)
LEMMA QueueOfSet ==
    ASSUME NEW S, NEW T, S \in SUBSET T, IsFiniteSet(S)
    PROVE  /\ Code!SetToSeq(S) \in Seq(T)
           /\ Range(Code!SetToSeq(S)) = S
  <1> DEFINE n == Cardinality(S)
             f == Code!SetToSeq(S)
  <1>1. n \in Nat /\ ExistsBijection(1..n, S)
    BY FS_CardinalityType
  <1>2. PICK g : g \in Injection(1..n, S)
    BY <1>1 DEF ExistsBijection, Bijection
  <1>3. f \in Injection(1..n, S)
    <2>1. Code!Cardinality(S) = n
      BY DEF Code!Cardinality, Cardinality
    <2>2. f = CHOOSE h \in [1..n -> S] : IsInjective(h)
      BY <2>1 DEF Code!SetToSeq, Code!IsInjective, IsInjective
    <2> QED
      BY <1>2, <2>2 DEF Injection
  <1>4. Cardinality(1..n) = n
    BY <1>1, FS_Interval
  <1>5. f \in Surjection(1..n, S)
    BY <1>3, <1>4, FS_Injection
  <1>6. f \in [1..n -> S] /\ \A t \in S : \E i \in 1..n : f[i] = t
    BY <1>5 DEF Surjection
  <1>7. f \in Seq(T)
    <2>1. f \in [1..n -> T]
      BY <1>6
    <2> QED
      BY <1>1, <2>1, SeqDef
  <1> HIDE DEF f, n
  <1>8. Range(f) = S
    BY <1>6 DEF Range
  <1> QED
    BY <1>7, <1>8 DEF f

(* What is in a sequence is its head or in its tail.                       *)
LEMMA RangeOfTail ==
    ASSUME NEW S, NEW s \in Seq(S), s # <<>>
    PROVE  Range(s) = {Head(s)} \cup Range(Tail(s))
  <1>1. /\ Len(s) \in Nat \ {0}
        /\ Range(s) = {s[i] : i \in 1..Len(s)}
        /\ Head(s) = s[1]
    BY EmptySeq, RangeEquality
  <1>2. /\ Tail(s) \in Seq(S)
        /\ Len(Tail(s)) = Len(s) - 1
        /\ \A i \in 1..Len(Tail(s)) : Tail(s)[i] = s[i + 1]
    BY HeadTailProperties
  <1>3. Range(Tail(s)) = {Tail(s)[i] : i \in 1..(Len(s) - 1)}
    BY <1>2, RangeEquality
  <1>4. ASSUME NEW i \in 1..Len(s)
        PROVE  s[i] \in {Head(s)} \cup Range(Tail(s))
    <2>1. CASE i = 1
      BY <1>1, <2>1
    <2>2. CASE i # 1
      <3>1. i - 1 \in 1..(Len(s) - 1) /\ (i - 1) + 1 = i
        BY <1>1, <2>2
      <3>2. Tail(s)[i - 1] = s[i]
        BY <1>2, <3>1
      <3> QED
        BY <1>3, <3>1, <3>2
    <2> QED
      BY <2>1, <2>2
  <1>5. ASSUME NEW i \in 1..(Len(s) - 1)
        PROVE  Tail(s)[i] \in Range(s)
    <2>1. i + 1 \in 1..Len(s)
      BY <1>1
    <2> QED
      BY <1>1, <1>2, <2>1
  <1>6. s[1] \in Range(s)
    BY <1>1
  <1> QED
    BY <1>1, <1>3, <1>4, <1>5, <1>6

(* A sequence from a place on.                                             *)
LEMMA RangeOfRest ==
    ASSUME NEW S, NEW s \in Seq(S), NEW m \in 1..Len(s)
    PROVE  LET t == SubSeq(s, m, Len(s)) IN
           /\ t \in Seq(S) /\ t # <<>>
           /\ Head(t) = s[m]
           /\ \A n \in m..Len(s) : s[n] \in Range(t)
           /\ Range(t) \subseteq Range(s)
  <1> DEFINE t == SubSeq(s, m, Len(s))
  <1>1. /\ Len(s) \in Nat /\ m \in Nat /\ 1 <= m /\ m <= Len(s)
        /\ \A i \in m..Len(s) : s[i] \in S
    BY LenProperties, ElementOfSeq
  <1>2. /\ t \in Seq(S)
        /\ Len(t) = (Len(s) - m) + 1
        /\ \A i \in 1..((Len(s) - m) + 1) : t[i] = s[(m + i) - 1]
    BY <1>1, SubSeqProperties
  <1> HIDE DEF t
  <1>3. Len(t) \in Nat /\ Len(t) > 0
    BY <1>1, <1>2
  <1>4. t # <<>>
    BY <1>3, EmptySeq
  <1>5. Head(t) = s[m]
    <2>1. t[1] = s[(m + 1) - 1]
      BY <1>1, <1>2
    <2>2. (m + 1) - 1 = m
      BY <1>1
    <2>3. Head(t) = t[1]
      BY <1>2, <1>4
    <2> QED
      BY <2>1, <2>2, <2>3
  <1>6. Range(t) = {t[i] : i \in 1..Len(t)} /\ Range(s) = {s[i] : i \in 1..Len(s)}
    BY <1>2, RangeEquality
  <1>7. ASSUME NEW n \in m..Len(s)
        PROVE  s[n] \in Range(t)
    <2> DEFINE i == (n - m) + 1
    <2>1. i \in 1..Len(t) /\ (m + i) - 1 = n
      BY <1>1, <1>2
    <2>2. t[i] = s[n]
      BY <1>2, <2>1
    <2> QED
      BY <1>6, <2>1, <2>2
  <1>8. ASSUME NEW i \in 1..Len(t)
        PROVE  t[i] \in Range(s)
    <2>1. (m + i) - 1 \in 1..Len(s)
      BY <1>1, <1>2
    <2>2. t[i] = s[(m + i) - 1]
      BY <1>2
    <2> QED
      BY <1>6, <2>1, <2>2
  <1> QED
    BY <1>2, <1>4, <1>5, <1>6, <1>7, <1>8 DEF t

(* A sequence put behind another.                                          *)
LEMMA RangeOfBoth ==
    ASSUME NEW S, NEW s \in Seq(S), NEW t \in Seq(S)
    PROVE  s \o t \in Seq(S) /\ Range(s \o t) = Range(s) \cup Range(t)
  BY ConcatProperties, RangeConcatenation

(* Sequences of one and of two elements.                                   *)
LEMMA ShortSequences ==
    ASSUME NEW S, NEW x \in S, NEW y \in S
    PROVE  <<x>> \in Seq(S) /\ <<x>> # <<>> /\ <<x>> \o <<y>> = <<x, y>>
  <1>1. <<x>> \in [1..1 -> S] /\ <<y>> \in [1..1 -> S]
    OBVIOUS
  <1>2. <<x>> \in Seq(S) /\ <<y>> \in Seq(S)
    BY <1>1, SeqDef
  <1>3. <<x, y>> \in [1..2 -> S]
    OBVIOUS
  <1>4. <<x, y>> \in Seq(S)
    BY <1>3, SeqDef
  <1>5. /\ Len(<<x>>) = 1 /\ Len(<<y>>) = 1 /\ Len(<<x, y>>) = 2
        /\ <<x>>[1] = x /\ <<y>>[1] = y /\ <<x, y>>[1] = x /\ <<x, y>>[2] = y
    OBVIOUS
  <1>6. <<x>> # <<>>
    BY <1>5, EmptySeq
  <1> DEFINE s == <<x>>
             t == <<y>>
             u == <<x, y>>
  <1>7. /\ s \in Seq(S) /\ t \in Seq(S) /\ u \in Seq(S)
        /\ Len(s) = 1 /\ Len(t) = 1 /\ Len(u) = 2
        /\ s[1] = x /\ t[1] = y /\ u[1] = x /\ u[2] = y
    BY <1>2, <1>4, <1>5
  <1> HIDE DEF s, t, u
  <1>8. /\ s \o t \in Seq(S) /\ Len(s \o t) = 2
        /\ (s \o t)[1] = x /\ (s \o t)[2] = y
    BY <1>7, ConcatProperties
  <1>9. s \o t = u
    <2>1. \A i \in 1..2 : (s \o t)[i] = u[i]
      BY <1>7, <1>8
    <2> QED
      BY <1>7, <1>8, <2>1, SeqEqual
  <1> QED
    BY <1>2, <1>6, <1>9 DEF s, t, u

(* A set of numbers that is not empty has a least element.                 *)
LEMMA LeastElement ==
    ASSUME NEW S \in SUBSET Nat, S # {}
    PROVE  Code!Min(S) \in S /\ \A j \in S : Code!Min(S) <= j
  <1>1. PICK i \in S : \A j \in S : i <= j
    BY LeastNumber
  <1> QED
    BY <1>1 DEF Code!Min

-----------------------------------------------------------------------------
(* Labels.  For each context: every function with a label is compiled or   *)
(* waits in the queue, the label is placed just when it is compiled, and   *)
(* something reaches it.  What the phases so far and the functions         *)
(* compiled so far refer to has a label.  The creation context gets no     *)
(* label any more once its queue has been emptied; the runtime context     *)
(* does, from pointers the creation code makes, and is looked at again.    *)

Phases ==
    {"selector", "rules", "runtime", "constructor", "creation", "runtime again", "done"}

Late == phase \in {"creation", "runtime again", "done"}

Roots(c) ==
    IF c = "run" THEN src.funs.public \cup src.funs.then \cup Code!Pointed
    ELSE src.funs.constructor \cup src.funs.pointers

(* What the selector, the rules and the constructor have referred to.      *)
RootsSoFar(c) ==
    IF c = "run"
      THEN (IF phase = "selector" THEN {} ELSE src.funs.public)
             \cup (IF phase \in {"selector", "rules"} THEN {} ELSE src.funs.then)
             \cup (IF Late THEN src.funs.pointers ELSE {})
      ELSE IF Late THEN src.funs.constructor \cup src.funs.pointers ELSE {}

ContextInv(c) ==
    /\ labels[c] \subseteq Funcs
    /\ queue[c] \in Seq(Funcs)
    /\ placed[c] \in [Funcs -> 0..2]
    /\ labels[c] = compiled[c] \cup Range(queue[c])
    /\ \A x \in Funcs : placed[c][x] = IF x \in compiled[c] THEN 1 ELSE 0
    /\ labels[c] \subseteq Code!Reachable(c)

(* Nothing that was asked for is missing.                                  *)
Labelled ==
    \A c \in Code!Contexts :
        /\ RootsSoFar(c) \subseteq labels[c]
        /\ \A x \in compiled[c], d \in Code!Contexts : Code!Asked(c, d, x) \subseteq labels[d]

Drained ==
    /\ phase \in {"runtime again", "done"} => queue["create"] = <<>>
    /\ phase = "done" => queue["run"] = <<>>

CodeInv ==
    /\ src \in Sources
    /\ phase \in Phases
    /\ DOMAIN labels = Code!Contexts
    /\ DOMAIN queue = Code!Contexts
    /\ DOMAIN compiled = Code!Contexts
    /\ DOMAIN placed = Code!Contexts
    /\ \A c \in Code!Contexts : ContextInv(c)
    /\ Labelled
    /\ Drained

(* What is reached from a set includes it and is closed under references;  *)
(* it is within every set of which the same holds.                         *)
LEMMA ReachClosed ==
    ASSUME src \in Sources, NEW S \in SUBSET Funcs
    PROVE  /\ S \subseteq Code!Reach(S)
           /\ \A x \in Code!Reach(S) :
                x \in Funcs /\ src.funs.calls[x] \cup src.funs.points[x] \subseteq Code!Reach(S)
           /\ \A T \in SUBSET Funcs : S \subseteq T /\ Code!Closed(T) => Code!Reach(S) \subseteq T
  <1>1. S \subseteq Code!Reach(S)
    BY DEF Code!Reach
  <1>2. ASSUME NEW x \in Code!Reach(S), NEW y \in src.funs.calls[x] \cup src.funs.points[x]
        PROVE  y \in Code!Reach(S)
    <2>1. /\ x \in Funcs
          /\ src.funs.calls[x] \in SUBSET Funcs
          /\ src.funs.points[x] \in SUBSET Funcs
      BY FunctionsAssumption DEF Code!Reach
    <2>2. ASSUME NEW T \in SUBSET Funcs, S \subseteq T, Code!Closed(T)
          PROVE  y \in T
      <3>1. x \in T
        BY <2>2 DEF Code!Reach
      <3> QED
        BY <2>2, <3>1 DEF Code!Closed
    <2> QED
      BY <2>1, <2>2 DEF Code!Reach
  <1> QED
    BY <1>1, <1>2 DEF Code!Reach

(* The roots of a context are functions and reach themselves; what is      *)
(* reached stays reached through calls and pointers, also the runtime      *)
(* functions to which reached creation code makes pointers.                *)
LEMMA RootsReached ==
    ASSUME src \in Sources, NEW c \in Code!Contexts
    PROVE  /\ Roots(c) \in SUBSET Funcs
           /\ Code!Reachable(c) = Code!Reach(Roots(c))
           /\ Roots(c) \subseteq Code!Reachable(c)
           /\ \A x \in Code!Reachable(c) :
                /\ x \in Funcs
                /\ \A d \in Code!Contexts : Code!Asked(c, d, x) \in SUBSET Funcs
                /\ \A d \in Code!Contexts : Code!Asked(c, d, x) \subseteq Code!Reachable(d)
  <1> DEFINE R == src.funs.constructor \cup src.funs.pointers
  <1>1. R \in SUBSET Funcs
    BY FunctionsAssumption
  <1> HIDE DEF R
  <1>2. /\ R \subseteq Code!Reach(R)
        /\ \A x \in Code!Reach(R) :
             x \in Funcs /\ src.funs.calls[x] \cup src.funs.points[x] \subseteq Code!Reach(R)
    BY <1>1, ReachClosed
  <1>3. Code!Created = Code!Reach(R)
    BY DEF Code!Created, R
  <1>4. Code!Pointed \in SUBSET Funcs
    <2>1. \A x \in Code!Created : src.funs.points[x] \subseteq Funcs
      BY <1>2, <1>3
    <2> QED
      BY <2>1, FunctionsAssumption DEF Code!Pointed
  <1>5. /\ Roots("run") \in SUBSET Funcs
        /\ Roots("create") = R
    BY <1>4, FunctionsAssumption DEF Roots, R
  <1>6. /\ Code!Reachable("run") = Code!Reach(Roots("run"))
        /\ Code!Reachable("create") = Code!Reach(R)
    BY <1>3 DEF Code!Reachable, Roots
  <1>7. /\ Roots("run") \subseteq Code!Reachable("run")
        /\ \A x \in Code!Reachable("run") :
             x \in Funcs /\ src.funs.calls[x] \cup src.funs.points[x] \subseteq Code!Reachable("run")
    <2> HIDE DEF Roots
    <2> QED
      BY <1>5, <1>6, ReachClosed
  <1>8. \A x \in Code!Reachable("create") : src.funs.points[x] \subseteq Code!Reachable("run")
    <2>1. \A x \in Code!Created : src.funs.points[x] \subseteq Code!Pointed
      BY DEF Code!Pointed
    <2>2. Code!Pointed \subseteq Roots("run")
      BY DEF Roots
    <2> QED
      BY <1>3, <1>6, <1>7, <2>1, <2>2
  <1>9. \A x \in Funcs : src.funs.calls[x] \subseteq Funcs /\ src.funs.points[x] \subseteq Funcs
    BY FunctionsAssumption
  <1>10. CASE c = "run"
    <2>1. \A x, d : Code!Asked(c, d, x) = IF d = "run" THEN src.funs.calls[x] \cup src.funs.points[x] ELSE {}
      BY <1>10 DEF Code!Asked
    <2> QED
      BY <1>5, <1>6, <1>7, <1>9, <1>10, <2>1
  <1>11. CASE c = "create"
    <2>1. \A x : /\ Code!Asked(c, "create", x) = src.funs.calls[x] \cup src.funs.points[x]
                 /\ Code!Asked(c, "run", x) = src.funs.points[x]
      BY <1>11 DEF Code!Asked
    <2>2. ASSUME NEW x \in Code!Reachable(c), NEW d \in Code!Contexts
          PROVE  /\ Code!Asked(c, d, x) \in SUBSET Funcs
                 /\ Code!Asked(c, d, x) \subseteq Code!Reachable(d)
      <3>1. d = "run" \/ d = "create"
        BY DEF Code!Contexts
      <3>2. x \in Funcs
        BY <1>2, <1>6, <1>11
      <3> QED
        BY <1>2, <1>6, <1>8, <1>9, <1>11, <2>1, <3>1, <3>2
    <2>3. \A x \in Code!Reachable(c) : x \in Funcs
      BY <1>2, <1>6, <1>11
    <2> QED
      BY <1>1, <1>2, <1>5, <1>6, <1>11, <2>2, <2>3
  <1> QED
    BY <1>10, <1>11 DEF Code!Contexts

(* The same sources have the same roots.                                   *)
LEMMA SameReach ==
    ASSUME src' = src, NEW c
    PROVE  Code!Reachable(c)' = Code!Reachable(c)
  BY DEF Code!Reachable, Code!Created, Code!Pointed, Code!Reach, Code!Closed

(* What waits is what is queued and not compiled, up to repetitions.       *)
LEMMA WaitingFunctions ==
    ASSUME NEW c, queue[c] \in Seq(Funcs)
    PROVE  LET w == Code!Waiting(c) IN
           /\ w \in Seq(Funcs)
           /\ Range(w) \subseteq Range(queue[c])
           /\ Range(queue[c]) \subseteq compiled[c] \cup Range(w)
           /\ w # <<>> => /\ Head(w) \in Funcs /\ Head(w) \notin compiled[c]
                          /\ Tail(w) \in Seq(Funcs)
                          /\ Range(w) = {Head(w)} \cup Range(Tail(w))
  <1> DEFINE q == queue[c]
             w == Code!Waiting(c)
             open == Code!Open(c)
             m == Code!Min(open)
  <1>1. /\ Len(q) \in Nat /\ DOMAIN q = 1..Len(q)
        /\ \A i \in 1..Len(q) : q[i] \in Funcs
    BY LenProperties, ElementOfSeq
  <1>2. open = {n \in 1..Len(q) : q[n] \notin compiled[c]}
    BY <1>1 DEF Code!Open
  <1>3. CASE open = {}
    <2>1. w = <<>>
      BY <1>3 DEF Code!Waiting
    <2>2. Range(q) \subseteq compiled[c]
      BY <1>1, <1>2, <1>3 DEF Range
    <2>3. Range(<<>>) = {}
      BY DEF Range
    <2> QED
      BY <2>1, <2>2, <2>3, EmptySeq
  <1>4. CASE open # {}
    <2>1. open \in SUBSET Nat
      BY <1>2
    <2>2. m \in open /\ \A j \in open : m <= j
      <3> HIDE DEF open
      <3> QED
        BY <1>4, <2>1, LeastElement
    <2>3. m \in 1..Len(q) /\ q[m] \notin compiled[c]
      BY <1>2, <2>2
    <2>4. w = SubSeq(q, m, Len(q))
      BY <1>4 DEF Code!Waiting
    <2> HIDE DEF m
    <2>5. /\ w \in Seq(Funcs) /\ w # <<>>
          /\ Head(w) = q[m]
          /\ \A n \in m..Len(q) : q[n] \in Range(w)
          /\ Range(w) \subseteq Range(q)
      BY <2>3, <2>4, RangeOfRest
    <2>6. Range(q) \subseteq compiled[c] \cup Range(w)
      <3> SUFFICES ASSUME NEW n \in 1..Len(q), q[n] \notin compiled[c]
                   PROVE  q[n] \in Range(w)
        BY <1>1 DEF Range
      <3>1. n \in m..Len(q)
        BY <1>1, <1>2, <2>2, <2>3
      <3> QED
        BY <2>5, <3>1
    <2> HIDE DEF w, q
    <2>7. Tail(w) \in Seq(Funcs) /\ Range(w) = {Head(w)} \cup Range(Tail(w))
      BY <2>5, HeadTailProperties, RangeOfTail
    <2>8. Head(w) \in Funcs /\ Head(w) \notin compiled[c]
      BY <1>1, <2>3, <2>5
    <2> QED
      BY <2>5, <2>6, <2>7, <2>8 DEF q, w
  <1> QED
    BY <1>3, <1>4

(* A context in which nothing changes.                                     *)
LEMMA SameContext ==
    ASSUME NEW c, ContextInv(c), src' = src,
           labels'[c] = labels[c], queue'[c] = queue[c],
           compiled'[c] = compiled[c], placed'[c] = placed[c]
    PROVE  ContextInv(c)'
  <1>1. Code!Reachable(c)' = Code!Reachable(c)
    BY SameReach
  <1> QED
    BY <1>1 DEF ContextInv

(* entryLabel for functions that the context may reach.                    *)
LEMMA AddLabels ==
    ASSUME NEW c, ContextInv(c), src' = src,
           NEW S \in SUBSET Funcs, S \subseteq Code!Reachable(c),
           labels'[c] = labels[c] \cup S,
           queue'[c] = queue[c] \o Code!SetToSeq(Code!Wanted(c, S)),
           compiled'[c] = compiled[c], placed'[c] = placed[c]
    PROVE  ContextInv(c)'
  <1> DEFINE new == Code!Wanted(c, S)
  <1>1. Code!Reachable(c)' = Code!Reachable(c)
    BY SameReach
  <1>2. new = S \ labels[c] /\ new \in SUBSET Funcs /\ IsFiniteSet(new)
    BY FS_Subset, FunctionsAssumption DEF Code!Wanted
  <1> HIDE DEF new
  <1>3. /\ Code!SetToSeq(new) \in Seq(Funcs)
        /\ Range(Code!SetToSeq(new)) = new
    BY <1>2, QueueOfSet
  <1>4. queue'[c] = queue[c] \o Code!SetToSeq(new)
    BY DEF new
  <1>5. /\ queue'[c] \in Seq(Funcs)
        /\ Range(queue'[c]) = Range(queue[c]) \cup new
    <2>1. queue[c] \in Seq(Funcs)
      BY DEF ContextInv
    <2> QED
      BY <1>3, <1>4, <2>1, RangeOfBoth
  <1> QED
    BY <1>1, <1>2, <1>5 DEF ContextInv

(* A function is compiled.                                                 *)
LEMMA CompileOne ==
    ASSUME CodeInv, Code!CompileFunction, src' = src
    PROVE  CodeInv'
  <1> DEFINE c == Code!Context
             w == Code!Waiting(c)
             fun == Head(w)
             asked(d) == Code!Asked(c, d, fun)
             called == asked(c)
             new == Code!Wanted(c, called)
  <1>1. c \in Code!Contexts /\ w # <<>> /\ Code!Appending
    BY DEF Code!CompileFunction, Code!Context, Code!Contexts
  <1>2. /\ compiled' = [compiled EXCEPT ![c] = compiled[c] \cup {fun}]
        /\ placed' = [placed EXCEPT ![c][fun] = IF @ = 0 THEN 1 ELSE 2]
        /\ labels' = [d \in Code!Contexts |-> labels[d] \cup asked(d)]
        /\ queue' = [d \in Code!Contexts |->
             (IF d = c THEN Tail(w) ELSE queue[d]) \o Code!SetToSeq(Code!Wanted(d, asked(d)))]
        /\ phase' = phase
    BY DEF Code!CompileFunction, Code!StartFunction
  <1>3. ContextInv(c) /\ queue[c] \in Seq(Funcs)
    BY <1>1 DEF CodeInv, ContextInv
  <1> HIDE DEF c, w, fun, asked
  <1>4. /\ w \in Seq(Funcs)
        /\ Range(w) \subseteq Range(queue[c])
        /\ Range(queue[c]) \subseteq compiled[c] \cup Range(w)
        /\ fun \in Funcs /\ fun \notin compiled[c]
        /\ Tail(w) \in Seq(Funcs)
        /\ Range(w) = {fun} \cup Range(Tail(w))
    BY <1>1, <1>3, WaitingFunctions DEF w, fun
  <1>5. fun \in labels[c] /\ fun \in Code!Reachable(c)
    BY <1>3, <1>4 DEF ContextInv
  <1>6. \A d \in Code!Contexts : asked(d) \in SUBSET Funcs /\ asked(d) \subseteq Code!Reachable(d)
    BY <1>1, <1>5, RootsReached DEF CodeInv, asked
  <1>7. new = called \ labels[c] /\ new \in SUBSET Funcs /\ IsFiniteSet(new)
    BY <1>1, <1>6, FS_Subset, FunctionsAssumption DEF Code!Wanted
  <1>8. /\ Code!SetToSeq(new) \in Seq(Funcs)
        /\ Range(Code!SetToSeq(new)) = new
    <2> HIDE DEF new
    <2> QED
      BY <1>7, QueueOfSet
  <1>9. /\ queue'[c] = Tail(w) \o Code!SetToSeq(new)
        /\ labels'[c] = labels[c] \cup called
        /\ compiled'[c] = compiled[c] \cup {fun}
        /\ placed'[c] = [placed[c] EXCEPT ![fun] = IF @ = 0 THEN 1 ELSE 2]
    BY <1>1, <1>2 DEF CodeInv
  <1>10. /\ queue'[c] \in Seq(Funcs)
         /\ Range(queue'[c]) = Range(Tail(w)) \cup new
    <2>1. PICK r, s : r = Tail(w) /\ s = Code!SetToSeq(new)
      OBVIOUS
    <2>2. r \o s \in Seq(Funcs) /\ Range(r \o s) = Range(r) \cup Range(s)
      <3>1. r \in Seq(Funcs) /\ s \in Seq(Funcs)
        BY <1>4, <1>8, <2>1
      <3> QED
        BY <3>1, RangeOfBoth
    <2>3. queue'[c] = r \o s
      BY <1>9, <2>1
    <2> QED
      BY <1>8, <2>1, <2>2, <2>3
  <1>11. PICK d : d = c
    OBVIOUS
  <1>12. ContextInv(d)'
    <2>1. Code!Reachable(d)' = Code!Reachable(d)
      BY SameReach
    <2>2. /\ placed[d] \in [Funcs -> 0..2]
          /\ labels[d] \subseteq Funcs
          /\ labels[d] = compiled[d] \cup Range(queue[d])
          /\ \A x \in Funcs : placed[d][x] = IF x \in compiled[d] THEN 1 ELSE 0
          /\ labels[d] \subseteq Code!Reachable(d)
      BY <1>3, <1>11 DEF ContextInv
    <2>3. labels'[d] \subseteq Funcs /\ labels'[d] \subseteq Code!Reachable(d)
      BY <1>1, <1>6, <1>9, <1>11, <2>2
    <2>4. labels'[d] = compiled'[d] \cup Range(queue'[d])
      BY <1>4, <1>7, <1>9, <1>10, <1>11, <2>2
    <2>5. placed[d][fun] = 0
      BY <1>4, <1>11, <2>2
    <2>6. placed'[d] = [placed[d] EXCEPT ![fun] = 1]
      BY <1>9, <1>11, <2>2, <2>5
    <2>7. placed'[d] \in [Funcs -> 0..2]
      <3>1. 1 \in 0..2
        OBVIOUS
      <3> QED
        BY <1>4, <2>2, <2>6, <3>1
    <2>8. ASSUME NEW x \in Funcs
          PROVE  placed'[d][x] = IF x \in compiled'[d] THEN 1 ELSE 0
      <3>1. CASE x = fun
        BY <1>4, <1>9, <1>11, <2>2, <2>6, <3>1
      <3>2. CASE x # fun
        BY <1>4, <1>9, <1>11, <2>2, <2>6, <3>2
      <3> QED
        BY <3>1, <3>2
    <2> QED
      BY <1>10, <1>11, <2>1, <2>3, <2>4, <2>7, <2>8 DEF ContextInv
  <1>13. ASSUME NEW o \in Code!Contexts, o # d
         PROVE  ContextInv(o)'
    <2>1. PICK S : S = asked(o)
      OBVIOUS
    <2>2. /\ labels'[o] = labels[o] \cup S
          /\ queue'[o] = queue[o] \o Code!SetToSeq(Code!Wanted(o, S))
          /\ compiled'[o] = compiled[o] /\ placed'[o] = placed[o]
      BY <1>2, <1>11, <1>13, <2>1 DEF CodeInv
    <2>3. ContextInv(o) /\ S \in SUBSET Funcs /\ S \subseteq Code!Reachable(o)
      BY <1>6, <2>1 DEF CodeInv
    <2> QED
      BY <2>2, <2>3, AddLabels
  <1>14. Drained'
    <2>1. phase = "runtime again" => c = "run"
      BY DEF c, Code!Context
    <2>2. phase # "done"
      BY <1>1 DEF Code!Appending
    <2>3. ASSUME phase = "runtime again"
          PROVE  queue'["create"] = <<>>
      <3>1. Code!Wanted("create", asked("create")) = {}
        BY <2>1, <2>3 DEF asked, Code!Asked, Code!Wanted
      <3>2. PICK s : s = Code!SetToSeq(Code!Wanted("create", asked("create")))
        OBVIOUS
      <3>3. s \in Seq(Funcs) /\ Range(s) = {}
        BY <3>1, <3>2, FS_EmptySet, QueueOfSet
      <3>4. s = <<>>
        BY <3>3, EmptySeq, LenProperties DEF Range
      <3>5. queue["create"] = <<>>
        BY <2>3 DEF CodeInv, Drained
      <3>6. queue'["create"] = <<>> \o <<>>
        BY <1>2, <2>1, <2>3, <3>2, <3>4, <3>5 DEF Code!Contexts
      <3> QED
        BY <3>6, ConcatEmptySeq, EmptySeq
    <2> QED
      BY <1>2, <2>2, <2>3 DEF CodeInv, Drained
  <1>15. /\ DOMAIN labels' = Code!Contexts /\ DOMAIN queue' = Code!Contexts
         /\ DOMAIN compiled' = Code!Contexts /\ DOMAIN placed' = Code!Contexts
    BY <1>2 DEF CodeInv
  <1>16. \A o \in Code!Contexts : ContextInv(o)'
    BY <1>12, <1>13
  <1>17. Labelled'
    <2>1. \A o \in Code!Contexts : RootsSoFar(o)' = RootsSoFar(o)
      BY <1>2 DEF RootsSoFar, Late
    <2>2. \A o, e, x : Code!Asked(o, e, x)' = Code!Asked(o, e, x)
      BY DEF Code!Asked
    <2>3. \A o \in Code!Contexts : labels'[o] = labels[o] \cup asked(o)
      BY <1>2
    <2>4. ASSUME NEW o \in Code!Contexts, NEW e \in Code!Contexts, NEW x \in compiled'[o]
          PROVE  Code!Asked(o, e, x) \subseteq labels'[e]
      <3>1. CASE x \in compiled[o]
        BY <2>3, <2>4, <3>1 DEF CodeInv, Labelled
      <3>2. CASE x \notin compiled[o]
        <4>1. o = c /\ x = fun
          BY <1>2, <1>9, <2>4, <3>2 DEF CodeInv
        <4> QED
          BY <2>3, <4>1 DEF asked
      <3> QED
        BY <3>1, <3>2
    <2>5. \A o \in Code!Contexts : RootsSoFar(o) \subseteq labels[o]
      BY DEF CodeInv, Labelled
    <2> QED
      BY <2>1, <2>2, <2>3, <2>4, <2>5 DEF Labelled, Code!Contexts
  <1> QED
    BY <1>2, <1>14, <1>15, <1>16, <1>17 DEF CodeInv, Code!Contexts

(* A queue is empty: the next phase begins.                                *)
LEMMA EmptyQueue ==
    ASSUME CodeInv, Code!QueueEmpty, src' = src
    PROVE  CodeInv'
  <1>1. PICK c : c = Code!Context
    OBVIOUS
  <1>2. /\ c \in Code!Contexts /\ Code!Waiting(c) = <<>>
        /\ queue' = [queue EXCEPT ![c] = <<>>]
        /\ labels' = labels /\ compiled' = compiled /\ placed' = placed
        /\ phase' = Code!After(phase)
        /\ phase \in {"runtime", "creation", "runtime again"}
    BY <1>1 DEF Code!QueueEmpty, Code!Context, Code!Contexts, Code!Appending
  <1>3. ContextInv(c) /\ queue[c] \in Seq(Funcs)
    BY <1>2 DEF CodeInv, ContextInv
  <1>4. Range(<<>>) = {}
    BY DEF Range
  <1>5. Range(queue[c]) \subseteq compiled[c]
    BY <1>2, <1>3, <1>4, WaitingFunctions
  <1>6. queue'[c] = <<>> /\ queue'[c] \in Seq(Funcs)
    BY <1>2, EmptySeq DEF CodeInv
  <1>7. ContextInv(c)'
    <2>1. Code!Reachable(c)' = Code!Reachable(c)
      BY SameReach
    <2> QED
      BY <1>2, <1>3, <1>4, <1>5, <1>6, <2>1 DEF ContextInv
  <1>8. ASSUME NEW o \in Code!Contexts, o # c
        PROVE  ContextInv(o)'
    <2>1. queue'[o] = queue[o]
      BY <1>2, <1>8 DEF CodeInv
    <2> QED
      BY <1>2, <2>1, SameContext DEF CodeInv
  <1>9. phase' \in Phases /\ Drained'
    <2>1. CASE phase = "runtime"
      BY <1>2, <2>1 DEF Code!After, Phases, Drained
    <2>2. CASE phase = "creation"
      <3>1. c = "create" /\ phase' = "runtime again"
        BY <1>1, <1>2, <2>2 DEF Code!Context, Code!After
      <3> QED
        BY <1>6, <3>1 DEF Phases, Drained
    <2>3. CASE phase = "runtime again"
      <3>1. c = "run" /\ phase' = "done"
        BY <1>1, <1>2, <2>3 DEF Code!Context, Code!After
      <3>2. queue'["create"] = queue["create"]
        BY <1>2, <3>1 DEF CodeInv, Code!Contexts
      <3> QED
        BY <1>6, <2>3, <3>1, <3>2 DEF Phases, Drained, CodeInv
    <2> QED
      BY <1>2, <2>1, <2>2, <2>3
  <1>10. Labelled'
    <2>1. \A o \in Code!Contexts : RootsSoFar(o)' = RootsSoFar(o)
      <3>1. (Late' <=> Late) /\ phase \notin {"selector", "rules"} /\ phase' \notin {"selector", "rules"}
        <4>1. CASE phase = "runtime"
          BY <1>2, <4>1 DEF Code!After, Late
        <4>2. CASE phase = "creation"
          <5>1. phase' = "runtime again"
            BY <1>2, <4>2 DEF Code!After
          <5> QED
            BY <4>2, <5>1 DEF Late
        <4>3. CASE phase = "runtime again"
          <5>1. phase' = "done"
            BY <1>2, <4>3 DEF Code!After
          <5> QED
            BY <4>3, <5>1 DEF Late
        <4> QED
          BY <1>2, <4>1, <4>2, <4>3
      <3> QED
        BY <3>1 DEF RootsSoFar
    <2>2. \A o, e, x : Code!Asked(o, e, x)' = Code!Asked(o, e, x)
      BY DEF Code!Asked
    <2> QED
      BY <1>2, <2>1, <2>2 DEF CodeInv, Labelled, Code!Contexts
  <1> QED
    BY <1>2, <1>7, <1>8, <1>9, <1>10 DEF CodeInv, Code!Contexts

(* Labels are added while nothing is compiled.                             *)
LEMMA MoreLabels ==
    ASSUME Labelled, src' = src, compiled' = compiled,
           \A c \in Code!Contexts : labels[c] \subseteq labels'[c],
           \A c \in Code!Contexts : RootsSoFar(c)' \subseteq labels'[c]
    PROVE  Labelled'
  <1>1. \A c, d, x : Code!Asked(c, d, x)' = Code!Asked(c, d, x)
    BY DEF Code!Asked
  <1>2. ASSUME NEW c \in Code!Contexts, NEW d \in Code!Contexts, NEW x \in compiled[c]
        PROVE  Code!Asked(c, d, x) \subseteq labels'[d]
    BY <1>2 DEF Labelled
  <1> QED
    BY <1>1, <1>2 DEF Labelled, Code!Contexts

(* What the selector, the rules and the constructor ask for, the queue     *)
(* takes.                                                                  *)
LEMMA CodeStep ==
    ASSUME CodeInv, Code!Next, src' = src
    PROVE  CodeInv'
  <1>1. "run" \in Code!Contexts /\ "create" \in Code!Contexts /\ "run" # "create"
    BY DEF Code!Contexts
  <1>2. ContextInv("run") /\ ContextInv("create")
    BY <1>1 DEF CodeInv
  <1>3. /\ src.funs.public \subseteq Roots("run")
        /\ src.funs.then \subseteq Roots("run")
        /\ src.funs.pointers \subseteq Roots("run")
        /\ (src.funs.constructor \cup src.funs.pointers) \subseteq Roots("create")
    BY <1>1 DEF Roots, Code!Pointed
  <1>4. /\ Roots("run") \in SUBSET Funcs /\ Roots("run") \subseteq Code!Reachable("run")
        /\ Roots("create") \in SUBSET Funcs
        /\ Roots("create") \subseteq Code!Reachable("create")
    BY <1>1, RootsReached DEF CodeInv
  <1>5. ASSUME NEW S, S \subseteq Roots("run"), Code!Request("run", S),
               compiled' = compiled, placed' = placed,
               phase' \in {"rules", "runtime"},
               RootsSoFar("run")' \subseteq RootsSoFar("run") \cup S
        PROVE  CodeInv'
    <2>1. /\ labels'["run"] = labels["run"] \cup S
          /\ queue'["run"] = queue["run"] \o Code!SetToSeq(Code!Wanted("run", S))
          /\ labels'["create"] = labels["create"]
          /\ queue'["create"] = queue["create"]
          /\ DOMAIN labels' = Code!Contexts /\ DOMAIN queue' = Code!Contexts
      BY <1>1, <1>5 DEF Code!Request, CodeInv
    <2>2. S \in SUBSET Funcs /\ S \subseteq Code!Reachable("run")
      BY <1>4, <1>5
    <2>3. ContextInv("run")'
      BY <1>2, <1>5, <2>1, <2>2, AddLabels
    <2>4. ContextInv("create")'
      BY <1>2, <1>5, <2>1, SameContext
    <2>5. \A c \in Code!Contexts : ContextInv(c)'
      BY <2>3, <2>4 DEF Code!Contexts
    <2>6. Labelled'
      <3>1. RootsSoFar("create")' = {}
        BY <1>5 DEF RootsSoFar, Late
      <3>2. RootsSoFar("run") \subseteq labels["run"]
        BY <1>1 DEF CodeInv, Labelled
      <3>3. \A c \in Code!Contexts : c = "run" \/ c = "create"
        BY DEF Code!Contexts
      <3>4. \A c \in Code!Contexts : labels[c] \subseteq labels'[c]
        BY <2>1, <3>3
      <3>5. \A c \in Code!Contexts : RootsSoFar(c)' \subseteq labels'[c]
        BY <1>5, <2>1, <3>1, <3>2, <3>3
      <3> QED
        BY <1>5, <3>4, <3>5, MoreLabels DEF CodeInv
    <2> QED
      BY <1>5, <2>1, <2>5, <2>6 DEF CodeInv, Drained, Phases, Code!Contexts
  <1>6. CASE Code!AppendSelector
    <2>1. RootsSoFar("run")' \subseteq RootsSoFar("run") \cup src.funs.public
      BY <1>6 DEF Code!AppendSelector, RootsSoFar, Late
    <2> QED
      BY <1>3, <1>5, <1>6, <2>1 DEF Code!AppendSelector
  <1>7. CASE Code!AppendRules
    <2>1. RootsSoFar("run")' \subseteq RootsSoFar("run") \cup src.funs.then
      BY <1>7 DEF Code!AppendRules, RootsSoFar, Late
    <2> QED
      BY <1>3, <1>5, <1>7, <2>1 DEF Code!AppendRules
  <1>8. CASE Code!AppendConstructor
    <2> DEFINE P == src.funs.pointers
               S == src.funs.constructor \cup src.funs.pointers
    <2>1. /\ labels' = [run |-> labels["run"] \cup P, create |-> labels["create"] \cup S]
          /\ queue' = [run |-> queue["run"] \o Code!SetToSeq(Code!Wanted("run", P)),
                       create |-> queue["create"] \o Code!SetToSeq(Code!Wanted("create", S))]
          /\ compiled' = compiled /\ placed' = placed /\ phase' = "creation"
      BY <1>8 DEF Code!AppendConstructor, Code!RequestBoth
    <2>2. /\ P \in SUBSET Funcs /\ P \subseteq Code!Reachable("run")
          /\ S \in SUBSET Funcs /\ S \subseteq Code!Reachable("create")
      BY <1>3, <1>4
    <2>7. /\ RootsSoFar("run")' \subseteq RootsSoFar("run") \cup P
          /\ RootsSoFar("create")' = S
      BY <1>8, <2>1 DEF Code!AppendConstructor, RootsSoFar, Late
    <2> HIDE DEF P, S
    <2>3. ContextInv("run")'
      <3>1. /\ labels'["run"] = labels["run"] \cup P
            /\ queue'["run"] = queue["run"] \o Code!SetToSeq(Code!Wanted("run", P))
        BY <2>1
      <3> QED
        BY <1>2, <2>1, <2>2, <3>1, AddLabels
    <2>4. ContextInv("create")'
      <3>1. /\ labels'["create"] = labels["create"] \cup S
            /\ queue'["create"] =
                 queue["create"] \o Code!SetToSeq(Code!Wanted("create", S))
        BY <2>1
      <3> QED
        BY <1>2, <2>1, <2>2, <3>1, AddLabels
    <2>5. \A c \in Code!Contexts : ContextInv(c)'
      BY <2>3, <2>4 DEF Code!Contexts
    <2>6. DOMAIN labels' = Code!Contexts /\ DOMAIN queue' = Code!Contexts
      BY <2>1 DEF Code!Contexts
    <2>8. Labelled'
      <3>1. labels'["run"] = labels["run"] \cup P /\ labels'["create"] = labels["create"] \cup S
        BY <2>1
      <3>2. RootsSoFar("run") \subseteq labels["run"]
        BY <1>1 DEF CodeInv, Labelled
      <3>3. \A c \in Code!Contexts : c = "run" \/ c = "create"
        BY DEF Code!Contexts
      <3>4. \A c \in Code!Contexts : labels[c] \subseteq labels'[c]
        BY <3>1, <3>3
      <3>5. \A c \in Code!Contexts : RootsSoFar(c)' \subseteq labels'[c]
        BY <2>7, <3>1, <3>2, <3>3
      <3> QED
        BY <2>1, <3>4, <3>5, MoreLabels DEF CodeInv
    <2> QED
      BY <2>1, <2>5, <2>6, <2>8 DEF CodeInv, Drained, Phases, Code!Contexts
  <1> QED
    BY <1>6, <1>7, <1>8, CompileOne, EmptyQueue DEF Code!Next

(* Nothing outside code generation changes what it knows.                  *)
LEMMA CodeKept ==
    ASSUME CodeInv, src' = src, UNCHANGED codeVars
    PROVE  CodeInv'
  <1>1. ASSUME NEW c \in Code!Contexts
        PROVE  ContextInv(c)'
    BY SameContext DEF CodeInv, codeVars
  <1>2. Labelled'
    <2>1. \A c \in Code!Contexts : RootsSoFar(c)' = RootsSoFar(c) /\ labels'[c] = labels[c]
      BY DEF codeVars, RootsSoFar, Late
    <2> QED
      BY <2>1, MoreLabels DEF CodeInv, Labelled, codeVars
  <1> QED
    BY <1>1, <1>2 DEF CodeInv, Drained, codeVars, Code!Contexts

(* Throughout, every function with a label is compiled or waits.           *)
THEOREM CodeCorrect == PhasesSpec => []CodeInv
  <1>1. ASSUME PhasesInit PROVE CodeInv
    <2>1. /\ src \in Sources /\ phase = "selector"
          /\ labels = [c \in Code!Contexts |-> {}]
          /\ queue = [c \in Code!Contexts |-> <<>>]
          /\ compiled = [c \in Code!Contexts |-> {}]
          /\ placed = [c \in Code!Contexts |-> [x \in Funcs |-> 0]]
      BY <1>1 DEF PhasesInit, Code!Init
    <2>2. Range(<<>>) = {}
      BY DEF Range
    <2>3. \A c \in Code!Contexts : ContextInv(c)
      BY <2>1, <2>2, EmptySeq DEF ContextInv
    <2>4. Labelled
      BY <2>1 DEF Labelled, RootsSoFar, Late
    <2> QED
      BY <2>1, <2>3, <2>4 DEF CodeInv, Phases, Drained
  <1>2. ASSUME CodeInv, [PhasesNext]_phaseVars PROVE CodeInv'
    <2>1. CASE ResolveRules
      BY <1>2, <2>1, CodeKept DEF ResolveRules
    <2>2. CASE GenerateCode
      BY <1>2, <2>2, CodeStep DEF GenerateCode
    <2>3. CASE RunNetwork
      BY <1>2, <2>3, CodeKept DEF RunNetwork
    <2>4. CASE UNCHANGED phaseVars
      BY <1>2, <2>4, CodeKept DEF phaseVars
    <2> QED
      BY <1>2, <2>1, <2>2, <2>3, <2>4 DEF PhasesNext
  <1> QED
    BY <1>1, <1>2, PTL DEF PhasesSpec

(* Where the label of the rules was pushed and placed.                     *)
FiredInv ==
    /\ DOMAIN compiled = Code!Contexts
    /\ rulesPlaced = [c \in Code!Contexts |->
         IF c = "run" /\ phase \notin {"selector", "rules"} THEN {This} ELSE {}]
    /\ rulesUsed = [c \in Code!Contexts |->
         {src.funs.home[x] : x \in {y \in compiled[c] : y \in src.funs.fires}}
           \cup IF c = "create" /\ Late THEN src.funs.constructorFires ELSE {}]

(* Only the rules themselves place the label, and what is compiled pushes  *)
(* the label of its own contract.                                          *)
LEMMA FiredStep ==
    ASSUME FiredInv, Code!Next, src' = src
    PROVE  FiredInv'
  <1>1. CASE Code!AppendSelector
    BY <1>1 DEF FiredInv, Code!AppendSelector, Late
  <1>2. CASE Code!AppendRules
    BY <1>2 DEF FiredInv, Code!AppendRules, Late, Code!Contexts
  <1>3. CASE Code!AppendConstructor
    <2>1. /\ compiled' = compiled /\ rulesPlaced' = rulesPlaced
          /\ rulesUsed' = [rulesUsed EXCEPT !["create"] = @ \cup src.funs.constructorFires]
          /\ phase = "constructor" /\ phase' = "creation"
      BY <1>3 DEF Code!AppendConstructor, Code!Fires
    <2>2. ~Late /\ Late' /\ Code!Contexts = {"run", "create"}
      BY <2>1 DEF Late, Code!Contexts
    <2> DEFINE used(c) == {src.funs.home[x] : x \in {y \in compiled[c] : y \in src.funs.fires}}
    <2>3. rulesUsed = [c \in Code!Contexts |-> used(c)]
      <3>1. rulesUsed = [c \in Code!Contexts |-> used(c) \cup {}]
        BY <2>2 DEF FiredInv
      <3> HIDE DEF used
      <3> QED
        BY <3>1
    <2> HIDE DEF used
    <2>4. rulesUsed' = [c \in Code!Contexts |->
            used(c) \cup IF c = "create" THEN src.funs.constructorFires ELSE {}]
      BY <2>1, <2>2, <2>3
    <2>5. rulesPlaced' = [c \in Code!Contexts |->
            IF c = "run" /\ phase' \notin {"selector", "rules"} THEN {This} ELSE {}]
      BY <2>1 DEF FiredInv
    <2>6. rulesUsed' = [c \in Code!Contexts |->
            used(c)' \cup IF c = "create" /\ Late' THEN src.funs.constructorFires ELSE {}]
      <3>1. \A c : used(c)' = used(c)
        BY <2>1 DEF used
      <3> QED
        BY <2>2, <2>4, <3>1
    <2> QED
      BY <2>1, <2>5, <2>6 DEF FiredInv, used, Code!Contexts
  <1>4. CASE Code!CompileFunction
    <2> DEFINE c == Code!Context
               fun == Head(Code!Waiting(c))
               fired(d) == {y \in compiled[d] : y \in src.funs.fires}
    <2>1. /\ c \in Code!Contexts
          /\ compiled' = [compiled EXCEPT ![c] = compiled[c] \cup {fun}]
          /\ rulesUsed' = [rulesUsed EXCEPT ![c] = @ \cup Code!FiredBy(fun)]
          /\ phase' = phase /\ rulesPlaced' = rulesPlaced
      BY <1>4 DEF Code!CompileFunction, Code!StartFunction, Code!Fires, Code!Context, Code!Contexts
    <2> HIDE DEF c, fun
    <2>2. \A d \in Code!Contexts \ {c} : compiled'[d] = compiled[d] /\ rulesUsed'[d] = rulesUsed[d]
      BY <2>1 DEF FiredInv
    <2>3. /\ compiled'[c] = compiled[c] \cup {fun}
          /\ rulesUsed'[c] = rulesUsed[c] \cup Code!FiredBy(fun)
      BY <2>1 DEF FiredInv
    <2>4. {src.funs.home[x] : x \in {y \in compiled'[c] : y \in src.funs.fires}}
            = {src.funs.home[x] : x \in fired(c)} \cup Code!FiredBy(fun)
      BY <2>3 DEF Code!FiredBy
    <2>5. (Late' <=> Late)
      BY <2>1 DEF Late
    <2>6. ASSUME NEW d \in Code!Contexts
          PROVE  rulesUsed'[d] = {src.funs.home[x] : x \in {y \in compiled'[d] : y \in src.funs.fires}}
                   \cup IF d = "create" /\ Late THEN src.funs.constructorFires ELSE {}
      <3>1. rulesUsed[d] = {src.funs.home[x] : x \in fired(d)}
                   \cup IF d = "create" /\ Late THEN src.funs.constructorFires ELSE {}
        BY DEF FiredInv
      <3> HIDE DEF fired
      <3>2. CASE d = c
        BY <2>3, <2>4, <3>1, <3>2
      <3>3. CASE d # c
        BY <2>2, <3>1, <3>3 DEF fired
      <3> QED
        BY <3>2, <3>3
    <2>7. DOMAIN rulesUsed' = Code!Contexts /\ DOMAIN compiled' = Code!Contexts
      BY <2>1 DEF FiredInv
    <2>8. rulesUsed' = [d \in Code!Contexts |-> rulesUsed'[d]]
      BY <2>1, <2>7 DEF FiredInv
    <2>9. rulesUsed' = [d \in Code!Contexts |->
            {src.funs.home[x] : x \in {y \in compiled'[d] : y \in src.funs.fires}}
              \cup IF d = "create" /\ Late THEN src.funs.constructorFires ELSE {}]
      BY <2>6, <2>8
    <2>10. rulesPlaced' = [d \in Code!Contexts |->
            IF d = "run" /\ phase' \notin {"selector", "rules"} THEN {This} ELSE {}]
      BY <2>1 DEF FiredInv
    <2>11. rulesUsed' = [d \in Code!Contexts |->
            {src.funs.home[x] : x \in {y \in compiled'[d] : y \in src.funs.fires}}
              \cup IF d = "create" /\ Late' THEN src.funs.constructorFires ELSE {}]
      BY <2>5, <2>9
    <2> QED
      BY <2>7, <2>10, <2>11 DEF FiredInv, Code!Contexts
  <1>5. CASE Code!QueueEmpty
    <2>1. /\ compiled' = compiled /\ rulesUsed' = rulesUsed /\ rulesPlaced' = rulesPlaced
          /\ phase \in {"runtime", "creation", "runtime again"}
          /\ phase' = Code!After(phase)
      BY <1>5 DEF Code!QueueEmpty, Code!Appending
    <2>2. /\ phase \notin {"selector", "rules"} /\ phase' \notin {"selector", "rules"}
          /\ (Late' <=> Late)
      <3>1. CASE phase = "runtime"
        BY <2>1, <3>1 DEF Code!After, Late
      <3>2. CASE phase = "creation"
        <4>1. phase' = "runtime again"
          BY <2>1, <3>2 DEF Code!After
        <4> QED
          BY <3>2, <4>1 DEF Late
      <3>3. CASE phase = "runtime again"
        <4>1. phase' = "done"
          BY <2>1, <3>3 DEF Code!After
        <4> QED
          BY <3>3, <4>1 DEF Late
      <3> QED
        BY <2>1, <3>1, <3>2, <3>3
    <2> QED
      BY <2>1, <2>2 DEF FiredInv, Code!Contexts
  <1> QED
    BY <1>1, <1>2, <1>3, <1>4, <1>5 DEF Code!Next

(* Throughout, the label of the rules is pushed and placed where it says.  *)
THEOREM FiredCorrect == PhasesSpec => []FiredInv
  <1>1. ASSUME PhasesInit PROVE FiredInv
    BY <1>1 DEF PhasesInit, Code!Init, FiredInv, Late
  <1>2. ASSUME FiredInv, [PhasesNext]_phaseVars PROVE FiredInv'
    <2>1. ASSUME src' = src, UNCHANGED codeVars PROVE FiredInv'
      BY <1>2, <2>1 DEF codeVars, FiredInv, Late, Code!Contexts
    <2>2. CASE ResolveRules
      BY <2>1, <2>2 DEF ResolveRules
    <2>3. CASE GenerateCode
      BY <1>2, <2>3, FiredStep DEF GenerateCode
    <2>4. CASE RunNetwork
      BY <2>1, <2>4 DEF RunNetwork
    <2>5. CASE UNCHANGED phaseVars
      BY <2>1, <2>5 DEF phaseVars
    <2> QED
      BY <1>2, <2>2, <2>3, <2>4, <2>5 DEF PhasesNext
  <1> QED
    BY <1>1, <1>2, PTL DEF PhasesSpec

(* When the contract is compiled, every entry label of a function some     *)
(* code refers to has exactly one place in its assembly, code was emitted  *)
(* for exactly the functions something reaches in a context, and the label *)
(* of the rules lacks a place exactly where creation code or an inherited  *)
(* function fires them; at every moment before, only functions that        *)
(* something reaches in a context have been compiled in it.                *)
THEOREM LabelsCorrect == PhasesSpec => []LabelsPlacedOnce
  <1>1. ASSUME CodeInv, FiredInv PROVE LabelsPlacedOnce
    <2>1. Range(<<>>) = {}
      BY DEF Range
    <2>2. ASSUME phase = "done", NEW c \in Code!Contexts
          PROVE  labels[c] = compiled[c]
      <3>1. ContextInv(c) /\ queue[c] = <<>>
        BY <1>1, <2>2 DEF CodeInv, Drained, Code!Contexts
      <3> QED
        BY <2>1, <3>1 DEF ContextInv
    <2>3. ASSUME phase = "done", NEW c \in Code!Contexts, NEW x \in labels[c]
          PROVE  placed[c][x] = 1
      <3>1. ContextInv(c)
        BY <1>1 DEF CodeInv
      <3> QED
        BY <2>2, <2>3, <3>1 DEF ContextInv
    <2>4. ASSUME NEW c \in Code!Contexts
          PROVE  compiled[c] \subseteq Code!Reachable(c) /\ compiled[c] \in SUBSET Funcs
      BY <1>1 DEF CodeInv, ContextInv
    <2>5. ASSUME phase = "done"
          PROVE  /\ Code!Reachable("create") \subseteq compiled["create"]
                 /\ Code!Reachable("run") \subseteq compiled["run"]
      <3>1. "run" \in Code!Contexts /\ "create" \in Code!Contexts /\ src \in Sources
        BY <1>1 DEF Code!Contexts, CodeInv
      <3>2. ASSUME NEW c \in Code!Contexts
            PROVE  /\ RootsSoFar(c) \subseteq compiled[c]
                   /\ \A x \in compiled[c], d \in Code!Contexts : Code!Asked(c, d, x) \subseteq compiled[d]
        <4>1. \A d \in Code!Contexts : labels[d] = compiled[d]
          BY <2>2, <2>5
        <4> QED
          BY <1>1, <4>1 DEF CodeInv, Labelled
      <3>3. ASSUME NEW c \in Code!Contexts
            PROVE  Code!Closed(compiled[c])
        <4>1. \A x : Code!Asked(c, c, x) = src.funs.calls[x] \cup src.funs.points[x]
          BY DEF Code!Asked
        <4> QED
          BY <3>2, <4>1 DEF Code!Closed
      <3>4. ASSUME NEW c \in Code!Contexts, Roots(c) \subseteq compiled[c]
            PROVE  Code!Reachable(c) \subseteq compiled[c]
        <4>1. Roots(c) \in SUBSET Funcs /\ Code!Reachable(c) = Code!Reach(Roots(c))
          BY <3>1, RootsReached
        <4>2. compiled[c] \in SUBSET Funcs
          BY <2>4
        <4> HIDE DEF Roots
        <4> QED
          BY <3>1, <3>3, <3>4, <4>1, <4>2, ReachClosed
      <3>5. Code!Reachable("create") \subseteq compiled["create"]
        <4>1. Roots("create") = RootsSoFar("create")
          BY <2>5 DEF Roots, RootsSoFar, Late
        <4> QED
          BY <3>1, <3>2, <3>4, <4>1
      <3>6. Roots("run") \subseteq compiled["run"]
        <4>1. RootsSoFar("run") = src.funs.public \cup src.funs.then \cup src.funs.pointers
          BY <2>5 DEF RootsSoFar, Late
        <4>2. \A x \in compiled["create"] : src.funs.points[x] \subseteq compiled["run"]
          <5>1. \A x : Code!Asked("create", "run", x) = src.funs.points[x]
            BY DEF Code!Asked
          <5> QED
            BY <3>1, <3>2, <5>1
        <4>3. Code!Created \subseteq compiled["create"]
          BY <3>5 DEF Code!Reachable
        <4>4. Code!Pointed \subseteq compiled["run"]
          BY <3>1, <3>2, <4>1, <4>2, <4>3 DEF Code!Pointed
        <4> QED
          BY <3>1, <3>2, <4>1, <4>4 DEF Roots
      <3> QED
        BY <3>1, <3>4, <3>5, <3>6
    <2>6. Code!OnlyReachable
      <3>1. ASSUME NEW c \in Code!Contexts, phase = "done"
            PROVE  compiled[c] = Code!Reachable(c)
        <4>1. c = "run" \/ c = "create"
          BY DEF Code!Contexts
        <4> QED
          BY <2>4, <2>5, <3>1, <4>1
      <3> QED
        BY <2>4, <3>1 DEF Code!OnlyReachable
    <2>7. Code!RulesLabelFound
      <3> SUFFICES ASSUME phase = "done", NEW c \in Code!Contexts
                   PROVE  rulesUsed[c] \subseteq rulesPlaced[c] <=> ~Code!FiresAway(c)
        BY DEF Code!RulesLabelFound
      <3> DEFINE fired == {y \in compiled[c] : y \in src.funs.fires}
                 used == {src.funs.home[x] : x \in fired}
      <3>1. Late
        BY DEF Late
      <3>2. CASE c = "run"
        <4>1. rulesUsed[c] = used /\ rulesPlaced[c] = {This}
          BY <1>1, <3>2 DEF FiredInv
        <4>2. used \subseteq {This} <=> \A x \in fired : src.funs.home[x] = This
          OBVIOUS
        <4>3. Code!FiresAway(c) <=> \E x \in fired : src.funs.home[x] # This
          BY <3>2 DEF Code!FiresAway
        <4> QED
          BY <4>1, <4>2, <4>3
      <3>3. CASE c = "create"
        <4>1. rulesUsed[c] = used \cup src.funs.constructorFires /\ rulesPlaced[c] = {}
          BY <1>1, <3>1, <3>3 DEF FiredInv
        <4>2. used = {} <=> fired = {}
          OBVIOUS
        <4>3. Code!FiresAway(c) <=> fired # {} \/ src.funs.constructorFires # {}
          BY <3>3 DEF Code!FiresAway
        <4> QED
          BY <4>1, <4>2, <4>3
      <3> QED
        BY <3>2, <3>3 DEF Code!Contexts
    <2> QED
      BY <2>3, <2>6, <2>7 DEF LabelsPlacedOnce, Code!LabelsPlacedOnce
  <1> QED
    BY <1>1, CodeCorrect, FiredCorrect, PTL

-----------------------------------------------------------------------------
(* Rules.  All of this is about contracts in which bases come first; the   *)
(* rules up to the one being visited are in the table, those before it in  *)
(* its copy, and have the facts of their ancestors.                        *)

TableOf(t, k) ==
    /\ t \in [Names -> 0..k]
    /\ \A i \in 1..k : t[src.rules[i].name] = i
    /\ \A n \in Names : t[n] # 0 => src.rules[t[n]].name = n

ListOf(i, f) == f \in Seq(DOMAIN src.rules) /\ f # <<>> /\ f[Len(f)] = i

Complete(i, f) ==
    /\ Range(f) = Bases!Lineage(i)
    /\ Bases!BaseRules(i) = {} => f = <<i>>
    /\ \A j \in Bases!BaseRules(i) : Bases!BaseRules(j) = {} => f = <<j, i>>

(* On the walk to the bases of rule i, b coming next.                      *)
HalfWay(i, b, f) ==
    /\ b \in 1..(i - 1)
    /\ b \in Bases!Lineage(i)
    /\ \/ f = <<i>> /\ b \in Bases!BaseRules(i)
       \/ /\ Range(f) = Bases!Lineage(i)
          /\ \E j \in Bases!BaseRules(i) : Bases!BaseRules(j) # {}

ResolvedInv ==
    /\ cur \in 0..Len(src.rules)
    /\ TableOf(table, cur)
    /\ TableOf(copied, IF cur = 0 THEN 0 ELSE cur - 1)
    /\ DOMAIN facts = DOMAIN src.rules
    /\ \A i \in DOMAIN src.rules : ListOf(i, facts[i])
    /\ \A i \in DOMAIN src.rules : i > cur => facts[i] = <<i>>
    /\ \A i \in DOMAIN src.rules : i < cur => Complete(i, facts[i])
    /\ base = 0 /\ cur # 0 => Complete(cur, facts[cur])
    /\ base # 0 => cur # 0 /\ HalfWay(cur, base, facts[cur])

RulesInv ==
    /\ src \in Sources
    /\ Bases!BasesFirst => ResolvedInv

(* Which rules are whose bases does not change.                            *)
LEMMA SameLineage ==
    ASSUME src' = src
    PROVE  /\ Bases!BasesFirst' <=> Bases!BasesFirst
           /\ \A i : Bases!BaseRules(i)' = Bases!BaseRules(i)
           /\ \A i : Bases!Lineage(i)' = Bases!Lineage(i)
  <1>1. Bases!BasesFirst' <=> Bases!BasesFirst
    BY DEF Bases!BasesFirst, Bases!BaseRules, Bases!Declared
  <1>2. \A i : Bases!BaseRules(i)' = Bases!BaseRules(i)
    BY DEF Bases!BaseRules, Bases!Declared
  <1>3. \A i : Bases!Lineage(i)' = Bases!Lineage(i)
    BY <1>2 DEF Bases!Lineage
  <1> QED
    BY <1>1, <1>2, <1>3

(* A rule is of its own lineage, and so are the bases of those that are.   *)
LEMMA LineageClosed ==
    ASSUME NEW i \in DOMAIN src.rules
    PROVE  /\ i \in Bases!Lineage(i)
           /\ Bases!Lineage(i) \subseteq DOMAIN src.rules
           /\ \A k \in Bases!Lineage(i) : Bases!BaseRules(k) \subseteq Bases!Lineage(i)
  <1>1. i \in Bases!Lineage(i) /\ Bases!Lineage(i) \subseteq DOMAIN src.rules
    BY DEF Bases!Lineage
  <1>2. ASSUME NEW k \in Bases!Lineage(i), NEW j \in Bases!BaseRules(k)
        PROVE  j \in Bases!Lineage(i)
    <2>1. j \in DOMAIN src.rules
      BY DEF Bases!BaseRules, Bases!Declared
    <2>2. ASSUME NEW S \in SUBSET DOMAIN src.rules, i \in S,
                 \A l \in S : Bases!BaseRules(l) \subseteq S
          PROVE  j \in S
      <3>1. k \in S
        BY <2>2 DEF Bases!Lineage
      <3> QED
        BY <2>2, <3>1
    <2> QED
      BY <2>1, <2>2 DEF Bases!Lineage
  <1> QED
    BY <1>1, <1>2

(* The lineage is the least such set.                                      *)
LEMMA LineageLeast ==
    ASSUME NEW i \in DOMAIN src.rules, NEW S \in SUBSET DOMAIN src.rules, i \in S,
           \A k \in S : Bases!BaseRules(k) \subseteq S
    PROVE  Bases!Lineage(i) \subseteq S
  BY DEF Bases!Lineage

(* The lineage of an ancestor is part of that of the rule.                 *)
LEMMA LineageOfAncestor ==
    ASSUME NEW i \in DOMAIN src.rules, NEW k \in Bases!Lineage(i)
    PROVE  k \in DOMAIN src.rules /\ Bases!Lineage(k) \subseteq Bases!Lineage(i)
  <1>1. k \in DOMAIN src.rules
    BY LineageClosed
  <1> DEFINE S == Bases!Lineage(i)
  <1>2. S \in SUBSET DOMAIN src.rules /\ k \in S /\ \A l \in S : Bases!BaseRules(l) \subseteq S
    BY LineageClosed
  <1> HIDE DEF S
  <1>3. Bases!Lineage(k) \subseteq S
    BY <1>1, <1>2, LineageLeast
  <1> QED
    BY <1>1, <1>3 DEF S

(* The lineage of a rule that extends nothing, and of one with one base.   *)
LEMMA LineageOfRule ==
    ASSUME NEW i \in DOMAIN src.rules
    PROVE  /\ Bases!BaseRules(i) = {} => Bases!Lineage(i) = {i}
           /\ \A j : Bases!BaseRules(i) = {j} => Bases!Lineage(i) = {i} \cup Bases!Lineage(j)
  <1>1. i \in Bases!Lineage(i) /\ Bases!BaseRules(i) \subseteq Bases!Lineage(i)
    BY LineageClosed
  <1>2. ASSUME Bases!BaseRules(i) = {}
        PROVE  Bases!Lineage(i) = {i}
    <2> DEFINE S == {i}
    <2>1. S \in SUBSET DOMAIN src.rules /\ i \in S /\ \A k \in S : Bases!BaseRules(k) \subseteq S
      BY <1>2
    <2> HIDE DEF S
    <2>2. Bases!Lineage(i) \subseteq S
      BY <2>1, LineageLeast
    <2> QED
      BY <1>1, <2>2 DEF S
  <1>3. ASSUME NEW j, Bases!BaseRules(i) = {j}
        PROVE  Bases!Lineage(i) = {i} \cup Bases!Lineage(j)
    <2> DEFINE S == {i} \cup Bases!Lineage(j)
    <2>1. j \in Bases!Lineage(i) /\ j \in DOMAIN src.rules
      BY <1>1, <1>3 DEF Bases!BaseRules, Bases!Declared
    <2>2. Bases!Lineage(j) \subseteq Bases!Lineage(i)
      BY <2>1, LineageOfAncestor
    <2>3. S \in SUBSET DOMAIN src.rules /\ i \in S
      BY <2>1, LineageClosed
    <2>4. \A k \in S : Bases!BaseRules(k) \subseteq S
      BY <1>3, <2>1, LineageClosed
    <2> HIDE DEF S
    <2>5. Bases!Lineage(i) \subseteq S
      BY <2>3, <2>4, LineageLeast
    <2> QED
      BY <1>1, <2>2, <2>5 DEF S
  <1> QED
    BY <1>2, <1>3

(* Where bases come first, the table finds the base of a rule, whatever    *)
(* the rule is called.                                                     *)
LEMMA BaseFound ==
    ASSUME src \in Sources, Bases!BasesFirst,
           NEW k \in 0..Len(src.rules), NEW t, TableOf(t, k),
           NEW i \in DOMAIN src.rules, i <= k + 1
    PROVE  LET b == Bases!Lookup(t, src.rules[i].base) IN
           \/ b = 0 /\ Bases!BaseRules(i) = {}
           \/ b \in 1..(i - 1) /\ Bases!BaseRules(i) = {b}
  <1> DEFINE n == src.rules[i].base
             b == Bases!Lookup(t, n)
  <1>1. /\ Len(src.rules) \in Nat /\ DOMAIN src.rules = 1..Len(src.rules)
        /\ \A j \in DOMAIN src.rules : src.rules[j].name \in Names
    BY RulesAssumption
  <1>2. Bases!BaseRules(i) = {j \in DOMAIN src.rules : src.rules[j].name = n}
    BY DEF Bases!BaseRules, Bases!Declared
  <1>3. b = IF n \in Names THEN t[n] ELSE 0
    BY DEF Bases!Lookup
  <1> HIDE DEF b, n
  <1>4. ASSUME NEW j \in Bases!BaseRules(i)
        PROVE  j \in 1..(i - 1) /\ b = j
    <2>1. j < i /\ j \in 1..Len(src.rules) /\ src.rules[j].name = n
      BY <1>1, <1>2 DEF Bases!BasesFirst
    <2>2. j \in 1..k
      BY <1>1, <2>1
    <2>3. n \in Names /\ t[n] = j
      BY <1>1, <2>1, <2>2 DEF TableOf
    <2> QED
      BY <1>1, <1>3, <2>1, <2>3
  <1>5. ASSUME b # 0
        PROVE  b \in Bases!BaseRules(i)
    <2>1. n \in Names /\ b = t[n]
      BY <1>3, <1>5
    <2>2. b \in 0..k /\ src.rules[b].name = n
      BY <1>5, <2>1 DEF TableOf
    <2>3. b \in DOMAIN src.rules
      BY <1>1, <1>5, <2>2
    <2> QED
      BY <1>2, <2>2, <2>3
  <1>6. CASE b = 0
    <2>1. Bases!BaseRules(i) = {}
      BY <1>1, <1>4, <1>6
    <2> QED
      BY <1>6, <2>1 DEF b, n
  <1>7. CASE b # 0
    <2>1. b \in 1..(i - 1) /\ Bases!BaseRules(i) = {b}
      BY <1>4, <1>5, <1>7
    <2> QED
      BY <2>1 DEF b, n
  <1> QED
    BY <1>6, <1>7

(* A rule enters the table.                                                *)
LEMMA RuleEntered ==
    ASSUME src \in Sources, Bases!BasesFirst, NEW k \in Nat, k + 1 \in DOMAIN src.rules,
           NEW t, TableOf(t, k)
    PROVE  TableOf([t EXCEPT ![src.rules[k + 1].name] = k + 1], k + 1)
  <1> DEFINE n == src.rules[k + 1].name
             u == [t EXCEPT ![n] = k + 1]
  <1>1. /\ Len(src.rules) \in Nat /\ DOMAIN src.rules = 1..Len(src.rules)
        /\ \A j \in DOMAIN src.rules : src.rules[j].name \in Names
    BY RulesAssumption
  <1>2. n \in Names /\ t \in [Names -> 0..k]
    BY <1>1 DEF TableOf
  <1>3. u \in [Names -> 0..(k + 1)]
    <2>1. k + 1 \in 0..(k + 1) /\ \A x \in 0..k : x \in 0..(k + 1)
      OBVIOUS
    <2> QED
      BY <1>2, <2>1
  <1>4. ASSUME NEW i \in 1..(k + 1)
        PROVE  u[src.rules[i].name] = i
    <2>1. i \in DOMAIN src.rules /\ src.rules[i].name \in Names
      BY <1>1
    <2>2. CASE i = k + 1
      BY <1>2, <2>2
    <2>3. CASE i # k + 1
      <3>1. i \in 1..k /\ src.rules[i].name # n
        BY <2>1, <2>3 DEF Bases!BasesFirst
      <3> QED
        BY <1>2, <2>1, <3>1 DEF TableOf
    <2> QED
      BY <2>2, <2>3
  <1>5. ASSUME NEW m \in Names, u[m] # 0
        PROVE  src.rules[u[m]].name = m
    <2>1. CASE m = n
      BY <1>2, <2>1
    <2>2. CASE m # n
      BY <1>2, <1>5, <2>2 DEF TableOf
    <2> QED
      BY <2>1, <2>2
  <1> QED
    BY <1>3, <1>4, <1>5 DEF TableOf

(* The facts of a rule of its own.                                         *)
LEMMA OneFact ==
    ASSUME NEW i \in DOMAIN src.rules
    PROVE  ListOf(i, <<i>>) /\ Range(<<i>>) = {i}
  <1>1. PICK D : D = DOMAIN src.rules
    OBVIOUS
  <1>2. <<i>> \in Seq(D) /\ <<i>> # <<>>
    BY <1>1, ShortSequences
  <1>3. Len(<<i>>) = 1 /\ <<i>>[1] = i
    OBVIOUS
  <1>4. Range(<<i>>) = {i}
    BY DEF Range
  <1> QED
    BY <1>1, <1>2, <1>3, <1>4 DEF ListOf

(* A visit begins: the rule is complete if it extends nothing.             *)
LEMMA WalkBegins ==
    ASSUME NEW i \in DOMAIN src.rules, NEW b,
           \/ b = 0 /\ Bases!BaseRules(i) = {}
           \/ b \in 1..(i - 1) /\ Bases!BaseRules(i) = {b}
    PROVE  /\ b = 0 => Complete(i, <<i>>)
           /\ b # 0 => HalfWay(i, b, <<i>>)
  <1>1. ASSUME b = 0
        PROVE  Complete(i, <<i>>)
    <2>1. Bases!BaseRules(i) = {}
      BY <1>1
    <2> QED
      BY <2>1, LineageOfRule, OneFact DEF Complete
  <1>2. ASSUME b # 0
        PROVE  HalfWay(i, b, <<i>>)
    <2>1. b \in 1..(i - 1) /\ b \in Bases!BaseRules(i)
      BY <1>2
    <2> QED
      BY <2>1, LineageClosed DEF HalfWay
  <1> QED
    BY <1>1, <1>2

(* A step of the walk: the facts of ancestor b go in front of those of i,  *)
(* and n, the base of b, comes next.                                       *)
LEMMA WalkGoesOn ==
    ASSUME src \in Sources, Bases!BasesFirst,
           NEW i \in DOMAIN src.rules, NEW b, NEW f, NEW g, NEW n,
           ListOf(i, f), ListOf(b, g), HalfWay(i, b, f), Complete(b, g),
           \/ n = 0 /\ Bases!BaseRules(b) = {}
           \/ n \in 1..(b - 1) /\ Bases!BaseRules(b) = {n}
    PROVE  /\ ListOf(i, g \o f)
           /\ n = 0 => Complete(i, g \o f)
           /\ n # 0 => HalfWay(i, n, g \o f)
  <1>1. /\ Len(src.rules) \in Nat /\ DOMAIN src.rules = 1..Len(src.rules)
        /\ i \in Nat /\ b \in 1..(i - 1) /\ b \in DOMAIN src.rules
    BY RulesAssumption DEF HalfWay
  <1>2. /\ f \in Seq(DOMAIN src.rules) /\ f # <<>> /\ f[Len(f)] = i
        /\ g \in Seq(DOMAIN src.rules)
    BY DEF ListOf
  <1> DEFINE h == g \o f
  <1>3. /\ h \in Seq(DOMAIN src.rules) /\ Range(h) = Range(g) \cup Range(f)
        /\ Len(h) = Len(g) + Len(f)
        /\ \A x \in 1..(Len(g) + Len(f)) :
              h[x] = IF x <= Len(g) THEN g[x] ELSE f[x - Len(g)]
    BY <1>2, RangeOfBoth, ConcatProperties
  <1>4. Len(f) \in Nat \ {0} /\ Len(g) \in Nat
    BY <1>2, EmptySeq, LenProperties
  <1> HIDE DEF h
  <1>5. h # <<>> /\ h[Len(h)] = i
    <2>1. Len(h) \in 1..(Len(g) + Len(f)) /\ ~ (Len(h) <= Len(g)) /\ Len(h) - Len(g) = Len(f)
      BY <1>3, <1>4
    <2>2. h[Len(h)] = f[Len(f)]
      BY <1>3, <2>1
    <2>3. Len(h) # 0
      BY <1>3, <1>4
    <2> QED
      BY <1>2, <2>2, <2>3, EmptySeq
  <1>6. ListOf(i, h)
    BY <1>3, <1>5 DEF ListOf
  <1>7. \A j \in Bases!BaseRules(i) : Bases!BaseRules(i) = {j}
    BY DEF Bases!BasesFirst, Bases!BaseRules, Bases!Declared
  <1>8. Range(g) = Bases!Lineage(b)
    BY DEF Complete
  <1>9. Bases!Lineage(b) \subseteq Bases!Lineage(i) /\ b \in Bases!Lineage(i)
    BY LineageOfAncestor DEF HalfWay
  <1>10. Range(h) = Bases!Lineage(i)
    <2>1. CASE f = <<i>> /\ b \in Bases!BaseRules(i)
      <3>1. Bases!Lineage(i) = {i} \cup Bases!Lineage(b)
        BY <1>7, <2>1, LineageOfRule
      <3> QED
        BY <1>3, <1>8, <2>1, <3>1, OneFact
    <2>2. CASE Range(f) = Bases!Lineage(i)
      BY <1>3, <1>8, <1>9, <2>2
    <2> QED
      BY <2>1, <2>2 DEF HalfWay
  <1>11. ASSUME n = 0
         PROVE  Complete(i, h)
    <2>1. Bases!BaseRules(b) = {}
      BY <1>1, <1>11
    <2>2. g = <<b>>
      BY <2>1 DEF Complete
    <2>3. CASE f = <<i>> /\ b \in Bases!BaseRules(i)
      <3>1. h = <<b, i>>
        <4>1. h = <<b>> \o <<i>>
          BY <2>2, <2>3 DEF h
        <4>2. i \in DOMAIN src.rules /\ b \in DOMAIN src.rules
          BY <1>1
        <4> QED
          BY <4>1, <4>2, ShortSequences
      <3>2. Bases!BaseRules(i) = {b}
        BY <1>7, <2>3
      <3> QED
        BY <1>10, <3>1, <3>2 DEF Complete
    <2>4. CASE \E j \in Bases!BaseRules(i) : Bases!BaseRules(j) # {}
      BY <1>7, <1>10, <2>4 DEF Complete
    <2> QED
      BY <2>3, <2>4 DEF HalfWay
  <1>12. ASSUME n # 0
         PROVE  HalfWay(i, n, h)
    <2>1. n \in 1..(b - 1) /\ Bases!BaseRules(b) = {n}
      BY <1>12
    <2>2. n \in 1..(i - 1)
      BY <1>1, <2>1
    <2>3. n \in Bases!Lineage(i)
      BY <1>9, <2>1, LineageClosed
    <2>4. \E j \in Bases!BaseRules(i) : Bases!BaseRules(j) # {}
      <3>1. CASE b \in Bases!BaseRules(i)
        BY <2>1, <3>1
      <3> QED
        BY <3>1 DEF HalfWay
    <2> QED
      BY <1>10, <2>2, <2>3, <2>4 DEF HalfWay
  <1> QED
    BY <1>6, <1>11, <1>12 DEF h

(* RuleInheritanceResolver visits a rule.                                  *)
LEMMA RuleVisited ==
    ASSUME src \in Sources, Bases!BasesFirst, ResolvedInv, Bases!Visit, src' = src
    PROVE  ResolvedInv'
  <1>1. PICK k, i : k = cur /\ i = k + 1
    OBVIOUS
  <1>2. /\ Len(src.rules) \in Nat /\ DOMAIN src.rules = 1..Len(src.rules)
        /\ k \in 0..Len(src.rules) /\ k < Len(src.rules) /\ base = 0
        /\ cur' = i /\ copied' = table /\ facts' = facts
        /\ table' = [table EXCEPT ![src.rules[i].name] = i]
        /\ base' = Bases!Lookup(table, src.rules[i].base)
    BY <1>1, RulesAssumption DEF ResolvedInv, Bases!Visit
  <1>3. i \in DOMAIN src.rules /\ i \in Nat /\ i # 0 /\ i <= k + 1
    BY <1>1, <1>2
  <1>4. PICK t, u, b : t = table /\ u = table' /\ b = base'
    OBVIOUS
  <1>5. TableOf(t, k)
    BY <1>1, <1>4 DEF ResolvedInv, TableOf
  <1>6. TableOf(u, i)
    <2>1. k \in Nat /\ k + 1 \in DOMAIN src.rules
      BY <1>1, <1>2, <1>3
    <2>2. TableOf([t EXCEPT ![src.rules[k + 1].name] = k + 1], k + 1)
      BY <1>5, <2>1, RuleEntered
    <2>3. u = [t EXCEPT ![src.rules[k + 1].name] = k + 1]
      BY <1>1, <1>2, <1>4
    <2> QED
      BY <1>1, <2>2, <2>3
  <1>7. \/ b = 0 /\ Bases!BaseRules(i) = {}
        \/ b \in 1..(i - 1) /\ Bases!BaseRules(i) = {b}
    BY <1>2, <1>3, <1>4, <1>5, BaseFound
  <1>8. facts[i] = <<i>>
    BY <1>1, <1>2, <1>3 DEF ResolvedInv
  <1>9. /\ b = 0 => Complete(i, <<i>>)
        /\ b # 0 => HalfWay(i, b, <<i>>)
    BY <1>3, <1>7, WalkBegins
  <1>10. /\ \A j : Bases!BaseRules(j)' = Bases!BaseRules(j)
         /\ \A j : Bases!Lineage(j)' = Bases!Lineage(j)
    BY SameLineage
  <1>11. TableOf(table, cur)' /\ TableOf(copied, IF cur = 0 THEN 0 ELSE cur - 1)'
    <2>1. (IF cur' = 0 THEN 0 ELSE cur' - 1) = k
      BY <1>1, <1>2
    <2>2. TableOf(table, cur)'
      BY <1>2, <1>4, <1>6 DEF TableOf
    <2>3. TableOf(copied, IF cur = 0 THEN 0 ELSE cur - 1)'
      BY <1>2, <1>4, <1>5, <2>1 DEF TableOf
    <2> QED
      BY <2>2, <2>3
  <1>12. ASSUME NEW j \in DOMAIN src.rules
         PROVE  /\ ListOf(j, facts[j])'
                /\ j > cur' => facts'[j] = <<j>>
                /\ j < cur' => Complete(j, facts[j])'
    <2>1. ListOf(j, facts[j])'
      BY <1>2 DEF ResolvedInv, ListOf
    <2>2. j > cur' => facts'[j] = <<j>>
      BY <1>1, <1>2 DEF ResolvedInv
    <2>3. ASSUME j < cur'
          PROVE  Complete(j, facts[j])'
      <3>1. j < cur \/ (j = cur /\ cur # 0)
        BY <1>1, <1>2, <2>3
      <3>2. Complete(j, facts[j])
        BY <1>2, <3>1 DEF ResolvedInv
      <3> QED
        BY <1>2, <1>10, <3>2 DEF Complete
    <2> QED
      BY <2>1, <2>2, <2>3
  <1>13. base' = 0 => Complete(cur, facts[cur])'
    BY <1>2, <1>4, <1>8, <1>9, <1>10 DEF Complete
  <1>14. base' # 0 => HalfWay(cur, base, facts[cur])'
    BY <1>2, <1>4, <1>8, <1>9, <1>10 DEF HalfWay
  <1>15. cur' \in 0..Len(src.rules) /\ cur' # 0 /\ DOMAIN facts' = DOMAIN src.rules
    BY <1>2, <1>3 DEF ResolvedInv
  <1> QED
    BY <1>11, <1>12, <1>13, <1>14, <1>15 DEF ResolvedInv

(* The walk puts the facts of a base rule in front.                        *)
LEMMA RuleWalked ==
    ASSUME src \in Sources, Bases!BasesFirst, ResolvedInv, Bases!Walk, src' = src
    PROVE  ResolvedInv'
  <1>1. PICK i, b, f, g, n :
            i = cur /\ b = base /\ f = facts[cur] /\ g = facts[base] /\ n = base'
    OBVIOUS
  <1>2. /\ Len(src.rules) \in Nat /\ DOMAIN src.rules = 1..Len(src.rules)
        /\ i \in 0..Len(src.rules) /\ i # 0 /\ b # 0
        /\ cur' = cur /\ copied' = copied /\ table' = table
        /\ facts' = [facts EXCEPT ![i] = g \o f]
        /\ n = Bases!Lookup(copied, src.rules[b].base)
        /\ HalfWay(i, b, f)
    BY <1>1, RulesAssumption
    DEF ResolvedInv, HalfWay, Bases!Walk, Bases!Prepend, Bases!BaseOf
  <1>3. i \in DOMAIN src.rules /\ b \in DOMAIN src.rules /\ b < i
    BY <1>2 DEF HalfWay
  <1>4. PICK t, k : t = copied /\ k = i - 1
    OBVIOUS
  <1>5. TableOf(t, k) /\ k \in 0..Len(src.rules) /\ b <= k + 1
    BY <1>1, <1>2, <1>3, <1>4 DEF ResolvedInv, TableOf
  <1>6. \/ n = 0 /\ Bases!BaseRules(b) = {}
        \/ n \in 1..(b - 1) /\ Bases!BaseRules(b) = {n}
    BY <1>2, <1>3, <1>4, <1>5, BaseFound
  <1>7. ListOf(i, f) /\ ListOf(b, g) /\ Complete(b, g)
    BY <1>1, <1>3 DEF ResolvedInv, ListOf, Complete
  <1>8. /\ ListOf(i, g \o f)
        /\ n = 0 => Complete(i, g \o f)
        /\ n # 0 => HalfWay(i, n, g \o f)
    BY <1>2, <1>3, <1>6, <1>7, WalkGoesOn
  <1>9. PICK h : h = g \o f
    OBVIOUS
  <1>10. /\ \A j : Bases!BaseRules(j)' = Bases!BaseRules(j)
         /\ \A j : Bases!Lineage(j)' = Bases!Lineage(j)
    BY SameLineage
  <1>11. DOMAIN facts = DOMAIN src.rules /\ DOMAIN facts' = DOMAIN src.rules
    BY <1>2 DEF ResolvedInv
  <1>12. facts'[i] = h /\ \A j \in DOMAIN src.rules : j # i => facts'[j] = facts[j]
    BY <1>2, <1>3, <1>9, <1>11
  <1>13. TableOf(table, cur)' /\ TableOf(copied, IF cur = 0 THEN 0 ELSE cur - 1)'
    BY <1>2 DEF ResolvedInv, TableOf
  <1>14. ASSUME NEW j \in DOMAIN src.rules
         PROVE  /\ ListOf(j, facts[j])'
                /\ j > cur' => facts'[j] = <<j>>
                /\ j < cur' => Complete(j, facts[j])'
    <2>1. CASE j = i
      <3>1. ListOf(j, facts[j])'
        BY <1>8, <1>9, <1>12, <2>1 DEF ListOf
      <3> QED
        BY <1>1, <1>2, <2>1, <3>1
    <2>2. CASE j # i
      <3>1. facts'[j] = facts[j]
        BY <1>12, <2>2
      <3>2. ListOf(j, facts[j])'
        BY <3>1 DEF ResolvedInv, ListOf
      <3>3. j > cur' => facts'[j] = <<j>>
        BY <1>2, <3>1 DEF ResolvedInv
      <3>4. j < cur' => Complete(j, facts[j])
        BY <1>2 DEF ResolvedInv
      <3>5. j < cur' => Complete(j, facts[j])'
        BY <1>10, <3>1, <3>4 DEF Complete
      <3> QED
        BY <3>2, <3>3, <3>5
    <2> QED
      BY <2>1, <2>2
  <1>15. base' = 0 => Complete(cur, facts[cur])'
    BY <1>1, <1>2, <1>8, <1>9, <1>10, <1>12 DEF Complete
  <1>16. base' # 0 => HalfWay(cur, base, facts[cur])'
    BY <1>1, <1>2, <1>8, <1>9, <1>10, <1>12 DEF HalfWay
  <1>17. cur' \in 0..Len(src.rules) /\ cur' # 0
    BY <1>1, <1>2
  <1> QED
    BY <1>11, <1>13, <1>14, <1>15, <1>16, <1>17 DEF ResolvedInv

(* Nothing outside the resolution changes what it knows.                   *)
LEMMA RulesKept ==
    ASSUME RulesInv, src' = src, UNCHANGED <<table, copied, facts, cur, base>>
    PROVE  RulesInv'
  <1>1. /\ Bases!BasesFirst' <=> Bases!BasesFirst
        /\ \A j : Bases!BaseRules(j)' = Bases!BaseRules(j)
        /\ \A j : Bases!Lineage(j)' = Bases!Lineage(j)
    BY SameLineage
  <1>2. ASSUME ResolvedInv PROVE ResolvedInv'
    <2>1. TableOf(table, cur)' /\ TableOf(copied, IF cur = 0 THEN 0 ELSE cur - 1)'
      BY <1>2 DEF ResolvedInv, TableOf
    <2>2. ASSUME NEW j \in DOMAIN src.rules
          PROVE  /\ ListOf(j, facts[j])'
                 /\ j > cur' => facts'[j] = <<j>>
                 /\ j < cur' => Complete(j, facts[j])'
      <3>1. ListOf(j, facts[j]) /\ (j > cur => facts[j] = <<j>>)
        BY <1>2 DEF ResolvedInv
      <3>2. j < cur => Complete(j, facts[j])
        BY <1>2 DEF ResolvedInv
      <3>3. j < cur' => Complete(j, facts[j])'
        BY <1>1, <3>2 DEF Complete
      <3> QED
        BY <3>1, <3>3 DEF ListOf
    <2>3. base' = 0 /\ cur' # 0 => Complete(cur, facts[cur])'
      BY <1>1, <1>2 DEF ResolvedInv, Complete
    <2>4. base' # 0 => cur' # 0 /\ HalfWay(cur, base, facts[cur])'
      BY <1>1, <1>2 DEF ResolvedInv, HalfWay
    <2>5. cur' \in 0..Len(src.rules) /\ DOMAIN facts' = DOMAIN src.rules
      BY <1>2 DEF ResolvedInv
    <2> QED
      BY <2>1, <2>2, <2>3, <2>4, <2>5 DEF ResolvedInv
  <1> QED
    BY <1>1, <1>2 DEF RulesInv

(* Before the first visit every rule has its own fact.                     *)
LEMMA RulesAtFirst ==
    ASSUME PhasesInit
    PROVE  RulesInv
  <1>1. /\ src \in Sources
        /\ table = [n \in Names |-> 0] /\ copied = table
        /\ facts = [i \in DOMAIN src.rules |-> <<i>>]
        /\ cur = 0 /\ base = 0
    BY DEF PhasesInit, Bases!Init
  <1>2. Len(src.rules) \in Nat /\ DOMAIN src.rules = 1..Len(src.rules)
    BY <1>1, RulesAssumption
  <1>3. TableOf(table, cur) /\ TableOf(copied, IF cur = 0 THEN 0 ELSE cur - 1)
    BY <1>1 DEF TableOf
  <1>4. ASSUME NEW i \in DOMAIN src.rules
        PROVE  ListOf(i, facts[i]) /\ facts[i] = <<i>> /\ ~ (i < cur)
    <2>1. facts[i] = <<i>>
      BY <1>1
    <2>2. ListOf(i, <<i>>)
      BY OneFact
    <2> QED
      BY <1>1, <1>2, <2>1, <2>2
  <1>5. ResolvedInv
    <2>1. cur \in 0..Len(src.rules) /\ DOMAIN facts = DOMAIN src.rules
      BY <1>1, <1>2
    <2>2. \A i \in DOMAIN src.rules : ListOf(i, facts[i])
      BY <1>4
    <2>3. \A i \in DOMAIN src.rules : i > cur => facts[i] = <<i>>
      BY <1>4
    <2>4. \A i \in DOMAIN src.rules : i < cur => Complete(i, facts[i])
      BY <1>4
    <2>5. cur = 0 /\ base = 0
      BY <1>1
    <2> QED
      BY <1>3, <2>1, <2>2, <2>3, <2>4, <2>5, Zenon DEF ResolvedInv
  <1> QED
    BY <1>1, <1>5 DEF RulesInv

(* Throughout, the rules visited have the facts of their ancestors, if     *)
(* bases come first.                                                       *)
THEOREM RulesCorrect == PhasesSpec => []RulesInv
  <1>1. ASSUME RulesInv, [PhasesNext]_phaseVars PROVE RulesInv'
    <2>1. CASE ResolveRules
      <3>1. src' = src /\ (Bases!Visit \/ Bases!Walk)
        BY <2>1 DEF ResolveRules, Bases!Next
      <3>2. Bases!BasesFirst' <=> Bases!BasesFirst
        BY <3>1, SameLineage
      <3>3. ASSUME Bases!BasesFirst PROVE ResolvedInv'
        BY <1>1, <3>1, <3>3, RuleVisited, RuleWalked DEF RulesInv
      <3> QED
        BY <1>1, <3>1, <3>2, <3>3 DEF RulesInv
    <2>2. CASE GenerateCode
      BY <1>1, <2>2, RulesKept DEF GenerateCode
    <2>3. CASE RunNetwork
      BY <1>1, <2>3, RulesKept DEF RunNetwork
    <2>4. CASE UNCHANGED phaseVars
      BY <1>1, <2>4, RulesKept DEF phaseVars
    <2> QED
      BY <1>1, <2>1, <2>2, <2>3, <2>4 DEF PhasesNext
  <1> QED
    BY <1>1, RulesAtFirst, PTL DEF PhasesSpec

(* When RuleInheritanceResolver is done and every base is declared before  *)
(* the rules that extend it, each rule has the facts of itself and its     *)
(* ancestors and of no other rule, its own last, and exactly those it      *)
(* stands for if its base extends nothing: for any number of rules and any *)
(* depth of inheritance.                                                   *)
THEOREM FactsInherited == PhasesSpec => []ConstraintsKept
  <1>1. ASSUME RulesInv PROVE ConstraintsKept
    <2> SUFFICES ASSUME Bases!Done, Bases!BasesFirst, NEW i \in DOMAIN src.rules
                 PROVE  /\ Bases!Range(facts[i]) = Bases!Lineage(i)
                        /\ facts[i][Len(facts[i])] = i
                        /\ Bases!ExactFacts(i)
      BY DEF ConstraintsKept, Bases!ConstraintsKept, Bases!OneLevelExact
    <2>1. ResolvedInv /\ cur = Len(src.rules) /\ base = 0
      BY <1>1 DEF RulesInv, Bases!Done
    <2>2. i \in 1..Len(src.rules) /\ Len(src.rules) \in Nat
      BY <1>1, RulesAssumption DEF RulesInv
    <2>3. i < cur \/ (i = cur /\ cur # 0)
      BY <2>1, <2>2
    <2>4. Complete(i, facts[i]) /\ ListOf(i, facts[i])
      BY <2>1, <2>3 DEF ResolvedInv
    <2>5. Bases!Range(facts[i]) = Range(facts[i])
      BY DEF Bases!Range, Range
    <2> QED
      BY <2>4, <2>5 DEF Complete, ListOf, Bases!ExactFacts
  <1> QED
    BY <1>1, RulesCorrect, PTL

-----------------------------------------------------------------------------
(* How often a value is in a list.                                         *)

Places(s, x) == {n \in 1..Len(s) : s[n] = x}

Count(s, x) == Cardinality(Places(s, x))

(* There are finitely many places in a list.                               *)
LEMMA CountType ==
    ASSUME NEW T, NEW s \in Seq(T), NEW x
    PROVE  IsFiniteSet(Places(s, x)) /\ Count(s, x) \in Nat
  <1>1. Len(s) \in Nat
    OBVIOUS
  <1>2. IsFiniteSet(1..Len(s))
    BY <1>1, FS_Interval
  <1>3. IsFiniteSet(Places(s, x))
    BY <1>2, FS_Subset DEF Places
  <1> QED
    BY <1>3, FS_CardinalityType DEF Count

(* Nothing is in the empty list.                                           *)
LEMMA CountEmpty ==
    ASSUME NEW x
    PROVE  Count(<<>>, x) = 0
  <1>1. Places(<<>>, x) = {}
    <2>1. Len(<<>>) = 0 /\ 1..0 = {}
      BY EmptySeq
    <2> QED
      BY <2>1 DEF Places
  <1> QED
    BY <1>1, FS_EmptySet DEF Count

(* An element put at the end counts once more.                             *)
LEMMA CountAppend ==
    ASSUME NEW T, NEW s \in Seq(T), NEW e \in T, NEW x
    PROVE  /\ Append(s, e) \in Seq(T)
           /\ Count(Append(s, e), x) = IF e = x THEN Count(s, x) + 1 ELSE Count(s, x)
  <1> DEFINE t == Append(s, e)
  <1>1. /\ t \in Seq(T) /\ Len(s) \in Nat /\ Len(t) = Len(s) + 1
        /\ t[Len(s) + 1] = e
        /\ \A n \in 1..Len(s) : t[n] = s[n]
    OBVIOUS
  <1> HIDE DEF t
  <1>2. IsFiniteSet(Places(s, x)) /\ Count(s, x) \in Nat
    BY CountType
  <1>3. Len(s) + 1 \notin Places(s, x)
    BY <1>1 DEF Places
  <1>4. CASE e = x
    <2>1. Places(t, x) = Places(s, x) \cup {Len(s) + 1}
      BY <1>1, <1>4 DEF Places
    <2>2. Cardinality(Places(t, x)) = Cardinality(Places(s, x)) + 1
      BY <1>2, <1>3, <2>1, FS_AddElement
    <2> QED
      BY <1>1, <1>4, <2>2 DEF Count, t
  <1>5. CASE e # x
    <2>1. Places(t, x) = Places(s, x)
      BY <1>1, <1>5 DEF Places
    <2> QED
      BY <1>1, <1>5, <2>1 DEF Count, t
  <1> QED
    BY <1>4, <1>5

(* A list put behind another adds what it has.                             *)
LEMMA CountBoth ==
    ASSUME NEW T, NEW s \in Seq(T), NEW t \in Seq(T), NEW x
    PROVE  s \o t \in Seq(T) /\ Count(s \o t, x) = Count(s, x) + Count(t, x)
  <1> DEFINE u == s \o t
             A == Places(s, x)
             B == Places(t, x)
             C == {n \in (Len(s) + 1)..(Len(s) + Len(t)) : u[n] = x}
  <1>1. /\ u \in Seq(T) /\ Len(s) \in Nat /\ Len(t) \in Nat
        /\ Len(u) = Len(s) + Len(t)
        /\ \A n \in 1..Len(s) : u[n] = s[n]
        /\ \A n \in 1..Len(t) : u[Len(s) + n] = t[n]
    BY ConcatProperties
  <1> HIDE DEF u
  <1>2. IsFiniteSet(A) /\ IsFiniteSet(B) /\ Cardinality(A) \in Nat /\ Cardinality(B) \in Nat
    BY CountType DEF Count
  <1>3. IsFiniteSet(C) /\ Cardinality(C) = Cardinality(B)
    <2> DEFINE h == [n \in B |-> Len(s) + n]
    <2>1. \A n \in B : n \in 1..Len(t) /\ t[n] = x
      BY DEF Places
    <2>2. \A n \in B : Len(s) + n \in C
      BY <1>1, <2>1
    <2>3. \A m \in C : m - Len(s) \in B /\ Len(s) + (m - Len(s)) = m
      <3> SUFFICES ASSUME NEW m \in C
                   PROVE  m - Len(s) \in B /\ Len(s) + (m - Len(s)) = m
        OBVIOUS
      <3>1. m - Len(s) \in 1..Len(t) /\ Len(s) + (m - Len(s)) = m
        BY <1>1
      <3>2. t[m - Len(s)] = u[Len(s) + (m - Len(s))]
        BY <1>1, <3>1
      <3> QED
        BY <3>1, <3>2 DEF Places
    <2> HIDE DEF B, C
    <2>4. h \in [B -> C]
      BY <2>2
    <2>5. \A n, k \in B : h[n] = h[k] => n = k
      BY <1>1, <2>1
    <2>6. \A m \in C : \E n \in B : h[n] = m
      BY <2>3
    <2> HIDE DEF h
    <2>7. h \in Bijection(B, C)
      BY <2>4, <2>5, <2>6 DEF Bijection, Injection, Surjection, IsInjective
    <2> QED
      BY <1>2, <2>7, FS_Bijection DEF ExistsBijection
  <1>4. Places(u, x) = A \cup C
    BY <1>1 DEF Places
  <1>5. A \cap C = {}
    BY <1>1 DEF Places
  <1>6. Cardinality(A \cup C) = Cardinality(A) + Cardinality(B)
    <2> HIDE DEF A, B, C
    <2>1. Cardinality(A \cap C) = 0
      BY <1>5, FS_EmptySet
    <2>2. Cardinality(A \cup C) = Cardinality(A) + Cardinality(C) - Cardinality(A \cap C)
      BY <1>2, <1>3, FS_Union
    <2> QED
      BY <1>2, <1>3, <2>1, <2>2
  <1> QED
    BY <1>1, <1>4, <1>6 DEF Count, u

(* The facts that Select keeps are those of the list that are good, each   *)
(* as often as before.                                                     *)
LEMMA SelectCount ==
    ASSUME NEW T, NEW s \in Seq(T), NEW good
    PROVE  /\ Network!Select(s, good) \in Seq(T)
           /\ \A x : Count(Network!Select(s, good), x) =
                        IF x \in good THEN Count(s, x) ELSE 0
  <1> DEFINE N == Len(s)
             Body(f) == [n \in 0..N |->
                IF n = 0 THEN <<>>
                ELSE IF s[n] \in good THEN Append(f[n - 1], s[n])
                ELSE f[n - 1]]
             kept == CHOOSE f : f = Body(f)
             turn == [n \in 1..N |-> [l \in Seq(T) |->
                IF s[n] \in good THEN Append(l, s[n]) ELSE l]]
  <1>1. N \in Nat /\ \A n \in 1..N : s[n] \in T
    OBVIOUS
  <1>2. Network!Select(s, good) = kept[N]
    BY DEF Network!Select
  <1>3. turn \in [1..N -> [Seq(T) -> Seq(T)]]
    BY <1>1
  <1>4. <<>> \in Seq(T)
    BY EmptySeq
  <1>5. PICK f : IsLoop(f, N, Seq(T), <<>>, turn)
    <2> HIDE DEF turn, N
    <2> QED
      BY <1>1, <1>3, <1>4, LoopDefined
  <1>a. f \in [0..N -> Seq(T)] /\ f[0] = <<>>
    BY <1>5 DEF IsLoop
  <1>6. ASSUME NEW n \in 1..N
        PROVE  f[n] = IF s[n] \in good THEN Append(f[n - 1], s[n]) ELSE f[n - 1]
    <2>1. n - 1 \in 0..N
      BY <1>1
    <2>2. f[n - 1] \in Seq(T)
      BY <1>a, <2>1
    <2>3. f[n] = turn[n][f[n - 1]]
      BY <1>5 DEF IsLoop
    <2> QED
      BY <2>2, <2>3
  <1>7. f = Body(f)
    <2>1. ASSUME NEW n \in 0..N
          PROVE  f[n] = Body(f)[n]
      <3>1. CASE n = 0
        BY <1>a, <3>1
      <3>2. CASE n # 0
        <4>1. n \in 1..N
          BY <1>1, <3>2
        <4> QED
          BY <1>6, <4>1, <3>2
      <3> QED
        BY <3>1, <3>2
    <2>2. DOMAIN f = 0..N /\ f = [n \in 0..N |-> f[n]]
      BY <1>a
    <2> QED
      BY <2>1, <2>2
  <1>8. kept = Body(kept)
    <2> HIDE DEF Body
    <2> QED
      BY <1>7
  <1> HIDE DEF kept, turn, N
  <1> DEFINE G(n) == /\ kept[n] \in Seq(T)
                     /\ \A x : Count(kept[n], x) =
                          IF x \in good THEN Cardinality({m \in 1..n : s[m] = x}) ELSE 0
             S == {n \in 0..N : G(n)}
  <1>9. kept[0] = <<>>
    <2>1. 0 \in 0..N
      BY <1>1
    <2> QED
      BY <1>8, <2>1
  <1>10. ASSUME NEW n \in 1..N
         PROVE  kept[n] = IF s[n] \in good THEN Append(kept[n - 1], s[n]) ELSE kept[n - 1]
    <2>1. n \in 0..N /\ n # 0
      BY <1>1
    <2> QED
      BY <1>8, <2>1
  <1>11. 0 \in S
    <2>1. \A x : {m \in 1..0 : s[m] = x} = {}
      OBVIOUS
    <2>2. \A x : Cardinality({m \in 1..0 : s[m] = x}) = 0
      BY <2>1, FS_EmptySet
    <2>3. G(0)
      <3>1. \A x : Count(kept[0], x) = 0
        BY <1>9, CountEmpty
      <3> QED
        BY <1>4, <1>9, <2>2, <3>1
    <2> QED
      BY <1>1, <2>3
  <1>12. ASSUME NEW n \in 1..N, n - 1 \in S
         PROVE  n \in S
    <2>1. G(n - 1)
      BY <1>12
    <2>2. s[n] \in T
      BY <1>1
    <2>3. kept[n] \in Seq(T)
      <3>1. kept[n - 1] \in Seq(T)
        BY <2>1
      <3>2. Append(kept[n - 1], s[n]) \in Seq(T)
        BY <2>2, <3>1, CountAppend
      <3> QED
        BY <1>10, <3>1, <3>2
    <2>4. ASSUME NEW x
          PROVE  Count(kept[n], x) =
                   IF x \in good THEN Cardinality({m \in 1..n : s[m] = x}) ELSE 0
      <3> DEFINE A == {m \in 1..(n - 1) : s[m] = x}
                 B == {m \in 1..n : s[m] = x}
      <3>1. IsFiniteSet(A) /\ n \notin A
        <4>1. IsFiniteSet(1..(n - 1))
          BY <1>1, FS_Interval
        <4> QED
          BY <1>1, <4>1, FS_Subset
      <3>2. Count(kept[n - 1], x) = IF x \in good THEN Cardinality(A) ELSE 0
        BY <2>1
      <3>3. CASE s[n] = x
        <4>1. B = A \cup {n}
          BY <1>1, <3>3
        <4>2. Cardinality(B) = Cardinality(A) + 1
          <5> HIDE DEF A, B
          <5> QED
            BY <3>1, <4>1, FS_AddElement
        <4>3. CASE x \in good
          <5>1. kept[n] = Append(kept[n - 1], s[n])
            BY <1>10, <3>3, <4>3
          <5>2. Count(Append(kept[n - 1], s[n]), x) = Count(kept[n - 1], x) + 1
            BY <2>1, <2>2, <3>3, CountAppend
          <5> HIDE DEF A, B
          <5>3. Count(kept[n], x) = Cardinality(B)
            BY <3>2, <4>2, <4>3, <5>1, <5>2
          <5> QED
            BY <4>3, <5>3 DEF B
        <4>4. CASE x \notin good
          BY <1>10, <3>2, <3>3, <4>4
        <4> QED
          BY <4>3, <4>4
      <3>4. CASE s[n] # x
        <4>1. B = A
          BY <1>1, <3>4
        <4>2. Count(kept[n], x) = Count(kept[n - 1], x)
          BY <1>10, <2>1, <2>2, <3>4, CountAppend
        <4> QED
          BY <3>2, <4>1, <4>2
      <3> QED
        BY <3>3, <3>4
    <2>5. G(n)
      BY <2>3, <2>4
    <2>6. n \in 0..N
      BY <1>1
    <2> HIDE DEF G
    <2> QED
      BY <2>5, <2>6
  <1>13. N \in S
    <2>1. \A n \in 1..N : n - 1 \in S => n \in S
      BY <1>12
    <2> HIDE DEF S
    <2>2. \A n \in 0..N : n \in S
      BY <1>1, <1>11, <2>1, CountingUp
    <2> QED
      BY <1>1, <2>2
  <1>14. G(N)
    BY <1>13
  <1>15. \A x : Cardinality({m \in 1..N : s[m] = x}) = Count(s, x)
    BY DEF Count, Places, N
  <1> QED
    BY <1>2, <1>14, <1>15

IsFlatten(f, lists) ==
    /\ f[0] = <<>>
    /\ \A n \in 1..Len(lists) : f[n] = f[n - 1] \o lists[n]
    /\ f[Len(lists)] = Network!FlattenSeq(lists)

(* Lists are put behind each other one at a time.                          *)
LEMMA FlattenDefined ==
    ASSUME NEW T, NEW lists \in Seq(Seq(T))
    PROVE  \E f \in [0..Len(lists) -> Seq(T)] : IsFlatten(f, lists)
  <1> DEFINE N == Len(lists)
             Body(f) == [n \in 1..N |-> IF n = 1 THEN lists[n] ELSE f[n - 1] \o lists[n]]
             flatten == CHOOSE f : f = Body(f)
             turn == [n \in 1..N |-> [l \in Seq(T) |-> l \o lists[n]]]
  <1>1. N \in Nat /\ \A n \in 1..N : lists[n] \in Seq(T)
    OBVIOUS
  <1>2. Network!FlattenSeq(lists) = IF N = 0 THEN lists ELSE flatten[N]
    BY DEF Network!FlattenSeq
  <1>3. turn \in [1..N -> [Seq(T) -> Seq(T)]]
    BY <1>1
  <1>4. <<>> \in Seq(T)
    BY EmptySeq
  <1>5. PICK f : IsLoop(f, N, Seq(T), <<>>, turn)
    <2> HIDE DEF turn, N
    <2> QED
      BY <1>1, <1>3, <1>4, LoopDefined
  <1>6. f \in [0..N -> Seq(T)] /\ f[0] = <<>>
    BY <1>5 DEF IsLoop
  <1>7. ASSUME NEW n \in 1..N
        PROVE  f[n - 1] \in Seq(T) /\ f[n] = f[n - 1] \o lists[n]
    <2>1. n - 1 \in 0..N
      BY <1>1
    <2>2. f[n - 1] \in Seq(T)
      BY <1>6, <2>1
    <2>3. f[n] = turn[n][f[n - 1]]
      BY <1>5 DEF IsLoop
    <2> QED
      BY <2>2, <2>3
  <1>8. ASSUME 1 \in 1..N PROVE f[1] = lists[1]
    <2>1. f[1] = <<>> \o lists[1]
      <3>1. f[1] = f[1 - 1] \o lists[1]
        BY <1>7, <1>8, Zenon
      <3>2. 1 - 1 = 0
        OBVIOUS
      <3> QED
        BY <1>6, <3>1, <3>2
    <2>2. lists[1] \in Seq(T)
      BY <1>1, <1>8
    <2> QED
      BY <2>1, <2>2, ConcatEmptySeq
  <1> HIDE DEF turn
  <1>9. flatten = Body(flatten)
    <2> DEFINE g == [n \in 1..N |-> f[n]]
    <2>1. ASSUME NEW n \in 1..N
          PROVE  g[n] = Body(g)[n]
      <3>1. CASE n = 1
        BY <1>8, <3>1
      <3>2. CASE n # 1
        <4>1. n - 1 \in 1..N
          BY <1>1, <3>2
        <4>2. g[n - 1] = f[n - 1] /\ g[n] = f[n]
          BY <4>1
        <4> QED
          BY <1>7, <3>2, <4>2
      <3> QED
        BY <3>1, <3>2
    <2>2. g = Body(g)
      BY <2>1
    <2> HIDE DEF Body, g
    <2> QED
      BY <2>2
  <1> HIDE DEF flatten, N
  <1> DEFINE S == {n \in 0..N : n = 0 \/ flatten[n] = f[n]}
  <1>10. 0 \in S
    BY <1>1
  <1>11. ASSUME NEW n \in 1..N, n - 1 \in S
         PROVE  n \in S
    <2>1. flatten[n] = IF n = 1 THEN lists[n] ELSE flatten[n - 1] \o lists[n]
      BY <1>9
    <2>2. CASE n = 1
      BY <1>8, <2>1, <2>2, <1>1
    <2>3. CASE n # 1
      <3>1. flatten[n - 1] = f[n - 1]
        BY <1>11, <2>3
      <3>2. flatten[n] = f[n]
        BY <1>7, <2>1, <2>3, <3>1
      <3> QED
        BY <1>1, <3>2
    <2> QED
      BY <2>2, <2>3
  <1>12. N \in S
    <2>1. \A n \in 1..N : n - 1 \in S => n \in S
      BY <1>11
    <2> HIDE DEF S
    <2>2. \A n \in 0..N : n \in S
      BY <1>1, <1>10, <2>1, CountingUp
    <2> QED
      BY <1>1, <2>2
  <1>13. f[N] = Network!FlattenSeq(lists)
    <2>1. CASE N = 0
      <3>1. lists = <<>>
        BY <2>1, EmptySeq DEF N
      <3> QED
        BY <1>2, <1>6, <2>1, <3>1
    <2>2. CASE N # 0
      BY <1>2, <1>12, <2>2
    <2> QED
      BY <2>1, <2>2
  <1>14. \A n \in 1..N : f[n] = f[n - 1] \o lists[n]
    BY <1>7
  <1> QED
    BY <1>6, <1>13, <1>14 DEF IsFlatten, N

(* What is found equally often in some of the lists, and in no other.      *)
LEMMA FlattenCount ==
    ASSUME NEW T, NEW lists \in Seq(Seq(T)), NEW x, NEW c \in Nat,
           NEW hits \in SUBSET (1..Len(lists)),
           \A n \in 1..Len(lists) : Count(lists[n], x) = IF n \in hits THEN c ELSE 0
    PROVE  /\ Network!FlattenSeq(lists) \in Seq(T)
           /\ Count(Network!FlattenSeq(lists), x) = c * Cardinality(hits)
  <1> DEFINE N == Len(lists)
             Upto(n) == hits \cap (1..n)
  <1>1. N \in Nat /\ \A n \in 1..N : lists[n] \in Seq(T)
    OBVIOUS
  <1>2. PICK f \in [0..N -> Seq(T)] : IsFlatten(f, lists)
    BY FlattenDefined
  <1>3. /\ f[0] = <<>>
        /\ \A n \in 1..N : f[n] = f[n - 1] \o lists[n]
        /\ f[N] = Network!FlattenSeq(lists)
    BY <1>2 DEF IsFlatten
  <1>4. \A n \in 1..N : Count(lists[n], x) = IF n \in hits THEN c ELSE 0
    OBVIOUS
  <1> HIDE DEF N
  <1> DEFINE S == {n \in 0..N : Count(f[n], x) = c * Cardinality(Upto(n))}
  <1>5. 0 \in S
    <2>1. Upto(0) = {}
      OBVIOUS
    <2>2. Cardinality(Upto(0)) = 0
      BY <2>1, FS_EmptySet
    <2>3. Count(f[0], x) = 0
      BY <1>3, CountEmpty
    <2> HIDE DEF Upto
    <2> QED
      BY <1>1, <2>2, <2>3
  <1>6. ASSUME NEW n \in 1..N, n - 1 \in S
        PROVE  n \in S
    <2> DEFINE A == Upto(n - 1)
               k == Cardinality(A)
    <2>1. n - 1 \in 0..N /\ n \in 0..N /\ n \in Nat
      BY <1>1
    <2>2. IsFiniteSet(A) /\ n \notin A /\ k \in Nat
      <3>1. IsFiniteSet(1..(n - 1))
        BY <2>1, FS_Interval
      <3>2. IsFiniteSet(A)
        BY <3>1, FS_Subset
      <3> QED
        BY <2>1, <3>2, FS_CardinalityType
    <2>3. Count(f[n], x) = Count(f[n - 1], x) + Count(lists[n], x)
      <3>1. f[n - 1] \in Seq(T) /\ lists[n] \in Seq(T)
        BY <1>1, <2>1
      <3>2. f[n] = f[n - 1] \o lists[n]
        BY <1>3
      <3> QED
        BY <3>1, <3>2, CountBoth
    <2>4. Count(f[n - 1], x) = c * k
      BY <1>6
    <2>5. CASE n \in hits
      <3>1. Upto(n) = A \cup {n}
        BY <1>1, <2>5
      <3>2. Cardinality(Upto(n)) = k + 1
        <4> HIDE DEF Upto, A
        <4> QED
          BY <2>2, <3>1, FS_AddElement
      <3>3. Count(lists[n], x) = c
        BY <1>4, <2>5
      <3> HIDE DEF Upto, k
      <3>4. c * (k + 1) = c * k + c
        BY <2>2
      <3>5. Count(f[n], x) = c * Cardinality(Upto(n))
        BY <2>3, <2>4, <3>2, <3>3, <3>4
      <3> QED
        BY <2>1, <3>5
    <2>6. CASE n \notin hits
      <3>1. Upto(n) = A
        BY <1>1, <2>6
      <3>2. Count(lists[n], x) = 0
        BY <1>4, <2>6
      <3>3. c * k \in Nat
        <4> HIDE DEF k
        <4> QED
          BY <2>2
      <3>4. Count(f[n], x) = c * Cardinality(Upto(n))
        <4> HIDE DEF Upto
        <4> QED
          BY <2>3, <2>4, <3>1, <3>2, <3>3
      <3> HIDE DEF Upto
      <3> QED
        BY <2>1, <3>4
    <2> QED
      BY <2>5, <2>6
  <1>7. N \in S
    <2>1. \A n \in 1..N : n - 1 \in S => n \in S
      BY <1>6
    <2> HIDE DEF S
    <2>2. \A n \in 0..N : n \in S
      BY <1>1, <1>5, <2>1, CountingUp
    <2> QED
      BY <1>1, <2>2
  <1>8. Upto(N) = hits
    BY DEF N
  <1>9. f[N] \in Seq(T)
    BY <1>1
  <1> HIDE DEF Upto
  <1> QED
    BY <1>3, <1>7, <1>8, <1>9

-----------------------------------------------------------------------------
(* The lists of the nodes.                                                 *)

Tuples(n) == [1..n -> Facts]

(* The network counts as Count does.                                       *)
LEMMA TimesIsCount ==
    ASSUME NEW T, NEW s \in Seq(T), NEW x
    PROVE  Network!Times(s, x) = Count(s, x)
  <1>1. DOMAIN s = 1..Len(s)
    OBVIOUS
  <1>2. {n \in DOMAIN s : s[n] = x} = Places(s, x)
    BY <1>1 DEF Places
  <1> QED
    BY <1>2 DEF Network!Times, Network!Cardinality, Count, Cardinality

(* What is not among the elements of a list is there no times.             *)
LEMMA CountNone ==
    ASSUME NEW T, NEW s \in Seq(T), NEW x, x \notin Network!Range(s)
    PROVE  Count(s, x) = 0
  <1>1. DOMAIN s = 1..Len(s)
    OBVIOUS
  <1>2. Places(s, x) = {}
    BY <1>1 DEF Places, Network!Range
  <1> QED
    BY <1>2, FS_EmptySet DEF Count

(* Tuples of one fact.                                                     *)
LEMMA OneTuples ==
    /\ \A f \in Facts : <<f>> \in Tuples(1)
    /\ \A t \in Tuples(1) : t[1] \in Facts /\ t = <<t[1]>>
    /\ \A f, g \in Facts : <<f>> = <<g>> => f = g
  <1>1. ASSUME NEW f \in Facts PROVE <<f>> \in Tuples(1)
    BY DEF Tuples
  <1>2. ASSUME NEW t \in Tuples(1) PROVE t[1] \in Facts /\ t = <<t[1]>>
    BY DEF Tuples
  <1> QED
    BY <1>1, <1>2

(* A tuple with one fact more.                                             *)
LEMMA LongerTuples ==
    ASSUME NEW k \in Nat, NEW u \in Tuples(k), NEW f \in Facts
    PROVE  /\ u \o <<f>> \in Tuples(k + 1)
           /\ \A j \in 1..k : (u \o <<f>>)[j] = u[j]
           /\ (u \o <<f>>)[k + 1] = f
  <1> DEFINE s == <<f>>
             t == u \o s
  <1>1. u \in Seq(Facts) /\ Len(u) = k
    BY SeqDef DEF Tuples
  <1>2. s \in Seq(Facts) /\ Len(s) = 1 /\ s[1] = f
    BY ShortSequences
  <1> HIDE DEF s
  <1>3. /\ t \in Seq(Facts) /\ Len(t) = Len(u) + Len(s)
        /\ \A j \in 1..Len(u) : t[j] = u[j]
        /\ \A j \in 1..Len(s) : t[Len(u) + j] = s[j]
    BY <1>1, <1>2, ConcatProperties
  <1> HIDE DEF t
  <1>4. Len(t) = k + 1 /\ (\A j \in 1..k : t[j] = u[j]) /\ t[k + 1] = s[1]
    BY <1>1, <1>2, <1>3
  <1>5. t \in [1..(k + 1) -> Facts]
    BY <1>3, <1>4
  <1> QED
    BY <1>2, <1>4, <1>5 DEF Tuples, t, s

(* Longer tuples are equal only if they were, and the facts are.           *)
LEMMA LongerInjective ==
    ASSUME NEW k \in Nat, NEW u \in Tuples(k), NEW v \in Tuples(k),
           NEW f \in Facts, NEW g \in Facts, u \o <<f>> = v \o <<g>>
    PROVE  u = v /\ f = g
  <1> DEFINE s == u \o <<f>>
             t == v \o <<g>>
  <1>1. (\A j \in 1..k : s[j] = u[j]) /\ s[k + 1] = f
    BY LongerTuples
  <1>2. (\A j \in 1..k : t[j] = v[j]) /\ t[k + 1] = g
    BY LongerTuples
  <1>3. s = t
    OBVIOUS
  <1> HIDE DEF s, t
  <1>4. \A j \in 1..k : u[j] = v[j]
    BY <1>1, <1>2, <1>3
  <1>5. u = v
    BY <1>4 DEF Tuples
  <1> QED
    BY <1>1, <1>2, <1>3, <1>5

(* A type node lists the facts of working memory.                          *)
LEMMA TypeCount ==
    ASSUME NEW i, wm[src.net[i].type] \in Seq(Facts)
    PROVE  /\ Network!TypePushes(i) \in Seq(Tuples(1))
           /\ \A f \in Facts :
                 Count(Network!TypePushes(i), <<f>>) = Count(wm[src.net[i].type], f)
  <1> DEFINE l == wm[src.net[i].type]
             o == [n \in DOMAIN l |-> <<l[n]>>]
  <1>1. Network!TypePushes(i) = o
    BY DEF Network!TypePushes
  <1>2. /\ Len(l) \in Nat /\ DOMAIN l = 1..Len(l)
        /\ \A n \in 1..Len(l) : l[n] \in Facts
    OBVIOUS
  <1> HIDE DEF l
  <1>3. o \in [1..Len(l) -> Tuples(1)]
    BY <1>2, OneTuples
  <1>4. o \in Seq(Tuples(1)) /\ Len(o) = Len(l) /\ \A n \in 1..Len(l) : o[n] = <<l[n]>>
    BY <1>2, <1>3, SeqDef
  <1> HIDE DEF o
  <1>5. ASSUME NEW f \in Facts
        PROVE  Count(o, <<f>>) = Count(l, f)
    <2>1. Places(o, <<f>>) = Places(l, f)
      BY <1>2, <1>4, OneTuples DEF Places
    <2> QED
      BY <2>1 DEF Count
  <1> QED
    BY <1>1, <1>4, <1>5 DEF l

(* An alpha node keeps those that meet the pattern's own conditions.       *)
LEMMA AlphaCount ==
    ASSUME NEW i, NEW l, out[Network!TypeNode(i)] = l, l \in Seq(Tuples(1))
    PROVE  /\ Network!AlphaPushes(i) \in Seq(Tuples(1))
           /\ \A f \in Facts :
                 Count(Network!AlphaPushes(i), <<f>>) =
                    IF Network!AlphaExprs(i) # {} => val[f] = 1 THEN Count(l, <<f>>) ELSE 0
  <1> DEFINE good == {t \in Network!Range(l) : Network!AlphaPasses(i, t)}
  <1>1. Network!AlphaPushes(i) = Network!Select(l, good)
    BY DEF Network!AlphaPushes
  <1>2. /\ Network!Select(l, good) \in Seq(Tuples(1))
        /\ \A x : Count(Network!Select(l, good), x) = IF x \in good THEN Count(l, x) ELSE 0
    <2> HIDE DEF good
    <2> QED
      BY SelectCount
  <1>3. ASSUME NEW f \in Facts
        PROVE  Count(Network!Select(l, good), <<f>>) =
                  IF Network!AlphaExprs(i) # {} => val[f] = 1 THEN Count(l, <<f>>) ELSE 0
    <2>1. Network!AlphaPasses(i, <<f>>) <=> (Network!AlphaExprs(i) # {} => val[f] = 1)
      BY DEF Network!AlphaPasses
    <2>2. CASE <<f>> \in Network!Range(l)
      BY <1>2, <2>1, <2>2
    <2>3. CASE <<f>> \notin Network!Range(l)
      <3>1. Count(l, <<f>>) = 0
        BY <2>3, CountNone
      <3> QED
        BY <1>2, <2>3, <3>1
    <2> QED
      BY <2>2, <2>3
  <1> QED
    BY <1>1, <1>2, <1>3

ArePairs(pairs, left, g) ==
    /\ Len(pairs) = Len(left)
    /\ \A m \in 1..Len(left) : pairs[m] = left[m] \o <<g>>

(* All tuples of the left with one fact of the right.                      *)
LEMMA PairsCount ==
    ASSUME NEW k \in Nat, NEW left \in Seq(Tuples(k)), NEW g \in Facts,
           NEW pairs, ArePairs(pairs, left, g), NEW u \in Tuples(k), NEW f \in Facts
    PROVE  Count(pairs, u \o <<f>>) = IF g = f THEN Count(left, u) ELSE 0
  <1>1. \A m \in 1..Len(left) : left[m] \in Tuples(k)
    OBVIOUS
  <1> USE DEF ArePairs
  <1>2. CASE g = f
    <2>1. ASSUME NEW m \in 1..Len(left)
          PROVE  pairs[m] = u \o <<f>> <=> left[m] = u
      <3>1. left[m] \in Tuples(k)
        BY <1>1
      <3>2. pairs[m] = left[m] \o <<f>>
        BY <1>2
      <3>3. ASSUME left[m] \o <<f>> = u \o <<f>> PROVE left[m] = u
        <4>1. PICK v \in Tuples(k) : v = left[m]
          BY <3>1
        <4>2. v \o <<f>> = u \o <<f>>
          BY <3>3, <4>1
        <4>3. v = u
          BY ONLY <4>1, <4>2, k \in Nat, u \in Tuples(k), f \in Facts, LongerInjective, Zenon
        <4> QED
          BY <4>1, <4>3
      <3> QED
        BY <3>2, <3>3
    <2>2. Places(pairs, u \o <<f>>) = Places(left, u)
      BY <2>1 DEF Places
    <2> QED
      BY <1>2, <2>2 DEF Count
  <1>3. CASE g # f
    <2>1. \A m \in 1..Len(left) : pairs[m] # u \o <<f>>
      BY <1>1, <1>3, LongerInjective
    <2>2. Places(pairs, u \o <<f>>) = {}
      BY <2>1 DEF Places
    <2> QED
      BY <1>3, <2>2, FS_EmptySet DEF Count
  <1> QED
    BY <1>2, <1>3

(* A join node combines every fact with every tuple and keeps those that   *)
(* meet its conditions.                                                    *)
LEMMA JoinCount ==
    ASSUME NEW i, NEW k \in Nat, i = k + 1, i # 1, NEW left, NEW right,
           out[Network!JoinNode(i - 1)] = left, left \in Seq(Tuples(k)),
           out[Network!AlphaNode(i)] = right, right \in Seq(Tuples(1))
    PROVE  /\ Network!JoinPushes(i) \in Seq(Tuples(i))
           /\ \A u \in Tuples(k), f \in Facts :
                 Count(Network!JoinPushes(i), u \o <<f>>) =
                    IF \A c \in Network!BetaExprs(i) : Network!Holds(c, u \o <<f>>)
                      THEN Count(left, u) * Count(right, <<f>>) ELSE 0
  <1> DEFINE Pairs(n) == [m \in DOMAIN left |-> left[m] \o right[n]]
             Passes(t) == \A c \in Network!BetaExprs(i) : Network!Holds(c, t)
             Good(n) == {t \in Network!Range(Pairs(n)) : Passes(t)}
             lists == [n \in DOMAIN right |-> Network!Select(Pairs(n), Good(n))]
  <1>1. Network!JoinPushes(i) = Network!FlattenSeq(lists)
    BY DEF Network!JoinPushes, Network!Joined
  <1>2. /\ Len(right) \in Nat /\ DOMAIN right = 1..Len(right)
        /\ \A n \in 1..Len(right) : right[n] \in Tuples(1)
    OBVIOUS
  <1>3. ASSUME NEW n \in 1..Len(right)
        PROVE  /\ Pairs(n) \in Seq(Tuples(i))
               /\ \A u \in Tuples(k), f \in Facts :
                    Count(Pairs(n), u \o <<f>>) = IF right[n] = <<f>> THEN Count(left, u) ELSE 0
    <2> DEFINE g == right[n][1]
    <2>1. g \in Facts /\ right[n] = <<g>>
      BY <1>2, OneTuples
    <2> HIDE DEF g
    <2>2. /\ Len(left) \in Nat /\ DOMAIN left = 1..Len(left)
          /\ \A m \in 1..Len(left) : left[m] \in Tuples(k)
      OBVIOUS
    <2>3. \A m \in 1..Len(left) : Pairs(n)[m] = left[m] \o <<g>>
      BY <2>1, <2>2
    <2>4. DOMAIN Pairs(n) = 1..Len(left) /\ Pairs(n) = [m \in 1..Len(left) |-> Pairs(n)[m]]
      BY <2>2
    <2> HIDE DEF Pairs
    <2>5. \A m \in 1..Len(left) : left[m] \o <<g>> \in Tuples(i)
      BY <2>1, <2>2, LongerTuples
    <2>6. Pairs(n) \in [1..Len(left) -> Tuples(i)]
      <3>1. \A m \in 1..Len(left) : Pairs(n)[m] \in Tuples(i)
        BY <2>3, <2>5, Zenon
      <3> QED
        BY <2>4, <3>1
    <2>7. Pairs(n) \in Seq(Tuples(i)) /\ Len(Pairs(n)) = Len(left)
      BY <2>2, <2>6, SeqDef
    <2>8. ASSUME NEW u \in Tuples(k), NEW f \in Facts
          PROVE  Count(Pairs(n), u \o <<f>>) = IF g = f THEN Count(left, u) ELSE 0
      <3>1. PICK p : p = Pairs(n)
        OBVIOUS
      <3>2. ArePairs(p, left, g)
        BY <2>3, <2>7, <3>1 DEF ArePairs
      <3>3. Count(p, u \o <<f>>) = IF g = f THEN Count(left, u) ELSE 0
        BY ONLY <2>1, <3>2, k \in Nat, left \in Seq(Tuples(k)), u \in Tuples(k), f \in Facts,
                PairsCount
      <3> QED
        BY <3>1, <3>3
    <2>9. \A f \in Facts : right[n] = <<f>> <=> g = f
      BY <2>1, OneTuples
    <2> QED
      BY <2>7, <2>8, <2>9
  <1> HIDE DEF Pairs
  <1>4. ASSUME NEW n \in 1..Len(right)
        PROVE  /\ lists[n] \in Seq(Tuples(i))
               /\ \A t : Count(lists[n], t) = IF Passes(t) THEN Count(Pairs(n), t) ELSE 0
    <2>1. lists[n] = Network!Select(Pairs(n), Good(n))
      BY <1>2
    <2> HIDE DEF lists, Passes
    <2>2. Pairs(n) \in Seq(Tuples(i))
      BY <1>3
    <2>3. /\ lists[n] \in Seq(Tuples(i))
          /\ \A t : Count(lists[n], t) = IF t \in Good(n) THEN Count(Pairs(n), t) ELSE 0
      <3> HIDE DEF Good
      <3> QED
        BY <2>1, <2>2, SelectCount
    <2>4. ASSUME NEW t
          PROVE  Count(lists[n], t) = IF Passes(t) THEN Count(Pairs(n), t) ELSE 0
      <3>1. CASE t \in Network!Range(Pairs(n))
        BY <2>3, <3>1
      <3>2. CASE t \notin Network!Range(Pairs(n))
        <4>1. Count(Pairs(n), t) = 0
          BY <2>2, <3>2, CountNone
        <4> QED
          BY <2>3, <3>2, <4>1
      <3> QED
        BY <3>1, <3>2
    <2> QED
      BY <2>3, <2>4
  <1>5. lists \in Seq(Seq(Tuples(i))) /\ Len(lists) = Len(right)
    <2>1. DOMAIN lists = 1..Len(right)
      BY <1>2
    <2>2. lists = [n \in 1..Len(right) |-> lists[n]]
      BY <2>1
    <2> HIDE DEF lists
    <2>3. lists \in [1..Len(right) -> Seq(Tuples(i))]
      BY <1>4, <2>1, <2>2
    <2> QED
      BY <1>2, <2>3, SeqDef
  <1> HIDE DEF lists
  <1>6. ASSUME NEW u \in Tuples(k), NEW f \in Facts
        PROVE  /\ Network!FlattenSeq(lists) \in Seq(Tuples(i))
               /\ Count(Network!FlattenSeq(lists), u \o <<f>>) =
                    IF Passes(u \o <<f>>) THEN Count(left, u) * Count(right, <<f>>) ELSE 0
    <2> DEFINE x == u \o <<f>>
               hits == Places(right, <<f>>)
               c == IF Passes(x) THEN Count(left, u) ELSE 0
    <2>1. Count(left, u) \in Nat /\ c \in Nat /\ Count(right, <<f>>) \in Nat
      BY CountType
    <2>2. hits \in SUBSET (1..Len(lists))
      BY <1>5 DEF Places
    <2>3. ASSUME NEW n \in 1..Len(lists)
          PROVE  Count(lists[n], x) = IF n \in hits THEN c ELSE 0
      <3>1. n \in hits <=> right[n] = <<f>>
        BY <1>5, <2>3 DEF Places
      <3>2. Count(lists[n], x) = IF Passes(x) THEN Count(Pairs(n), x) ELSE 0
        BY <1>4, <1>5
      <3>3. Count(Pairs(n), x) = IF right[n] = <<f>> THEN Count(left, u) ELSE 0
        BY <1>3, <1>5
      <3> HIDE DEF x, Passes, hits
      <3> QED
        BY <3>1, <3>2, <3>3
    <2> HIDE DEF x, hits, c
    <2>4. /\ Network!FlattenSeq(lists) \in Seq(Tuples(i))
          /\ Count(Network!FlattenSeq(lists), x) = c * Cardinality(hits)
      BY <1>5, <2>1, <2>2, <2>3, FlattenCount
    <2>5. Cardinality(hits) = Count(right, <<f>>)
      BY DEF Count, hits
    <2>6. 0 * Count(right, <<f>>) = 0
      BY <2>1
    <2> HIDE DEF Passes
    <2> QED
      BY <2>4, <2>5, <2>6 DEF c, x
  <1>7. Network!FlattenSeq(lists) \in Seq(Tuples(i))
    <2>1. PICK f \in [0..Len(lists) -> Seq(Tuples(i))] : IsFlatten(f, lists)
      BY <1>5, FlattenDefined
    <2>2. Len(lists) \in 0..Len(lists)
      BY <1>2, <1>5
    <2> QED
      BY <2>1, <2>2 DEF IsFlatten
  <1> QED
    BY <1>1, <1>6, <1>7

Prefix(t, i) == [j \in 1..i |-> t[j]]

MeetsUpTo(i, t) == \A j \in 1..i : \A c \in src.net[j].conds : Network!Holds(c, t)

(* A condition on the facts of the first patterns.                         *)
LEMMA HoldsPrefix ==
    ASSUME NEW i \in Nat, NEW c \in SUBSET (1..i), NEW t
    PROVE  Network!Holds(c, Prefix(t, i)) = Network!Holds(c, t)
  <1>1. \A j \in c : Prefix(t, i)[j] = t[j]
    BY DEF Prefix
  <1> QED
    BY <1>1 DEF Network!Holds

(* The conditions of a pattern are those its alpha node knows and those    *)
(* its join node knows.                                                    *)
LEMMA PatternMet ==
    ASSUME src \in Sources, Network!Compilable, NEW i \in 1..Len(src.net), NEW t
    PROVE  (\A c \in src.net[i].conds : Network!Holds(c, t))
              <=> /\ Network!AlphaExprs(i) # {} => val[t[i]] = 1
                  /\ \A c \in Network!BetaExprs(i) : Network!Holds(c, t)
  <1>1. Network!AlphaExprs(i) \subseteq {{i}}
    BY DEF Network!Compilable, Network!Patterns
  <1>2. src.net[i].conds = Network!AlphaExprs(i) \cup Network!BetaExprs(i)
    BY DEF Network!AlphaExprs, Network!BetaExprs
  <1>3. Network!Holds({i}, t) = (val[t[i]] = 1)
    <2>1. Network!Cardinality({i}) = 1
      BY FS_Singleton DEF Network!Cardinality, Cardinality
    <2>2. {i} # {} /\ \A j \in {i} : j = i
      OBVIOUS
    <2> QED
      BY <2>1, <2>2 DEF Network!Holds
  <1> QED
    BY <1>1, <1>2, <1>3

IsWays(w, t) ==
    /\ w \in [0..Len(src.net) -> Nat]
    /\ w[0] = 1
    /\ \A i \in 1..Len(src.net) : w[i] = w[i - 1] * Count(wm[src.net[i].type], t[i])
    /\ w[Len(src.net)] = Network!Multiplicity(t)

(* Multiplicity multiplies pattern by pattern.                             *)
LEMMA WaysDefined ==
    ASSUME src \in Sources, wm \in Memories, NEW t \in Tuples(Len(src.net))
    PROVE  \E w : IsWays(w, t)
  <1> DEFINE N == Len(src.net)
             T(i) == Network!Times(wm[src.net[i].type], t[i])
             C(i) == Count(wm[src.net[i].type], t[i])
             Body(f) == [i \in 0..N |-> IF i = 0 THEN 1 ELSE f[i - 1] * T(i)]
             ways == CHOOSE f : f = Body(f)
             turn == [i \in 1..N |-> [v \in Nat |-> v * C(i)]]
  <1>1. N \in Nat
    BY PatternsAssumption
  <1>2. ASSUME NEW i \in 1..N PROVE T(i) = C(i) /\ C(i) \in Nat
    <2>1. wm[src.net[i].type] \in Seq(Facts)
      BY PatternsAssumption
    <2> QED
      BY <2>1, TimesIsCount, CountType
  <1>3. Network!Multiplicity(t) = ways[N]
    BY DEF Network!Multiplicity
  <1> HIDE DEF T, C, N
  <1>4. turn \in [1..N -> [Nat -> Nat]]
    BY <1>2
  <1>5. PICK f : IsLoop(f, N, Nat, 1, turn)
    <2> HIDE DEF turn
    <2> QED
      BY <1>1, <1>4, LoopDefined
  <1>6. f \in [0..N -> Nat] /\ f[0] = 1
    BY <1>5 DEF IsLoop
  <1>7. ASSUME NEW i \in 1..N
        PROVE  f[i] = f[i - 1] * C(i)
    <2>1. i - 1 \in 0..N
      BY <1>1
    <2>2. f[i - 1] \in Nat
      BY <1>6, <2>1
    <2>3. f[i] = turn[i][f[i - 1]]
      BY <1>5 DEF IsLoop
    <2> QED
      BY <2>2, <2>3
  <1> HIDE DEF turn
  <1>8. ways = Body(ways)
    <2>1. ASSUME NEW i \in 0..N
          PROVE  f[i] = Body(f)[i]
      <3>1. CASE i = 0
        BY <1>6, <3>1
      <3>2. CASE i # 0
        <4>1. i \in 1..N
          BY <1>1, <3>2
        <4> QED
          BY <1>2, <1>7, <4>1, <3>2
      <3> QED
        BY <3>1, <3>2
    <2>2. f = [i \in 0..N |-> f[i]]
      BY <1>6
    <2>3. f = Body(f)
      BY <2>1, <2>2
    <2> HIDE DEF Body
    <2> QED
      BY <2>3
  <1> HIDE DEF ways
  <1> DEFINE S == {i \in 0..N : ways[i] = f[i]}
  <1>9. 0 \in S
    BY <1>1, <1>6, <1>8
  <1>10. ASSUME NEW i \in 1..N, i - 1 \in S
         PROVE  i \in S
    <2>1. i \in 0..N /\ i # 0
      BY <1>1
    <2>2. ways[i] = ways[i - 1] * T(i)
      BY <1>8, <2>1
    <2>3. ways[i - 1] = f[i - 1]
      BY <1>10
    <2>4. ways[i] = f[i]
      BY <1>2, <1>7, <2>2, <2>3
    <2> QED
      BY <2>1, <2>4
  <1>11. N \in S
    <2>1. \A i \in 1..N : i - 1 \in S => i \in S
      BY <1>10
    <2> HIDE DEF S
    <2>2. \A i \in 0..N : i \in S
      BY <1>1, <1>9, <2>1, CountingUp
    <2> QED
      BY <1>1, <2>2
  <1>12. IsWays(f, t)
    <2>1. f[N] = Network!Multiplicity(t)
      BY <1>3, <1>11
    <2>2. \A i \in 1..N : f[i] = f[i - 1] * C(i)
      BY <1>7
    <2> QED
      BY <1>6, <2>1, <2>2 DEF IsWays, N, C
  <1> QED
    BY <1>12

Settled(i) ==
    /\ out[Network!TypeNode(i)] = Network!TypePushes(i)
    /\ out[Network!AlphaNode(i)] = Network!AlphaPushes(i)
    /\ out[Network!JoinNode(i)] = Network!JoinPushes(i)

(* What a join node holds of the facts of a tuple.                         *)
JoinExact(i, t, w) ==
    /\ out[Network!JoinNode(i)] \in Seq(Tuples(i))
    /\ Count(out[Network!JoinNode(i)], Prefix(t, i)) = IF MeetsUpTo(i, t) THEN w[i] ELSE 0

(* An alpha node holds a fact of its pattern as often as working memory,   *)
(* if the fact meets the conditions on it alone.                           *)
LEMMA AlphaSettled ==
    ASSUME src \in Sources, wm \in Memories, NEW i \in 1..Len(src.net), Settled(i)
    PROVE  /\ out[Network!AlphaNode(i)] \in Seq(Tuples(1))
           /\ \A f \in Facts :
                 Count(out[Network!AlphaNode(i)], <<f>>) =
                    IF Network!AlphaExprs(i) # {} => val[f] = 1
                      THEN Count(wm[src.net[i].type], f) ELSE 0
  <1>1. wm[src.net[i].type] \in Seq(Facts)
    BY PatternsAssumption
  <1>2. PICK l : l = Network!TypePushes(i)
    OBVIOUS
  <1>3. /\ l \in Seq(Tuples(1))
        /\ \A f \in Facts : Count(l, <<f>>) = Count(wm[src.net[i].type], f)
    BY <1>1, <1>2, TypeCount
  <1>4. out[Network!TypeNode(i)] = l
    BY <1>2 DEF Settled
  <1>5. /\ Network!AlphaPushes(i) \in Seq(Tuples(1))
        /\ \A f \in Facts :
              Count(Network!AlphaPushes(i), <<f>>) =
                 IF Network!AlphaExprs(i) # {} => val[f] = 1 THEN Count(l, <<f>>) ELSE 0
    BY <1>3, <1>4, AlphaCount
  <1> QED
    BY <1>3, <1>5 DEF Settled

(* Tuples grow by one fact with each pattern.                              *)
LEMMA PrefixGrows ==
    ASSUME NEW n \in Nat, NEW t \in Tuples(n), NEW k \in Nat, k + 1 <= n
    PROVE  /\ Prefix(t, k) \in Tuples(k) /\ t[k + 1] \in Facts
           /\ Prefix(t, k + 1) = Prefix(t, k) \o <<t[k + 1]>>
  <1>1. Prefix(t, k) \in Tuples(k) /\ t[k + 1] \in Facts /\ Prefix(t, k + 1) \in Tuples(k + 1)
    BY DEF Prefix, Tuples
  <1> DEFINE u == Prefix(t, k)
             v == Prefix(t, k) \o <<t[k + 1]>>
             p == Prefix(t, k + 1)
  <1>2. /\ v \in Tuples(k + 1)
        /\ \A j \in 1..k : v[j] = u[j]
        /\ v[k + 1] = t[k + 1]
    <2> HIDE DEF u
    <2> QED
      BY <1>1, LongerTuples DEF u
  <1>3. (\A j \in 1..k : u[j] = t[j]) /\ \A j \in 1..(k + 1) : p[j] = t[j]
    BY DEF Prefix
  <1> HIDE DEF u, v, p
  <1>4. \A j \in 1..(k + 1) : v[j] = p[j]
    BY <1>2, <1>3
  <1>5. v = p
    <2>1. v \in [1..(k + 1) -> Facts] /\ p \in [1..(k + 1) -> Facts]
      BY <1>1, <1>2 DEF Tuples, p
    <2> QED
      BY <1>4, <2>1
  <1> QED
    BY <1>1, <1>5 DEF v, p

(* The first pattern: its join node is its alpha node.                     *)
LEMMA FirstJoin ==
    ASSUME src \in Sources, wm \in Memories, Network!Compilable,
           Network!BetaExprs(1) = {}, Settled(1),
           NEW t \in Tuples(Len(src.net)), NEW w, IsWays(w, t)
    PROVE  JoinExact(1, t, w)
  <1>1. Len(src.net) \in Nat /\ 1 \in 1..Len(src.net)
    BY PatternsAssumption
  <1>2. out[Network!JoinNode(1)] = out[Network!AlphaNode(1)]
    BY DEF Settled, Network!JoinPushes
  <1>3. t[1] \in Facts
    BY <1>1 DEF Tuples
  <1>4. Prefix(t, 1) = <<t[1]>>
    BY DEF Prefix
  <1>5. MeetsUpTo(1, t) <=> (Network!AlphaExprs(1) # {} => val[t[1]] = 1)
    <2>1. MeetsUpTo(1, t) <=> \A c \in src.net[1].conds : Network!Holds(c, t)
      <3>1. 1..1 = {1}
        OBVIOUS
      <3> QED
        BY <3>1 DEF MeetsUpTo
    <2> QED
      BY <1>1, <2>1, PatternMet
  <1>6. w[1] = Count(wm[src.net[1].type], t[1])
    <2>1. wm[src.net[1].type] \in Seq(Facts)
      BY <1>1, PatternsAssumption
    <2>2. Count(wm[src.net[1].type], t[1]) \in Nat
      BY <2>1, CountType
    <2>3. w[1] = w[1 - 1] * Count(wm[src.net[1].type], t[1])
      BY ONLY IsWays(w, t), <1>1, Zenon DEF IsWays
    <2>4. w[0] = 1 /\ 1 - 1 = 0
      BY DEF IsWays
    <2> QED
      BY <2>2, <2>3, <2>4
  <1>7. /\ out[Network!AlphaNode(1)] \in Seq(Tuples(1))
        /\ Count(out[Network!AlphaNode(1)], <<t[1]>>) =
             IF Network!AlphaExprs(1) # {} => val[t[1]] = 1
               THEN Count(wm[src.net[1].type], t[1]) ELSE 0
    BY <1>1, <1>3, AlphaSettled
  <1> QED
    BY <1>2, <1>4, <1>5, <1>6, <1>7 DEF JoinExact

(* Every further pattern multiplies.                                       *)
LEMMA NextJoin ==
    ASSUME src \in Sources, wm \in Memories, Network!Compilable,
           NEW t \in Tuples(Len(src.net)), NEW w, IsWays(w, t),
           NEW i \in 2..Len(src.net), Settled(i), JoinExact(i - 1, t, w)
    PROVE  JoinExact(i, t, w)
  <1> DEFINE N == Len(src.net)
             k == i - 1
             u == Prefix(t, k)
             f == t[i]
  <1>1. N \in Nat /\ i \in 1..N /\ k \in 1..N /\ k \in Nat /\ i = k + 1 /\ i # 1 /\ i \in Nat
    BY PatternsAssumption
  <1>2. u \in Tuples(k) /\ f \in Facts /\ Prefix(t, i) = u \o <<f>>
    <2>1. N \in Nat /\ t \in Tuples(N) /\ k \in Nat /\ k + 1 <= N /\ k + 1 = i
      BY <1>1
    <2> HIDE DEF N, k
    <2>2. /\ Prefix(t, k) \in Tuples(k) /\ t[k + 1] \in Facts
          /\ Prefix(t, k + 1) = Prefix(t, k) \o <<t[k + 1]>>
      BY ONLY <2>1, PrefixGrows
    <2> QED
      BY <2>1, <2>2
  <1>3. PICK left : left = out[Network!JoinNode(i - 1)]
    OBVIOUS
  <1>4. PICK right : right = out[Network!AlphaNode(i)]
    OBVIOUS
  <1> DEFINE inner == IF MeetsUpTo(k, t) THEN w[k] ELSE 0
             alone == Network!AlphaExprs(i) # {} => val[f] = 1
             rest == \A c \in Network!BetaExprs(i) : Network!Holds(c, t)
             times == Count(wm[src.net[i].type], f)
  <1>5. left \in Seq(Tuples(k)) /\ Count(left, u) = inner
    BY <1>3 DEF JoinExact
  <1>6. /\ right \in Seq(Tuples(1))
        /\ Count(right, <<f>>) = IF alone THEN times ELSE 0
    <2> HIDE DEF N, k, u
    <2> QED
      BY <1>1, <1>2, <1>4, AlphaSettled DEF N
  <1>7. (\A c \in Network!BetaExprs(i) : Network!Holds(c, u \o <<f>>)) <=> rest
    <2>1. \A c \in Network!BetaExprs(i) : c \in SUBSET (1..i)
      BY <1>1 DEF Network!Compilable, Network!Patterns
    <2>2. \A c \in Network!BetaExprs(i) : Network!Holds(c, Prefix(t, i)) = Network!Holds(c, t)
      BY <1>1, <2>1, HoldsPrefix
    <2> HIDE DEF u, f
    <2> QED
      BY <1>2, <2>2
  <1>8. MeetsUpTo(i, t) <=> (MeetsUpTo(k, t) /\ alone /\ rest)
    <2>1. 1..i = (1..k) \cup {i}
      BY <1>1
    <2>2. MeetsUpTo(i, t) <=>
            (MeetsUpTo(k, t) /\ \A c \in src.net[i].conds : Network!Holds(c, t))
      <3> HIDE DEF k
      <3> QED
        BY <2>1, Zenon DEF MeetsUpTo
    <2>3. (\A c \in src.net[i].conds : Network!Holds(c, t)) <=> (alone /\ rest)
      BY <1>1, PatternMet
    <2> HIDE DEF alone, rest, k
    <2> QED
      BY <2>2, <2>3
  <1>9. w[i] = w[k] * times /\ w[k] \in Nat /\ times \in Nat
    <2>1. wm[src.net[i].type] \in Seq(Facts)
      BY <1>1, PatternsAssumption
    <2>2. times \in Nat
      BY <2>1, CountType
    <2>3. w[i] = w[i - 1] * times /\ w[i - 1] \in Nat
      BY <1>1 DEF IsWays
    <2> QED
      BY <2>2, <2>3
  <1> DEFINE o == Network!JoinPushes(i)
  <1>10. /\ o \in Seq(Tuples(i))
         /\ Count(o, u \o <<f>>) =
              IF \A c \in Network!BetaExprs(i) : Network!Holds(c, u \o <<f>>)
                THEN Count(left, u) * Count(right, <<f>>) ELSE 0
    <2> HIDE DEF u, f, N, inner, alone, rest, times
    <2>1. out[Network!JoinNode(i - 1)] = left /\ out[Network!AlphaNode(i)] = right
      BY <1>3, <1>4
    <2>2. /\ k \in Nat /\ i = k + 1 /\ i # 1 /\ left \in Seq(Tuples(k))
          /\ right \in Seq(Tuples(1)) /\ u \in Tuples(k) /\ f \in Facts
      BY <1>1, <1>2, <1>5, <1>6
    <2> HIDE DEF k, o
    <2>3. /\ Network!JoinPushes(i) \in Seq(Tuples(i))
          /\ \A v \in Tuples(k), g \in Facts :
               Count(Network!JoinPushes(i), v \o <<g>>) =
                  IF \A c \in Network!BetaExprs(i) : Network!Holds(c, v \o <<g>>)
                    THEN Count(left, v) * Count(right, <<g>>) ELSE 0
      BY ONLY <2>1, <2>2, JoinCount
    <2> QED
      BY ONLY <2>2, <2>3 DEF o
  <1>11. Count(o, Prefix(t, i)) = IF MeetsUpTo(i, t) THEN w[i] ELSE 0
    <2>1. Count(o, Prefix(t, i)) = IF rest THEN inner * (IF alone THEN times ELSE 0) ELSE 0
      <3> HIDE DEF inner, alone, times, rest, u, f, o, k
      <3> QED
        BY <1>2, <1>5, <1>6, <1>7, <1>10
    <2>2. 0 * times = 0 /\ 0 * 0 = 0 /\ w[k] * 0 = 0
      <3> HIDE DEF times, k
      <3> QED
        BY <1>9
    <2> HIDE DEF alone, times, rest, u, f, o, k
    <2> QED
      BY <1>8, <1>9, <2>1, <2>2
  <1>12. out[Network!JoinNode(i)] = o
    BY DEF Settled
  <1> QED
    BY <1>10, <1>11, <1>12 DEF JoinExact

(* Every set of facts is handed over as often as it can be chosen, if it   *)
(* meets the conditions, and never otherwise, when every node holds what   *)
(* its code makes of the nodes above it.                                   *)
LEMMA ListsExact ==
    ASSUME src \in Sources, wm \in Memories, Network!Compilable,
           Network!BetaExprs(1) = {},
           \A i \in 1..Len(src.net) : Settled(i),
           out[Network!TermNode] = out[Network!JoinNode(Len(src.net))],
           NEW t \in Tuples(Len(src.net))
    PROVE  Network!Times(out[Network!TermNode], t) =
             IF Network!Meets(t) THEN Network!Multiplicity(t) ELSE 0
  <1> DEFINE N == Len(src.net)
  <1>1. N \in Nat /\ N >= 1
    BY PatternsAssumption
  <1>2. PICK w : IsWays(w, t)
    BY WaysDefined
  <1> DEFINE S == {i \in 0..N : i = 0 \/ JoinExact(i, t, w)}
  <1>3. 0 \in S
    BY <1>1
  <1>4. ASSUME NEW i \in 1..N, i - 1 \in S
        PROVE  i \in S
    <2>1. Settled(i)
      OBVIOUS
    <2>2. CASE i = 1
      <3>1. JoinExact(1, t, w)
        BY <1>2, <2>1, <2>2, FirstJoin
      <3> QED
        BY <1>1, <2>2, <3>1
    <2>3. CASE i # 1
      <3>1. i \in 2..N /\ JoinExact(i - 1, t, w)
        BY <1>1, <1>4, <2>3
      <3>2. JoinExact(i, t, w)
        <4> HIDE DEF S
        <4> QED
          BY <1>2, <2>1, <3>1, NextJoin
      <3> QED
        BY <1>1, <3>2
    <2> QED
      BY <2>2, <2>3
  <1>5. JoinExact(N, t, w)
    <2>1. \A i \in 1..N : i - 1 \in S => i \in S
      BY <1>4
    <2>2. \A i \in 0..N : i \in S
      <3> HIDE DEF S, N
      <3> QED
        BY <1>1, <1>3, <2>1, CountingUp
    <2>3. N \in 0..N /\ N # 0
      BY <1>1
    <2> HIDE DEF N
    <2>4. N \in S
      BY <2>2, <2>3
    <2> QED
      BY <2>3, <2>4
  <1>6. Prefix(t, N) = t
    BY DEF Prefix, Tuples
  <1>7. MeetsUpTo(N, t) <=> Network!Meets(t)
    BY DEF MeetsUpTo, Network!Meets, Network!Patterns
  <1>8. w[N] = Network!Multiplicity(t)
    BY <1>2 DEF IsWays
  <1> DEFINE l == out[Network!TermNode]
  <1>9. l \in Seq(Tuples(N)) /\ Count(l, t) = IF Network!Meets(t) THEN Network!Multiplicity(t) ELSE 0
    <2> HIDE DEF S
    <2> QED
      BY <1>5, <1>6, <1>7, <1>8 DEF JoinExact
  <1>10. Network!Times(l, t) = Count(l, t)
    <2> HIDE DEF l, N, S
    <2> QED
      BY <1>9, TimesIsCount
  <1> QED
    BY <1>9, <1>10

-----------------------------------------------------------------------------
(* The order of the nodes.                                                 *)

(* One list, and two.                                                      *)
LEMMA FlattenShort ==
    ASSUME NEW T, NEW a \in Seq(T), NEW b \in Seq(T)
    PROVE  /\ Network!FlattenSeq(<<>>) = <<>>
           /\ Network!FlattenSeq(<<a>>) = a
           /\ Network!FlattenSeq(<<a, b>>) = a \o b
  <1>0. <<>> \o a = a
    BY ConcatEmptySeq
  <1>1. Network!FlattenSeq(<<>>) = <<>>
    BY EmptySeq DEF Network!FlattenSeq
  <1>2. Network!FlattenSeq(<<a>>) = a
    <2> DEFINE l == <<a>>
    <2>1. l \in [1..1 -> Seq(T)] /\ l[1] = a /\ Len(l) = 1
      OBVIOUS
    <2>2. l \in Seq(Seq(T))
      BY <2>1, SeqDef
    <2> HIDE DEF l
    <2>3. PICK f \in [0..1 -> Seq(T)] : IsFlatten(f, l)
      BY <2>1, <2>2, FlattenDefined
    <2>4. f[0] = <<>> /\ f[1] = f[1 - 1] \o l[1] /\ f[1] = Network!FlattenSeq(l)
      <3>1. 1 \in 1..1
        OBVIOUS
      <3> QED
        BY <2>1, <2>3, <3>1, Zenon DEF IsFlatten
    <2>5. 1 - 1 = 0
      OBVIOUS
    <2>6. Network!FlattenSeq(l) = a
      BY <1>0, <2>1, <2>4, <2>5
    <2> QED
      BY <2>6 DEF l
  <1>3. Network!FlattenSeq(<<a, b>>) = a \o b
    <2> DEFINE l == <<a, b>>
    <2>1. l \in [1..2 -> Seq(T)] /\ l[1] = a /\ l[2] = b /\ Len(l) = 2
      OBVIOUS
    <2>2. l \in Seq(Seq(T))
      BY <2>1, SeqDef
    <2> HIDE DEF l
    <2>3. PICK f \in [0..2 -> Seq(T)] : IsFlatten(f, l)
      BY <2>1, <2>2, FlattenDefined
    <2>4. /\ f[0] = <<>> /\ f[1] = f[1 - 1] \o l[1] /\ f[2] = f[2 - 1] \o l[2]
          /\ f[2] = Network!FlattenSeq(l)
      <3>1. 1 \in 1..2 /\ 2 \in 1..2
        OBVIOUS
      <3> QED
        BY <2>1, <2>3, <3>1, Zenon DEF IsFlatten
    <2>5. 1 - 1 = 0 /\ 2 - 1 = 1
      OBVIOUS
    <2>6. Network!FlattenSeq(l) = a \o b
      BY <1>0, <2>1, <2>4, <2>5
    <2> QED
      BY <2>6 DEF l
  <1> QED
    BY <1>1, <1>2, <1>3

NodeAt(k) ==
    CHOOSE x :
        \/ k = 3 * Len(src.net) + 1 /\ x = Network!TermNode
        \/ \E i \in 1..Len(src.net) :
              \/ k = 3 * i - 2 /\ x = Network!TypeNode(i)
              \/ k = 3 * i - 1 /\ x = Network!AlphaNode(i)
              \/ k = 3 * i /\ x = Network!JoinNode(i)

FirstNodes(m) == [k \in 1..m |-> NodeAt(k)]

(* Three nodes for each pattern, and one.                                  *)
LEMMA NodeCases ==
    ASSUME NEW n \in Nat, NEW k \in 1..(3 * n + 1)
    PROVE  \/ k = 3 * n + 1
           \/ \E i \in 1..n : k = 3 * i - 2 \/ k = 3 * i - 1 \/ k = 3 * i
  <1> DEFINE S == {m \in 0..n : \A j \in 1..(3 * m) :
                      \E i \in 1..n : j = 3 * i - 2 \/ j = 3 * i - 1 \/ j = 3 * i}
  <1>1. 0 \in S
    OBVIOUS
  <1>2. ASSUME NEW m \in 1..n, m - 1 \in S
        PROVE  m \in S
    <2>1. ASSUME NEW j \in 1..(3 * m)
          PROVE  \E i \in 1..n : j = 3 * i - 2 \/ j = 3 * i - 1 \/ j = 3 * i
      <3>1. CASE j \in 1..(3 * (m - 1))
        BY <1>2, <3>1
      <3>2. CASE j \notin 1..(3 * (m - 1))
        <4>1. j = 3 * m - 2 \/ j = 3 * m - 1 \/ j = 3 * m
          BY <3>2
        <4> QED
          BY <4>1
      <3> QED
        BY <3>1, <3>2
    <2> QED
      BY <2>1
  <1>3. n \in S
    <2>1. \A m \in 1..n : m - 1 \in S => m \in S
      BY <1>2
    <2> HIDE DEF S
    <2>2. \A m \in 0..n : m \in S
      BY <1>1, <2>1, CountingUp
    <2> QED
      BY <2>2
  <1>4. CASE k = 3 * n + 1
    BY <1>4
  <1>5. CASE k # 3 * n + 1
    <2>1. k \in 1..(3 * n)
      BY <1>5
    <2> QED
      BY <1>3, <2>1
  <1> QED
    BY <1>4, <1>5

(* The nodes in order.                                                     *)
LEMMA NodeAtValues ==
    ASSUME src \in Sources
    PROVE  /\ \A i \in 1..Len(src.net) :
                /\ NodeAt(3 * i - 2) = Network!TypeNode(i)
                /\ NodeAt(3 * i - 1) = Network!AlphaNode(i)
                /\ NodeAt(3 * i) = Network!JoinNode(i)
           /\ NodeAt(3 * Len(src.net) + 1) = Network!TermNode
           /\ \A k \in 1..(3 * Len(src.net) + 1) : NodeAt(k) \in Network!Nodes
  <1> DEFINE N == Len(src.net)
  <1>1. N \in Nat
    BY PatternsAssumption
  <1> HIDE DEF N
  <1>2. ASSUME NEW i \in 1..N
        PROVE  /\ NodeAt(3 * i - 2) = Network!TypeNode(i)
               /\ NodeAt(3 * i - 1) = Network!AlphaNode(i)
               /\ NodeAt(3 * i) = Network!JoinNode(i)
    <2>1. /\ 3 * i - 2 # 3 * N + 1 /\ 3 * i - 1 # 3 * N + 1 /\ 3 * i # 3 * N + 1
          /\ \A j \in 1..N : /\ 3 * i - 2 = 3 * j - 2 => j = i
                             /\ 3 * i - 1 = 3 * j - 1 => j = i
                             /\ 3 * i = 3 * j => j = i
                             /\ 3 * i - 2 # 3 * j - 1 /\ 3 * i - 2 # 3 * j
                             /\ 3 * i - 1 # 3 * j - 2 /\ 3 * i - 1 # 3 * j
                             /\ 3 * i # 3 * j - 2 /\ 3 * i # 3 * j - 1
      BY <1>1
    <2>2. NodeAt(3 * i - 2) = CHOOSE x : x = Network!TypeNode(i)
      <3>1. \A x : \/ 3 * i - 2 = 3 * N + 1 /\ x = Network!TermNode
                   \/ \E j \in 1..N :
                        \/ 3 * i - 2 = 3 * j - 2 /\ x = Network!TypeNode(j)
                        \/ 3 * i - 2 = 3 * j - 1 /\ x = Network!AlphaNode(j)
                        \/ 3 * i - 2 = 3 * j /\ x = Network!JoinNode(j)
                  <=> x = Network!TypeNode(i)
        BY <2>1
      <3> QED
        BY <3>1 DEF NodeAt, N
    <2>3. NodeAt(3 * i - 1) = CHOOSE x : x = Network!AlphaNode(i)
      <3>1. \A x : \/ 3 * i - 1 = 3 * N + 1 /\ x = Network!TermNode
                   \/ \E j \in 1..N :
                        \/ 3 * i - 1 = 3 * j - 2 /\ x = Network!TypeNode(j)
                        \/ 3 * i - 1 = 3 * j - 1 /\ x = Network!AlphaNode(j)
                        \/ 3 * i - 1 = 3 * j /\ x = Network!JoinNode(j)
                  <=> x = Network!AlphaNode(i)
        BY <2>1
      <3> QED
        BY <3>1 DEF NodeAt, N
    <2>4. NodeAt(3 * i) = CHOOSE x : x = Network!JoinNode(i)
      <3>1. \A x : \/ 3 * i = 3 * N + 1 /\ x = Network!TermNode
                   \/ \E j \in 1..N :
                        \/ 3 * i = 3 * j - 2 /\ x = Network!TypeNode(j)
                        \/ 3 * i = 3 * j - 1 /\ x = Network!AlphaNode(j)
                        \/ 3 * i = 3 * j /\ x = Network!JoinNode(j)
                  <=> x = Network!JoinNode(i)
        BY <2>1
      <3> QED
        BY <3>1 DEF NodeAt, N
    <2> QED
      BY <2>2, <2>3, <2>4
  <1>3. NodeAt(3 * N + 1) = Network!TermNode
    <2>1. \A j \in 1..N : 3 * N + 1 # 3 * j - 2 /\ 3 * N + 1 # 3 * j - 1 /\ 3 * N + 1 # 3 * j
      BY <1>1
    <2> QED
      BY <1>1, <2>1 DEF NodeAt, N
  <1>4. ASSUME NEW k \in 1..(3 * N + 1)
        PROVE  NodeAt(k) \in Network!Nodes
    <2>1. Network!TermNode \in Network!Nodes
      BY DEF Network!Nodes
    <2>2. ASSUME NEW i \in 1..N
          PROVE  /\ Network!TypeNode(i) \in Network!Nodes
                 /\ Network!AlphaNode(i) \in Network!Nodes
                 /\ Network!JoinNode(i) \in Network!Nodes
      BY DEF Network!Nodes, Network!Patterns, N, Network!TypeNode, Network!AlphaNode,
             Network!JoinNode
    <2> QED
      BY <1>1, <1>2, <1>3, <2>1, <2>2, NodeCases
  <1> QED
    BY <1>2, <1>3, <1>4 DEF N

PostOrderOf(P, node) ==
    Network!FlattenSeq([p \in DOMAIN Network!Parents(node) |-> P[Network!Parents(node)[p]]])
        \o <<node>>

(* A node comes after the orders of its parents.                           *)
LEMMA ParentsFirst ==
    ASSUME NEW P, NEW i \in Nat, NEW T
    PROVE  /\ PostOrderOf(P, Network!TypeNode(i)) = <<>> \o <<Network!TypeNode(i)>>
           /\ P[Network!TypeNode(i)] \in Seq(T)
                => PostOrderOf(P, Network!AlphaNode(i)) =
                     P[Network!TypeNode(i)] \o <<Network!AlphaNode(i)>>
           /\ i = 1 /\ P[Network!AlphaNode(i)] \in Seq(T)
                => PostOrderOf(P, Network!JoinNode(i)) =
                     P[Network!AlphaNode(i)] \o <<Network!JoinNode(i)>>
           /\ i # 1 /\ P[Network!JoinNode(i - 1)] \in Seq(T) /\ P[Network!AlphaNode(i)] \in Seq(T)
                => PostOrderOf(P, Network!JoinNode(i)) =
                     (P[Network!JoinNode(i - 1)] \o P[Network!AlphaNode(i)])
                        \o <<Network!JoinNode(i)>>
           /\ i = Len(src.net) /\ P[Network!JoinNode(i)] \in Seq(T)
                => PostOrderOf(P, Network!TermNode) =
                     P[Network!JoinNode(i)] \o <<Network!TermNode>>
  <1> DEFINE L(node) == [p \in DOMAIN Network!Parents(node) |-> P[Network!Parents(node)[p]]]
  <1>1. PostOrderOf(P, Network!TypeNode(i)) = <<>> \o <<Network!TypeNode(i)>>
    <2>1. Network!Parents(Network!TypeNode(i)) = <<>>
      BY DEF Network!Parents, Network!TypeNode
    <2>2. L(Network!TypeNode(i)) = <<>>
      BY <2>1
    <2>3. Network!FlattenSeq(<<>>) = <<>>
      <3>1. <<>> \in Seq(T)
        BY EmptySeq
      <3> QED
        BY <3>1, FlattenShort
    <2> QED
      BY <2>2, <2>3 DEF PostOrderOf
  <1>2. ASSUME P[Network!TypeNode(i)] \in Seq(T)
        PROVE  PostOrderOf(P, Network!AlphaNode(i)) =
                     P[Network!TypeNode(i)] \o <<Network!AlphaNode(i)>>
    <2>1. Network!Parents(Network!AlphaNode(i)) = <<Network!TypeNode(i)>>
      BY DEF Network!Parents, Network!AlphaNode
    <2>2. L(Network!AlphaNode(i)) = <<P[Network!TypeNode(i)]>>
      BY <2>1
    <2>3. Network!FlattenSeq(<<P[Network!TypeNode(i)]>>) = P[Network!TypeNode(i)]
      BY <1>2, FlattenShort
    <2> QED
      BY <2>2, <2>3 DEF PostOrderOf
  <1>3. ASSUME i = 1, P[Network!AlphaNode(i)] \in Seq(T)
        PROVE  PostOrderOf(P, Network!JoinNode(i)) =
                     P[Network!AlphaNode(i)] \o <<Network!JoinNode(i)>>
    <2>1. Network!Parents(Network!JoinNode(i)) = <<Network!AlphaNode(i)>>
      BY <1>3 DEF Network!Parents, Network!JoinNode
    <2>2. L(Network!JoinNode(i)) = <<P[Network!AlphaNode(i)]>>
      BY <2>1
    <2>3. Network!FlattenSeq(<<P[Network!AlphaNode(i)]>>) = P[Network!AlphaNode(i)]
      BY <1>3, FlattenShort
    <2> QED
      BY <2>2, <2>3 DEF PostOrderOf
  <1>4. ASSUME i # 1, P[Network!JoinNode(i - 1)] \in Seq(T), P[Network!AlphaNode(i)] \in Seq(T)
        PROVE  PostOrderOf(P, Network!JoinNode(i)) =
                     (P[Network!JoinNode(i - 1)] \o P[Network!AlphaNode(i)])
                        \o <<Network!JoinNode(i)>>
    <2>1. Network!Parents(Network!JoinNode(i)) = <<Network!JoinNode(i - 1), Network!AlphaNode(i)>>
      BY <1>4 DEF Network!Parents, Network!JoinNode
    <2>2. L(Network!JoinNode(i)) = <<P[Network!JoinNode(i - 1)], P[Network!AlphaNode(i)]>>
      BY <2>1
    <2>3. Network!FlattenSeq(<<P[Network!JoinNode(i - 1)], P[Network!AlphaNode(i)]>>) =
              P[Network!JoinNode(i - 1)] \o P[Network!AlphaNode(i)]
      BY <1>4, FlattenShort
    <2> QED
      BY <2>2, <2>3 DEF PostOrderOf
  <1>5. ASSUME i = Len(src.net), P[Network!JoinNode(i)] \in Seq(T)
        PROVE  PostOrderOf(P, Network!TermNode) =
                     P[Network!JoinNode(i)] \o <<Network!TermNode>>
    <2>1. Network!Parents(Network!TermNode) = <<Network!JoinNode(i)>>
      BY <1>5 DEF Network!Parents, Network!TermNode
    <2>2. L(Network!TermNode) = <<P[Network!JoinNode(i)]>>
      BY <2>1
    <2>3. Network!FlattenSeq(<<P[Network!JoinNode(i)]>>) = P[Network!JoinNode(i)]
      BY <1>5, FlattenShort
    <2> QED
      BY <2>2, <2>3 DEF PostOrderOf
  <1> QED
    BY <1>1, <1>2, <1>3, <1>4, <1>5

(* The first nodes, one more at a time.                                    *)
LEMMA FirstNodesGrow ==
    ASSUME src \in Sources, NEW m \in Nat, m <= 3 * Len(src.net)
    PROVE  /\ FirstNodes(m) \in Seq(Network!Nodes)
           /\ FirstNodes(m + 1) \in Seq(Network!Nodes)
           /\ FirstNodes(m) \o <<NodeAt(m + 1)>> = FirstNodes(m + 1)
  <1>1. Len(src.net) \in Nat
    BY PatternsAssumption
  <1>2. ASSUME NEW k \in Nat, k <= 3 * Len(src.net) + 1
        PROVE  /\ FirstNodes(k) \in Seq(Network!Nodes) /\ Len(FirstNodes(k)) = k
               /\ \A j \in 1..k : FirstNodes(k)[j] = NodeAt(j)
    <2>1. \A j \in 1..k : NodeAt(j) \in Network!Nodes
      BY <1>1, <1>2, NodeAtValues
    <2>2. FirstNodes(k) \in [1..k -> Network!Nodes]
      BY <2>1 DEF FirstNodes
    <2> QED
      BY <2>2, SeqDef DEF FirstNodes
  <1> DEFINE s == FirstNodes(m)
             x == NodeAt(m + 1)
             t == FirstNodes(m + 1)
             e == <<x>>
  <1>3. /\ s \in Seq(Network!Nodes) /\ Len(s) = m
        /\ \A j \in 1..m : s[j] = NodeAt(j)
    BY <1>1, <1>2
  <1>4. /\ t \in Seq(Network!Nodes) /\ Len(t) = m + 1
        /\ \A j \in 1..(m + 1) : t[j] = NodeAt(j)
    BY <1>1, <1>2
  <1>5. x \in Network!Nodes
    BY <1>1, NodeAtValues
  <1>6. e \in Seq(Network!Nodes) /\ Len(e) = 1 /\ e[1] = x
    <2> HIDE DEF x
    <2> QED
      BY <1>5, ShortSequences
  <1> HIDE DEF s, t, e
  <1>7. /\ s \o e \in Seq(Network!Nodes) /\ Len(s \o e) = Len(s) + Len(e)
        /\ \A j \in 1..Len(s) : (s \o e)[j] = s[j]
        /\ \A j \in 1..Len(e) : (s \o e)[Len(s) + j] = e[j]
    <2>1. s \in Seq(Network!Nodes) /\ e \in Seq(Network!Nodes)
      BY <1>3, <1>6
    <2> QED
      BY ONLY <2>1, ConcatProperties
  <1>8. \A j \in 1..(m + 1) : (s \o e)[j] = t[j]
    <2>1. (s \o e)[m + 1] = x
      <3> HIDE DEF x
      <3>1. 1 \in 1..Len(e)
        BY <1>6
      <3>2. (s \o e)[Len(s) + 1] = e[1]
        BY <1>7, <3>1
      <3> QED
        BY <1>3, <1>6, <3>2
    <2>2. \A j \in 1..m : (s \o e)[j] = NodeAt(j)
      BY <1>3, <1>7
    <2>3. \A j \in 1..(m + 1) : j \in 1..m \/ j = m + 1
      OBVIOUS
    <2> QED
      BY <1>4, <2>1, <2>2, <2>3
  <1>9. s \o e = t
    <2>1. Len(s \o e) = m + 1
      BY <1>3, <1>6, <1>7
    <2> QED
      BY <1>4, <1>7, <1>8, <2>1, SeqEqual
  <1> QED
    BY <1>3, <1>4, <1>9 DEF s, t, e

IsPostOrder(P) ==
    P = [node \in Network!Nodes |-> PostOrderOf(P, node)]

(* Nodes are different from each other.                                    *)
LEMMA NodesDiffer ==
    ASSUME NEW i, NEW j
    PROVE  /\ Network!TypeNode(i) # Network!AlphaNode(j)
           /\ Network!TypeNode(i) # Network!JoinNode(j)
           /\ Network!AlphaNode(i) # Network!JoinNode(j)
           /\ Network!TermNode # Network!TypeNode(i)
           /\ Network!TermNode # Network!AlphaNode(i)
           /\ Network!TermNode # Network!JoinNode(i)
           /\ Network!TypeNode(i) = Network!TypeNode(j) => i = j
           /\ Network!AlphaNode(i) = Network!AlphaNode(j) => i = j
           /\ Network!JoinNode(i) = Network!JoinNode(j) => i = j
  BY DEF Network!TypeNode, Network!AlphaNode, Network!JoinNode, Network!TermNode

(* Each node is one of four kinds.                                         *)
LEMMA NodeKinds ==
    ASSUME NEW node \in Network!Nodes
    PROVE  \/ node = Network!TermNode
           \/ \E i \in 1..Len(src.net) : \/ node = Network!TypeNode(i)
                                         \/ node = Network!AlphaNode(i)
                                         \/ node = Network!JoinNode(i)
  <1>1. CASE node = Network!TermNode
    BY <1>1
  <1>2. CASE node # Network!TermNode
    <2>1. node \in {"type", "alpha", "join"} \X (1..Len(src.net))
      BY <1>2 DEF Network!Nodes, Network!Patterns
    <2>2. node = <<node[1], node[2]>> /\ node[1] \in {"type", "alpha", "join"} /\ node[2] \in 1..Len(src.net)
      BY <2>1
    <2> QED
      BY <2>2 DEF Network!TypeNode, Network!AlphaNode, Network!JoinNode
  <1> QED
    BY <1>1, <1>2

(* They are nodes.                                                         *)
LEMMA AreNodes ==
    /\ Network!TermNode \in Network!Nodes
    /\ \A i \in 1..Len(src.net) : /\ Network!TypeNode(i) \in Network!Nodes
                                  /\ Network!AlphaNode(i) \in Network!Nodes
                                  /\ Network!JoinNode(i) \in Network!Nodes
  BY DEF Network!Nodes, Network!Patterns, Network!TypeNode, Network!AlphaNode,
         Network!JoinNode

Pair(i) == <<Network!TypeNode(i)>> \o <<Network!AlphaNode(i)>>

(* The nodes of one more pattern.                                          *)
LEMMA ThreeMore ==
    ASSUME src \in Sources, NEW i \in 1..Len(src.net)
    PROVE  /\ <<Network!TypeNode(i)>> \in Seq(Network!Nodes)
           /\ Pair(i) \in Seq(Network!Nodes)
           /\ (FirstNodes(3 * (i - 1)) \o Pair(i)) \o <<Network!JoinNode(i)>> = FirstNodes(3 * i)
           /\ FirstNodes(3 * i) \in Seq(Network!Nodes)
  <1> DEFINE m == 3 * (i - 1)
             a == <<Network!TypeNode(i)>>
             b == <<Network!AlphaNode(i)>>
             c == <<Network!JoinNode(i)>>
  <1>1. Len(src.net) \in Nat
    BY PatternsAssumption
  <1>2. /\ m \in Nat /\ m + 1 = 3 * i - 2 /\ (m + 1) + 1 = 3 * i - 1 /\ ((m + 1) + 1) + 1 = 3 * i
        /\ m <= 3 * Len(src.net) /\ m + 1 <= 3 * Len(src.net)
        /\ (m + 1) + 1 <= 3 * Len(src.net)
    BY <1>1
  <1>3. a \in Seq(Network!Nodes) /\ b \in Seq(Network!Nodes)
    BY AreNodes, ShortSequences
  <1>4. a \o b \in Seq(Network!Nodes)
    <2> HIDE DEF a, b
    <2> QED
      BY <1>3, ConcatProperties
  <1>5. a = <<NodeAt(m + 1)>> /\ b = <<NodeAt((m + 1) + 1)>> /\ c = <<NodeAt(((m + 1) + 1) + 1)>>
    BY <1>2, NodeAtValues
  <1> HIDE DEF m, a, b, c
  <1>6. FirstNodes(m) \in Seq(Network!Nodes) /\ FirstNodes(m) \o a = FirstNodes(m + 1)
    BY <1>2, <1>5, FirstNodesGrow
  <1>7. FirstNodes(m + 1) \o b = FirstNodes((m + 1) + 1)
    <2>1. m + 1 \in Nat
      BY <1>2
    <2> QED
      BY <1>2, <1>5, <2>1, FirstNodesGrow
  <1>8. /\ FirstNodes((m + 1) + 1) \o c = FirstNodes(((m + 1) + 1) + 1)
        /\ FirstNodes(((m + 1) + 1) + 1) \in Seq(Network!Nodes)
    <2>1. (m + 1) + 1 \in Nat
      BY <1>2
    <2> QED
      BY <1>2, <1>5, <2>1, FirstNodesGrow
  <1>9. FirstNodes(m) \o (a \o b) = (FirstNodes(m) \o a) \o b
    <2>1. FirstNodes(m) \in Seq(Network!Nodes) /\ a \in Seq(Network!Nodes) /\ b \in Seq(Network!Nodes)
      BY <1>3, <1>6
    <2> QED
      BY ONLY <2>1, ConcatAssociative
  <1> QED
    BY <1>2, <1>3, <1>4, <1>6, <1>7, <1>8, <1>9 DEF Pair, m, a, b, c

(* The order is determined by the rule that parents come first.            *)
LEMMA PostOrderUnique ==
    ASSUME src \in Sources, NEW P, IsPostOrder(P)
    PROVE  P[Network!TermNode] = FirstNodes(3 * Len(src.net) + 1)
  <1> DEFINE N == Len(src.net)
             T == Network!Nodes
  <1>1. N \in Nat /\ N >= 1
    BY PatternsAssumption
  <1>2. \A node \in T : P[node] = PostOrderOf(P, node)
    BY DEF IsPostOrder
  <1>3. ASSUME NEW i \in 1..N
        PROVE  P[Network!TypeNode(i)] = <<Network!TypeNode(i)>>
    <2>1. i \in Nat
      BY <1>1
    <2>2. P[Network!TypeNode(i)] = <<>> \o <<Network!TypeNode(i)>>
      BY <1>2, <2>1, AreNodes, ParentsFirst
    <2>3. <<Network!TypeNode(i)>> \in Seq(T)
      BY ThreeMore
    <2> QED
      BY <2>2, <2>3, ConcatEmptySeq
  <1>4. ASSUME NEW i \in 1..N
        PROVE  P[Network!AlphaNode(i)] = Pair(i) /\ Pair(i) \in Seq(T)
    <2>1. i \in Nat
      BY <1>1
    <2>2. P[Network!TypeNode(i)] \in Seq(T) /\ Pair(i) \in Seq(T)
      BY <1>3, ThreeMore
    <2>3. P[Network!AlphaNode(i)] = PostOrderOf(P, Network!AlphaNode(i))
      BY <1>2, AreNodes
    <2>4. PostOrderOf(P, Network!AlphaNode(i)) = P[Network!TypeNode(i)] \o <<Network!AlphaNode(i)>>
      <3> HIDE DEF T
      <3> QED
        BY ONLY <2>1, <2>2, ParentsFirst
    <2> QED
      BY <1>3, <2>2, <2>3, <2>4 DEF Pair
  <1> DEFINE S == {i \in 0..N : i = 0 \/ P[Network!JoinNode(i)] = FirstNodes(3 * i)}
  <1>5. 0 \in S
    BY <1>1
  <1>6. ASSUME NEW i \in 1..N, i - 1 \in S
        PROVE  i \in S
    <2>1. i \in Nat /\ i \in 0..N
      BY <1>1
    <2>2. P[Network!AlphaNode(i)] = Pair(i) /\ P[Network!AlphaNode(i)] \in Seq(T)
      BY <1>4
    <2>3. P[Network!JoinNode(i)] = PostOrderOf(P, Network!JoinNode(i))
      BY <1>2, AreNodes
    <2>4. (FirstNodes(3 * (i - 1)) \o Pair(i)) \o <<Network!JoinNode(i)>> = FirstNodes(3 * i)
      BY ThreeMore
    <2>5. CASE i = 1
      <3>1. PostOrderOf(P, Network!JoinNode(i)) = Pair(i) \o <<Network!JoinNode(i)>>
        <4> HIDE DEF T
        <4> QED
          BY ONLY <2>1, <2>2, <2>5, ParentsFirst
      <3>2. FirstNodes(3 * (i - 1)) = <<>>
        <4>1. 3 * (i - 1) = 0
          BY <2>5
        <4> QED
          BY <4>1 DEF FirstNodes
      <3>3. <<>> \o Pair(i) = Pair(i)
        BY <2>2, ConcatEmptySeq
      <3>4. P[Network!JoinNode(i)] = FirstNodes(3 * i)
        BY <2>3, <2>4, <3>1, <3>2, <3>3
      <3> QED
        BY <2>1, <3>4
    <2>6. CASE i # 1
      <3>1. P[Network!JoinNode(i - 1)] = FirstNodes(3 * (i - 1))
        BY <1>6, <2>6
      <3>2. P[Network!JoinNode(i - 1)] \in Seq(T)
        <4>1. i - 1 \in 1..N
          BY <1>1, <2>6
        <4> QED
          BY <3>1, <4>1, ThreeMore
      <3>3. PostOrderOf(P, Network!JoinNode(i)) =
              (P[Network!JoinNode(i - 1)] \o P[Network!AlphaNode(i)]) \o <<Network!JoinNode(i)>>
        <4> HIDE DEF T
        <4> QED
          BY ONLY <2>1, <2>2, <2>6, <3>2, ParentsFirst
      <3>4. P[Network!JoinNode(i)] = FirstNodes(3 * i)
        BY <2>2, <2>3, <2>4, <3>1, <3>3
      <3> QED
        BY <2>1, <3>4
    <2> QED
      BY <2>5, <2>6
  <1>7. P[Network!JoinNode(N)] = FirstNodes(3 * N)
    <2>1. \A i \in 1..N : i - 1 \in S => i \in S
      BY <1>6
    <2>2. \A i \in 0..N : i \in S
      <3> HIDE DEF S, N
      <3> QED
        BY <1>1, <1>5, <2>1, CountingUp
    <2>3. N \in 0..N /\ N # 0
      BY <1>1
    <2> HIDE DEF N
    <2>4. N \in S
      BY <2>2, <2>3
    <2> QED
      BY <2>3, <2>4
  <1> HIDE DEF S
  <1>8. /\ FirstNodes(3 * N) \in Seq(T)
        /\ FirstNodes(3 * N) \o <<Network!TermNode>> = FirstNodes(3 * N + 1)
    <2>1. 3 * N \in Nat /\ 3 * N <= 3 * N
      BY <1>1
    <2>2. NodeAt(3 * N + 1) = Network!TermNode
      BY NodeAtValues
    <2> QED
      BY <2>1, <2>2, FirstNodesGrow
  <1>9. PostOrderOf(P, Network!TermNode) = P[Network!JoinNode(N)] \o <<Network!TermNode>>
    <2>1. N \in Nat /\ N = Len(src.net) /\ P[Network!JoinNode(N)] \in Seq(T)
      BY <1>1, <1>7, <1>8
    <2> HIDE DEF T, N
    <2> QED
      BY ONLY <2>1, ParentsFirst
  <1>10. P[Network!TermNode] = PostOrderOf(P, Network!TermNode)
    BY <1>2, AreNodes
  <1> QED
    BY <1>7, <1>8, <1>9, <1>10

(* There is such an order.                                                 *)
LEMMA PostOrderExists ==
    ASSUME src \in Sources
    PROVE  \E P : IsPostOrder(P)
  <1> DEFINE N == Len(src.net)
             T == Network!Nodes
             W == [node \in T |->
                     IF node = Network!TermNode THEN FirstNodes(3 * N + 1)
                     ELSE IF node[1] = "type" THEN <<node>>
                     ELSE IF node[1] = "alpha" THEN Pair(node[2])
                     ELSE FirstNodes(3 * node[2])]
  <1>1. N \in Nat /\ N >= 1
    BY PatternsAssumption
  <1>2. ASSUME NEW i \in 1..N
        PROVE  /\ W[Network!TypeNode(i)] = <<Network!TypeNode(i)>>
               /\ W[Network!AlphaNode(i)] = Pair(i)
               /\ W[Network!JoinNode(i)] = FirstNodes(3 * i)
    <2>1. /\ Network!TypeNode(i) \in T /\ Network!TypeNode(i) # Network!TermNode
          /\ Network!TypeNode(i)[1] = "type"
      BY AreNodes, NodesDiffer DEF Network!TypeNode
    <2>2. /\ Network!AlphaNode(i) \in T /\ Network!AlphaNode(i) # Network!TermNode
          /\ Network!AlphaNode(i)[1] = "alpha" /\ Network!AlphaNode(i)[2] = i
      BY AreNodes, NodesDiffer DEF Network!AlphaNode
    <2>3. /\ Network!JoinNode(i) \in T /\ Network!JoinNode(i) # Network!TermNode
          /\ Network!JoinNode(i)[1] = "join" /\ Network!JoinNode(i)[2] = i
      BY AreNodes, NodesDiffer DEF Network!JoinNode
    <2> HIDE DEF T
    <2> QED
      BY <2>1, <2>2, <2>3
  <1>3. W[Network!TermNode] = FirstNodes(3 * N + 1)
    BY AreNodes
  <1> HIDE DEF W
  <1>4. ASSUME NEW i \in 1..N
        PROVE  /\ W[Network!TypeNode(i)] \in Seq(T)
               /\ W[Network!AlphaNode(i)] \in Seq(T)
               /\ W[Network!JoinNode(i)] \in Seq(T)
    BY <1>2, ThreeMore
  <1>5. ASSUME NEW i \in 1..N
        PROVE  W[Network!TypeNode(i)] = PostOrderOf(W, Network!TypeNode(i))
    <2>1. i \in Nat
      BY <1>1
    <2>2. PostOrderOf(W, Network!TypeNode(i)) = <<>> \o <<Network!TypeNode(i)>>
      BY ONLY <2>1, ParentsFirst
    <2>3. <<Network!TypeNode(i)>> \in Seq(T)
      BY ThreeMore
    <2> QED
      BY <1>2, <2>2, <2>3, ConcatEmptySeq
  <1>6. ASSUME NEW i \in 1..N
        PROVE  W[Network!AlphaNode(i)] = PostOrderOf(W, Network!AlphaNode(i))
    <2>1. i \in Nat /\ W[Network!TypeNode(i)] \in Seq(T)
      BY <1>1, <1>4
    <2>2. PostOrderOf(W, Network!AlphaNode(i)) = W[Network!TypeNode(i)] \o <<Network!AlphaNode(i)>>
      <3> HIDE DEF T
      <3> QED
        BY ONLY <2>1, ParentsFirst
    <2> QED
      BY <1>2, <2>2 DEF Pair
  <1>7. ASSUME NEW i \in 1..N
        PROVE  W[Network!JoinNode(i)] = PostOrderOf(W, Network!JoinNode(i))
    <2>1. i \in Nat /\ W[Network!AlphaNode(i)] \in Seq(T) /\ W[Network!AlphaNode(i)] = Pair(i)
      BY <1>1, <1>2, <1>4
    <2>2. (FirstNodes(3 * (i - 1)) \o Pair(i)) \o <<Network!JoinNode(i)>> = FirstNodes(3 * i)
      BY ThreeMore
    <2>3. CASE i = 1
      <3>1. PostOrderOf(W, Network!JoinNode(i)) = Pair(i) \o <<Network!JoinNode(i)>>
        <4> HIDE DEF T
        <4> QED
          BY ONLY <2>1, <2>3, ParentsFirst
      <3>2. FirstNodes(3 * (i - 1)) = <<>>
        <4>1. 3 * (i - 1) = 0
          BY <2>3
        <4> QED
          BY <4>1 DEF FirstNodes
      <3>3. <<>> \o Pair(i) = Pair(i)
        BY <2>1, ConcatEmptySeq
      <3> QED
        BY <1>2, <2>2, <3>1, <3>2, <3>3
    <2>4. CASE i # 1
      <3>1. i - 1 \in 1..N
        BY <1>1, <2>4
      <3>2. W[Network!JoinNode(i - 1)] = FirstNodes(3 * (i - 1)) /\ W[Network!JoinNode(i - 1)] \in Seq(T)
        BY <1>2, <1>4, <3>1
      <3>3. PostOrderOf(W, Network!JoinNode(i)) =
              (W[Network!JoinNode(i - 1)] \o W[Network!AlphaNode(i)]) \o <<Network!JoinNode(i)>>
        <4> HIDE DEF T
        <4> QED
          BY ONLY <2>1, <2>4, <3>2, ParentsFirst
      <3> QED
        BY <1>2, <2>1, <2>2, <3>2, <3>3
    <2> QED
      BY <2>3, <2>4
  <1>8. W[Network!TermNode] = PostOrderOf(W, Network!TermNode)
    <2>1. N \in Nat /\ N = Len(src.net) /\ W[Network!JoinNode(N)] = FirstNodes(3 * N) /\ W[Network!JoinNode(N)] \in Seq(T)
      BY <1>1, <1>2, <1>4
    <2>2. PostOrderOf(W, Network!TermNode) = W[Network!JoinNode(N)] \o <<Network!TermNode>>
      <3> HIDE DEF T, N
      <3> QED
        BY ONLY <2>1, ParentsFirst
    <2>3. FirstNodes(3 * N) \o <<Network!TermNode>> = FirstNodes(3 * N + 1)
      <3>1. 3 * N \in Nat /\ 3 * N <= 3 * N
        BY <1>1
      <3>2. NodeAt(3 * N + 1) = Network!TermNode
        BY NodeAtValues
      <3> QED
        BY <3>1, <3>2, FirstNodesGrow
    <2> QED
      BY <1>3, <2>1, <2>2, <2>3
  <1>9. \A node \in T : W[node] = PostOrderOf(W, node)
    <2> SUFFICES ASSUME NEW node \in T PROVE W[node] = PostOrderOf(W, node)
      OBVIOUS
    <2>1. \/ node = Network!TermNode
          \/ \E i \in 1..N : \/ node = Network!TypeNode(i)
                             \/ node = Network!AlphaNode(i)
                             \/ node = Network!JoinNode(i)
      BY NodeKinds
    <2> QED
      BY <1>5, <1>6, <1>7, <1>8, <2>1
  <1>10. W = [node \in T |-> W[node]]
    BY DEF W
  <1> QED
    BY <1>9, <1>10 DEF IsPostOrder

(* genOrder lists, pattern by pattern, type node, alpha node and join      *)
(* node, and last the term node.                                           *)
LEMMA OrderKnown ==
    ASSUME src \in Sources
    PROVE  Network!GenOrder = FirstNodes(3 * Len(src.net) + 1)
  <1> DEFINE P == CHOOSE Q : IsPostOrder(Q)
  <1>1. IsPostOrder(P)
    BY PostOrderExists
  <1>2. Network!GenOrder = P[Network!TermNode]
    BY DEF Network!GenOrder, IsPostOrder, PostOrderOf
  <1> HIDE DEF P
  <1> QED
    BY <1>1, <1>2, PostOrderUnique

(* The nodes that have run in this turn hold what their code makes of the  *)
(* nodes above them as these are now, unless some list did not begin       *)
(* empty.                                                                  *)
RunSoFar ==
    /\ \A i \in 1..Len(src.net) :
        /\ 3 * i - 2 <= step => out[Network!TypeNode(i)] = Network!TypePushes(i)
        /\ 3 * i - 1 <= step => out[Network!AlphaNode(i)] = Network!AlphaPushes(i)
        /\ 3 * i <= step => out[Network!JoinNode(i)] = Network!JoinPushes(i)
    /\ step = 3 * Len(src.net) + 1 =>
        out[Network!TermNode] = out[Network!JoinNode(Len(src.net))]

NetworkInv ==
    /\ src \in Sources
    /\ wm \in Memories
    /\ Network!Compilable
    /\ order = FirstNodes(3 * Len(src.net) + 1)
    /\ DOMAIN out = Network!Nodes
    /\ step \in 0..(3 * Len(src.net) + 1)
    /\ strays \in Nat
    /\ strays = 0 => RunSoFar

(* What code makes of lists that have not changed.                         *)
LEMMA SameOut ==
    ASSUME src' = src, wm' = wm, val' = val, flag' = flag, NEW i
    PROVE  /\ Network!TypePushes(i)' = Network!TypePushes(i)
           /\ out'[Network!TypeNode(i)] = out[Network!TypeNode(i)]
                => Network!AlphaPushes(i)' = Network!AlphaPushes(i)
           /\ ( /\ out'[Network!AlphaNode(i)] = out[Network!AlphaNode(i)]
                /\ i = 1 \/ out'[Network!JoinNode(i - 1)] = out[Network!JoinNode(i - 1)] )
                => Network!JoinPushes(i)' = Network!JoinPushes(i)
  <1>1. Network!TypePushes(i)' = Network!TypePushes(i)
    BY DEF Network!TypePushes
  <1>2. Network!AlphaExprs(i)' = Network!AlphaExprs(i) /\ Network!BetaExprs(i)' = Network!BetaExprs(i)
    BY DEF Network!AlphaExprs, Network!BetaExprs
  <1>3. ASSUME out'[Network!TypeNode(i)] = out[Network!TypeNode(i)]
        PROVE  Network!AlphaPushes(i)' = Network!AlphaPushes(i)
    <2>1. \A t : Network!AlphaPasses(i, t)' = Network!AlphaPasses(i, t)
      BY <1>2 DEF Network!AlphaPasses
    <2> QED
      BY <1>3, <2>1 DEF Network!AlphaPushes
  <1>4. ASSUME out'[Network!AlphaNode(i)] = out[Network!AlphaNode(i)],
               i = 1 \/ out'[Network!JoinNode(i - 1)] = out[Network!JoinNode(i - 1)]
        PROVE  Network!JoinPushes(i)' = Network!JoinPushes(i)
    <2>1. \A c, t : Network!Holds(c, t)' = Network!Holds(c, t)
      BY DEF Network!Holds
    <2>2. CASE i = 1
      BY <1>4, <2>2 DEF Network!JoinPushes
    <2>3. CASE i # 1
      <3>1. PICK left : left = out[Network!JoinNode(i - 1)]
        OBVIOUS
      <3>2. PICK right : right = out[Network!AlphaNode(i)]
        OBVIOUS
      <3> DEFINE Pairs(n) == [m \in DOMAIN left |-> left[m] \o right[n]]
                 Good(n) == {t \in Network!Range(Pairs(n)) :
                               \A c \in Network!BetaExprs(i) : Network!Holds(c, t)}
                 Good1(n) == {t \in Network!Range(Pairs(n)) :
                               \A c \in Network!BetaExprs(i)' : Network!Holds(c, t)'}
      <3>3. Network!JoinPushes(i) =
              Network!FlattenSeq([n \in DOMAIN right |-> Network!Select(Pairs(n), Good(n))])
        BY <2>3, <3>1, <3>2 DEF Network!JoinPushes, Network!Joined
      <3>4. out'[Network!JoinNode(i - 1)] = left /\ out'[Network!AlphaNode(i)] = right
        BY <1>4, <2>3, <3>1, <3>2
      <3>5. Network!JoinPushes(i)' =
              Network!FlattenSeq([n \in DOMAIN right |-> Network!Select(Pairs(n), Good1(n))])
        BY <2>3, <3>4 DEF Network!JoinPushes, Network!Joined
      <3>6. \A n : Good1(n) = Good(n)
        <4> HIDE DEF Pairs
        <4> QED
          BY <1>2, <2>1
      <3> HIDE DEF Pairs, Good, Good1
      <3> QED
        BY <3>3, <3>5, <3>6
    <2> QED
      BY <2>2, <2>3
  <1> QED
    BY <1>1, <1>3, <1>4

(* What does not change with the network's variables.                      *)
LEMMA SameNetwork ==
    ASSUME src' = src
    PROVE  /\ Network!Nodes' = Network!Nodes
           /\ Network!TermNode' = Network!TermNode
           /\ Network!Compilable' = Network!Compilable
           /\ \A m : FirstNodes(m)' = FirstNodes(m)
           /\ \A k : NodeAt(k)' = NodeAt(k)
  <1>1. Network!TermNode' = Network!TermNode
    BY DEF Network!TermNode
  <1>2. Network!Nodes' = Network!Nodes
    BY <1>1 DEF Network!Nodes, Network!Patterns
  <1>3. Network!Compilable' = Network!Compilable
    BY DEF Network!Compilable, Network!Patterns, Network!AlphaExprs, Network!BetaExprs
  <1>4. \A k : NodeAt(k)' = NodeAt(k)
    BY <1>1 DEF NodeAt
  <1>5. \A m : FirstNodes(m)' = FirstNodes(m)
    BY <1>4 DEF FirstNodes
  <1> QED
    BY <1>1, <1>2, <1>3, <1>4, <1>5

(* Steps of the other stages.                                              *)
LEMMA NetworkKept ==
    ASSUME NetworkInv, src' = src, UNCHANGED networkVars
    PROVE  NetworkInv'
  <1>1. /\ wm' = wm /\ val' = val /\ flag' = flag /\ order' = order /\ out' = out /\ step' = step
        /\ strays' = strays
    BY DEF networkVars
  <1>2. \A i : /\ Network!TypePushes(i)' = Network!TypePushes(i)
               /\ Network!AlphaPushes(i)' = Network!AlphaPushes(i)
               /\ Network!JoinPushes(i)' = Network!JoinPushes(i)
    BY <1>1, SameOut
  <1>3. RunSoFar => RunSoFar'
    BY <1>1, <1>2, SameNetwork DEF NetworkInv, RunSoFar
  <1> QED
    BY <1>1, <1>3, SameNetwork DEF NetworkInv

(* The node that runs next, and what a run leaves alone.                   *)
LEMMA NodeRuns ==
    ASSUME NetworkInv, src' = src, NEW kind, NEW list, NEW count,
           Network!At(kind), Network!Run(list, count)
    PROVE  /\ step + 1 \in 1..(3 * Len(src.net) + 1)
           /\ Network!Node = NodeAt(step + 1)
           /\ Network!Node \in Network!Nodes
           /\ Network!Node[1] = kind
           /\ DOMAIN out' = Network!Nodes
           /\ out'[Network!Node] = list
           /\ \A node \in Network!Nodes : node # Network!Node => out'[node] = out[node]
           /\ step' = step + 1
           /\ strays' = count
           /\ UNCHANGED <<wm, val, flag, order>>
  <1> DEFINE M == 3 * Len(src.net) + 1
  <1>1. Len(src.net) \in Nat /\ step \in 0..M
    BY PatternsAssumption DEF NetworkInv
  <1>2. /\ step < Len(order) /\ Network!Node[1] = kind
        /\ out' = [out EXCEPT ![Network!Node] = list]
        /\ step' = step + 1
        /\ strays' = count
        /\ UNCHANGED <<wm, val, flag, order>>
    BY DEF Network!Run, Network!At
  <1>3. order = FirstNodes(M) /\ DOMAIN out = Network!Nodes
    BY DEF NetworkInv
  <1>4. \A k \in 1..M : FirstNodes(M)[k] = NodeAt(k)
    BY DEF FirstNodes
  <1>5. Len(FirstNodes(M)) = M
    <2>1. M \in Nat
      BY <1>1
    <2>2. FirstNodes(M) \in Seq(Network!Nodes)
      <3>1. 3 * Len(src.net) \in Nat /\ 3 * Len(src.net) <= 3 * Len(src.net)
        BY <1>1
      <3> QED
        BY <3>1, FirstNodesGrow DEF NetworkInv
    <2>3. DOMAIN FirstNodes(M) = 1..M
      BY DEF FirstNodes
    <2> HIDE DEF M
    <2> QED
      BY <2>1, <2>2, <2>3
  <1>6. step + 1 \in 1..M
    BY <1>1, <1>2, <1>3, <1>5
  <1>7. Network!Node = NodeAt(step + 1)
    BY <1>3, <1>4, <1>6 DEF Network!Node
  <1>8. Network!Node \in Network!Nodes
    BY <1>6, <1>7, NodeAtValues DEF NetworkInv
  <1> HIDE DEF M
  <1>9. /\ DOMAIN out' = Network!Nodes
        /\ out'[Network!Node] = list
        /\ \A node \in Network!Nodes : node # Network!Node => out'[node] = out[node]
    BY <1>2, <1>3, <1>8
  <1> QED
    BY <1>2, <1>6, <1>7, <1>8, <1>9 DEF M

(* A type node runs.                                                       *)
LEMMA TypeRuns ==
    ASSUME NetworkInv, src' = src, Network!RunType
    PROVE  NetworkInv'
  <1> DEFINE N == Len(src.net)
  <1>1. N \in Nat
    BY PatternsAssumption DEF NetworkInv
  <1>2. PICK list, count :
          /\ Network!Run(list, count) /\ count \in Nat
          /\ count = 0 => strays = 0 /\ list = Network!TypePushes(Network!Node[2])
    <2>1. strays \in Nat /\ strays + 1 \in Nat /\ strays + 1 # 0
      BY DEF NetworkInv
    <2>2. PICK pushed : pushed = Network!TypePushes(Network!Node[2])
      OBVIOUS
    <2>3. Network!Fill(1, pushed)
      BY <2>2 DEF Network!RunType
    <2>4. CASE Network!Run(pushed, strays)
      BY <2>1, <2>2, <2>4
    <2>5. CASE \E t \in [1..1 -> Garbage] : Network!Run(<<t>> \o pushed, strays + 1)
      <3>1. PICK t : Network!Run(<<t>> \o pushed, strays + 1)
        BY <2>5
      <3>2. PICK l, n : l = <<t>> \o pushed /\ n = strays + 1
        OBVIOUS
      <3>3. Network!Run(l, n) /\ n \in Nat /\ n # 0
        BY <2>1, <3>1, <3>2
      <3> QED
        BY <3>3
    <2> QED
      BY <2>3, <2>4, <2>5 DEF Network!Fill
  <1>3. Network!At("type")
    BY DEF Network!RunType
  <1>4. /\ step + 1 \in 1..(3 * N + 1) /\ step \in Nat
        /\ Network!Node = NodeAt(step + 1) /\ Network!Node[1] = "type"
        /\ DOMAIN out' = Network!Nodes /\ out'[Network!Node] = list
        /\ \A node \in Network!Nodes : node # Network!Node => out'[node] = out[node]
        /\ step' = step + 1 /\ strays' = count
        /\ wm' = wm /\ val' = val /\ flag' = flag /\ order' = order
    BY <1>1, <1>2, <1>3, NodeRuns DEF NetworkInv
  <1>5. PICK i \in 1..N : step + 1 = 3 * i - 2 /\ Network!Node = Network!TypeNode(i)
    <2>1. /\ \A j \in 1..N : /\ NodeAt(3 * j - 1) = Network!AlphaNode(j)
                             /\ NodeAt(3 * j - 2) = Network!TypeNode(j)
                             /\ NodeAt(3 * j) = Network!JoinNode(j)
          /\ NodeAt(3 * N + 1) = Network!TermNode
      BY NodeAtValues DEF NetworkInv
    <2>2. Network!TermNode[1] # "type" /\ \A j : Network!AlphaNode(j)[1] # "type" /\ Network!JoinNode(j)[1] # "type"
      BY DEF Network!TermNode, Network!AlphaNode, Network!JoinNode
    <2>3. \/ step + 1 = 3 * N + 1
          \/ \E j \in 1..N : step + 1 = 3 * j - 2 \/ step + 1 = 3 * j - 1 \/ step + 1 = 3 * j
      <3> HIDE DEF N
      <3> QED
        BY <1>1, <1>4, NodeCases
    <2> QED
      BY <1>4, <2>1, <2>2, <2>3
  <1>6. count = 0 => list = Network!TypePushes(i)
    BY <1>2, <1>5 DEF Network!TypeNode
  <1>7. /\ \A j \in 1..N : out'[Network!AlphaNode(j)] = out[Network!AlphaNode(j)]
        /\ \A j \in 1..N : out'[Network!JoinNode(j)] = out[Network!JoinNode(j)]
        /\ \A j \in 1..N : j # i => out'[Network!TypeNode(j)] = out[Network!TypeNode(j)]
        /\ count = 0 => out'[Network!TypeNode(i)] = Network!TypePushes(i)
    BY <1>4, <1>5, <1>6, AreNodes, NodesDiffer
  <1>8. ASSUME NEW j \in 1..N, strays' = 0
        PROVE  /\ 3 * j - 2 <= step' => out'[Network!TypeNode(j)] = Network!TypePushes(j)'
               /\ 3 * j - 1 <= step' => out'[Network!AlphaNode(j)] = Network!AlphaPushes(j)'
               /\ 3 * j <= step' => out'[Network!JoinNode(j)] = Network!JoinPushes(j)'
    <2>1. /\ 3 * j - 2 <= step => out[Network!TypeNode(j)] = Network!TypePushes(j)
          /\ 3 * j - 1 <= step => out[Network!AlphaNode(j)] = Network!AlphaPushes(j)
          /\ 3 * j <= step => out[Network!JoinNode(j)] = Network!JoinPushes(j)
      BY <1>2, <1>4, <1>8 DEF NetworkInv, RunSoFar
    <2>2. /\ 3 * j - 2 <= step' => j = i \/ 3 * j - 2 <= step
          /\ 3 * j - 1 <= step' => 3 * j - 1 <= step /\ j # i
          /\ 3 * j <= step' => 3 * j <= step
          /\ j = 1 \/ j - 1 \in 1..N
      BY <1>1, <1>4, <1>5
    <2>3. Network!TypePushes(j)' = Network!TypePushes(j)
      BY <1>4, SameOut
    <2>4. j # i => Network!AlphaPushes(j)' = Network!AlphaPushes(j)
      BY <1>4, <1>7, SameOut
    <2>5. Network!JoinPushes(j)' = Network!JoinPushes(j)
      BY <1>4, <1>7, <2>2, SameOut
    <2> HIDE DEF N
    <2> QED
      BY <1>4, <1>7, <1>8, <2>1, <2>2, <2>3, <2>4, <2>5
  <1>9. step' # 3 * N + 1 /\ step' \in 0..(3 * N + 1)
    BY <1>1, <1>4, <1>5
  <1>10. strays' = 0 => RunSoFar'
    BY <1>8, <1>9 DEF RunSoFar
  <1> QED
    BY <1>2, <1>4, <1>9, <1>10, SameNetwork DEF NetworkInv

(* The place of a node in the order tells its kind and its pattern.        *)
LEMMA WhichNode ==
    ASSUME src \in Sources, NEW k \in 1..(3 * Len(src.net) + 1)
    PROVE  \/ k = 3 * Len(src.net) + 1 /\ NodeAt(k) = Network!TermNode /\ NodeAt(k)[1] = "term"
           \/ \E i \in 1..Len(src.net) :
                \/ k = 3 * i - 2 /\ NodeAt(k) = Network!TypeNode(i) /\ NodeAt(k)[1] = "type"
                \/ k = 3 * i - 1 /\ NodeAt(k) = Network!AlphaNode(i) /\ NodeAt(k)[1] = "alpha"
                \/ k = 3 * i /\ NodeAt(k) = Network!JoinNode(i) /\ NodeAt(k)[1] = "join"
  <1> DEFINE N == Len(src.net)
  <1>1. N \in Nat
    BY PatternsAssumption
  <1>2. /\ \A j \in 1..N : /\ NodeAt(3 * j - 2) = Network!TypeNode(j)
                           /\ NodeAt(3 * j - 1) = Network!AlphaNode(j)
                           /\ NodeAt(3 * j) = Network!JoinNode(j)
        /\ NodeAt(3 * N + 1) = Network!TermNode
    BY NodeAtValues
  <1>3. /\ Network!TermNode[1] = "term"
        /\ \A j : /\ Network!TypeNode(j)[1] = "type"
                  /\ Network!AlphaNode(j)[1] = "alpha"
                  /\ Network!JoinNode(j)[1] = "join"
    BY DEF Network!TermNode, Network!TypeNode, Network!AlphaNode, Network!JoinNode
  <1>4. \/ k = 3 * N + 1
        \/ \E j \in 1..N : k = 3 * j - 2 \/ k = 3 * j - 1 \/ k = 3 * j
    <2> HIDE DEF N
    <2> QED
      BY <1>1, NodeCases DEF N
  <1> QED
    BY <1>2, <1>3, <1>4

(* An alpha node runs.                                                     *)
LEMMA AlphaRuns ==
    ASSUME NetworkInv, src' = src, Network!RunAlpha
    PROVE  NetworkInv'
  <1> DEFINE N == Len(src.net)
  <1>1. N \in Nat /\ src \in Sources
    BY PatternsAssumption DEF NetworkInv
  <1>2. PICK list, count :
          /\ Network!Run(list, count) /\ count \in Nat
          /\ count = 0 => strays = 0 /\ list = Network!AlphaPushes(Network!Node[2])
    <2>1. strays \in Nat /\ strays + 1 \in Nat /\ strays + 1 # 0
      BY DEF NetworkInv
    <2>2. PICK pushed : pushed = Network!AlphaPushes(Network!Node[2])
      OBVIOUS
    <2>3. Network!Fill(1, pushed)
      BY <2>2 DEF Network!RunAlpha
    <2>4. CASE Network!Run(pushed, strays)
      BY <2>1, <2>2, <2>4
    <2>5. CASE \E t \in [1..1 -> Garbage] : Network!Run(<<t>> \o pushed, strays + 1)
      <3>1. PICK t : Network!Run(<<t>> \o pushed, strays + 1)
        BY <2>5
      <3>2. PICK l, n : l = <<t>> \o pushed /\ n = strays + 1
        OBVIOUS
      <3>3. Network!Run(l, n) /\ n \in Nat /\ n # 0
        BY <2>1, <3>1, <3>2
      <3> QED
        BY <3>3
    <2> QED
      BY <2>3, <2>4, <2>5 DEF Network!Fill
  <1>3. Network!At("alpha")
    BY DEF Network!RunAlpha
  <1>4. /\ step + 1 \in 1..(3 * N + 1) /\ step \in Nat
        /\ Network!Node = NodeAt(step + 1) /\ Network!Node[1] = "alpha"
        /\ DOMAIN out' = Network!Nodes /\ out'[Network!Node] = list
        /\ \A node \in Network!Nodes : node # Network!Node => out'[node] = out[node]
        /\ step' = step + 1 /\ strays' = count
        /\ wm' = wm /\ val' = val /\ flag' = flag /\ order' = order
    BY <1>1, <1>2, <1>3, NodeRuns DEF NetworkInv
  <1>5. PICK i \in 1..N : step + 1 = 3 * i - 1 /\ Network!Node = Network!AlphaNode(i)
    BY <1>1, <1>4, WhichNode
  <1>6. count = 0 => list = Network!AlphaPushes(i)
    BY <1>2, <1>5 DEF Network!AlphaNode
  <1>7. /\ \A j \in 1..N : out'[Network!TypeNode(j)] = out[Network!TypeNode(j)]
        /\ \A j \in 1..N : out'[Network!JoinNode(j)] = out[Network!JoinNode(j)]
        /\ \A j \in 1..N : j # i => out'[Network!AlphaNode(j)] = out[Network!AlphaNode(j)]
        /\ count = 0 => out'[Network!AlphaNode(i)] = Network!AlphaPushes(i)
    BY <1>4, <1>5, <1>6, AreNodes, NodesDiffer
  <1>8. ASSUME NEW j \in 1..N, strays' = 0
        PROVE  /\ 3 * j - 2 <= step' => out'[Network!TypeNode(j)] = Network!TypePushes(j)'
               /\ 3 * j - 1 <= step' => out'[Network!AlphaNode(j)] = Network!AlphaPushes(j)'
               /\ 3 * j <= step' => out'[Network!JoinNode(j)] = Network!JoinPushes(j)'
    <2>1. /\ 3 * j - 2 <= step => out[Network!TypeNode(j)] = Network!TypePushes(j)
          /\ 3 * j - 1 <= step => out[Network!AlphaNode(j)] = Network!AlphaPushes(j)
          /\ 3 * j <= step => out[Network!JoinNode(j)] = Network!JoinPushes(j)
      BY <1>2, <1>4, <1>8 DEF NetworkInv, RunSoFar
    <2>2. /\ 3 * j - 2 <= step' => 3 * j - 2 <= step
          /\ 3 * j - 1 <= step' => j = i \/ 3 * j - 1 <= step
          /\ 3 * j <= step' => 3 * j <= step /\ j # i
          /\ j = 1 \/ j - 1 \in 1..N
      BY <1>1, <1>4, <1>5
    <2>3. Network!TypePushes(j)' = Network!TypePushes(j)
      BY <1>4, SameOut
    <2>4. Network!AlphaPushes(j)' = Network!AlphaPushes(j)
      BY <1>4, <1>7, SameOut
    <2>5. j # i => Network!JoinPushes(j)' = Network!JoinPushes(j)
      BY <1>4, <1>7, <2>2, SameOut
    <2> HIDE DEF N
    <2> QED
      BY <1>4, <1>7, <1>8, <2>1, <2>2, <2>3, <2>4, <2>5
  <1>9. step' # 3 * N + 1 /\ step' \in 0..(3 * N + 1)
    BY <1>1, <1>4, <1>5
  <1>10. strays' = 0 => RunSoFar'
    BY <1>8, <1>9 DEF RunSoFar
  <1> QED
    BY <1>2, <1>4, <1>9, <1>10, SameNetwork DEF NetworkInv

(* A join node runs.                                                       *)
LEMMA JoinRuns ==
    ASSUME NetworkInv, src' = src, Network!RunJoin
    PROVE  NetworkInv'
  <1> DEFINE N == Len(src.net)
  <1>1. N \in Nat /\ src \in Sources
    BY PatternsAssumption DEF NetworkInv
  <1>2. PICK list, count :
          /\ Network!Run(list, count) /\ count \in Nat
          /\ count = 0 => strays = 0 /\ list = Network!JoinPushes(Network!Node[2])
    <2>1. strays \in Nat /\ strays + 1 \in Nat /\ strays + 1 # 0
      BY DEF NetworkInv
    <2> QED
      BY <2>1 DEF Network!RunJoin, Network!Fill
  <1>3. Network!At("join")
    BY DEF Network!RunJoin
  <1>4. /\ step + 1 \in 1..(3 * N + 1) /\ step \in Nat
        /\ Network!Node = NodeAt(step + 1) /\ Network!Node[1] = "join"
        /\ DOMAIN out' = Network!Nodes /\ out'[Network!Node] = list
        /\ \A node \in Network!Nodes : node # Network!Node => out'[node] = out[node]
        /\ step' = step + 1 /\ strays' = count
        /\ wm' = wm /\ val' = val /\ flag' = flag /\ order' = order
    BY <1>1, <1>2, <1>3, NodeRuns DEF NetworkInv
  <1>5. PICK i \in 1..N : step + 1 = 3 * i /\ Network!Node = Network!JoinNode(i)
    BY <1>1, <1>4, WhichNode
  <1>6. count = 0 => list = Network!JoinPushes(i)
    BY <1>2, <1>5 DEF Network!JoinNode
  <1>7. /\ \A j \in 1..N : out'[Network!TypeNode(j)] = out[Network!TypeNode(j)]
        /\ \A j \in 1..N : out'[Network!AlphaNode(j)] = out[Network!AlphaNode(j)]
        /\ \A j \in 1..N : j # i => out'[Network!JoinNode(j)] = out[Network!JoinNode(j)]
        /\ count = 0 => out'[Network!JoinNode(i)] = Network!JoinPushes(i)
    BY <1>4, <1>5, <1>6, AreNodes, NodesDiffer
  <1>8. ASSUME NEW j \in 1..N, strays' = 0
        PROVE  /\ 3 * j - 2 <= step' => out'[Network!TypeNode(j)] = Network!TypePushes(j)'
               /\ 3 * j - 1 <= step' => out'[Network!AlphaNode(j)] = Network!AlphaPushes(j)'
               /\ 3 * j <= step' => out'[Network!JoinNode(j)] = Network!JoinPushes(j)'
    <2>1. /\ 3 * j - 2 <= step => out[Network!TypeNode(j)] = Network!TypePushes(j)
          /\ 3 * j - 1 <= step => out[Network!AlphaNode(j)] = Network!AlphaPushes(j)
          /\ 3 * j <= step => out[Network!JoinNode(j)] = Network!JoinPushes(j)
      BY <1>2, <1>4, <1>8 DEF NetworkInv, RunSoFar
    <2>2. /\ 3 * j - 2 <= step' => 3 * j - 2 <= step
          /\ 3 * j - 1 <= step' => 3 * j - 1 <= step
          /\ 3 * j <= step' => j - 1 # i /\ (j = i \/ 3 * j <= step)
          /\ j = 1 \/ j - 1 \in 1..N
      BY <1>1, <1>4, <1>5
    <2>3. Network!TypePushes(j)' = Network!TypePushes(j)
      BY <1>4, SameOut
    <2>4. Network!AlphaPushes(j)' = Network!AlphaPushes(j)
      BY <1>4, <1>7, SameOut
    <2>5. j - 1 # i => Network!JoinPushes(j)' = Network!JoinPushes(j)
      BY <1>4, <1>7, <2>2, SameOut
    <2> HIDE DEF N
    <2> QED
      BY <1>4, <1>7, <1>8, <2>1, <2>2, <2>3, <2>4, <2>5
  <1>9. step' # 3 * N + 1 /\ step' \in 0..(3 * N + 1)
    BY <1>1, <1>4, <1>5
  <1>10. strays' = 0 => RunSoFar'
    BY <1>8, <1>9 DEF RunSoFar
  <1> QED
    BY <1>2, <1>4, <1>9, <1>10, SameNetwork DEF NetworkInv

(* The term node runs.                                                     *)
LEMMA TermRuns ==
    ASSUME NetworkInv, src' = src, Network!RunTerm
    PROVE  NetworkInv'
  <1> DEFINE N == Len(src.net)
  <1>1. N \in Nat /\ N >= 1 /\ src \in Sources
    BY PatternsAssumption DEF NetworkInv
  <1>2. PICK list, count :
          /\ Network!Run(list, count) /\ count \in Nat
          /\ count = 0 => strays = 0 /\ list = out[Network!JoinNode(Network!Node[2])]
    <2>1. strays \in Nat /\ strays + 1 \in Nat /\ strays + 1 # 0
      BY DEF NetworkInv
    <2> QED
      BY <2>1 DEF Network!RunTerm, Network!Fill
  <1>3. Network!At("term")
    BY DEF Network!RunTerm
  <1>4. /\ step + 1 \in 1..(3 * N + 1) /\ step \in Nat
        /\ Network!Node = NodeAt(step + 1) /\ Network!Node[1] = "term"
        /\ DOMAIN out' = Network!Nodes /\ out'[Network!Node] = list
        /\ \A node \in Network!Nodes : node # Network!Node => out'[node] = out[node]
        /\ step' = step + 1 /\ strays' = count
        /\ wm' = wm /\ val' = val /\ flag' = flag /\ order' = order
    BY <1>1, <1>2, <1>3, NodeRuns DEF NetworkInv
  <1>5. step + 1 = 3 * N + 1 /\ Network!Node = Network!TermNode
    BY <1>1, <1>4, WhichNode
  <1>6. count = 0 => list = out[Network!JoinNode(N)]
    BY <1>2, <1>5 DEF Network!TermNode
  <1>7. /\ \A j \in 1..N : out'[Network!TypeNode(j)] = out[Network!TypeNode(j)]
        /\ \A j \in 1..N : out'[Network!AlphaNode(j)] = out[Network!AlphaNode(j)]
        /\ \A j \in 1..N : out'[Network!JoinNode(j)] = out[Network!JoinNode(j)]
        /\ count = 0 => out'[Network!TermNode] = out[Network!JoinNode(N)]
    BY <1>4, <1>5, <1>6, AreNodes, NodesDiffer
  <1>8. ASSUME NEW j \in 1..N, strays' = 0
        PROVE  /\ 3 * j - 2 <= step' => out'[Network!TypeNode(j)] = Network!TypePushes(j)'
               /\ 3 * j - 1 <= step' => out'[Network!AlphaNode(j)] = Network!AlphaPushes(j)'
               /\ 3 * j <= step' => out'[Network!JoinNode(j)] = Network!JoinPushes(j)'
    <2>1. /\ 3 * j - 2 <= step => out[Network!TypeNode(j)] = Network!TypePushes(j)
          /\ 3 * j - 1 <= step => out[Network!AlphaNode(j)] = Network!AlphaPushes(j)
          /\ 3 * j <= step => out[Network!JoinNode(j)] = Network!JoinPushes(j)
      BY <1>2, <1>4, <1>8 DEF NetworkInv, RunSoFar
    <2>2. /\ 3 * j - 2 <= step /\ 3 * j - 1 <= step /\ 3 * j <= step
          /\ j = 1 \/ j - 1 \in 1..N
      BY <1>1, <1>4, <1>5
    <2>3. Network!TypePushes(j)' = Network!TypePushes(j)
      BY <1>4, SameOut
    <2>4. Network!AlphaPushes(j)' = Network!AlphaPushes(j)
      BY <1>4, <1>7, SameOut
    <2>5. Network!JoinPushes(j)' = Network!JoinPushes(j)
      BY <1>4, <1>7, <2>2, SameOut
    <2> HIDE DEF N
    <2> QED
      BY <1>4, <1>7, <1>8, <2>1, <2>2, <2>3, <2>4, <2>5
  <1>9. step' \in 0..(3 * N + 1)
    BY <1>1, <1>4, <1>5
  <1>10. strays' = 0 => out'[Network!TermNode'] = out'[Network!JoinNode(N)]
    <2>1. N \in 1..N
      BY <1>1
    <2>2. Network!TermNode' = Network!TermNode
      BY SameNetwork
    <2> HIDE DEF N
    <2> QED
      BY <1>4, <1>7, <2>1, <2>2
  <1>11. strays' = 0 => RunSoFar'
    BY <1>8, <1>10 DEF RunSoFar
  <1> QED
    BY <1>2, <1>4, <1>9, <1>11, SameNetwork DEF NetworkInv

(* Nothing has run when a then block asks for another turn.                *)
LEMMA TurnBegins ==
    ASSUME NetworkInv, src' = src, Network!Reevaluate
    PROVE  NetworkInv'
  <1>1. Len(src.net) \in Nat
    BY PatternsAssumption DEF NetworkInv
  <1>2. /\ step' = 0 /\ wm' = wm /\ order' = order /\ DOMAIN out' = Network!Nodes
        /\ strays' = strays
    BY DEF Network!Reevaluate
  <1>3. \A i \in 1..Len(src.net) : ~ (3 * i - 2 <= 0) /\ ~ (3 * i - 1 <= 0) /\ ~ (3 * i <= 0)
    BY <1>1
  <1>4. 0 \in 0..(3 * Len(src.net) + 1) /\ 0 # 3 * Len(src.net) + 1
    BY <1>1
  <1>5. RunSoFar'
    BY <1>2, <1>3, <1>4 DEF RunSoFar
  <1> QED
    BY <1>2, <1>4, <1>5, SameNetwork DEF NetworkInv

(* Throughout, the nodes that have run in this turn hold what their code   *)
(* makes of the nodes above them.                                          *)
THEOREM NetworkRuns == PhasesSpec => []NetworkInv
  <1>1. ASSUME PhasesInit PROVE NetworkInv
    <2>1. /\ src \in Sources /\ wm \in Memories /\ Network!Compilable
          /\ order = Network!GenOrder
          /\ out = [node \in Network!Nodes |-> <<>>]
          /\ step = 0 /\ strays = 0
      BY <1>1 DEF PhasesInit, Network!Init
    <2>2. Len(src.net) \in Nat
      BY <2>1, PatternsAssumption
    <2>3. order = FirstNodes(3 * Len(src.net) + 1)
      BY <2>1, OrderKnown
    <2>4. \A i \in 1..Len(src.net) : ~ (3 * i - 2 <= 0) /\ ~ (3 * i - 1 <= 0) /\ ~ (3 * i <= 0)
      BY <2>2
    <2>5. 0 \in 0..(3 * Len(src.net) + 1) /\ 0 # 3 * Len(src.net) + 1
      BY <2>2
    <2>6. RunSoFar
      BY <2>1, <2>4, <2>5 DEF RunSoFar
    <2> QED
      BY <2>1, <2>3, <2>5, <2>6 DEF NetworkInv
  <1>2. ASSUME NetworkInv, [PhasesNext]_phaseVars PROVE NetworkInv'
    <2>1. CASE ResolveRules
      BY <1>2, <2>1, NetworkKept DEF ResolveRules
    <2>2. CASE GenerateCode
      BY <1>2, <2>2, NetworkKept DEF GenerateCode
    <2>3. CASE RunNetwork
      <3>1. src' = src /\ Network!Next
        BY <2>3 DEF RunNetwork
      <3> QED
        BY <1>2, <3>1, TypeRuns, AlphaRuns, JoinRuns, TermRuns, TurnBegins DEF Network!Next
    <2>4. CASE UNCHANGED phaseVars
      BY <1>2, <2>4, NetworkKept DEF phaseVars
    <2> QED
      BY <1>2, <2>1, <2>2, <2>3, <2>4 DEF PhasesNext
  <1> QED
    BY <1>1, <1>2, PTL DEF PhasesSpec

(* Every run of a rule's network finds exactly the sets of facts that meet *)
(* its conditions, as often as they can be chosen, whatever the runs       *)
(* before left in the nodes' lists, for any rule the compiler takes whose  *)
(* first pattern has conditions on its own fact only, as long as no list a *)
(* node has allocated showed something before the first push: memory is    *)
(* not cleared, and nothing in the code prevents it.                       *)
THEOREM NetworkCorrect == PhasesSpec => []NetworkExact
  <1>1. ASSUME NetworkInv PROVE NetworkExact
    <2> SUFFICES ASSUME strays = 0, Network!BetaExprs(1) = {}, step = Len(order),
                        NEW t \in [Network!Patterns -> Facts]
                 PROVE  Network!Times(out[Network!TermNode], t) =
                          IF Network!Meets(t) THEN Network!Multiplicity(t) ELSE 0
      BY DEF NetworkExact, Network!NetworkExact, Network!Exact
    <2> DEFINE N == Len(src.net)
               M == 3 * N + 1
    <2>1. N \in Nat /\ src \in Sources /\ wm \in Memories /\ Network!Compilable
      BY <1>1, PatternsAssumption DEF NetworkInv
    <2>2. Len(order) = M
      <3>1. 3 * N \in Nat /\ 3 * N <= 3 * N /\ M \in Nat
        BY <2>1
      <3>2. FirstNodes(M) \in Seq(Network!Nodes)
        BY <2>1, <3>1, FirstNodesGrow
      <3>3. DOMAIN FirstNodes(M) = 1..M
        BY DEF FirstNodes
      <3>4. order = FirstNodes(M)
        BY <1>1 DEF NetworkInv
      <3> HIDE DEF M
      <3> QED
        BY <3>1, <3>2, <3>3, <3>4
    <2>3. step = M
      BY <2>2
    <2>4. \A i \in 1..N : Settled(i)
      <3> SUFFICES ASSUME NEW i \in 1..N PROVE Settled(i)
        OBVIOUS
      <3>1. 3 * i - 2 <= step /\ 3 * i - 1 <= step /\ 3 * i <= step
        BY <2>1, <2>3
      <3> QED
        BY <1>1, <3>1 DEF NetworkInv, RunSoFar, Settled
    <2>5. out[Network!TermNode] = out[Network!JoinNode(N)]
      BY <1>1, <2>3 DEF NetworkInv, RunSoFar
    <2>6. t \in Tuples(N)
      BY DEF Tuples, Network!Patterns
    <2> HIDE DEF N, M
    <2> QED
      BY <2>1, <2>4, <2>5, <2>6, ListsExact DEF N
  <1> QED
    BY <1>1, NetworkRuns, PTL
=============================================================================
