----------------------- MODULE StandardCompiler_proofs -----------------------
(***************************************************************************)
(* StateMatchesData, SuccessClean, AnswerCurrent and FailureExplained for  *)
(* every set of sources, every sequence of calls and requests and every    *)
(* limit of the error reporter.                                            *)
(*                                                                         *)
(* The loops of the stack (over the sources to parse, the imports of one,  *)
(* the phases and the sources of a phase, the visits of the depth-first    *)
(* search, the contracts to compile, the sources of a request) are         *)
(* recursive functions; each has a lemma that says what it is at a step,   *)
(* and an invariant that its step keeps.                                   *)
(*                                                                         *)
(* StackInv says for each state of the object what its data are good for;  *)
(* every call keeps it.  Its parts come from four arguments: parse ends    *)
(* with all trees or a reported error; the depth-first search finishes a   *)
(* successor before its node unless a path leads back; a phase of the      *)
(* analysis answers true only if it met no fault, or a later one does not; *)
(* compile makes the code a contract embeds before the contract.           *)
(***************************************************************************)
EXTENDS StandardCompiler, Loops_proofs, SequenceTheorems, FiniteSetTheorems, TLAPS

(* Lists of the constants.                                                 *)
LEMMA ConstantTypes ==
    /\ NameOrder \in Seq(SourceNames)
    /\ Imports \in [Texts -> Seq(SourceNames)]
    /\ \A n \in DOMAIN Files : Files[n] \in Texts
    /\ ErrorLimit \in Nat
  BY SourcesAssumption, BoundsAssumption, Zenon

(* The lengths the loops run to.                                           *)
LEMMA Lengths ==
    /\ Len(NameOrder) \in Nat
    /\ \A t \in Texts : Len(Imports[t]) \in Nat
    /\ Len(AnalysisPhases) = 13
  <1>1. Len(NameOrder) \in Nat
    BY ONLY ConstantTypes
  <1>2. \A t \in Texts : Len(Imports[t]) \in Nat
    BY ONLY ConstantTypes
  <1> QED
    BY <1>1, <1>2 DEF AnalysisPhases

(* Where the depth first search starts.                                    *)
SearchStart(roots) ==
    [todo |-> [i \in DOMAIN roots |-> Enter(roots[i])], seen |-> {}, out |-> <<>>]

(* How parse and analyze end.                                              *)
ParseEnd(p) ==
    IF p.thrown THEN Done(p.s, "thrown")
    ELSE IF OnlyWarnings(p.s) THEN Done([p.s EXCEPT !.state = "ParsingSuccessful"], "true")
    ELSE Done(p.s, "false")

AnalyzeEnd(a) ==
    IF a.ended = "thrown" THEN Done(a.s, "thrown")
    ELSE IF a.ok /\ a.ended = "no"
    THEN Done([a.s EXCEPT !.state = "AnalysisSuccessful"], "true")
    ELSE Done(a.s, "false")

(* What compile starts from, in which order it goes, and how it ends.      *)
Wanted(s) ==
    Only(ContractList(s), {c \in DOMAIN s.contracts : IsRequested(s, c) /\ Deployable(c)})
CompileOrder(s) ==
    PostOrder(Wanted(s), [c \in DOMAIN s.contracts |-> DependencyOrder(s, c)])
Counted(s) == [s EXCEPT !.compiles = @ + 1]
GenerateEnd(s, k) ==
    LET made == [Counted(s) EXCEPT !.contracts = k.s.contracts]
    IN  IF k.thrown THEN Done(made, "thrown")
        ELSE Done([Link(made) EXCEPT !.state = "CompilationSuccessful"], "true")

(* loadMissingSources, one import directive after the other.               *)
LEMMA LoadLoop ==
    ASSUME NEW t \in Texts, NEW s
    PROVE  \E f : /\ LoadMissingSources(s, t) = f[Len(Imports[t])]
                 /\ f[0] = [s |-> s, new |-> <<>>, thrown |-> FALSE]
                 /\ \A n \in 1..Len(Imports[t]) : f[n] = LoadImport(f[n - 1], Imports[t][n])
  <1> DEFINE N == Len(Imports[t])
             Start == [s |-> s, new |-> <<>>, thrown |-> FALSE]
             Turn(v, n) == LoadImport(v, Imports[t][n])
             Body(f) == [n \in 0..N |-> IF n = 0 THEN Start ELSE Turn(f[n - 1], n)]
             S == {k \in 0..N : \E f : /\ f[0] = Start
                                       /\ \A n \in 1..k : f[n] = Turn(f[n - 1], n)}
  <1>1. N \in Nat
    BY Lengths
  <1>2. LoadMissingSources(s, t) = (CHOOSE f : f = Body(f))[N]
    BY DEF LoadMissingSources
  <1> HIDE DEF N, Start, Turn
  <1>3. 0 \in S
    <2> DEFINE g == [n \in 0..0 |-> Start]
    <2>1. g[0] = Start /\ 1..0 = {}
      OBVIOUS
    <2> HIDE DEF g
    <2> QED
      BY <1>1, <2>1
  <1>4. ASSUME NEW k \in 1..N, k - 1 \in S
        PROVE  k \in S
    <2>1. PICK f : f[0] = Start /\ \A n \in 1..(k - 1) : f[n] = Turn(f[n - 1], n)
      BY <1>4
    <2> DEFINE g == [n \in 0..k |-> IF n = k THEN Turn(f[k - 1], k) ELSE f[n]]
    <2>2. g[0] = Start
      BY <2>1
    <2>3. ASSUME NEW n \in 1..k
          PROVE  g[n] = Turn(g[n - 1], n)
      <3>1. g[n - 1] = f[n - 1]
        OBVIOUS
      <3>2. CASE n = k
        <4>1. g[k] = Turn(f[k - 1], k)
          OBVIOUS
        <4> HIDE DEF g
        <4> QED
          BY <3>1, <3>2, <4>1
      <3>3. CASE n # k
        <4>1. n \in 1..(k - 1) /\ g[n] = f[n]
          BY <3>3
        <4> QED
          BY <2>1, <3>1, <4>1
      <3> QED
        BY <3>2, <3>3
    <2> HIDE DEF g
    <2> QED
      BY <2>2, <2>3
  <1>5. N \in S
    <2>1. \A k \in 1..N : k - 1 \in S => k \in S
      BY <1>4
    <2> HIDE DEF S
    <2> QED
      BY ONLY <1>1, <1>3, <2>1, CountingUp
  <1>6. PICK g : g[0] = Start /\ \A n \in 1..N : g[n] = Turn(g[n - 1], n)
    BY <1>5
  <1> DEFINE h == [n \in 0..N |-> g[n]]
  <1>7. h = Body(h)
    <2>1. ASSUME NEW n \in 0..N
          PROVE  h[n] = IF n = 0 THEN Start ELSE Turn(h[n - 1], n)
      <3>1. CASE n = 0
        BY <1>6, <3>1
      <3>2. CASE n # 0
        <4>1. n \in 1..N /\ h[n] = g[n] /\ h[n - 1] = g[n - 1]
          BY <1>1, <3>2
        <4> QED
          BY <1>6, <3>2, <4>1
      <3> QED
        BY <3>1, <3>2
    <2> QED
      BY <2>1
  <1> DEFINE f == CHOOSE f : f = Body(f)
  <1>8. f = Body(f)
    <2> HIDE DEF Body
    <2> QED
      BY <1>7
  <1> HIDE DEF f
  <1>9. f[0] = Start /\ \A n \in 1..N : f[n] = Turn(f[n - 1], n)
    BY <1>1, <1>8
  <1> QED
    BY <1>2, <1>9 DEF f, N, Start, Turn

(* Elements are taken one by one.                                          *)
LEMMA OnlyLoop ==
    ASSUME NEW list, NEW good, Len(list) \in Nat
    PROVE  \E f : /\ Only(list, good) = f[Len(list)]
                 /\ f[0] = <<>>
                 /\ \A n \in 1..Len(list) : f[n] = IF list[n] \in good THEN Append(f[n - 1], list[n]) ELSE f[n - 1]
  <1> DEFINE N == Len(list)
             Start == <<>>
             Turn(v, n) == IF list[n] \in good THEN Append(v, list[n]) ELSE v
             Body(f) == [n \in 0..N |-> IF n = 0 THEN Start ELSE Turn(f[n - 1], n)]
             S == {k \in 0..N : \E f : /\ f[0] = Start
                                       /\ \A n \in 1..k : f[n] = Turn(f[n - 1], n)}
  <1>1. N \in Nat
    OBVIOUS
  <1>2. Only(list, good) = (CHOOSE f : f = Body(f))[N]
    BY DEF Only
  <1> HIDE DEF N, Start, Turn
  <1>3. 0 \in S
    <2> DEFINE g == [n \in 0..0 |-> Start]
    <2>1. g[0] = Start /\ 1..0 = {}
      OBVIOUS
    <2> HIDE DEF g
    <2> QED
      BY <1>1, <2>1
  <1>4. ASSUME NEW k \in 1..N, k - 1 \in S
        PROVE  k \in S
    <2>1. PICK f : f[0] = Start /\ \A n \in 1..(k - 1) : f[n] = Turn(f[n - 1], n)
      BY <1>4
    <2> DEFINE g == [n \in 0..k |-> IF n = k THEN Turn(f[k - 1], k) ELSE f[n]]
    <2>2. g[0] = Start
      BY <2>1
    <2>3. ASSUME NEW n \in 1..k
          PROVE  g[n] = Turn(g[n - 1], n)
      <3>1. g[n - 1] = f[n - 1]
        OBVIOUS
      <3>2. CASE n = k
        <4>1. g[k] = Turn(f[k - 1], k)
          OBVIOUS
        <4> HIDE DEF g
        <4> QED
          BY <3>1, <3>2, <4>1
      <3>3. CASE n # k
        <4>1. n \in 1..(k - 1) /\ g[n] = f[n]
          BY <3>3
        <4> QED
          BY <2>1, <3>1, <4>1
      <3> QED
        BY <3>2, <3>3
    <2> HIDE DEF g
    <2> QED
      BY <2>2, <2>3
  <1>5. N \in S
    <2>1. \A k \in 1..N : k - 1 \in S => k \in S
      BY <1>4
    <2> HIDE DEF S
    <2> QED
      BY ONLY <1>1, <1>3, <2>1, CountingUp
  <1>6. PICK g : g[0] = Start /\ \A n \in 1..N : g[n] = Turn(g[n - 1], n)
    BY <1>5
  <1> DEFINE h == [n \in 0..N |-> g[n]]
  <1>7. h = Body(h)
    <2>1. ASSUME NEW n \in 0..N
          PROVE  h[n] = IF n = 0 THEN Start ELSE Turn(h[n - 1], n)
      <3>1. CASE n = 0
        BY <1>6, <3>1
      <3>2. CASE n # 0
        <4>1. n \in 1..N /\ h[n] = g[n] /\ h[n - 1] = g[n - 1]
          BY <1>1, <3>2
        <4> QED
          BY <1>6, <3>2, <4>1
      <3> QED
        BY <3>1, <3>2
    <2> QED
      BY <2>1
  <1> DEFINE f == CHOOSE f : f = Body(f)
  <1>8. f = Body(f)
    <2> HIDE DEF Body
    <2> QED
      BY <1>7
  <1> HIDE DEF f
  <1>9. f[0] = Start /\ \A n \in 1..N : f[n] = Turn(f[n - 1], n)
    BY <1>1, <1>8
  <1> QED
    BY <1>2, <1>9 DEF f, N, Start, Turn

(* parse, one source after the other.                                      *)
LEMMA ParseLoop ==
    ASSUME NEW s, s.state = "SourcesSet"
    PROVE  \E f : /\ Parse(s) = ParseEnd(f[Len(NameOrder)])
                 /\ f[0] = [s |-> ClearErrors(s), todo |-> InNameOrder(Known(s)), thrown |-> FALSE]
                 /\ \A n \in 1..Len(NameOrder) : f[n] = ParseNext(f[n - 1])
  <1> DEFINE N == Len(NameOrder)
             Start == [s |-> ClearErrors(s), todo |-> InNameOrder(Known(s)), thrown |-> FALSE]
             Turn(v, n) == ParseNext(v)
             Body(f) == [n \in 0..N |-> IF n = 0 THEN Start ELSE Turn(f[n - 1], n)]
             S == {k \in 0..N : \E f : /\ f[0] = Start
                                       /\ \A n \in 1..k : f[n] = Turn(f[n - 1], n)}
  <1>1. N \in Nat
    BY Lengths
  <1>2. Parse(s) = ParseEnd((CHOOSE f : f = Body(f))[N])
    BY DEF Parse, ParseEnd
  <1> HIDE DEF N, Start, Turn
  <1>3. 0 \in S
    <2> DEFINE g == [n \in 0..0 |-> Start]
    <2>1. g[0] = Start /\ 1..0 = {}
      OBVIOUS
    <2> HIDE DEF g
    <2> QED
      BY <1>1, <2>1
  <1>4. ASSUME NEW k \in 1..N, k - 1 \in S
        PROVE  k \in S
    <2>1. PICK f : f[0] = Start /\ \A n \in 1..(k - 1) : f[n] = Turn(f[n - 1], n)
      BY <1>4
    <2> DEFINE g == [n \in 0..k |-> IF n = k THEN Turn(f[k - 1], k) ELSE f[n]]
    <2>2. g[0] = Start
      BY <2>1
    <2>3. ASSUME NEW n \in 1..k
          PROVE  g[n] = Turn(g[n - 1], n)
      <3>1. g[n - 1] = f[n - 1]
        OBVIOUS
      <3>2. CASE n = k
        <4>1. g[k] = Turn(f[k - 1], k)
          OBVIOUS
        <4> HIDE DEF g
        <4> QED
          BY <3>1, <3>2, <4>1
      <3>3. CASE n # k
        <4>1. n \in 1..(k - 1) /\ g[n] = f[n]
          BY <3>3
        <4> QED
          BY <2>1, <3>1, <4>1
      <3> QED
        BY <3>2, <3>3
    <2> HIDE DEF g
    <2> QED
      BY <2>2, <2>3
  <1>5. N \in S
    <2>1. \A k \in 1..N : k - 1 \in S => k \in S
      BY <1>4
    <2> HIDE DEF S
    <2> QED
      BY ONLY <1>1, <1>3, <2>1, CountingUp
  <1>6. PICK g : g[0] = Start /\ \A n \in 1..N : g[n] = Turn(g[n - 1], n)
    BY <1>5
  <1> DEFINE h == [n \in 0..N |-> g[n]]
  <1>7. h = Body(h)
    <2>1. ASSUME NEW n \in 0..N
          PROVE  h[n] = IF n = 0 THEN Start ELSE Turn(h[n - 1], n)
      <3>1. CASE n = 0
        BY <1>6, <3>1
      <3>2. CASE n # 0
        <4>1. n \in 1..N /\ h[n] = g[n] /\ h[n - 1] = g[n - 1]
          BY <1>1, <3>2
        <4> QED
          BY <1>6, <3>2, <4>1
      <3> QED
        BY <3>1, <3>2
    <2> QED
      BY <2>1
  <1> DEFINE f == CHOOSE f : f = Body(f)
  <1>8. f = Body(f)
    <2> HIDE DEF Body
    <2> QED
      BY <1>7
  <1> HIDE DEF f
  <1>9. f[0] = Start /\ \A n \in 1..N : f[n] = Turn(f[n - 1], n)
    BY <1>1, <1>8
  <1> QED
    BY <1>2, <1>9 DEF f, N, Start, Turn

(* A phase, one source after the other.                                    *)
LEMMA PhaseLoop ==
    ASSUME NEW a, NEW p, a.ended = "no", p \in Gated => a.ok,
           ~(p = "standard" /\ a.s.standard = "unknown"), Len(a.s.order) \in Nat
    PROVE  \E f : /\ RunPhase(a, p) = f[Len(a.s.order)]
                 /\ f[0] = a
                 /\ \A n \in 1..Len(a.s.order) : f[n] = Check(f[n - 1], p, a.s.order[n])
  <1> DEFINE N == Len(a.s.order)
             Start == a
             Turn(v, n) == Check(v, p, a.s.order[n])
             Body(f) == [n \in 0..N |-> IF n = 0 THEN Start ELSE Turn(f[n - 1], n)]
             S == {k \in 0..N : \E f : /\ f[0] = Start
                                       /\ \A n \in 1..k : f[n] = Turn(f[n - 1], n)}
  <1>1. N \in Nat
    OBVIOUS
  <1>2. RunPhase(a, p) = (CHOOSE f : f = Body(f))[N]
    BY DEF RunPhase
  <1> HIDE DEF N, Start, Turn
  <1>3. 0 \in S
    <2> DEFINE g == [n \in 0..0 |-> Start]
    <2>1. g[0] = Start /\ 1..0 = {}
      OBVIOUS
    <2> HIDE DEF g
    <2> QED
      BY <1>1, <2>1
  <1>4. ASSUME NEW k \in 1..N, k - 1 \in S
        PROVE  k \in S
    <2>1. PICK f : f[0] = Start /\ \A n \in 1..(k - 1) : f[n] = Turn(f[n - 1], n)
      BY <1>4
    <2> DEFINE g == [n \in 0..k |-> IF n = k THEN Turn(f[k - 1], k) ELSE f[n]]
    <2>2. g[0] = Start
      BY <2>1
    <2>3. ASSUME NEW n \in 1..k
          PROVE  g[n] = Turn(g[n - 1], n)
      <3>1. g[n - 1] = f[n - 1]
        OBVIOUS
      <3>2. CASE n = k
        <4>1. g[k] = Turn(f[k - 1], k)
          OBVIOUS
        <4> HIDE DEF g
        <4> QED
          BY <3>1, <3>2, <4>1
      <3>3. CASE n # k
        <4>1. n \in 1..(k - 1) /\ g[n] = f[n]
          BY <3>3
        <4> QED
          BY <2>1, <3>1, <4>1
      <3> QED
        BY <3>2, <3>3
    <2> HIDE DEF g
    <2> QED
      BY <2>2, <2>3
  <1>5. N \in S
    <2>1. \A k \in 1..N : k - 1 \in S => k \in S
      BY <1>4
    <2> HIDE DEF S
    <2> QED
      BY ONLY <1>1, <1>3, <2>1, CountingUp
  <1>6. PICK g : g[0] = Start /\ \A n \in 1..N : g[n] = Turn(g[n - 1], n)
    BY <1>5
  <1> DEFINE h == [n \in 0..N |-> g[n]]
  <1>7. h = Body(h)
    <2>1. ASSUME NEW n \in 0..N
          PROVE  h[n] = IF n = 0 THEN Start ELSE Turn(h[n - 1], n)
      <3>1. CASE n = 0
        BY <1>6, <3>1
      <3>2. CASE n # 0
        <4>1. n \in 1..N /\ h[n] = g[n] /\ h[n - 1] = g[n - 1]
          BY <1>1, <3>2
        <4> QED
          BY <1>6, <3>2, <4>1
      <3> QED
        BY <3>1, <3>2
    <2> QED
      BY <2>1
  <1> DEFINE f == CHOOSE f : f = Body(f)
  <1>8. f = Body(f)
    <2> HIDE DEF Body
    <2> QED
      BY <1>7
  <1> HIDE DEF f
  <1>9. f[0] = Start /\ \A n \in 1..N : f[n] = Turn(f[n - 1], n)
    BY <1>1, <1>8
  <1> QED
    BY <1>2, <1>9 DEF f, N, Start, Turn

(* analyze, one phase after the other.                                     *)
LEMMA AnalyzeLoop ==
    ASSUME NEW s, s.state = "ParsingSuccessful"
    PROVE  \E f : /\ Analyze(s) = AnalyzeEnd(f[Len(AnalysisPhases)])
                 /\ f[0] = [s |-> [s EXCEPT !.order = ResolveImports(s)], ok |-> TRUE, ended |-> "no"]
                 /\ \A n \in 1..Len(AnalysisPhases) : f[n] = RunPhase(f[n - 1], AnalysisPhases[n])
  <1> DEFINE N == Len(AnalysisPhases)
             Start == [s |-> [s EXCEPT !.order = ResolveImports(s)], ok |-> TRUE, ended |-> "no"]
             Turn(v, n) == RunPhase(v, AnalysisPhases[n])
             Body(f) == [n \in 0..N |-> IF n = 0 THEN Start ELSE Turn(f[n - 1], n)]
             S == {k \in 0..N : \E f : /\ f[0] = Start
                                       /\ \A n \in 1..k : f[n] = Turn(f[n - 1], n)}
  <1>1. N \in Nat
    BY Lengths
  <1>2. Analyze(s) = AnalyzeEnd((CHOOSE f : f = Body(f))[N])
    BY DEF Analyze, AnalyzeEnd
  <1> HIDE DEF N, Start, Turn
  <1>3. 0 \in S
    <2> DEFINE g == [n \in 0..0 |-> Start]
    <2>1. g[0] = Start /\ 1..0 = {}
      OBVIOUS
    <2> HIDE DEF g
    <2> QED
      BY <1>1, <2>1
  <1>4. ASSUME NEW k \in 1..N, k - 1 \in S
        PROVE  k \in S
    <2>1. PICK f : f[0] = Start /\ \A n \in 1..(k - 1) : f[n] = Turn(f[n - 1], n)
      BY <1>4
    <2> DEFINE g == [n \in 0..k |-> IF n = k THEN Turn(f[k - 1], k) ELSE f[n]]
    <2>2. g[0] = Start
      BY <2>1
    <2>3. ASSUME NEW n \in 1..k
          PROVE  g[n] = Turn(g[n - 1], n)
      <3>1. g[n - 1] = f[n - 1]
        OBVIOUS
      <3>2. CASE n = k
        <4>1. g[k] = Turn(f[k - 1], k)
          OBVIOUS
        <4> HIDE DEF g
        <4> QED
          BY <3>1, <3>2, <4>1
      <3>3. CASE n # k
        <4>1. n \in 1..(k - 1) /\ g[n] = f[n]
          BY <3>3
        <4> QED
          BY <2>1, <3>1, <4>1
      <3> QED
        BY <3>2, <3>3
    <2> HIDE DEF g
    <2> QED
      BY <2>2, <2>3
  <1>5. N \in S
    <2>1. \A k \in 1..N : k - 1 \in S => k \in S
      BY <1>4
    <2> HIDE DEF S
    <2> QED
      BY ONLY <1>1, <1>3, <2>1, CountingUp
  <1>6. PICK g : g[0] = Start /\ \A n \in 1..N : g[n] = Turn(g[n - 1], n)
    BY <1>5
  <1> DEFINE h == [n \in 0..N |-> g[n]]
  <1>7. h = Body(h)
    <2>1. ASSUME NEW n \in 0..N
          PROVE  h[n] = IF n = 0 THEN Start ELSE Turn(h[n - 1], n)
      <3>1. CASE n = 0
        BY <1>6, <3>1
      <3>2. CASE n # 0
        <4>1. n \in 1..N /\ h[n] = g[n] /\ h[n - 1] = g[n - 1]
          BY <1>1, <3>2
        <4> QED
          BY <1>6, <3>2, <4>1
      <3> QED
        BY <3>1, <3>2
    <2> QED
      BY <2>1
  <1> DEFINE f == CHOOSE f : f = Body(f)
  <1>8. f = Body(f)
    <2> HIDE DEF Body
    <2> QED
      BY <1>7
  <1> HIDE DEF f
  <1>9. f[0] = Start /\ \A n \in 1..N : f[n] = Turn(f[n - 1], n)
    BY <1>1, <1>8
  <1> QED
    BY <1>2, <1>9 DEF f, N, Start, Turn

(* The depth first search, one visit after the other.                      *)
LEMMA VisitLoop ==
    ASSUME NEW roots, NEW succ, Visits(roots, succ) \in Nat
    PROVE  \E f : /\ PostOrder(roots, succ) = f[Visits(roots, succ)].out
                 /\ f[0] = SearchStart(roots)
                 /\ \A n \in 1..Visits(roots, succ) : f[n] = Visit(f[n - 1], succ)
  <1> DEFINE N == Visits(roots, succ)
             Start == SearchStart(roots)
             Turn(v, n) == Visit(v, succ)
             Body(f) == [n \in 0..N |-> IF n = 0 THEN Start ELSE Turn(f[n - 1], n)]
             S == {k \in 0..N : \E f : /\ f[0] = Start
                                       /\ \A n \in 1..k : f[n] = Turn(f[n - 1], n)}
  <1>1. N \in Nat
    OBVIOUS
  <1>2. PostOrder(roots, succ) = (CHOOSE f : f = Body(f))[N].out
    BY DEF PostOrder, SearchStart
  <1> HIDE DEF N, Start, Turn
  <1>3. 0 \in S
    <2> DEFINE g == [n \in 0..0 |-> Start]
    <2>1. g[0] = Start /\ 1..0 = {}
      OBVIOUS
    <2> HIDE DEF g
    <2> QED
      BY <1>1, <2>1
  <1>4. ASSUME NEW k \in 1..N, k - 1 \in S
        PROVE  k \in S
    <2>1. PICK f : f[0] = Start /\ \A n \in 1..(k - 1) : f[n] = Turn(f[n - 1], n)
      BY <1>4
    <2> DEFINE g == [n \in 0..k |-> IF n = k THEN Turn(f[k - 1], k) ELSE f[n]]
    <2>2. g[0] = Start
      BY <2>1
    <2>3. ASSUME NEW n \in 1..k
          PROVE  g[n] = Turn(g[n - 1], n)
      <3>1. g[n - 1] = f[n - 1]
        OBVIOUS
      <3>2. CASE n = k
        <4>1. g[k] = Turn(f[k - 1], k)
          OBVIOUS
        <4> HIDE DEF g
        <4> QED
          BY <3>1, <3>2, <4>1
      <3>3. CASE n # k
        <4>1. n \in 1..(k - 1) /\ g[n] = f[n]
          BY <3>3
        <4> QED
          BY <2>1, <3>1, <4>1
      <3> QED
        BY <3>2, <3>3
    <2> HIDE DEF g
    <2> QED
      BY <2>2, <2>3
  <1>5. N \in S
    <2>1. \A k \in 1..N : k - 1 \in S => k \in S
      BY <1>4
    <2> HIDE DEF S
    <2> QED
      BY ONLY <1>1, <1>3, <2>1, CountingUp
  <1>6. PICK g : g[0] = Start /\ \A n \in 1..N : g[n] = Turn(g[n - 1], n)
    BY <1>5
  <1> DEFINE h == [n \in 0..N |-> g[n]]
  <1>7. h = Body(h)
    <2>1. ASSUME NEW n \in 0..N
          PROVE  h[n] = IF n = 0 THEN Start ELSE Turn(h[n - 1], n)
      <3>1. CASE n = 0
        BY <1>6, <3>1
      <3>2. CASE n # 0
        <4>1. n \in 1..N /\ h[n] = g[n] /\ h[n - 1] = g[n - 1]
          BY <1>1, <3>2
        <4> QED
          BY <1>6, <3>2, <4>1
      <3> QED
        BY <3>1, <3>2
    <2> QED
      BY <2>1
  <1> DEFINE f == CHOOSE f : f = Body(f)
  <1>8. f = Body(f)
    <2> HIDE DEF Body
    <2> QED
      BY <1>7
  <1> HIDE DEF f
  <1>9. f[0] = Start /\ \A n \in 1..N : f[n] = Turn(f[n - 1], n)
    BY <1>1, <1>8
  <1> QED
    BY <1>2, <1>9 DEF f, N, Start, Turn

(* The contracts, one source after the other.                              *)
LEMMA ListLoop ==
    ASSUME NEW s, Len(s.order) \in Nat
    PROVE  \E f : /\ ContractList(s) = f[Len(s.order)]
                 /\ f[0] = <<>>
                 /\ \A n \in 1..Len(s.order) : f[n] = f[n - 1] \o ContractsOf(s, s.order[n])
  <1> DEFINE N == Len(s.order)
             Start == <<>>
             Turn(v, n) == v \o ContractsOf(s, s.order[n])
             Body(f) == [n \in 0..N |-> IF n = 0 THEN Start ELSE Turn(f[n - 1], n)]
             S == {k \in 0..N : \E f : /\ f[0] = Start
                                       /\ \A n \in 1..k : f[n] = Turn(f[n - 1], n)}
  <1>1. N \in Nat
    OBVIOUS
  <1>2. ContractList(s) = (CHOOSE f : f = Body(f))[N]
    BY DEF ContractList
  <1> HIDE DEF N, Start, Turn
  <1>3. 0 \in S
    <2> DEFINE g == [n \in 0..0 |-> Start]
    <2>1. g[0] = Start /\ 1..0 = {}
      OBVIOUS
    <2> HIDE DEF g
    <2> QED
      BY <1>1, <2>1
  <1>4. ASSUME NEW k \in 1..N, k - 1 \in S
        PROVE  k \in S
    <2>1. PICK f : f[0] = Start /\ \A n \in 1..(k - 1) : f[n] = Turn(f[n - 1], n)
      BY <1>4
    <2> DEFINE g == [n \in 0..k |-> IF n = k THEN Turn(f[k - 1], k) ELSE f[n]]
    <2>2. g[0] = Start
      BY <2>1
    <2>3. ASSUME NEW n \in 1..k
          PROVE  g[n] = Turn(g[n - 1], n)
      <3>1. g[n - 1] = f[n - 1]
        OBVIOUS
      <3>2. CASE n = k
        <4>1. g[k] = Turn(f[k - 1], k)
          OBVIOUS
        <4> HIDE DEF g
        <4> QED
          BY <3>1, <3>2, <4>1
      <3>3. CASE n # k
        <4>1. n \in 1..(k - 1) /\ g[n] = f[n]
          BY <3>3
        <4> QED
          BY <2>1, <3>1, <4>1
      <3> QED
        BY <3>2, <3>3
    <2> HIDE DEF g
    <2> QED
      BY <2>2, <2>3
  <1>5. N \in S
    <2>1. \A k \in 1..N : k - 1 \in S => k \in S
      BY <1>4
    <2> HIDE DEF S
    <2> QED
      BY ONLY <1>1, <1>3, <2>1, CountingUp
  <1>6. PICK g : g[0] = Start /\ \A n \in 1..N : g[n] = Turn(g[n - 1], n)
    BY <1>5
  <1> DEFINE h == [n \in 0..N |-> g[n]]
  <1>7. h = Body(h)
    <2>1. ASSUME NEW n \in 0..N
          PROVE  h[n] = IF n = 0 THEN Start ELSE Turn(h[n - 1], n)
      <3>1. CASE n = 0
        BY <1>6, <3>1
      <3>2. CASE n # 0
        <4>1. n \in 1..N /\ h[n] = g[n] /\ h[n - 1] = g[n - 1]
          BY <1>1, <3>2
        <4> QED
          BY <1>6, <3>2, <4>1
      <3> QED
        BY <3>1, <3>2
    <2> QED
      BY <2>1
  <1> DEFINE f == CHOOSE f : f = Body(f)
  <1>8. f = Body(f)
    <2> HIDE DEF Body
    <2> QED
      BY <1>7
  <1> HIDE DEF f
  <1>9. f[0] = Start /\ \A n \in 1..N : f[n] = Turn(f[n - 1], n)
    BY <1>1, <1>8
  <1> QED
    BY <1>2, <1>9 DEF f, N, Start, Turn

(* Code for one contract after the other.                                  *)
LEMMA CodeLoop ==
    ASSUME NEW s, Len(CompileOrder(s)) \in Nat
    PROVE  \E f : /\ Generate(s) = GenerateEnd(s, f[Len(CompileOrder(s))])
                 /\ f[0] = [s |-> Counted(s), thrown |-> FALSE]
                 /\ \A n \in 1..Len(CompileOrder(s)) : f[n] = CompileContract(f[n - 1], CompileOrder(s)[n])
  <1> DEFINE N == Len(CompileOrder(s))
             Start == [s |-> Counted(s), thrown |-> FALSE]
             Turn(v, n) == CompileContract(v, CompileOrder(s)[n])
             Body(f) == [n \in 0..N |-> IF n = 0 THEN Start ELSE Turn(f[n - 1], n)]
             S == {k \in 0..N : \E f : /\ f[0] = Start
                                       /\ \A n \in 1..k : f[n] = Turn(f[n - 1], n)}
  <1>1. N \in Nat
    OBVIOUS
  <1>2. Generate(s) = GenerateEnd(s, (CHOOSE f : f = Body(f))[N])
    BY DEF Generate, GenerateEnd, Counted, CompileOrder, Wanted
  <1> HIDE DEF N, Start, Turn
  <1>3. 0 \in S
    <2> DEFINE g == [n \in 0..0 |-> Start]
    <2>1. g[0] = Start /\ 1..0 = {}
      OBVIOUS
    <2> HIDE DEF g
    <2> QED
      BY <1>1, <2>1
  <1>4. ASSUME NEW k \in 1..N, k - 1 \in S
        PROVE  k \in S
    <2>1. PICK f : f[0] = Start /\ \A n \in 1..(k - 1) : f[n] = Turn(f[n - 1], n)
      BY <1>4
    <2> DEFINE g == [n \in 0..k |-> IF n = k THEN Turn(f[k - 1], k) ELSE f[n]]
    <2>2. g[0] = Start
      BY <2>1
    <2>3. ASSUME NEW n \in 1..k
          PROVE  g[n] = Turn(g[n - 1], n)
      <3>1. g[n - 1] = f[n - 1]
        OBVIOUS
      <3>2. CASE n = k
        <4>1. g[k] = Turn(f[k - 1], k)
          OBVIOUS
        <4> HIDE DEF g
        <4> QED
          BY <3>1, <3>2, <4>1
      <3>3. CASE n # k
        <4>1. n \in 1..(k - 1) /\ g[n] = f[n]
          BY <3>3
        <4> QED
          BY <2>1, <3>1, <4>1
      <3> QED
        BY <3>2, <3>3
    <2> HIDE DEF g
    <2> QED
      BY <2>2, <2>3
  <1>5. N \in S
    <2>1. \A k \in 1..N : k - 1 \in S => k \in S
      BY <1>4
    <2> HIDE DEF S
    <2> QED
      BY ONLY <1>1, <1>3, <2>1, CountingUp
  <1>6. PICK g : g[0] = Start /\ \A n \in 1..N : g[n] = Turn(g[n - 1], n)
    BY <1>5
  <1> DEFINE h == [n \in 0..N |-> g[n]]
  <1>7. h = Body(h)
    <2>1. ASSUME NEW n \in 0..N
          PROVE  h[n] = IF n = 0 THEN Start ELSE Turn(h[n - 1], n)
      <3>1. CASE n = 0
        BY <1>6, <3>1
      <3>2. CASE n # 0
        <4>1. n \in 1..N /\ h[n] = g[n] /\ h[n - 1] = g[n - 1]
          BY <1>1, <3>2
        <4> QED
          BY <1>6, <3>2, <4>1
      <3> QED
        BY <3>1, <3>2
    <2> QED
      BY <2>1
  <1> DEFINE f == CHOOSE f : f = Body(f)
  <1>8. f = Body(f)
    <2> HIDE DEF Body
    <2> QED
      BY <1>7
  <1> HIDE DEF f
  <1>9. f[0] = Start /\ \A n \in 1..N : f[n] = Turn(f[n - 1], n)
    BY <1>1, <1>8
  <1> QED
    BY <1>2, <1>9 DEF f, N, Start, Turn

(* The sources of a request, one after the other.                          *)
LEMMA AddLoop ==
    ASSUME NEW s, NEW r
    PROVE  \E f : /\ AddSources(s, r) = f[Len(NameOrder)]
                 /\ f[0] = s
                 /\ \A n \in 1..Len(NameOrder) : f[n] = AddOne(f[n - 1], r, NameOrder[n])
  <1> DEFINE N == Len(NameOrder)
             Start == s
             Turn(v, n) == AddOne(v, r, NameOrder[n])
             Body(f) == [n \in 0..N |-> IF n = 0 THEN Start ELSE Turn(f[n - 1], n)]
             S == {k \in 0..N : \E f : /\ f[0] = Start
                                       /\ \A n \in 1..k : f[n] = Turn(f[n - 1], n)}
  <1>1. N \in Nat
    BY Lengths
  <1>2. AddSources(s, r) = (CHOOSE f : f = Body(f))[N]
    BY DEF AddSources
  <1> HIDE DEF N, Start, Turn
  <1>3. 0 \in S
    <2> DEFINE g == [n \in 0..0 |-> Start]
    <2>1. g[0] = Start /\ 1..0 = {}
      OBVIOUS
    <2> HIDE DEF g
    <2> QED
      BY <1>1, <2>1
  <1>4. ASSUME NEW k \in 1..N, k - 1 \in S
        PROVE  k \in S
    <2>1. PICK f : f[0] = Start /\ \A n \in 1..(k - 1) : f[n] = Turn(f[n - 1], n)
      BY <1>4
    <2> DEFINE g == [n \in 0..k |-> IF n = k THEN Turn(f[k - 1], k) ELSE f[n]]
    <2>2. g[0] = Start
      BY <2>1
    <2>3. ASSUME NEW n \in 1..k
          PROVE  g[n] = Turn(g[n - 1], n)
      <3>1. g[n - 1] = f[n - 1]
        OBVIOUS
      <3>2. CASE n = k
        <4>1. g[k] = Turn(f[k - 1], k)
          OBVIOUS
        <4> HIDE DEF g
        <4> QED
          BY <3>1, <3>2, <4>1
      <3>3. CASE n # k
        <4>1. n \in 1..(k - 1) /\ g[n] = f[n]
          BY <3>3
        <4> QED
          BY <2>1, <3>1, <4>1
      <3> QED
        BY <3>2, <3>3
    <2> HIDE DEF g
    <2> QED
      BY <2>2, <2>3
  <1>5. N \in S
    <2>1. \A k \in 1..N : k - 1 \in S => k \in S
      BY <1>4
    <2> HIDE DEF S
    <2> QED
      BY ONLY <1>1, <1>3, <2>1, CountingUp
  <1>6. PICK g : g[0] = Start /\ \A n \in 1..N : g[n] = Turn(g[n - 1], n)
    BY <1>5
  <1> DEFINE h == [n \in 0..N |-> g[n]]
  <1>7. h = Body(h)
    <2>1. ASSUME NEW n \in 0..N
          PROVE  h[n] = IF n = 0 THEN Start ELSE Turn(h[n - 1], n)
      <3>1. CASE n = 0
        BY <1>6, <3>1
      <3>2. CASE n # 0
        <4>1. n \in 1..N /\ h[n] = g[n] /\ h[n - 1] = g[n - 1]
          BY <1>1, <3>2
        <4> QED
          BY <1>6, <3>2, <4>1
      <3> QED
        BY <3>1, <3>2
    <2> QED
      BY <2>1
  <1> DEFINE f == CHOOSE f : f = Body(f)
  <1>8. f = Body(f)
    <2> HIDE DEF Body
    <2> QED
      BY <1>7
  <1> HIDE DEF f
  <1>9. f[0] = Start /\ \A n \in 1..N : f[n] = Turn(f[n - 1], n)
    BY <1>1, <1>8
  <1> QED
    BY <1>2, <1>9 DEF f, N, Start, Turn

-----------------------------------------------------------------------------
(* The depth first search, for any finite graph.                           *)

Graph(roots, succ) ==
    /\ IsFiniteSet(DOMAIN succ)
    /\ roots \in Seq(DOMAIN succ)
    /\ \A n \in DOMAIN succ : succ[n] \in Seq(DOMAIN succ)

Successors(succ, n) == {succ[n][i] : i \in 1..Len(succ[n])}

Closed(succ, S) == \A x \in S : Successors(succ, x) \subseteq S

(* A path leads from a to b: no closed set has a without b.                *)
Reaches(succ, a, b) ==
    \A S \in SUBSET DOMAIN succ : a \in S /\ Closed(succ, S) => b \in S

Width(succ) == Max({Len(succ[n]) : n \in DOMAIN succ} \cup {0})

(* No list of successors is longer than the width.                         *)
LEMMA WidthBound ==
    ASSUME NEW roots, NEW succ, Graph(roots, succ)
    PROVE  /\ Width(succ) \in Nat
           /\ \A n \in DOMAIN succ : Len(succ[n]) \in Nat /\ Len(succ[n]) <= Width(succ)
  <1> DEFINE L == {Len(succ[n]) : n \in DOMAIN succ} \cup {0}
  <1>1. \A n \in DOMAIN succ : Len(succ[n]) \in Nat
    BY DEF Graph
  <1>2. L \in SUBSET Nat /\ 0 \in L
    BY <1>1
  <1>3. PICK k \in Nat : ExistsBijection(1..k, DOMAIN succ)
    BY FS_NatBijection DEF Graph
  <1>4. PICK g : /\ g \in [1..k -> DOMAIN succ]
                 /\ \A n \in DOMAIN succ : \E i \in 1..k : g[i] = n
    BY <1>3 DEF ExistsBijection, Bijection, Surjection
  <1> DEFINE S == {i \in 0..k : \E m \in Nat : \A j \in 1..i : Len(succ[g[j]]) <= m}
  <1>5. 0 \in S
    BY <1>3
  <1>6. ASSUME NEW i \in 1..k, i - 1 \in S
        PROVE  i \in S
    <2>1. PICK m \in Nat : \A j \in 1..(i - 1) : Len(succ[g[j]]) <= m
      BY <1>6
    <2>2. Len(succ[g[i]]) \in Nat
      BY <1>1, <1>4
    <2>3. \A j \in 1..i : j \in 1..(i - 1) \/ j = i
      <3>1. i \in Int
        BY <1>3
      <3> QED
        BY ONLY <3>1
    <2>a. i \in 0..k
      BY <1>3
    <2>4. CASE Len(succ[g[i]]) <= m
      BY <2>a, <2>1, <2>3, <2>4
    <2>5. CASE m < Len(succ[g[i]])
      <3> DEFINE w == Len(succ[g[i]])
      <3>1. \A j \in 1..i : Len(succ[g[j]]) <= w
        <4>1. \A j \in 1..(i - 1) : Len(succ[g[j]]) \in Nat
          <5>1. \A j \in 1..(i - 1) : j \in 1..k
            BY <1>3
          <5> QED
            BY <1>1, <1>4, <5>1
        <4> QED
          BY <2>1, <2>2, <2>3, <2>5, <4>1
      <3>2. w \in Nat
        BY <2>2
      <3> HIDE DEF w
      <3>3. \E x \in Nat : \A j \in 1..i : Len(succ[g[j]]) <= x
        BY ONLY <3>1, <3>2
      <3> QED
        BY <2>a, <3>3
    <2>6. Len(succ[g[i]]) <= m \/ m < Len(succ[g[i]])
      BY ONLY <2>2, m \in Nat
    <2> QED
      BY <2>4, <2>5, <2>6
  <1>7. k \in S
    <2> HIDE DEF S
    <2> QED
      BY <1>3, <1>5, <1>6, CountingUp
  <1>8. PICK m \in Nat : \A j \in 1..k : Len(succ[g[j]]) <= m
    BY <1>7
  <1>9. \A x \in L : x <= m
    BY <1>4, <1>8
  <1> DEFINE D == {d \in Nat : m - d \in L}
  <1>10. D # {}
    <2>1. m - m \in L /\ m \in Nat
      BY <1>2
    <2> QED
      BY <2>1
  <1>11. PICK d \in D : \A e \in D : d <= e
    BY <1>10, LeastNumber
  <1>12. \A y \in L : m - d >= y
    <2> SUFFICES ASSUME NEW y \in L PROVE m - d >= y
      OBVIOUS
    <2>1. y \in Nat /\ y <= m
      BY <1>2, <1>9
    <2>2. m - y \in Nat /\ m - (m - y) = y
      BY <2>1
    <2>3. m - y \in D
      BY <2>2
    <2>4. d <= m - y /\ d \in Nat
      BY <1>11, <2>3
    <2> QED
      BY ONLY <2>1, <2>4, m \in Nat
  <1>13. m - d \in L
    BY <1>11
  <1> HIDE DEF L
  <1>14. Max(L) \in L /\ \A y \in L : Max(L) >= y
    BY <1>12, <1>13 DEF Max
  <1>15. Width(succ) = Max(L)
    BY DEF Width, L
  <1>16. Width(succ) \in Nat /\ \A y \in L : y <= Width(succ)
    BY <1>2, <1>14, <1>15
  <1> QED
    BY <1>1, <1>16 DEF L

(* The number of visits is a number.                                       *)
LEMMA VisitsNumber ==
    ASSUME NEW roots, NEW succ, Graph(roots, succ)
    PROVE  /\ Visits(roots, succ) \in Nat
           /\ Visits(roots, succ) = Cardinality(DOMAIN succ) * (Width(succ) + 1) + Len(roots)
           /\ Cardinality(DOMAIN succ) \in Nat
           /\ Len(roots) \in Nat
  <1>1. Visits(roots, succ) = Cardinality(DOMAIN succ) * (Width(succ) + 1) + Len(roots)
    BY DEF Visits, Width
  <1>2. Cardinality(DOMAIN succ) \in Nat
    BY FS_CardinalityType DEF Graph
  <1>3. Width(succ) \in Nat
    BY WidthBound
  <1>4. Len(roots) \in Nat
    BY DEF Graph
  <1>5. Cardinality(DOMAIN succ) * (Width(succ) + 1) \in Nat
    BY <1>2, <1>3
  <1> QED
    BY <1>1, <1>2, <1>4, <1>5

Entries(succ) == [node : DOMAIN succ, leave : BOOLEAN]

SearchTypes(v, succ) ==
    /\ DOMAIN v = {"todo", "seen", "out"}
    /\ v.todo \in Seq(Entries(succ))
    /\ v.seen \in SUBSET DOMAIN succ
    /\ v.out \in Seq(DOMAIN succ)

(* The entry at the front is dropped.                                      *)
Shifted(v, w) ==
    /\ Len(v.todo) >= 1
    /\ Len(w.todo) = Len(v.todo) - 1
    /\ \A p \in 1..Len(w.todo) : w.todo[p] = v.todo[p + 1]
    /\ w.seen = v.seen

(* The node at the front is left, is known already, or is entered.         *)
Left(v, w) ==
    /\ Shifted(v, w)
    /\ v.todo[1].leave
    /\ Len(w.out) = Len(v.out) + 1
    /\ \A i \in 1..Len(v.out) : w.out[i] = v.out[i]
    /\ w.out[Len(v.out) + 1] = v.todo[1].node

Skipped(v, w) ==
    /\ Shifted(v, w)
    /\ ~v.todo[1].leave
    /\ v.todo[1].node \in v.seen
    /\ w.out = v.out

Entered(v, w, succ) ==
    LET x == v.todo[1].node
        L == Len(succ[x])
    IN  /\ Len(v.todo) >= 1
        /\ ~v.todo[1].leave /\ x \notin v.seen
        /\ Len(w.todo) = L + Len(v.todo)
        /\ \A p \in 1..L : w.todo[p].node = succ[x][p] /\ ~w.todo[p].leave
        /\ w.todo[L + 1].node = x /\ w.todo[L + 1].leave
        /\ \A p \in 2..Len(v.todo) : w.todo[L + p] = v.todo[p]
        /\ w.seen = v.seen \cup {x}
        /\ w.out = v.out

(* An entry between two lists of entries.                                  *)
LEMMA Sandwich ==
    ASSUME NEW E, NEW a \in Seq(E), NEW x \in E, NEW b \in Seq(E)
    PROVE  /\ a \o <<x>> \o b \in Seq(E)
           /\ Len(a \o <<x>> \o b) = Len(a) + 1 + Len(b)
           /\ \A p \in 1..Len(a) : (a \o <<x>> \o b)[p] = a[p]
           /\ (a \o <<x>> \o b)[Len(a) + 1] = x
           /\ \A p \in 1..Len(b) : (a \o <<x>> \o b)[Len(a) + 1 + p] = b[p]
  <1> DEFINE one == <<x>>
             front == a \o one
             all == front \o b
  <1> HIDE DEF one
  <1>1. one \in Seq(E) /\ Len(one) = 1 /\ one[1] = x
    BY DEF one
  <1>2. Len(a) \in Nat /\ Len(b) \in Nat
    OBVIOUS
  <1>3. /\ front \in Seq(E) /\ Len(front) = Len(a) + Len(one)
        /\ \A p \in 1..Len(a) + Len(one) : front[p] = IF p <= Len(a) THEN a[p] ELSE one[p - Len(a)]
    BY <1>1, ConcatProperties
  <1> HIDE DEF front
  <1>4. /\ all \in Seq(E) /\ Len(all) = Len(front) + Len(b)
        /\ \A p \in 1..Len(front) + Len(b) :
               all[p] = IF p <= Len(front) THEN front[p] ELSE b[p - Len(front)]
    <2>1. front \in Seq(E) /\ b \in Seq(E)
      BY <1>3
    <2> QED
      BY ONLY <2>1, ConcatProperties
  <1>5. all = a \o <<x>> \o b
    BY Zenon DEF front, one
  <1> HIDE DEF all
  <1>6. Len(front) = Len(a) + 1 /\ Len(all) = Len(a) + 1 + Len(b)
    BY <1>1, <1>2, <1>3, <1>4
  <1>7. ASSUME NEW p \in 1..Len(a)
        PROVE  all[p] = a[p]
    <2>1. /\ p \in 1..Len(a) + Len(one) /\ p \in 1..Len(front) + Len(b)
          /\ p <= Len(a) /\ p <= Len(front)
      BY <1>1, <1>2, <1>6
    <2> QED
      BY ONLY <1>3, <1>4, <2>1
  <1>8. all[Len(a) + 1] = x
    <2> DEFINE p == Len(a) + 1
    <2>1. /\ p \in 1..Len(a) + Len(one) /\ p \in 1..Len(front) + Len(b)
          /\ ~(p <= Len(a)) /\ p <= Len(front) /\ p - Len(a) = 1
      BY <1>1, <1>2, <1>6
    <2> HIDE DEF p
    <2>2. all[p] = x
      BY ONLY <1>1, <1>3, <1>4, <2>1
    <2> QED
      BY <2>2 DEF p
  <1>9. ASSUME NEW q \in 1..Len(b)
        PROVE  all[Len(a) + 1 + q] = b[q]
    <2> DEFINE p == Len(a) + 1 + q
    <2>1. p \in 1..Len(front) + Len(b) /\ ~(p <= Len(front)) /\ p - Len(front) = q
      BY <1>2, <1>6
    <2> HIDE DEF p
    <2>2. all[p] = b[q]
      BY ONLY <1>4, <2>1
    <2> QED
      BY <2>2 DEF p
  <1> QED
    BY <1>4, <1>5, <1>6, <1>7, <1>8, <1>9

(* What a visit does.                                                      *)
LEMMA VisitCases ==
    ASSUME NEW roots, NEW succ, Graph(roots, succ), NEW v, SearchTypes(v, succ)
    PROVE  /\ SearchTypes(Visit(v, succ), succ)
           /\ \/ v.todo = <<>> /\ Visit(v, succ) = v
              \/ Left(v, Visit(v, succ))
              \/ Skipped(v, Visit(v, succ))
              \/ Entered(v, Visit(v, succ), succ)
  <1> DEFINE E == Entries(succ)
             h == Head(v.todo)
             rest == Tail(v.todo)
  <1>1. v.todo \in Seq(E)
    BY DEF SearchTypes
  <1>2. CASE v.todo = <<>>
    BY <1>2 DEF Visit
  <1>3. CASE v.todo # <<>>
    <2>1. /\ h = v.todo[1] /\ h \in E
          /\ rest \in Seq(E)
          /\ Len(v.todo) \in Nat /\ Len(v.todo) >= 1
          /\ Len(rest) = Len(v.todo) - 1
          /\ \A p \in 1..Len(rest) : rest[p] = v.todo[p + 1]
      <3> HIDE DEF E
      <3>1. Len(v.todo) \in Nat \ {0}
        BY <1>1, <1>3, EmptySeq
      <3>2. h = v.todo[1] /\ h \in E
        BY <1>1, <3>1
      <3>3. /\ rest \in Seq(E) /\ Len(rest) = Len(v.todo) - 1
            /\ \A p \in 1..Len(rest) : rest[p] = v.todo[p + 1]
        BY ONLY <1>1, <1>3, HeadTailProperties
      <3> QED
        BY <3>1, <3>2, <3>3
    <2>2. h.node \in DOMAIN succ /\ h.leave \in BOOLEAN /\ DOMAIN h = {"node", "leave"}
      BY <2>1 DEF Entries
    <2> HIDE DEF h, rest, E
    <2>3. CASE h.leave
      <3>1. Visit(v, succ) = [v EXCEPT !.todo = rest, !.out = Append(@, h.node)]
        BY <1>3, <2>3 DEF Visit, h, rest
      <3>2. PICK w : w = Visit(v, succ)
        OBVIOUS
      <3>3. /\ DOMAIN w = {"todo", "seen", "out"} /\ w.todo = rest
            /\ w.seen = v.seen /\ w.out = Append(v.out, h.node)
        BY <3>1, <3>2 DEF SearchTypes
      <3>4. /\ w.out \in Seq(DOMAIN succ)
            /\ Len(w.out) = Len(v.out) + 1
            /\ \A i \in 1..Len(v.out) : w.out[i] = v.out[i]
            /\ w.out[Len(v.out) + 1] = h.node
        <4>1. v.out \in Seq(DOMAIN succ)
          BY DEF SearchTypes
        <4> QED
          BY ONLY <2>2, <3>3, <4>1, AppendProperties
      <3>5. SearchTypes(w, succ)
        BY <2>1, <3>3, <3>4 DEF SearchTypes, E
      <3>6. Left(v, w)
        BY <2>1, <2>3, <3>3, <3>4 DEF Left, Shifted
      <3> QED
        BY <3>2, <3>5, <3>6
    <2>4. CASE ~h.leave /\ h.node \in v.seen
      <3>1. Visit(v, succ) = [v EXCEPT !.todo = rest]
        BY <1>3, <2>4 DEF Visit, h, rest
      <3>2. PICK w : w = Visit(v, succ)
        OBVIOUS
      <3>3. /\ DOMAIN w = {"todo", "seen", "out"} /\ w.todo = rest
            /\ w.seen = v.seen /\ w.out = v.out
        BY <3>1, <3>2 DEF SearchTypes
      <3>4. SearchTypes(w, succ)
        BY <2>1, <3>3 DEF SearchTypes, E
      <3>5. Skipped(v, w)
        BY <2>1, <2>4, <3>3 DEF Skipped, Shifted
      <3> QED
        BY <3>2, <3>4, <3>5
    <2>5. CASE ~h.leave /\ h.node \notin v.seen
      <3> DEFINE x == h.node
                 L == Len(succ[x])
                 kids == [i \in DOMAIN succ[x] |-> Enter(succ[x][i])]
                 me == [h EXCEPT !.leave = TRUE]
                 todo == kids \o <<me>> \o rest
      <3>1. Visit(v, succ) = [v EXCEPT !.seen = @ \cup {x}, !.todo = todo]
        BY <1>3, <2>5 DEF Visit, h, rest
      <3>2. succ[x] \in Seq(DOMAIN succ)
        BY <2>2 DEF Graph
      <3>3. L \in Nat /\ DOMAIN succ[x] = 1..L /\ \A i \in 1..L : succ[x][i] \in DOMAIN succ
        BY ONLY <3>2, LenProperties
      <3>4. /\ kids \in Seq(E) /\ Len(kids) = L
            /\ \A p \in 1..L : kids[p].node = succ[x][p] /\ ~kids[p].leave
        <4>1. kids = [i \in 1..L |-> Enter(succ[x][i])]
          BY <3>3
        <4>2. \A i \in 1..L : Enter(succ[x][i]) \in E
          BY <3>3 DEF Enter, Entries, E
        <4> HIDE DEF kids, L
        <4>3. kids \in [1..L -> E]
          BY <4>1, <4>2
        <4>4. kids \in Seq(E) /\ Len(kids) = L
          BY <3>3, <4>3
        <4>5. \A p \in 1..L : kids[p] = Enter(succ[x][p])
          BY <4>1
        <4> QED
          BY <4>4, <4>5 DEF Enter
      <3>5. me \in E /\ me.node = x /\ me.leave
        BY <2>1, <2>2 DEF E, Entries
      <3> HIDE DEF kids, me, L, x
      <3>6. /\ todo \in Seq(E) /\ Len(todo) = L + Len(v.todo)
            /\ \A p \in 1..L : todo[p] = kids[p]
            /\ todo[L + 1] = me
            /\ \A p \in 2..Len(v.todo) : todo[L + p] = v.todo[p]
        <4>1. L = Len(kids)
          BY <3>4
        <4>2. /\ todo \in Seq(E) /\ Len(todo) = Len(kids) + 1 + Len(rest)
              /\ \A p \in 1..Len(kids) : todo[p] = kids[p]
              /\ todo[Len(kids) + 1] = me
              /\ \A p \in 1..Len(rest) : todo[Len(kids) + 1 + p] = rest[p]
          <5>1. kids \in Seq(E) /\ me \in E /\ rest \in Seq(E)
            BY <2>1, <3>4, <3>5
          <5> QED
            BY ONLY <5>1, Sandwich
        <4>3. ASSUME NEW p \in 2..Len(v.todo)
              PROVE  todo[L + p] = v.todo[p]
          <5> HIDE DEF todo
          <5>1. p - 1 \in 1..Len(rest) /\ (p - 1) + 1 = p /\ L + 1 + (p - 1) = L + p
            BY <2>1, <3>3
          <5> QED
            BY ONLY <2>1, <4>1, <4>2, <5>1
        <4>4. Len(todo) = L + Len(v.todo)
          <5> HIDE DEF todo
          <5>1. \A a, b, c, d \in Nat : d = c - 1 => a + 1 + d = a + c
            OBVIOUS
          <5>2. Len(rest) \in Nat /\ Len(v.todo) \in Nat /\ Len(kids) \in Nat
            BY <2>1, <3>3, <4>1
          <5>3. Len(rest) = Len(v.todo) - 1
            BY <2>1
          <5>4. Len(kids) + 1 + Len(rest) = Len(kids) + Len(v.todo)
            BY ONLY <5>1, <5>2, <5>3
          <5> QED
            BY ONLY <4>1, <4>2, <5>4
        <4> QED
          BY <4>1, <4>2, <4>3, <4>4
      <3> HIDE DEF todo
      <3>7. PICK w : w = Visit(v, succ)
        OBVIOUS
      <3>8. /\ DOMAIN w = {"todo", "seen", "out"} /\ w.todo = todo
            /\ w.seen = v.seen \cup {x} /\ w.out = v.out
        BY <3>1, <3>7 DEF SearchTypes
      <3>9. SearchTypes(w, succ)
        BY <2>2, <3>6, <3>8 DEF SearchTypes, E, x
      <3>10. Entered(v, w, succ)
        <4>1. x = v.todo[1].node /\ ~v.todo[1].leave /\ x \notin v.seen
          BY <2>1, <2>5 DEF x
        <4>2. \A p \in 1..L : w.todo[p].node = succ[x][p] /\ ~w.todo[p].leave
          BY ONLY <3>4, <3>6, <3>8
        <4>3. w.todo[L + 1].node = x /\ w.todo[L + 1].leave
          BY ONLY <3>5, <3>6, <3>8
        <4>4. /\ Len(w.todo) = L + Len(v.todo)
              /\ \A p \in 2..Len(v.todo) : w.todo[L + p] = v.todo[p]
          BY ONLY <3>6, <3>8
        <4> QED
          BY ONLY <2>1, <3>8, <4>1, <4>2, <4>3, <4>4 DEF Entered, L
      <3> QED
        BY <3>7, <3>9, <3>10
    <2> QED
      BY <2>2, <2>3, <2>4, <2>5
  <1> QED
    BY <1>2, <1>3

(* A node waits to be entered, is open, or is finished.                    *)
Waits(v, n) == \E p \in 1..Len(v.todo) : ~v.todo[p].leave /\ v.todo[p].node = n
Open(v, n) == \E p \in 1..Len(v.todo) : v.todo[p].leave /\ v.todo[p].node = n
Finished(v, n) == \E i \in 1..Len(v.out) : v.out[i] = n

Enters(v, w, succ, x, l) ==
    /\ l \in Nat /\ l = Len(succ[x]) /\ Len(v.todo) >= 1
    /\ x = v.todo[1].node /\ ~v.todo[1].leave /\ x \notin v.seen
    /\ Len(w.todo) = l + Len(v.todo)
    /\ \A p \in 1..l : w.todo[p].node \in Successors(succ, x) /\ ~w.todo[p].leave
    /\ \A n \in Successors(succ, x) : \E p \in 1..l : w.todo[p].node = n
    /\ w.todo[l + 1].node = x /\ w.todo[l + 1].leave
    /\ \A k \in 2..Len(v.todo) : w.todo[l + k] = v.todo[k]
    /\ w.seen = v.seen \cup {x}
    /\ w.out = v.out

Moves(v, w, succ) ==
    /\ Len(v.todo) \in Nat /\ Len(v.out) \in Nat /\ Len(w.todo) \in Nat /\ Len(w.out) \in Nat
    /\ \/ Left(v, w)
       \/ Skipped(v, w)
       \/ \E x \in DOMAIN succ, l \in Nat : Enters(v, w, succ, x, l)

(* A visit that finds an entry makes a move.                               *)
LEMMA VisitMoves ==
    ASSUME NEW roots, NEW succ, Graph(roots, succ), NEW v, SearchTypes(v, succ)
    PROVE  /\ SearchTypes(Visit(v, succ), succ)
           /\ Visit(v, succ) = v \/ Moves(v, Visit(v, succ), succ)
           /\ v.todo = <<>> \/ Moves(v, Visit(v, succ), succ)
  <1> DEFINE w == Visit(v, succ)
  <1>1. /\ SearchTypes(w, succ)
        /\ \/ v.todo = <<>> /\ w = v
           \/ Left(v, w) \/ Skipped(v, w) \/ Entered(v, w, succ)
    BY VisitCases
  <1> HIDE DEF w
  <1>2. /\ Len(v.todo) \in Nat /\ Len(v.out) \in Nat /\ Len(w.todo) \in Nat /\ Len(w.out) \in Nat
        /\ \A p \in 1..Len(v.todo) : v.todo[p] \in Entries(succ)
    BY <1>1, LenProperties, ElementOfSeq DEF SearchTypes
  <1>3. ASSUME Entered(v, w, succ)
        PROVE  \E x \in DOMAIN succ, l \in Nat : Enters(v, w, succ, x, l)
    <2>1. PICK x : x = v.todo[1].node
      OBVIOUS
    <2>2. Len(v.todo) >= 1
      BY <1>3 DEF Entered
    <2>3. x \in DOMAIN succ
      BY <1>2, <2>1, <2>2 DEF Entries
    <2>4. PICK l : l = Len(succ[x])
      OBVIOUS
    <2>5. l \in Nat
      BY <2>3, <2>4 DEF Graph
    <2>6. /\ ~v.todo[1].leave /\ x \notin v.seen
          /\ Len(w.todo) = l + Len(v.todo)
          /\ \A p \in 1..l : w.todo[p].node = succ[x][p] /\ ~w.todo[p].leave
          /\ w.todo[l + 1].node = x /\ w.todo[l + 1].leave
          /\ \A p \in 2..Len(v.todo) : w.todo[l + p] = v.todo[p]
          /\ w.seen = v.seen \cup {x}
          /\ w.out = v.out
      BY <1>3, <2>1, <2>4 DEF Entered
    <2>7. Successors(succ, x) = {succ[x][i] : i \in 1..l}
      BY <2>4 DEF Successors
    <2>8. /\ \A p \in 1..l : w.todo[p].node \in Successors(succ, x)
          /\ \A n \in Successors(succ, x) : \E p \in 1..l : w.todo[p].node = n
      BY ONLY <2>6, <2>7
    <2>9. \A p \in 1..l : ~w.todo[p].leave
      BY ONLY <2>6
    <2>10. Enters(v, w, succ, x, l)
      BY ONLY <2>1, <2>2, <2>4, <2>5, <2>6, <2>8, <2>9, Zenon DEF Enters
    <2> QED
      BY <2>3, <2>5, <2>10
  <1> QED
    BY <1>1, <1>2, <1>3 DEF Moves, w

(* Where the entries of the list come from.                                *)
LEMMA EnteredPlaces ==
    ASSUME NEW v, NEW w, NEW succ, NEW x, NEW l \in Nat, Len(v.todo) \in Nat,
           Enters(v, w, succ, x, l)
    PROVE  /\ \A p \in 1..Len(w.todo) :
                  p \in 1..l \/ p = l + 1 \/ \E k \in 2..Len(v.todo) : p = l + k
           /\ \A k \in 2..Len(v.todo) : l + k \in 1..Len(w.todo)
           /\ \A p \in 1..l : p \in 1..Len(w.todo)
           /\ l + 1 \in 1..Len(w.todo)
           /\ 1 \in 1..Len(v.todo)
           /\ \A k \in 1..Len(v.todo) : k = 1 \/ k \in 2..Len(v.todo)
           /\ \A k \in 2..Len(v.todo) : k \in 1..Len(v.todo)
  <1>1. PICK a : a = Len(v.todo)
    OBVIOUS
  <1>2. a \in Nat /\ a >= 1 /\ Len(w.todo) = l + a
    BY <1>1 DEF Enters
  <1>3. ASSUME NEW p \in 1..(l + a)
        PROVE  p \in 1..l \/ p = l + 1 \/ \E k \in 2..a : p = l + k
    <2>1. p \in 1..l \/ p = l + 1 \/ p - l \in 2..a
      BY <1>2
    <2>2. p = l + (p - l)
      BY <1>2
    <2> QED
      BY <2>1, <2>2
  <1>4. /\ \A k \in 2..a : l + k \in 1..(l + a)
        /\ \A p \in 1..l : p \in 1..(l + a)
        /\ l + 1 \in 1..(l + a)
        /\ 1 \in 1..a
        /\ \A k \in 1..a : k = 1 \/ k \in 2..a
        /\ \A k \in 2..a : k \in 1..a
    BY <1>2
  <1> QED
    BY ONLY <1>1, <1>2, <1>3, <1>4

(* Where the entries go when the first one is dropped.                     *)
LEMMA ShiftedPlaces ==
    ASSUME NEW v, NEW w, Len(v.todo) \in Nat, Shifted(v, w)
    PROVE  /\ \A p \in 1..Len(w.todo) : p + 1 \in 1..Len(v.todo)
           /\ \A p \in 1..Len(v.todo) : p = 1 \/ (p - 1 \in 1..Len(w.todo) /\ w.todo[p - 1] = v.todo[p])
           /\ 1 \in 1..Len(v.todo)
  <1>1. PICK a : a = Len(v.todo)
    OBVIOUS
  <1>2. /\ a \in Nat /\ a >= 1 /\ Len(w.todo) = a - 1
        /\ \A p \in 1..(a - 1) : w.todo[p] = v.todo[p + 1]
    BY <1>1 DEF Shifted
  <1>3. ASSUME NEW p \in 1..a, p # 1
        PROVE  p - 1 \in 1..(a - 1) /\ w.todo[p - 1] = v.todo[p]
    <2>1. p - 1 \in 1..(a - 1) /\ (p - 1) + 1 = p
      BY <1>2, <1>3
    <2> QED
      BY <1>2, <2>1
  <1>4. (\A p \in 1..(a - 1) : p + 1 \in 1..a) /\ 1 \in 1..a
    BY <1>2
  <1>5. \A p \in 1..a : p = 1 \/ (p - 1 \in 1..(a - 1) /\ w.todo[p - 1] = v.todo[p])
    BY <1>3
  <1>6. 1..(a - 1) = 1..Len(w.todo) /\ 1..a = 1..Len(v.todo)
    BY ONLY <1>1, <1>2
  <1> QED
    BY ONLY <1>4, <1>5, <1>6

(* A node is seen when it is open or finished, and it is one of the two    *)
(* once.                                                                   *)
SeenOnce(v) ==
    /\ \A n \in v.seen : Finished(v, n) \/ Open(v, n)
    /\ \A i \in 1..Len(v.out) : v.out[i] \in v.seen
    /\ \A p \in 1..Len(v.todo) : v.todo[p].leave => v.todo[p].node \in v.seen
    /\ \A i, j \in 1..Len(v.out) : v.out[i] = v.out[j] => i = j
    /\ \A p, q \in 1..Len(v.todo) :
           (v.todo[p].leave /\ v.todo[q].leave /\ v.todo[p].node = v.todo[q].node) => p = q
    /\ \A p \in 1..Len(v.todo), i \in 1..Len(v.out) :
           v.todo[p].leave => v.todo[p].node # v.out[i]

(* What is given or is a successor of a node that is finished is seen or   *)
(* waits; a successor of an open node that waits does so before it.        *)
RootsKept(v, roots) ==
    \A r \in 1..Len(roots) : roots[r] \in v.seen \/ Waits(v, roots[r])
ChildrenKept(v, succ) ==
    /\ \A i \in 1..Len(v.out) : Successors(succ, v.out[i]) \subseteq v.seen
    /\ \A q \in 1..Len(v.todo) : v.todo[q].leave =>
           \A m \in Successors(succ, v.todo[q].node) :
               m \in v.seen \/ \E p \in 1..Len(v.todo) :
                   p < q /\ ~v.todo[p].leave /\ v.todo[p].node = m

(* The nodes finished after a visit.                                       *)
LEMMA LeftOut ==
    ASSUME NEW v, NEW w, Left(v, w), Len(v.out) \in Nat
    PROVE  /\ \A i \in 1..Len(w.out) :
                 (i \in 1..Len(v.out) /\ w.out[i] = v.out[i]) \/ (i = Len(v.out) + 1)
           /\ \A i \in 1..Len(v.out) : i \in 1..Len(w.out) /\ w.out[i] = v.out[i]
           /\ Len(v.out) + 1 \in 1..Len(w.out)
           /\ w.out[Len(v.out) + 1] = v.todo[1].node
  <1>1. PICK a : a = Len(v.out)
    OBVIOUS
  <1>2. /\ a \in Nat /\ Len(w.out) = a + 1
        /\ \A i \in 1..a : w.out[i] = v.out[i]
        /\ w.out[a + 1] = v.todo[1].node
    BY <1>1 DEF Left
  <1>3. /\ \A i \in 1..(a + 1) : i \in 1..a \/ i = a + 1
        /\ \A i \in 1..a : i \in 1..(a + 1)
        /\ a + 1 \in 1..(a + 1)
    BY <1>2
  <1> QED
    BY ONLY <1>1, <1>2, <1>3

(* A step keeps SeenOnce: a node that is entered was not seen before, and  *)
(* one that is left was open.                                              *)
LEMMA SeenOnceKept ==
    ASSUME NEW succ, NEW v, NEW w, Moves(v, w, succ), SeenOnce(v)
    PROVE  SeenOnce(w)
  <1>1. Len(v.todo) \in Nat /\ Len(v.out) \in Nat
    BY DEF Moves
  <1>a. \A n \in v.seen : Finished(v, n) \/ Open(v, n)
    BY DEF SeenOnce
  <1>b. \A i \in 1..Len(v.out) : v.out[i] \in v.seen
    BY DEF SeenOnce
  <1>c. \A p \in 1..Len(v.todo) : v.todo[p].leave => v.todo[p].node \in v.seen
    BY DEF SeenOnce
  <1>d. \A i, j \in 1..Len(v.out) : v.out[i] = v.out[j] => i = j
    BY DEF SeenOnce
  <1>e. \A p, q \in 1..Len(v.todo) :
           (v.todo[p].leave /\ v.todo[q].leave /\ v.todo[p].node = v.todo[q].node) => p = q
    BY DEF SeenOnce
  <1>f. \A p \in 1..Len(v.todo), i \in 1..Len(v.out) :
           v.todo[p].leave => v.todo[p].node # v.out[i]
    BY DEF SeenOnce
  <1>2. CASE Left(v, w)
    <2>1. /\ w.seen = v.seen /\ v.todo[1].leave
          /\ \A p \in 1..Len(w.todo) : w.todo[p] = v.todo[p + 1]
      BY <1>2 DEF Left, Shifted
    <2>2. /\ \A p \in 1..Len(w.todo) : p + 1 \in 1..Len(v.todo)
          /\ \A p \in 1..Len(v.todo) :
                 p = 1 \/ (p - 1 \in 1..Len(w.todo) /\ w.todo[p - 1] = v.todo[p])
          /\ 1 \in 1..Len(v.todo)
      BY <1>1, <1>2, ShiftedPlaces DEF Left
    <2>3. /\ \A i \in 1..Len(w.out) :
                 (i \in 1..Len(v.out) /\ w.out[i] = v.out[i]) \/ (i = Len(v.out) + 1)
          /\ \A i \in 1..Len(v.out) : i \in 1..Len(w.out) /\ w.out[i] = v.out[i]
          /\ Len(v.out) + 1 \in 1..Len(w.out)
          /\ w.out[Len(v.out) + 1] = v.todo[1].node
      BY <1>1, <1>2, LeftOut
    <2>4. \A n \in w.seen : Finished(w, n) \/ Open(w, n)
      <3> SUFFICES ASSUME NEW n \in v.seen PROVE Finished(w, n) \/ Open(w, n)
        BY <2>1
      <3>1. CASE Finished(v, n)
        BY <3>1, <2>3 DEF Finished
      <3>2. CASE Open(v, n)
        <4>1. PICK p \in 1..Len(v.todo) : v.todo[p].leave /\ v.todo[p].node = n
          BY <3>2 DEF Open
        <4>2. CASE p = 1
          BY <4>1, <4>2, <2>3 DEF Finished
        <4>3. CASE p # 1
          BY <4>1, <4>3, <2>2 DEF Open
        <4> QED
          BY <4>2, <4>3
      <3> QED
        BY <3>1, <3>2 DEF SeenOnce
    <2>5. \A i \in 1..Len(w.out) : w.out[i] \in w.seen
      BY <2>1, <2>2, <2>3 DEF SeenOnce
    <2>6. \A p \in 1..Len(w.todo) : w.todo[p].leave => w.todo[p].node \in w.seen
      BY <2>1, <2>2 DEF SeenOnce
    <2>7. \A i, j \in 1..Len(w.out) : w.out[i] = w.out[j] => i = j
      <3>1. \A i \in 1..Len(v.out) : v.out[i] # v.todo[1].node
        BY ONLY <1>f, <2>1, <2>2
      <3> QED
        BY ONLY <1>d, <2>3, <3>1
    <2>8. \A p, q \in 1..Len(w.todo) :
             (w.todo[p].leave /\ w.todo[q].leave /\ w.todo[p].node = w.todo[q].node) => p = q
      <3> SUFFICES ASSUME NEW p \in 1..Len(w.todo), NEW q \in 1..Len(w.todo),
                          w.todo[p].leave, w.todo[q].leave, w.todo[p].node = w.todo[q].node
                   PROVE  p = q
        OBVIOUS
      <3>1. /\ v.todo[p + 1].leave /\ v.todo[q + 1].leave
            /\ v.todo[p + 1].node = v.todo[q + 1].node
            /\ p + 1 \in 1..Len(v.todo) /\ q + 1 \in 1..Len(v.todo)
        BY <2>1, <2>2
      <3>2. p + 1 = q + 1
        BY ONLY <1>e, <3>1
      <3> QED
        BY <3>2
    <2>9. \A p \in 1..Len(w.todo), i \in 1..Len(w.out) :
             w.todo[p].leave => w.todo[p].node # w.out[i]
      <3> SUFFICES ASSUME NEW p \in 1..Len(w.todo), NEW i \in 1..Len(w.out), w.todo[p].leave,
                          w.todo[p].node = w.out[i]
                   PROVE  FALSE
        OBVIOUS
      <3>1. v.todo[p + 1].leave /\ v.todo[p + 1].node = w.out[i] /\ p + 1 \in 1..Len(v.todo)
        BY <2>1, <2>2
      <3>2. CASE i \in 1..Len(v.out) /\ w.out[i] = v.out[i]
        BY <3>1, <3>2 DEF SeenOnce
      <3>3. CASE i = Len(v.out) + 1
        <4>1. p + 1 = 1
          BY <2>1, <2>2, <2>3, <3>1, <3>3 DEF SeenOnce
        <4> QED
          BY <4>1
      <3> QED
        BY <2>3, <3>2, <3>3
    <2> QED
      BY <2>4, <2>5, <2>6, <2>7, <2>8, <2>9 DEF SeenOnce
  <1>3. CASE Skipped(v, w)
    <2>1. /\ w.seen = v.seen /\ ~v.todo[1].leave /\ w.out = v.out
          /\ \A p \in 1..Len(w.todo) : w.todo[p] = v.todo[p + 1]
      BY <1>3 DEF Skipped, Shifted
    <2>2. /\ \A p \in 1..Len(w.todo) : p + 1 \in 1..Len(v.todo)
          /\ \A p \in 1..Len(v.todo) :
                 p = 1 \/ (p - 1 \in 1..Len(w.todo) /\ w.todo[p - 1] = v.todo[p])
          /\ 1 \in 1..Len(v.todo)
      BY <1>1, <1>3, ShiftedPlaces DEF Skipped
    <2>4. \A n \in w.seen : Finished(w, n) \/ Open(w, n)
      <3>1. \A n : Finished(v, n) => Finished(w, n)
        BY ONLY <2>1 DEF Finished
      <3>2. \A n : Open(v, n) => Open(w, n)
        BY ONLY <2>1, <2>2 DEF Open
      <3> QED
        BY <1>a, <2>1, <3>1, <3>2
    <2>8. \A p, q \in 1..Len(w.todo) :
             (w.todo[p].leave /\ w.todo[q].leave /\ w.todo[p].node = w.todo[q].node) => p = q
      <3> SUFFICES ASSUME NEW p \in 1..Len(w.todo), NEW q \in 1..Len(w.todo),
                          w.todo[p].leave, w.todo[q].leave, w.todo[p].node = w.todo[q].node
                   PROVE  p = q
        OBVIOUS
      <3>1. /\ v.todo[p + 1].leave /\ v.todo[q + 1].leave
            /\ v.todo[p + 1].node = v.todo[q + 1].node
            /\ p + 1 \in 1..Len(v.todo) /\ q + 1 \in 1..Len(v.todo)
        BY <2>1, <2>2
      <3>2. p + 1 = q + 1
        BY ONLY <1>e, <3>1
      <3> QED
        BY <3>2
    <2>9. /\ \A p \in 1..Len(w.todo), i \in 1..Len(w.out) :
                 w.todo[p].leave => w.todo[p].node # w.out[i]
          /\ \A i \in 1..Len(w.out) : w.out[i] \in w.seen
          /\ \A p \in 1..Len(w.todo) : w.todo[p].leave => w.todo[p].node \in w.seen
          /\ \A i, j \in 1..Len(w.out) : w.out[i] = w.out[j] => i = j
      <3>1. \A p \in 1..Len(w.todo) : \E q \in 1..Len(v.todo) : w.todo[p] = v.todo[q]
        BY ONLY <2>1, <2>2, Zenon
      <3>2. /\ \A i \in 1..Len(w.out) : w.out[i] \in w.seen
            /\ \A i, j \in 1..Len(w.out) : w.out[i] = w.out[j] => i = j
        BY ONLY <1>b, <1>d, <2>1, Zenon
      <3>3. ASSUME NEW p \in 1..Len(w.todo), w.todo[p].leave
            PROVE  /\ w.todo[p].node \in w.seen
                   /\ \A i \in 1..Len(w.out) : w.todo[p].node # w.out[i]
        <4>1. PICK q \in 1..Len(v.todo) : w.todo[p] = v.todo[q]
          BY <3>1
        <4> QED
          BY ONLY <1>c, <1>f, <2>1, <3>3, <4>1
      <3> QED
        BY <3>2, <3>3
    <2> QED
      BY <2>4, <2>8, <2>9 DEF SeenOnce
  <1>4. CASE \E x \in DOMAIN succ, l \in Nat : Enters(v, w, succ, x, l)
    <2>0. PICK x \in DOMAIN succ, l \in Nat : Enters(v, w, succ, x, l)
      BY <1>4
    <2>1. /\ w.seen = v.seen \cup {x} /\ ~v.todo[1].leave /\ w.out = v.out /\ x \notin v.seen
          /\ \A p \in 1..l : ~w.todo[p].leave
          /\ w.todo[l + 1].node = x /\ w.todo[l + 1].leave
          /\ \A k \in 2..Len(v.todo) : w.todo[l + k] = v.todo[k]
      BY <2>0 DEF Enters
    <2>2. /\ \A p \in 1..Len(w.todo) :
                  p \in 1..l \/ p = l + 1 \/ \E k \in 2..Len(v.todo) : p = l + k
          /\ \A k \in 2..Len(v.todo) : l + k \in 1..Len(w.todo)
          /\ \A p \in 1..l : p \in 1..Len(w.todo)
          /\ l + 1 \in 1..Len(w.todo)
          /\ 1 \in 1..Len(v.todo)
          /\ \A k \in 1..Len(v.todo) : k = 1 \/ k \in 2..Len(v.todo)
          /\ \A k \in 2..Len(v.todo) : k \in 1..Len(v.todo)
      BY <1>1, <2>0, EnteredPlaces
    <2>3. \A p \in 1..Len(w.todo) : w.todo[p].leave =>
             \/ p = l + 1 /\ w.todo[p].node = x
             \/ \E k \in 2..Len(v.todo) :
                    p = l + k /\ v.todo[k].leave /\ v.todo[k].node = w.todo[p].node
      BY ONLY <2>1, <2>2
    <2>4. \A n \in w.seen : Finished(w, n) \/ Open(w, n)
      <3> SUFFICES ASSUME NEW n \in w.seen PROVE Finished(w, n) \/ Open(w, n)
        OBVIOUS
      <3>1. CASE n = x
        <4>1. PICK p : p = l + 1
          OBVIOUS
        <4>2. p \in 1..Len(w.todo) /\ w.todo[p].leave /\ w.todo[p].node = n
          BY ONLY <2>1, <2>2, <3>1, <4>1
        <4> QED
          BY ONLY <4>2, Zenon DEF Open
      <3>2. CASE Finished(v, n)
        BY <3>2, <2>1 DEF Finished
      <3>3. CASE Open(v, n)
        <4>1. PICK k \in 1..Len(v.todo) : v.todo[k].leave /\ v.todo[k].node = n
          BY <3>3 DEF Open
        <4>2. k \in 2..Len(v.todo)
          BY <2>1, <2>2, <4>1
        <4> QED
          <5>1. PICK p : p = l + k
            OBVIOUS
          <5>2. p \in 1..Len(w.todo) /\ w.todo[p] = v.todo[k]
            BY ONLY <2>1, <2>2, <4>2, <5>1
          <5> QED
            BY ONLY <4>1, <5>2, Zenon DEF Open
      <3> QED
        BY <2>1, <3>1, <3>2, <3>3 DEF SeenOnce
    <2>5. \A p \in 1..Len(w.todo) : w.todo[p].leave => w.todo[p].node \in w.seen
      BY <2>1, <2>2, <2>3 DEF SeenOnce
    <2>6. \A p, q \in 1..Len(w.todo) :
             (w.todo[p].leave /\ w.todo[q].leave /\ w.todo[p].node = w.todo[q].node) => p = q
      <3> SUFFICES ASSUME NEW p \in 1..Len(w.todo), NEW q \in 1..Len(w.todo),
                          w.todo[p].leave, w.todo[q].leave, w.todo[p].node = w.todo[q].node
                   PROVE  p = q
        OBVIOUS
      <3>1. \A k \in 2..Len(v.todo) : v.todo[k].leave => v.todo[k].node # x
        BY ONLY <1>c, <2>1, <2>2
      <3>2. \A k, h \in 2..Len(v.todo) :
               (v.todo[k].leave /\ v.todo[h].leave /\ v.todo[k].node = v.todo[h].node) => k = h
        BY <2>2 DEF SeenOnce
      <3> QED
        <4>1. CASE p = l + 1 /\ q = l + 1
          BY <4>1
        <4>2. CASE \E k, h \in 2..Len(v.todo) :
                      /\ p = l + k /\ v.todo[k].leave /\ v.todo[k].node = w.todo[p].node
                      /\ q = l + h /\ v.todo[h].leave /\ v.todo[h].node = w.todo[q].node
          BY <3>2, <4>2, Zenon
        <4> QED
          BY <2>3, <3>1, <4>1, <4>2, Zenon
    <2>7. \A p \in 1..Len(w.todo), i \in 1..Len(w.out) :
             w.todo[p].leave => w.todo[p].node # w.out[i]
      <3>1. \A k \in 2..Len(v.todo), i \in 1..Len(v.out) : v.todo[k].leave => v.todo[k].node # v.out[i]
        BY <2>2 DEF SeenOnce
      <3>2. \A i \in 1..Len(v.out) : v.out[i] # x
        BY <2>1 DEF SeenOnce
      <3> QED
        BY ONLY <2>1, <2>3, <3>1, <3>2
    <2>8. /\ \A i \in 1..Len(w.out) : w.out[i] \in w.seen
          /\ \A i, j \in 1..Len(w.out) : w.out[i] = w.out[j] => i = j
      BY <2>1 DEF SeenOnce
    <2> QED
      BY <2>4, <2>5, <2>6, <2>7, <2>8 DEF SeenOnce
  <1> QED
    BY <1>2, <1>3, <1>4 DEF Moves

(* The list after an entry is dropped, and after a node is entered.        *)
LEMMA ShiftFacts ==
    ASSUME NEW succ, NEW v, NEW w, Moves(v, w, succ), Left(v, w) \/ Skipped(v, w)
    PROVE  /\ w.seen = v.seen
           /\ 1 \in 1..Len(v.todo)
           /\ \A p \in 1..Len(w.todo) : p + 1 \in 1..Len(v.todo) /\ w.todo[p] = v.todo[p + 1]
           /\ \A p \in 1..Len(v.todo) :
                  p = 1 \/ (p - 1 \in 1..Len(w.todo) /\ w.todo[p - 1] = v.todo[p])
           /\ \A i \in 1..Len(v.out) : i \in 1..Len(w.out) /\ w.out[i] = v.out[i]
           /\ \A i \in 1..Len(w.out) :
                  \/ i \in 1..Len(v.out) /\ w.out[i] = v.out[i]
                  \/ Left(v, w) /\ i = Len(v.out) + 1 /\ w.out[i] = v.todo[1].node
  <1>1. Len(v.todo) \in Nat /\ Len(v.out) \in Nat
    BY DEF Moves
  <1>2. Shifted(v, w)
    BY DEF Left, Skipped
  <1>3. /\ \A p \in 1..Len(w.todo) : p + 1 \in 1..Len(v.todo)
        /\ \A p \in 1..Len(v.todo) :
               p = 1 \/ (p - 1 \in 1..Len(w.todo) /\ w.todo[p - 1] = v.todo[p])
        /\ 1 \in 1..Len(v.todo)
    BY ONLY <1>1, <1>2, ShiftedPlaces
  <1>4. /\ w.seen = v.seen
        /\ \A p \in 1..Len(w.todo) : w.todo[p] = v.todo[p + 1]
    BY ONLY <1>2 DEF Shifted
  <1>5. CASE Left(v, w)
    <2>1. /\ \A i \in 1..Len(w.out) :
                 (i \in 1..Len(v.out) /\ w.out[i] = v.out[i]) \/ (i = Len(v.out) + 1)
          /\ \A i \in 1..Len(v.out) : i \in 1..Len(w.out) /\ w.out[i] = v.out[i]
          /\ w.out[Len(v.out) + 1] = v.todo[1].node
      BY ONLY <1>1, <1>5, LeftOut
    <2> QED
      BY ONLY <1>3, <1>4, <1>5, <2>1
  <1>6. CASE Skipped(v, w)
    <2>1. w.out = v.out
      BY <1>6 DEF Skipped
    <2> QED
      BY ONLY <1>3, <1>4, <2>1
  <1> QED
    BY <1>5, <1>6

(* Where the entries are after a node is entered: its successors first,    *)
(* then the node itself, to be left, then the others.                      *)
LEMMA EnterFacts ==
    ASSUME NEW succ, NEW v, NEW w, Moves(v, w, succ), NEW x, NEW l \in Nat,
           Enters(v, w, succ, x, l)
    PROVE  /\ w.seen = v.seen \cup {x} /\ w.out = v.out
           /\ 1 \in 1..Len(v.todo) /\ v.todo[1].node = x /\ ~v.todo[1].leave /\ x \notin v.seen
           /\ \A p \in 1..l :
                  p \in 1..Len(w.todo) /\ ~w.todo[p].leave /\ w.todo[p].node \in Successors(succ, x)
           /\ \A n \in Successors(succ, x) : \E p \in 1..l : w.todo[p].node = n
           /\ l + 1 \in 1..Len(w.todo) /\ w.todo[l + 1].node = x /\ w.todo[l + 1].leave
           /\ \A k \in 2..Len(v.todo) :
                  k \in 1..Len(v.todo) /\ l + k \in 1..Len(w.todo) /\ w.todo[l + k] = v.todo[k]
           /\ \A k \in 1..Len(v.todo) : k = 1 \/ k \in 2..Len(v.todo)
           /\ \A p \in 1..Len(w.todo) :
                  p \in 1..l \/ p = l + 1 \/ \E k \in 2..Len(v.todo) : p = l + k
  <1>1. Len(v.todo) \in Nat
    BY DEF Moves
  <1>2. /\ \A p \in 1..Len(w.todo) :
               p \in 1..l \/ p = l + 1 \/ \E k \in 2..Len(v.todo) : p = l + k
        /\ \A k \in 2..Len(v.todo) : l + k \in 1..Len(w.todo)
        /\ \A p \in 1..l : p \in 1..Len(w.todo)
        /\ l + 1 \in 1..Len(w.todo)
        /\ 1 \in 1..Len(v.todo)
        /\ \A k \in 1..Len(v.todo) : k = 1 \/ k \in 2..Len(v.todo)
        /\ \A k \in 2..Len(v.todo) : k \in 1..Len(v.todo)
    BY <1>1, EnteredPlaces
  <1>3. /\ w.seen = v.seen \cup {x} /\ w.out = v.out
        /\ v.todo[1].node = x /\ ~v.todo[1].leave /\ x \notin v.seen
        /\ \A p \in 1..l : ~w.todo[p].leave /\ w.todo[p].node \in Successors(succ, x)
        /\ \A n \in Successors(succ, x) : \E p \in 1..l : w.todo[p].node = n
        /\ w.todo[l + 1].node = x /\ w.todo[l + 1].leave
        /\ \A k \in 2..Len(v.todo) : w.todo[l + k] = v.todo[k]
    BY DEF Enters
  <1> QED
    BY ONLY <1>2, <1>3

(* A step forgets no root.                                                 *)
LEMMA RootsKeptOn ==
    ASSUME NEW succ, NEW roots, NEW v, NEW w, Moves(v, w, succ), RootsKept(v, roots)
    PROVE  RootsKept(w, roots)
  <1> SUFFICES ASSUME NEW r \in 1..Len(roots) PROVE roots[r] \in w.seen \/ Waits(w, roots[r])
    BY DEF RootsKept
  <1>1. PICK n : n = roots[r]
    OBVIOUS
  <1>2. CASE n \in v.seen
    BY <1>1, <1>2 DEF Moves, Left, Skipped, Shifted, Enters
  <1>3. CASE Waits(v, n)
    <2>1. PICK p \in 1..Len(v.todo) : ~v.todo[p].leave /\ v.todo[p].node = n
      BY <1>3 DEF Waits
    <2>2. CASE Left(v, w) \/ Skipped(v, w)
      <3>1. CASE p = 1
        BY <1>1, <2>1, <2>2, <3>1 DEF Left, Skipped, Shifted
      <3>2. CASE p # 1
        <4>1. PICK q : q = p - 1
          OBVIOUS
        <4>2. q \in 1..Len(w.todo) /\ w.todo[q] = v.todo[p]
          BY <2>2, <3>2, <4>1, ShiftFacts
        <4>3. Waits(w, n)
          BY ONLY <2>1, <4>2 DEF Waits
        <4> QED
          BY <1>1, <4>3
      <3> QED
        BY <3>1, <3>2
    <2>3. CASE \E x \in DOMAIN succ, l \in Nat : Enters(v, w, succ, x, l)
      <3>1. PICK x \in DOMAIN succ, l \in Nat : Enters(v, w, succ, x, l)
        BY <2>3
      <3>2. CASE p = 1
        <4>1. n = x /\ x \in w.seen
          BY <2>1, <3>1, <3>2 DEF Enters
        <4> QED
          BY <1>1, <4>1
      <3>3. CASE p # 1
        <4>1. PICK q : q = l + p
          OBVIOUS
        <4>2. q \in 1..Len(w.todo) /\ w.todo[q] = v.todo[p]
          BY <3>1, <3>3, <4>1, EnterFacts
        <4>3. Waits(w, n)
          BY ONLY <2>1, <4>2 DEF Waits
        <4> QED
          BY <1>1, <4>3
      <3> QED
        BY <3>2, <3>3
    <2> QED
      BY <2>2, <2>3 DEF Moves
  <1> QED
    BY <1>1, <1>2, <1>3 DEF RootsKept

(* A step forgets no successor of a node that is open or finished.         *)
LEMMA ChildrenKeptOn ==
    ASSUME NEW succ, NEW v, NEW w, Moves(v, w, succ), ChildrenKept(v, succ)
    PROVE  ChildrenKept(w, succ)
  <1>1. \A i \in 1..Len(v.out) : Successors(succ, v.out[i]) \subseteq v.seen
    BY DEF ChildrenKept
  <1>2. \A q \in 1..Len(v.todo) : v.todo[q].leave =>
           \A m \in Successors(succ, v.todo[q].node) :
               m \in v.seen \/ \E p \in 1..Len(v.todo) :
                   p < q /\ ~v.todo[p].leave /\ v.todo[p].node = m
    BY DEF ChildrenKept
  <1>3. Len(v.todo) \in Nat /\ Len(w.todo) \in Nat
    BY DEF Moves
  <1>4. CASE Left(v, w) \/ Skipped(v, w)
    <2>1. /\ w.seen = v.seen
          /\ 1 \in 1..Len(v.todo)
          /\ \A p \in 1..Len(w.todo) : p + 1 \in 1..Len(v.todo) /\ w.todo[p] = v.todo[p + 1]
          /\ \A p \in 1..Len(v.todo) :
                 p = 1 \/ (p - 1 \in 1..Len(w.todo) /\ w.todo[p - 1] = v.todo[p])
          /\ \A i \in 1..Len(w.out) :
                 \/ i \in 1..Len(v.out) /\ w.out[i] = v.out[i]
                 \/ Left(v, w) /\ i = Len(v.out) + 1 /\ w.out[i] = v.todo[1].node
      BY <1>4, ShiftFacts
    <2>2. Left(v, w) => v.todo[1].leave
      BY DEF Left
    <2>3. Skipped(v, w) => v.todo[1].node \in v.seen
      BY DEF Skipped
    <2>4. Left(v, w) => Successors(succ, v.todo[1].node) \subseteq v.seen
      <3> SUFFICES ASSUME Left(v, w), NEW m \in Successors(succ, v.todo[1].node)
                   PROVE  m \in v.seen
        OBVIOUS
      <3>1. m \in v.seen \/ \E p \in 1..Len(v.todo) : p < 1 /\ ~v.todo[p].leave /\ v.todo[p].node = m
        BY <1>2, <2>1, <2>2
      <3> QED
        BY <1>3, <3>1
    <2>5. \A i \in 1..Len(w.out) : Successors(succ, w.out[i]) \subseteq w.seen
      BY ONLY <1>1, <2>1, <2>4
    <2>6. ASSUME NEW q \in 1..Len(w.todo), w.todo[q].leave,
                 NEW m \in Successors(succ, w.todo[q].node)
          PROVE  m \in w.seen \/ \E p \in 1..Len(w.todo) :
                     p < q /\ ~w.todo[p].leave /\ w.todo[p].node = m
      <3>1. PICK h : h = q + 1
        OBVIOUS
      <3>2. h \in 1..Len(v.todo) /\ w.todo[q] = v.todo[h]
        BY <2>1, <3>1
      <3>3. m \in v.seen \/ \E p \in 1..Len(v.todo) : p < h /\ ~v.todo[p].leave /\ v.todo[p].node = m
        BY ONLY <1>2, <2>6, <3>2
      <3>4. ASSUME NEW p \in 1..Len(v.todo), p < h, ~v.todo[p].leave, v.todo[p].node = m
            PROVE  m \in w.seen \/ \E k \in 1..Len(w.todo) :
                       k < q /\ ~w.todo[k].leave /\ w.todo[k].node = m
        <4>1. CASE p = 1
          BY <1>4, <2>1, <2>2, <2>3, <3>4, <4>1
        <4>2. CASE p # 1
          <5>1. PICK k : k = p - 1
            OBVIOUS
          <5>2. k \in 1..Len(w.todo) /\ w.todo[k] = v.todo[p]
            BY <2>1, <4>2, <5>1
          <5>3. k < q
            BY <1>3, <3>1, <3>4, <5>1
          <5> QED
            BY ONLY <3>4, <5>2, <5>3
        <4> QED
          BY <4>1, <4>2
      <3> QED
        BY <2>1, <3>3, <3>4
    <2> QED
      BY <2>5, <2>6 DEF ChildrenKept
  <1>5. CASE \E x \in DOMAIN succ, l \in Nat : Enters(v, w, succ, x, l)
    <2>0. PICK x \in DOMAIN succ, l \in Nat : Enters(v, w, succ, x, l)
      BY <1>5
    <2>1. /\ w.seen = v.seen \cup {x} /\ w.out = v.out
          /\ 1 \in 1..Len(v.todo) /\ v.todo[1].node = x /\ ~v.todo[1].leave /\ x \notin v.seen
          /\ \A p \in 1..l :
                 p \in 1..Len(w.todo) /\ ~w.todo[p].leave /\ w.todo[p].node \in Successors(succ, x)
          /\ \A n \in Successors(succ, x) : \E p \in 1..l : w.todo[p].node = n
          /\ l + 1 \in 1..Len(w.todo) /\ w.todo[l + 1].node = x /\ w.todo[l + 1].leave
          /\ \A k \in 2..Len(v.todo) :
                 k \in 1..Len(v.todo) /\ l + k \in 1..Len(w.todo) /\ w.todo[l + k] = v.todo[k]
          /\ \A k \in 1..Len(v.todo) : k = 1 \/ k \in 2..Len(v.todo)
          /\ \A p \in 1..Len(w.todo) :
                 p \in 1..l \/ p = l + 1 \/ \E k \in 2..Len(v.todo) : p = l + k
      BY <2>0, EnterFacts
    <2>2. \A i \in 1..Len(w.out) : Successors(succ, w.out[i]) \subseteq w.seen
      BY ONLY <1>1, <2>1
    <2>3. ASSUME NEW q \in 1..Len(w.todo), w.todo[q].leave,
                 NEW m \in Successors(succ, w.todo[q].node)
          PROVE  m \in w.seen \/ \E p \in 1..Len(w.todo) :
                     p < q /\ ~w.todo[p].leave /\ w.todo[p].node = m
      <3>1. q = l + 1 \/ \E k \in 2..Len(v.todo) : q = l + k
        BY ONLY <2>1, <2>3, q \in 1..Len(w.todo)
      <3>2. CASE q = l + 1
        <4>1. PICK p \in 1..l : w.todo[p].node = m
          BY ONLY <2>1, <2>3, <3>2, m \in Successors(succ, w.todo[q].node)
        <4>2. p < q
          BY <3>2
        <4> QED
          BY ONLY <2>1, <4>1, <4>2, p \in 1..l
      <3>3. ASSUME NEW k \in 2..Len(v.todo), q = l + k
            PROVE  m \in w.seen \/ \E p \in 1..Len(w.todo) :
                     p < q /\ ~w.todo[p].leave /\ w.todo[p].node = m
        <4>1. k \in 1..Len(v.todo) /\ w.todo[q] = v.todo[k]
          BY ONLY <2>1, <3>3, k \in 2..Len(v.todo)
        <4>2. m \in v.seen \/ \E p \in 1..Len(v.todo) : p < k /\ ~v.todo[p].leave /\ v.todo[p].node = m
          BY ONLY <1>2, <2>3, <4>1, m \in Successors(succ, w.todo[q].node)
        <4>3. ASSUME NEW p \in 1..Len(v.todo), p < k, ~v.todo[p].leave, v.todo[p].node = m
              PROVE  m \in w.seen \/ \E h \in 1..Len(w.todo) :
                         h < q /\ ~w.todo[h].leave /\ w.todo[h].node = m
          <5>1. CASE p = 1
            BY <2>1, <4>3, <5>1
          <5>2. CASE p # 1
            <6>1. PICK h : h = l + p
              OBVIOUS
            <6>2. h \in 1..Len(w.todo) /\ w.todo[h] = v.todo[p]
              BY <2>1, <5>2, <6>1
            <6>3. h < q
              BY <3>3, <4>3, <6>1
            <6> QED
              BY ONLY <4>3, <6>2, <6>3
          <5> QED
            BY <5>1, <5>2
        <4> QED
          BY <2>1, <4>2, <4>3
      <3> QED
        BY <3>1, <3>2, <3>3
    <2> QED
      BY <2>2, <2>3 DEF ChildrenKept
  <1> QED
    BY <1>4, <1>5 DEF Moves

(* y is finished before x.                                                 *)
Precedes(v, y, x) ==
    \/ \E i, j \in 1..Len(v.out) : i < j /\ v.out[i] = y /\ v.out[j] = x
    \/ Finished(v, y) /\ Open(v, x)
    \/ \E p, q \in 1..Len(v.todo) :
           /\ p < q /\ v.todo[p].leave /\ v.todo[q].leave
           /\ v.todo[p].node = y /\ v.todo[q].node = x

(* A path leads from a to b on which every node is finished before the one *)
(* it is a successor of.                                                   *)
Below(v, succ, a, b) ==
    \A S \in SUBSET DOMAIN succ :
        (/\ a \in S
         /\ \A x \in S : \A y \in Successors(succ, x) : Precedes(v, y, x) => y \in S) => b \in S

Chain(v, succ) ==
    \A p, q \in 1..Len(v.todo) :
        (p < q /\ v.todo[p].leave /\ v.todo[q].leave)
            => Below(v, succ, v.todo[q].node, v.todo[p].node)

ByParent(v, succ) ==
    \A p, q \in 1..Len(v.todo) :
        (p < q /\ v.todo[q].leave /\ \A r \in 1..Len(v.todo) : (p < r /\ r < q) => ~v.todo[r].leave)
            => v.todo[p].node \in Successors(succ, v.todo[q].node)

Early(v, i, m) == \E j \in 1..Len(v.out) : j <= i /\ v.out[j] = m

(* A successor of a finished node that is finished later is on the way to  *)
(* it, and two of these are on one way.                                    *)
BackEdges(v, succ) ==
    \A i \in 1..Len(v.out) :
        /\ \A m \in Successors(succ, v.out[i]) : Early(v, i, m) \/ Below(v, succ, m, v.out[i])
        /\ \A m, k \in Successors(succ, v.out[i]) :
               \/ Early(v, i, m) \/ Early(v, i, k)
               \/ Below(v, succ, m, k) \/ Below(v, succ, k, m)

(* What is finished before another node stays finished before it.          *)
LEMMA PrecedesKept ==
    ASSUME NEW succ, NEW v, NEW w, Moves(v, w, succ), NEW x, NEW y, Precedes(v, y, x)
    PROVE  Precedes(w, y, x)
  <1>1. /\ Len(v.todo) \in Nat /\ Len(w.todo) \in Nat
        /\ Len(v.out) \in Nat /\ Len(w.out) \in Nat
    BY DEF Moves
  <1>2. CASE Left(v, w)
    <2>1. /\ 1 \in 1..Len(v.todo)
          /\ \A p \in 1..Len(v.todo) :
                 p = 1 \/ (p - 1 \in 1..Len(w.todo) /\ w.todo[p - 1] = v.todo[p])
          /\ \A i \in 1..Len(v.out) : i \in 1..Len(w.out) /\ w.out[i] = v.out[i]
      BY <1>2, ShiftFacts
    <2>2. PICK last : last = Len(v.out) + 1
      OBVIOUS
    <2>3. last \in 1..Len(w.out) /\ w.out[last] = v.todo[1].node
      BY <1>1, <1>2, <2>2, LeftOut
    <2>4. CASE \E i, j \in 1..Len(v.out) : i < j /\ v.out[i] = y /\ v.out[j] = x
      BY ONLY <2>1, <2>4 DEF Precedes
    <2>5. CASE Finished(v, y) /\ Open(v, x)
      <3>1. PICK i \in 1..Len(v.out) : v.out[i] = y
        BY <2>5 DEF Finished
      <3>2. PICK p \in 1..Len(v.todo) : v.todo[p].leave /\ v.todo[p].node = x
        BY <2>5 DEF Open
      <3>3. i \in 1..Len(w.out) /\ w.out[i] = y
        BY ONLY <2>1, <3>1, i \in 1..Len(v.out)
      <3>4. CASE p = 1
        <4>1. i < last
          BY <1>1, <2>2
        <4>2. w.out[last] = x
          BY <2>3, <3>2, <3>4
        <4> QED
          BY ONLY <2>3, <3>3, <4>1, <4>2 DEF Precedes
      <3>5. CASE p # 1
        <4>1. PICK q : q = p - 1
          OBVIOUS
        <4>2. q \in 1..Len(w.todo) /\ w.todo[q] = v.todo[p]
          BY <2>1, <3>5, <4>1
        <4>3. Open(w, x)
          BY ONLY <3>2, <4>2 DEF Open
        <4>4. Finished(w, y)
          BY ONLY <3>3 DEF Finished
        <4> QED
          BY <4>3, <4>4 DEF Precedes
      <3> QED
        BY <3>4, <3>5
    <2>6. CASE \E p, q \in 1..Len(v.todo) :
                   /\ p < q /\ v.todo[p].leave /\ v.todo[q].leave
                   /\ v.todo[p].node = y /\ v.todo[q].node = x
      <3>1. PICK p \in 1..Len(v.todo), q \in 1..Len(v.todo) :
                   /\ p < q /\ v.todo[p].leave /\ v.todo[q].leave
                   /\ v.todo[p].node = y /\ v.todo[q].node = x
        BY <2>6
      <3>2. q # 1
        BY <1>1, <3>1
      <3>3. PICK h : h = q - 1
        OBVIOUS
      <3>4. h \in 1..Len(w.todo) /\ w.todo[h] = v.todo[q]
        BY <2>1, <3>2, <3>3
      <3>5. CASE p = 1
        <4>1. Open(w, x)
          BY ONLY <3>1, <3>4 DEF Open
        <4>2. Finished(w, y)
          BY <2>3, <3>1, <3>5 DEF Finished
        <4> QED
          BY <4>1, <4>2 DEF Precedes
      <3>6. CASE p # 1
        <4>1. PICK g : g = p - 1
          OBVIOUS
        <4>2. g \in 1..Len(w.todo) /\ w.todo[g] = v.todo[p]
          BY <2>1, <3>6, <4>1
        <4>3. g < h
          BY <1>1, <3>1, <3>3, <4>1
        <4> QED
          BY ONLY <3>1, <3>4, <4>2, <4>3 DEF Precedes
      <3> QED
        BY <3>5, <3>6
    <2> QED
      BY <2>4, <2>5, <2>6 DEF Precedes
  <1>3. ASSUME NEW d \in Int, w.out = v.out,
               \A p \in 1..Len(v.todo) : v.todo[p].leave =>
                   p + d \in 1..Len(w.todo) /\ w.todo[p + d] = v.todo[p]
        PROVE  Precedes(w, y, x)
    <2>1. Finished(v, y) => Finished(w, y)
      BY <1>3 DEF Finished
    <2>2. ASSUME Open(v, x) PROVE Open(w, x)
      <3>1. PICK p \in 1..Len(v.todo) : v.todo[p].leave /\ v.todo[p].node = x
        BY <2>2 DEF Open
      <3>2. PICK q : q = p + d
        OBVIOUS
      <3>3. q \in 1..Len(w.todo) /\ w.todo[q] = v.todo[p]
        BY <1>3, <3>1, <3>2
      <3> QED
        BY ONLY <3>1, <3>3 DEF Open
    <2>3. ASSUME NEW p \in 1..Len(v.todo), NEW q \in 1..Len(v.todo),
                 p < q, v.todo[p].leave, v.todo[q].leave,
                 v.todo[p].node = y, v.todo[q].node = x
          PROVE  \E g, h \in 1..Len(w.todo) :
                   /\ g < h /\ w.todo[g].leave /\ w.todo[h].leave
                   /\ w.todo[g].node = y /\ w.todo[h].node = x
      <3>1. PICK g, h : g = p + d /\ h = q + d
        OBVIOUS
      <3>2. /\ g \in 1..Len(w.todo) /\ w.todo[g] = v.todo[p]
            /\ h \in 1..Len(w.todo) /\ w.todo[h] = v.todo[q]
        BY <1>3, <2>3, <3>1
      <3>3. g < h
        BY <1>1, <2>3, <3>1
      <3> QED
        BY ONLY <2>3, <3>2, <3>3
    <2> QED
      BY <1>3, <2>1, <2>2, <2>3, Zenon DEF Precedes
  <1>4. CASE Skipped(v, w)
    <2>1. /\ \A p \in 1..Len(v.todo) :
                 p = 1 \/ (p - 1 \in 1..Len(w.todo) /\ w.todo[p - 1] = v.todo[p])
      BY <1>4, ShiftFacts
    <2>2. ~v.todo[1].leave /\ w.out = v.out
      BY <1>4 DEF Skipped
    <2>3. ASSUME NEW p \in 1..Len(v.todo), v.todo[p].leave
          PROVE  p + -1 \in 1..Len(w.todo) /\ w.todo[p + -1] = v.todo[p]
      <3>1. p # 1
        BY <2>2, <2>3
      <3>2. p + -1 = p - 1
        BY <1>1
      <3> QED
        BY <2>1, <3>1, <3>2
    <2>4. -1 \in Int
      OBVIOUS
    <2> QED
      BY <1>3, <2>2, <2>3, <2>4
  <1>5. CASE \E z \in DOMAIN succ, l \in Nat : Enters(v, w, succ, z, l)
    <2>1. PICK z \in DOMAIN succ, l \in Nat : Enters(v, w, succ, z, l)
      BY <1>5
    <2>2. /\ w.out = v.out /\ ~v.todo[1].leave
          /\ \A k \in 2..Len(v.todo) :
                 k \in 1..Len(v.todo) /\ l + k \in 1..Len(w.todo) /\ w.todo[l + k] = v.todo[k]
          /\ \A k \in 1..Len(v.todo) : k = 1 \/ k \in 2..Len(v.todo)
      BY <2>1, EnterFacts
    <2>3. ASSUME NEW p \in 1..Len(v.todo), v.todo[p].leave
          PROVE  p + l \in 1..Len(w.todo) /\ w.todo[p + l] = v.todo[p]
      <3>1. p \in 2..Len(v.todo)
        BY <2>2, <2>3
      <3>2. p + l = l + p
        BY <1>1
      <3> QED
        BY <2>2, <3>1, <3>2
    <2>4. l \in Int
      OBVIOUS
    <2> QED
      BY <1>3, <2>2, <2>3, <2>4
  <1> QED
    BY <1>2, <1>4, <1>5 DEF Moves

(* So do the nodes of a path.                                              *)
LEMMA BelowKept ==
    ASSUME NEW succ, NEW v, NEW w, Moves(v, w, succ), NEW a, NEW b, Below(v, succ, a, b)
    PROVE  Below(w, succ, a, b)
  <1>1. \A x, y : Precedes(v, y, x) => Precedes(w, y, x)
    BY PrecedesKept
  <1> QED
    BY <1>1, Zenon DEF Below

(* A step keeps what waits above an open node among its successors.        *)
LEMMA ByParentKept ==
    ASSUME NEW succ, NEW v, NEW w, Moves(v, w, succ), ByParent(v, succ)
    PROVE  ByParent(w, succ)
  <1>1. Len(v.todo) \in Nat /\ Len(w.todo) \in Nat
    BY DEF Moves
  <1> SUFFICES ASSUME NEW p \in 1..Len(w.todo), NEW q \in 1..Len(w.todo), p < q, w.todo[q].leave,
                      \A r \in 1..Len(w.todo) : (p < r /\ r < q) => ~w.todo[r].leave
               PROVE  w.todo[p].node \in Successors(succ, w.todo[q].node)
    BY DEF ByParent
  <1>2. \A g, h \in 1..Len(v.todo) :
          (g < h /\ v.todo[h].leave /\ \A r \in 1..Len(v.todo) : (g < r /\ r < h) => ~v.todo[r].leave)
            => v.todo[g].node \in Successors(succ, v.todo[h].node)
    BY DEF ByParent
  <1>3. CASE Left(v, w) \/ Skipped(v, w)
    <2>1. /\ \A k \in 1..Len(w.todo) : k + 1 \in 1..Len(v.todo) /\ w.todo[k] = v.todo[k + 1]
          /\ \A k \in 1..Len(v.todo) :
                 k = 1 \/ (k - 1 \in 1..Len(w.todo) /\ w.todo[k - 1] = v.todo[k])
      BY <1>3, ShiftFacts
    <2>2. PICK g, h : g = p + 1 /\ h = q + 1
      OBVIOUS
    <2>3. /\ g \in 1..Len(v.todo) /\ w.todo[p] = v.todo[g]
          /\ h \in 1..Len(v.todo) /\ w.todo[q] = v.todo[h]
      BY <2>1, <2>2
    <2>4. g < h
      BY <1>1, <2>2
    <2>5. ASSUME NEW r \in 1..Len(v.todo), g < r, r < h
          PROVE  ~v.todo[r].leave
      <3>1. PICK k : k = r - 1
        OBVIOUS
      <3>2. r # 1 /\ p < k /\ k < q
        BY <1>1, <2>2, <2>5, <3>1
      <3>3. k \in 1..Len(w.todo) /\ w.todo[k] = v.todo[r]
        BY <2>1, <3>1, <3>2
      <3> QED
        BY <3>2, <3>3
    <2> QED
      BY <1>2, <2>3, <2>4, <2>5
  <1>4. CASE \E x \in DOMAIN succ, l \in Nat : Enters(v, w, succ, x, l)
    <2>0. PICK x \in DOMAIN succ, l \in Nat : Enters(v, w, succ, x, l)
      BY <1>4
    <2>1. /\ 1 \in 1..Len(v.todo) /\ v.todo[1].node = x
          /\ \A h \in 1..l :
                 h \in 1..Len(w.todo) /\ ~w.todo[h].leave /\ w.todo[h].node \in Successors(succ, x)
          /\ l + 1 \in 1..Len(w.todo) /\ w.todo[l + 1].node = x /\ w.todo[l + 1].leave
          /\ \A k \in 2..Len(v.todo) :
                 k \in 1..Len(v.todo) /\ l + k \in 1..Len(w.todo) /\ w.todo[l + k] = v.todo[k]
          /\ \A h \in 1..Len(w.todo) :
                 h \in 1..l \/ h = l + 1 \/ \E k \in 2..Len(v.todo) : h = l + k
      BY ONLY <2>0, EnterFacts, Moves(v, w, succ), l \in Nat
    <2>2. CASE q = l + 1
      <3>1. ~(p = l + 1) /\ ~(\E k \in 2..Len(v.todo) : p = l + k)
        BY <1>1, <2>2
      <3> QED
        BY <2>1, <2>2, <3>1
    <2>3. ASSUME NEW h \in 2..Len(v.todo), q = l + h
          PROVE  w.todo[p].node \in Successors(succ, w.todo[q].node)
      <3>1. h \in 1..Len(v.todo) /\ w.todo[q] = v.todo[h]
        BY <2>1, <2>3
      <3>2. ~(p \in 1..l)
        <4>1. l + 1 < q
          BY <1>1, <2>3
        <4>2. ~(p < l + 1)
          BY <2>1, <4>1
        <4> QED
          BY <4>2
      <3>3. ASSUME NEW g \in 1..Len(v.todo), p = l + g, w.todo[p].node = v.todo[g].node
            PROVE  w.todo[p].node \in Successors(succ, w.todo[q].node)
        <4>1. g < h
          BY <1>1, <2>3, <3>3
        <4>2. ASSUME NEW r \in 1..Len(v.todo), g < r, r < h
              PROVE  ~v.todo[r].leave
          <5>1. PICK k : k = l + r
            OBVIOUS
          <5>2. r \in 2..Len(v.todo) /\ p < k /\ k < q
            BY <1>1, <2>3, <3>3, <4>2, <5>1
          <5>3. k \in 1..Len(w.todo) /\ w.todo[k] = v.todo[r]
            BY <2>1, <5>1, <5>2
          <5> QED
            BY <5>2, <5>3
        <4>3. v.todo[g].node \in Successors(succ, v.todo[h].node)
          BY <1>2, <3>1, <4>1, <4>2
        <4> QED
          BY <3>1, <3>3, <4>3
      <3>4. CASE p = l + 1
        BY <2>1, <3>3, <3>4
      <3>5. CASE \E k \in 2..Len(v.todo) : p = l + k
        <4>1. PICK k \in 2..Len(v.todo) : p = l + k
          BY <3>5
        <4>2. k \in 1..Len(v.todo) /\ w.todo[p] = v.todo[k]
          BY <2>1, <4>1
        <4> QED
          BY <3>3, <4>1, <4>2
      <3> QED
        BY <2>1, <3>2, <3>4, <3>5
    <2>4. ~(q \in 1..l)
      BY <2>1
    <2> QED
      BY <2>1, <2>2, <2>3, <2>4
  <1> QED
    BY <1>3, <1>4 DEF Moves

(* A step keeps the open nodes on one path.                                *)
LEMMA ChainKept ==
    ASSUME NEW succ, NEW v, NEW w, Moves(v, w, succ), ByParent(v, succ), Chain(v, succ),
           \A p \in 1..Len(v.todo) : v.todo[p].node \in DOMAIN succ
    PROVE  Chain(w, succ)
  <1>1. Len(v.todo) \in Nat /\ Len(w.todo) \in Nat
    BY DEF Moves
  <1> SUFFICES ASSUME NEW p \in 1..Len(w.todo), NEW q \in 1..Len(w.todo),
                      p < q, w.todo[p].leave, w.todo[q].leave
               PROVE  Below(w, succ, w.todo[q].node, w.todo[p].node)
    BY DEF Chain
  <1>2. ASSUME NEW g \in 1..Len(v.todo), NEW h \in 1..Len(v.todo), g < h,
               v.todo[g].leave, v.todo[h].leave
        PROVE  Below(w, succ, v.todo[h].node, v.todo[g].node)
    BY <1>2, BelowKept DEF Chain
  <1>3. CASE Left(v, w) \/ Skipped(v, w)
    <2>1. \A k \in 1..Len(w.todo) : k + 1 \in 1..Len(v.todo) /\ w.todo[k] = v.todo[k + 1]
      BY <1>3, ShiftFacts
    <2>2. PICK g, h : g = p + 1 /\ h = q + 1
      OBVIOUS
    <2>3. /\ g \in 1..Len(v.todo) /\ w.todo[p] = v.todo[g]
          /\ h \in 1..Len(v.todo) /\ w.todo[q] = v.todo[h]
      BY <2>1, <2>2
    <2>4. g < h
      BY <1>1, <2>2
    <2> QED
      BY <1>2, <2>3, <2>4
  <1>4. CASE \E x \in DOMAIN succ, l \in Nat : Enters(v, w, succ, x, l)
    <2>0. PICK x \in DOMAIN succ, l \in Nat : Enters(v, w, succ, x, l)
      BY <1>4
    <2>1. /\ 1 \in 1..Len(v.todo) /\ v.todo[1].node = x /\ ~v.todo[1].leave
          /\ \A h \in 1..l : ~w.todo[h].leave
          /\ l + 1 \in 1..Len(w.todo) /\ w.todo[l + 1].node = x /\ w.todo[l + 1].leave
          /\ \A k \in 2..Len(v.todo) :
                 k \in 1..Len(v.todo) /\ l + k \in 1..Len(w.todo) /\ w.todo[l + k] = v.todo[k]
          /\ \A h \in 1..Len(w.todo) :
                 h \in 1..l \/ h = l + 1 \/ \E k \in 2..Len(v.todo) : h = l + k
      BY <2>0, EnterFacts
    <2>2. PICK h \in 2..Len(v.todo) : q = l + h
      <3>1. q \in 1..l \/ q = l + 1 \/ \E k \in 2..Len(v.todo) : q = l + k
        BY <2>1
      <3>2. ~(q \in 1..l)
        BY <2>1
      <3>3. p \in 1..l \/ p = l + 1 \/ \E k \in 2..Len(v.todo) : p = l + k
        BY <2>1
      <3>4. ~(p \in 1..l)
        BY <2>1
      <3>5. q # l + 1
        BY <1>1, <3>3, <3>4
      <3> QED
        BY <3>1, <3>2, <3>5
    <2>3. h \in 1..Len(v.todo) /\ w.todo[q] = v.todo[h] /\ v.todo[h].leave
      BY <2>1, <2>2
    <2>4. CASE \E k \in 2..Len(v.todo) : p = l + k
      <3>1. PICK g \in 2..Len(v.todo) : p = l + g
        BY <2>4
      <3>2. g \in 1..Len(v.todo) /\ w.todo[p] = v.todo[g]
        BY <2>1, <3>1
      <3>3. g < h
        BY <1>1, <2>2, <3>1
      <3> QED
        BY <1>2, <2>3, <3>2, <3>3
    <2>5. CASE p = l + 1
      <3> DEFINE Marks == {k \in 2..Len(v.todo) : v.todo[k].leave}
      <3>1. Marks \in SUBSET Nat /\ h \in Marks
        BY <1>1, <2>3
      <3>2. PICK g \in Marks : \A k \in Marks : g <= k
        BY ONLY <3>1, LeastNumber
      <3>3. /\ g \in 2..Len(v.todo) /\ v.todo[g].leave /\ g <= h
            /\ \A r \in 1..Len(v.todo) : (1 < r /\ r < g) => ~v.todo[r].leave
        <4>1. g \in 2..Len(v.todo) /\ v.todo[g].leave /\ g <= h
          BY <3>1, <3>2
        <4>2. ASSUME NEW r \in 1..Len(v.todo), 1 < r, r < g, v.todo[r].leave
              PROVE  FALSE
          <5>1. r \in Marks
            BY <1>1, <4>2
          <5>2. g <= r
            BY <3>2, <5>1
          <5> QED
            BY <1>1, <4>1, <4>2, <5>2
        <4> QED
          BY <4>1, <4>2
      <3> HIDE DEF Marks
      <3>4. PICK z : z = v.todo[g].node
        OBVIOUS
      <3>5. x \in Successors(succ, z)
        <4>1. g \in 1..Len(v.todo) /\ 1 < g
          BY <1>1, <3>3
        <4>2. v.todo[1].node \in Successors(succ, v.todo[g].node)
          BY <2>1, <3>3, <4>1 DEF ByParent
        <4> QED
          BY <2>1, <3>4, <4>2
      <3>6. Precedes(w, x, z)
        <4>1. PICK a, b : a = l + 1 /\ b = l + g
          OBVIOUS
        <4>2. /\ a \in 1..Len(w.todo) /\ w.todo[a].leave /\ w.todo[a].node = x
              /\ b \in 1..Len(w.todo) /\ w.todo[b].leave /\ w.todo[b].node = z
          BY <2>1, <3>3, <3>4, <4>1
        <4>3. a < b
          BY <1>1, <3>3, <4>1
        <4> QED
          BY ONLY <4>2, <4>3 DEF Precedes
      <3>7. Below(w, succ, v.todo[h].node, z)
        <4>1. CASE g = h
          BY <3>4, <4>1 DEF Below
        <4>2. CASE g # h
          <5>1. g < h /\ g \in 1..Len(v.todo)
            BY <1>1, <3>3, <4>2
          <5> QED
            BY <1>2, <2>3, <3>3, <3>4, <5>1
        <4> QED
          BY <4>1, <4>2
      <3>8. Below(w, succ, v.todo[h].node, x)
        BY ONLY <3>5, <3>6, <3>7, Zenon DEF Below
      <3> QED
        BY <2>1, <2>3, <2>5, <3>8
    <2>6. ~(p \in 1..l)
      BY <2>1
    <2> QED
      BY <2>1, <2>4, <2>5, <2>6
  <1> QED
    BY <1>3, <1>4 DEF Moves

(* A step keeps this: a successor that is not finished before its node has *)
(* a path back to it.                                                      *)
LEMMA BackEdgesKept ==
    ASSUME NEW succ, NEW v, NEW w, Moves(v, w, succ), SeenOnce(v), ChildrenKept(v, succ),
           Chain(v, succ), BackEdges(v, succ)
    PROVE  BackEdges(w, succ)
  <1>1. /\ Len(v.todo) \in Nat /\ Len(w.todo) \in Nat
        /\ Len(v.out) \in Nat /\ Len(w.out) \in Nat
    BY DEF Moves
  <1>2. ASSUME \A i \in 1..Len(v.out) : i \in 1..Len(w.out) /\ w.out[i] = v.out[i],
               NEW i \in 1..Len(v.out)
        PROVE  /\ \A m \in Successors(succ, w.out[i]) :
                      Early(w, i, m) \/ Below(w, succ, m, w.out[i])
               /\ \A m, k \in Successors(succ, w.out[i]) :
                      \/ Early(w, i, m) \/ Early(w, i, k)
                      \/ Below(w, succ, m, k) \/ Below(w, succ, k, m)
    <2>1. \A m : Early(v, i, m) => Early(w, i, m)
      BY <1>2 DEF Early
    <2>2. \A a, b : Below(v, succ, a, b) => Below(w, succ, a, b)
      BY BelowKept
    <2>3. w.out[i] = v.out[i]
      BY <1>2
    <2>4. /\ \A m \in Successors(succ, v.out[i]) : Early(v, i, m) \/ Below(v, succ, m, v.out[i])
          /\ \A m, k \in Successors(succ, v.out[i]) :
               \/ Early(v, i, m) \/ Early(v, i, k)
               \/ Below(v, succ, m, k) \/ Below(v, succ, k, m)
      BY DEF BackEdges
    <2> QED
      BY ONLY <2>1, <2>2, <2>3, <2>4
  <1>3. CASE Left(v, w)
    <2>1. /\ 1 \in 1..Len(v.todo)
          /\ \A i \in 1..Len(v.out) : i \in 1..Len(w.out) /\ w.out[i] = v.out[i]
          /\ \A i \in 1..Len(w.out) :
                  \/ i \in 1..Len(v.out) /\ w.out[i] = v.out[i]
                  \/ Left(v, w) /\ i = Len(v.out) + 1 /\ w.out[i] = v.todo[1].node
      BY <1>3, ShiftFacts
    <2>2. PICK x : x = v.todo[1].node
      OBVIOUS
    <2>3. v.todo[1].leave
      BY <1>3 DEF Left
    <2>4. ASSUME NEW i \in 1..Len(w.out), i = Len(v.out) + 1, w.out[i] = x,
                 NEW m \in Successors(succ, x)
          PROVE  Early(w, i, m) \/ \E q \in 1..Len(v.todo) :
                     1 < q /\ v.todo[q].leave /\ v.todo[q].node = m
      <3>1. m \in v.seen
        <4>1. m \in v.seen \/ \E p \in 1..Len(v.todo) : p < 1 /\ ~v.todo[p].leave /\ v.todo[p].node = m
          BY <2>1, <2>2, <2>3 DEF ChildrenKept
        <4> QED
          BY <1>1, <4>1
      <3>2. CASE Finished(v, m)
        <4>1. PICK j \in 1..Len(v.out) : v.out[j] = m
          BY <3>2 DEF Finished
        <4>2. j \in 1..Len(w.out) /\ w.out[j] = m
          BY <2>1, <4>1
        <4>3. j <= i
          BY <1>1, <2>4
        <4> QED
          BY <4>2, <4>3 DEF Early
      <3>3. CASE Open(v, m)
        <4>1. PICK q \in 1..Len(v.todo) : v.todo[q].leave /\ v.todo[q].node = m
          BY <3>3 DEF Open
        <4>2. CASE q = 1
          <5>1. m = x /\ i <= i
            BY <1>1, <2>2, <4>1, <4>2
          <5> QED
            BY <2>4, <5>1 DEF Early
        <4>3. CASE q # 1
          <5>1. 1 < q
            BY <1>1, <4>3
          <5> QED
            BY <4>1, <5>1
        <4> QED
          BY <4>2, <4>3
      <3> QED
        BY <3>1, <3>2, <3>3 DEF SeenOnce
    <2>5. \A g, h \in 1..Len(v.todo) : (g < h /\ v.todo[g].leave /\ v.todo[h].leave)
             => Below(w, succ, v.todo[h].node, v.todo[g].node)
      BY BelowKept DEF Chain
    <2>6. ASSUME NEW i \in 1..Len(w.out), i = Len(v.out) + 1, w.out[i] = x
          PROVE  /\ \A m \in Successors(succ, w.out[i]) :
                      Early(w, i, m) \/ Below(w, succ, m, w.out[i])
                 /\ \A m, k \in Successors(succ, w.out[i]) :
                      \/ Early(w, i, m) \/ Early(w, i, k)
                      \/ Below(w, succ, m, k) \/ Below(w, succ, k, m)
      <3>1. ASSUME NEW m \in Successors(succ, x), ~Early(w, i, m)
            PROVE  Below(w, succ, m, x)
        <4>1. PICK q \in 1..Len(v.todo) : 1 < q /\ v.todo[q].leave /\ v.todo[q].node = m
          BY <2>4, <2>6, <3>1
        <4> QED
          BY <2>1, <2>2, <2>3, <2>5, <4>1
      <3>2. ASSUME NEW m \in Successors(succ, x), NEW k \in Successors(succ, x),
                   ~Early(w, i, m), ~Early(w, i, k)
            PROVE  Below(w, succ, m, k) \/ Below(w, succ, k, m)
        <4>1. PICK q \in 1..Len(v.todo) : 1 < q /\ v.todo[q].leave /\ v.todo[q].node = m
          BY <2>4, <2>6, <3>2
        <4>2. PICK r \in 1..Len(v.todo) : 1 < r /\ v.todo[r].leave /\ v.todo[r].node = k
          BY <2>4, <2>6, <3>2
        <4>3. q < r \/ r < q \/ q = r
          BY <1>1
        <4>4. CASE q = r
          BY <4>1, <4>2, <4>4 DEF Below
        <4> QED
          BY <2>5, <4>1, <4>2, <4>3, <4>4
      <3> QED
        BY <2>6, <3>1, <3>2
    <2>7. \A i \in 1..Len(w.out) : i \in 1..Len(v.out) \/ (i = Len(v.out) + 1 /\ w.out[i] = x)
      BY <2>1, <2>2
    <2> QED
      BY <1>2, <2>1, <2>6, <2>7 DEF BackEdges
  <1>4. CASE w.out = v.out
    BY <1>2, <1>4 DEF BackEdges
  <1> QED
    BY <1>3, <1>4 DEF Moves, Skipped, Enters

(* Only what a path leads to from what was given is looked at.             *)
FromRoots(v, roots, succ) ==
    /\ \A p \in 1..Len(v.todo) : \E r \in 1..Len(roots) : Reaches(succ, roots[r], v.todo[p].node)
    /\ \A i \in 1..Len(v.out) : \E r \in 1..Len(roots) : Reaches(succ, roots[r], v.out[i])

(* A step looks only at successors of what was looked at.                  *)
LEMMA FromRootsKept ==
    ASSUME NEW roots, NEW succ, NEW v, NEW w, Moves(v, w, succ), FromRoots(v, roots, succ)
    PROVE  FromRoots(w, roots, succ)
  <1>1. \A p \in 1..Len(v.todo) : \E r \in 1..Len(roots) : Reaches(succ, roots[r], v.todo[p].node)
    BY DEF FromRoots
  <1>2. \A i \in 1..Len(v.out) : \E r \in 1..Len(roots) : Reaches(succ, roots[r], v.out[i])
    BY DEF FromRoots
  <1>3. CASE Left(v, w) \/ Skipped(v, w)
    <2>1. /\ 1 \in 1..Len(v.todo)
          /\ \A p \in 1..Len(w.todo) : p + 1 \in 1..Len(v.todo) /\ w.todo[p] = v.todo[p + 1]
          /\ \A i \in 1..Len(w.out) :
                 \/ i \in 1..Len(v.out) /\ w.out[i] = v.out[i]
                 \/ Left(v, w) /\ i = Len(v.out) + 1 /\ w.out[i] = v.todo[1].node
      BY <1>3, ShiftFacts
    <2>2. \A p \in 1..Len(w.todo) : \E r \in 1..Len(roots) : Reaches(succ, roots[r], w.todo[p].node)
      <3> SUFFICES ASSUME NEW p \in 1..Len(w.todo)
                   PROVE  \E r \in 1..Len(roots) : Reaches(succ, roots[r], w.todo[p].node)
        OBVIOUS
      <3>1. PICK q : q = p + 1
        OBVIOUS
      <3>2. q \in 1..Len(v.todo) /\ w.todo[p] = v.todo[q]
        BY <2>1, <3>1
      <3> QED
        BY ONLY <1>1, <3>2
    <2>3. \A i \in 1..Len(w.out) : \E r \in 1..Len(roots) : Reaches(succ, roots[r], w.out[i])
      BY ONLY <1>1, <1>2, <2>1
    <2> QED
      BY <2>2, <2>3 DEF FromRoots
  <1>4. CASE \E x \in DOMAIN succ, l \in Nat : Enters(v, w, succ, x, l)
    <2>0. PICK x \in DOMAIN succ, l \in Nat : Enters(v, w, succ, x, l)
      BY <1>4
    <2>1. /\ w.out = v.out /\ 1 \in 1..Len(v.todo) /\ v.todo[1].node = x
          /\ \A p \in 1..l : w.todo[p].node \in Successors(succ, x)
          /\ w.todo[l + 1].node = x
          /\ \A k \in 2..Len(v.todo) : k \in 1..Len(v.todo) /\ w.todo[l + k] = v.todo[k]
          /\ \A p \in 1..Len(w.todo) :
                 p \in 1..l \/ p = l + 1 \/ \E k \in 2..Len(v.todo) : p = l + k
      BY ONLY <2>0, EnterFacts, Moves(v, w, succ), l \in Nat
    <2>2. PICK r \in 1..Len(roots) : Reaches(succ, roots[r], x)
      BY <1>1, <2>1
    <2>3. \A m \in Successors(succ, x) : Reaches(succ, roots[r], m)
      BY ONLY <2>2 DEF Reaches, Closed
    <2>4. ASSUME NEW p \in 1..Len(w.todo)
          PROVE  \E h \in 1..Len(roots) : Reaches(succ, roots[h], w.todo[p].node)
      <3>1. CASE p \in 1..l
        BY <2>1, <2>3, <3>1
      <3>2. CASE p = l + 1
        BY <2>1, <2>2, <3>2
      <3>3. CASE \E k \in 2..Len(v.todo) : p = l + k
        BY <1>1, <2>1, <3>3
      <3> QED
        BY <2>1, <3>1, <3>2, <3>3
    <2> QED
      BY <1>2, <2>1, <2>4 DEF FromRoots
  <1> QED
    BY <1>3, <1>4 DEF Moves

(* The visits that are left are enough.                                    *)
Remaining(v, succ) ==
    (Cardinality(DOMAIN succ) - Cardinality(v.seen)) * (Width(succ) + 1) + Len(v.todo)

(* The number of visits left is a number, and no less than what waits.     *)
LEMMA SeenNumber ==
    ASSUME NEW roots, NEW succ, Graph(roots, succ), NEW v, SearchTypes(v, succ)
    PROVE  /\ Cardinality(DOMAIN succ) \in Nat /\ Cardinality(v.seen) \in Nat
           /\ Cardinality(v.seen) <= Cardinality(DOMAIN succ)
           /\ Remaining(v, succ) \in Nat
           /\ Len(v.todo) \in Nat /\ Len(v.todo) <= Remaining(v, succ)
           /\ IsFiniteSet(v.seen)
  <1>1. IsFiniteSet(DOMAIN succ) /\ v.seen \in SUBSET DOMAIN succ
    BY DEF Graph, SearchTypes
  <1>2. /\ IsFiniteSet(v.seen)
        /\ Cardinality(v.seen) <= Cardinality(DOMAIN succ)
    BY <1>1, FS_Subset
  <1>3. Cardinality(DOMAIN succ) \in Nat /\ Cardinality(v.seen) \in Nat
    BY <1>1, <1>2, FS_CardinalityType
  <1>4. Width(succ) \in Nat
    BY WidthBound
  <1>5. Len(v.todo) \in Nat
    BY DEF SearchTypes
  <1>6. PICK d : d = Cardinality(DOMAIN succ) - Cardinality(v.seen)
    OBVIOUS
  <1>7. d \in Nat
    BY <1>2, <1>3, <1>6
  <1>8. PICK e : e = d * (Width(succ) + 1)
    OBVIOUS
  <1>9. e \in Nat
    BY ONLY <1>4, <1>7, <1>8
  <1>10. Remaining(v, succ) = e + Len(v.todo)
    BY <1>6, <1>8 DEF Remaining
  <1> QED
    BY <1>2, <1>3, <1>5, <1>9, <1>10

(* It falls with every visit that does something.                          *)
LEMMA RemainingFalls ==
    ASSUME NEW roots, NEW succ, Graph(roots, succ), NEW v, NEW w, Moves(v, w, succ),
           SearchTypes(v, succ), SearchTypes(w, succ)
    PROVE  Remaining(w, succ) <= Remaining(v, succ) - 1
  <1>1. Len(v.todo) \in Nat /\ Len(w.todo) \in Nat
    BY DEF Moves
  <1>2. Width(succ) \in Nat /\ \A n \in DOMAIN succ : Len(succ[n]) \in Nat /\ Len(succ[n]) <= Width(succ)
    BY WidthBound
  <1>3. /\ Cardinality(DOMAIN succ) \in Nat /\ Cardinality(v.seen) \in Nat
        /\ IsFiniteSet(v.seen)
    BY SeenNumber
  <1>4. Cardinality(w.seen) \in Nat
    BY SeenNumber
  <1>5. CASE Left(v, w) \/ Skipped(v, w)
    <2>1. w.seen = v.seen /\ Len(w.todo) = Len(v.todo) - 1
      BY <1>5 DEF Left, Skipped, Shifted
    <2>2. PICK e : e = (Cardinality(DOMAIN succ) - Cardinality(v.seen)) * (Width(succ) + 1)
      OBVIOUS
    <2>3. e \in Int
      BY <1>2, <1>3, <2>2
    <2>4. Remaining(v, succ) = e + Len(v.todo) /\ Remaining(w, succ) = e + Len(w.todo)
      BY <2>1, <2>2 DEF Remaining
    <2> QED
      BY ONLY <1>1, <2>1, <2>3, <2>4
  <1>6. CASE \E x \in DOMAIN succ, l \in Nat : Enters(v, w, succ, x, l)
    <2>1. PICK x \in DOMAIN succ, l \in Nat : Enters(v, w, succ, x, l)
      BY <1>6
    <2>2. /\ Len(w.todo) = Len(succ[x]) + Len(v.todo) /\ w.seen = v.seen \cup {x} /\ x \notin v.seen
          /\ Len(v.todo) >= 1
      BY <2>1 DEF Enters
    <2>4. Cardinality(w.seen) = Cardinality(v.seen) + 1
      BY <1>3, <2>2, FS_AddElement
    <2>5. PICK c, b, d, u : /\ c = Cardinality(DOMAIN succ) /\ b = Cardinality(v.seen)
                            /\ d = Width(succ) /\ u = Len(succ[x])
      OBVIOUS
    <2>6. c \in Nat /\ b \in Nat /\ d \in Nat /\ u \in Nat /\ u <= d
      BY <1>2, <1>3, <2>5
    <2>7. /\ Remaining(v, succ) = (c - b) * (d + 1) + Len(v.todo)
          /\ Remaining(w, succ) = (c - (b + 1)) * (d + 1) + (u + Len(v.todo))
      BY <2>2, <2>4, <2>5 DEF Remaining
    <2>8. (c - b) * (d + 1) = (c - (b + 1)) * (d + 1) + (d + 1)
      BY ONLY <2>6
    <2>9. PICK e : e = (c - (b + 1)) * (d + 1)
      OBVIOUS
    <2>10. e \in Int
      BY ONLY <2>6, <2>9
    <2>11. /\ Remaining(v, succ) = (e + (d + 1)) + Len(v.todo)
           /\ Remaining(w, succ) = e + (u + Len(v.todo))
      BY ONLY <2>7, <2>8, <2>9
    <2>12. \A i \in Int : \A j, k, n \in Nat : j <= k => i + (j + n) <= ((i + (k + 1)) + n) - 1
      OBVIOUS
    <2>13. e + (u + Len(v.todo)) <= ((e + (d + 1)) + Len(v.todo)) - 1
      BY ONLY <1>1, <2>6, <2>10, <2>12
    <2> QED
      BY ONLY <2>11, <2>13
  <1> QED
    BY <1>5, <1>6 DEF Moves

SearchInv(v, roots, succ) ==
    /\ SearchTypes(v, succ)
    /\ SeenOnce(v)
    /\ RootsKept(v, roots)
    /\ ChildrenKept(v, succ)
    /\ ByParent(v, succ)
    /\ Chain(v, succ)
    /\ BackEdges(v, succ)
    /\ FromRoots(v, roots, succ)

(* In the list o a path leads from a to b on which every node comes before *)
(* the one it is a successor of.                                           *)
Beneath(o, succ, a, b) ==
    \A S \in SUBSET DOMAIN succ :
        (/\ a \in S
         /\ \A i, j \in 1..Len(o) :
                (i < j /\ o[j] \in S /\ o[i] \in Successors(succ, o[j])) => o[i] \in S) => b \in S

By(o, i, m) == \E j \in 1..Len(o) : j <= i /\ o[j] = m

(* What the search finds, and in which order.                              *)
Searched(o, roots, succ) ==
    /\ o \in Seq(DOMAIN succ)
    /\ \A i, j \in 1..Len(o) : o[i] = o[j] => i = j
    /\ \A r \in 1..Len(roots) : \E i \in 1..Len(o) : o[i] = roots[r]
    /\ \A i \in 1..Len(o) : \A m \in Successors(succ, o[i]) : \E j \in 1..Len(o) : o[j] = m
    /\ \A i \in 1..Len(o) : \E r \in 1..Len(roots) : Reaches(succ, roots[r], o[i])
    /\ \A i \in 1..Len(o) : \A m \in Successors(succ, o[i]) :
           By(o, i, m) \/ Beneath(o, succ, m, o[i])
    /\ \A i \in 1..Len(o) : \A m, k \in Successors(succ, o[i]) :
           By(o, i, m) \/ By(o, i, k) \/ Beneath(o, succ, m, k) \/ Beneath(o, succ, k, m)

(* The search begins with the invariant and all visits left.               *)
LEMMA SearchInvStart ==
    ASSUME NEW roots, NEW succ, Graph(roots, succ)
    PROVE  /\ SearchInv(SearchStart(roots), roots, succ)
           /\ Remaining(SearchStart(roots), succ) = Visits(roots, succ)
  <1>1. PICK v : v = SearchStart(roots)
    OBVIOUS
  <1>2. roots \in Seq(DOMAIN succ)
    BY DEF Graph
  <1>3. Len(roots) \in Nat /\ DOMAIN roots = 1..Len(roots)
    BY <1>2
  <1>4. /\ DOMAIN v = {"todo", "seen", "out"} /\ v.seen = {} /\ v.out = <<>>
        /\ v.todo = [i \in 1..Len(roots) |-> Enter(roots[i])]
    BY <1>1, <1>3 DEF SearchStart
  <1>5. \A i \in 1..Len(roots) : Enter(roots[i]) \in Entries(succ)
    BY <1>2 DEF Enter, Entries
  <1>6. v.todo \in Seq(Entries(succ)) /\ Len(v.todo) = Len(roots)
    <2>1. v.todo \in [1..Len(roots) -> Entries(succ)]
      BY ONLY <1>4, <1>5
    <2> QED
      BY ONLY <1>3, <2>1
  <1>7. \A p \in 1..Len(v.todo) : v.todo[p].node = roots[p] /\ ~v.todo[p].leave
    BY ONLY <1>4, <1>6 DEF Enter
  <1>8. <<>> \in Seq(DOMAIN succ) /\ Len(<<>>) = 0
    OBVIOUS
  <1>9. 1..Len(v.out) = {}
    BY <1>4, <1>8
  <1>10. SearchTypes(v, succ)
    BY <1>4, <1>6, <1>8 DEF SearchTypes
  <1>11. SeenOnce(v)
    BY ONLY <1>4, <1>7, <1>9 DEF SeenOnce
  <1>12. RootsKept(v, roots)
    BY ONLY <1>6, <1>7 DEF RootsKept, Waits
  <1>13. ChildrenKept(v, succ) /\ ByParent(v, succ) /\ Chain(v, succ) /\ BackEdges(v, succ)
    BY ONLY <1>7, <1>9 DEF ChildrenKept, ByParent, Chain, BackEdges
  <1>14. FromRoots(v, roots, succ)
    <2>1. \A n : Reaches(succ, n, n)
      BY DEF Reaches
    <2> QED
      BY ONLY <1>6, <1>7, <1>9, <2>1 DEF FromRoots
  <1>15. Remaining(v, succ) = Visits(roots, succ)
    <2>1. Cardinality(v.seen) = 0
      BY <1>4, FS_EmptySet
    <2>2. /\ Cardinality(DOMAIN succ) \in Nat
          /\ Visits(roots, succ) = Cardinality(DOMAIN succ) * (Width(succ) + 1) + Len(roots)
      BY VisitsNumber
    <2>3. Cardinality(DOMAIN succ) - 0 = Cardinality(DOMAIN succ)
      BY <2>2
    <2> QED
      BY ONLY <1>6, <2>1, <2>2, <2>3 DEF Remaining
  <1> QED
    BY <1>1, <1>10, <1>11, <1>12, <1>13, <1>14, <1>15 DEF SearchInv

(* A visit keeps the invariant, and uses one of the visits left up.        *)
LEMMA SearchInvKept ==
    ASSUME NEW roots, NEW succ, Graph(roots, succ), NEW v, SearchInv(v, roots, succ)
    PROVE  /\ SearchInv(Visit(v, succ), roots, succ)
           /\ v.todo = <<>> => Visit(v, succ) = v
           /\ v.todo # <<>> => Remaining(Visit(v, succ), succ) <= Remaining(v, succ) - 1
  <1>1. PICK w : w = Visit(v, succ)
    OBVIOUS
  <1>2. /\ SearchTypes(v, succ) /\ SeenOnce(v) /\ RootsKept(v, roots) /\ ChildrenKept(v, succ)
        /\ ByParent(v, succ) /\ Chain(v, succ) /\ BackEdges(v, succ) /\ FromRoots(v, roots, succ)
    BY DEF SearchInv
  <1>3. SearchTypes(w, succ) /\ (w = v \/ Moves(v, w, succ)) /\ (v.todo = <<>> \/ Moves(v, w, succ))
    BY <1>1, <1>2, VisitMoves
  <1>4. v.todo = <<>> => w = v
    BY <1>1 DEF Visit
  <1>5. CASE Moves(v, w, succ)
    <2>1. \A p \in 1..Len(v.todo) : v.todo[p].node \in DOMAIN succ
      <3>1. v.todo \in Seq(Entries(succ))
        BY <1>2 DEF SearchTypes
      <3>2. \A p \in 1..Len(v.todo) : v.todo[p] \in Entries(succ)
        BY ONLY <3>1, ElementOfSeq
      <3> QED
        BY ONLY <3>2 DEF Entries
    <2>2. SeenOnce(w)
      BY ONLY <1>2, <1>5, SeenOnceKept
    <2>3. RootsKept(w, roots)
      BY ONLY <1>2, <1>5, RootsKeptOn
    <2>4. ChildrenKept(w, succ)
      BY ONLY <1>2, <1>5, ChildrenKeptOn
    <2>5. ByParent(w, succ)
      BY ONLY <1>2, <1>5, ByParentKept
    <2>6. Chain(w, succ)
      BY ONLY <1>2, <1>5, <2>1, ChainKept
    <2>7. BackEdges(w, succ)
      BY ONLY <1>2, <1>5, BackEdgesKept
    <2>8. FromRoots(w, roots, succ)
      BY ONLY <1>2, <1>5, FromRootsKept
    <2>9. Remaining(w, succ) <= Remaining(v, succ) - 1
      BY ONLY <1>2, <1>3, <1>5, Graph(roots, succ), RemainingFalls
    <2> QED
      BY ONLY <1>1, <1>3, <1>4, <2>2, <2>3, <2>4, <2>5, <2>6, <2>7, <2>8, <2>9 DEF SearchInv
  <1> QED
    BY <1>1, <1>3, <1>4, <1>5

(* PostOrder finds what a path leads to from what was given, each node     *)
(* once, and a successor before its node unless it leads back to it.       *)
LEMMA SearchResult ==
    ASSUME NEW roots, NEW succ, Graph(roots, succ)
    PROVE  Searched(PostOrder(roots, succ), roots, succ)
  <1> DEFINE N == Visits(roots, succ)
  <1>1. N \in Nat
    BY VisitsNumber
  <1>2. PICK f : /\ PostOrder(roots, succ) = f[N].out
                 /\ f[0] = SearchStart(roots)
                 /\ \A n \in 1..N : f[n] = Visit(f[n - 1], succ)
    BY <1>1, VisitLoop
  <1> HIDE DEF N
  <1> DEFINE S == {i \in 0..N : /\ SearchInv(f[i], roots, succ)
                                /\ f[i].todo = <<>> \/ Remaining(f[i], succ) <= N - i}
  <1>3. 0 \in S
    <2>1. SearchInv(f[0], roots, succ) /\ Remaining(f[0], succ) = N
      BY <1>2, SearchInvStart DEF N
    <2>2. N <= N - 0 /\ 0 \in 0..N
      BY <1>1
    <2> QED
      BY <2>1, <2>2
  <1>4. ASSUME NEW k \in 1..N, k - 1 \in S
        PROVE  k \in S
    <2>1. PICK v, w : v = f[k - 1] /\ w = f[k]
      OBVIOUS
    <2>2. w = Visit(v, succ) /\ SearchInv(v, roots, succ)
      BY <1>2, <1>4, <2>1
    <2>3. v.todo = <<>> \/ Remaining(v, succ) <= N - (k - 1)
      BY <1>4, <2>1
    <2>4. /\ SearchInv(w, roots, succ)
          /\ v.todo = <<>> => w = v
          /\ v.todo # <<>> => Remaining(w, succ) <= Remaining(v, succ) - 1
      BY <2>2, SearchInvKept
    <2>5. Remaining(v, succ) \in Nat /\ Remaining(w, succ) \in Nat
      BY <2>2, <2>4, SeenNumber DEF SearchInv
    <2>6. w.todo = <<>> \/ Remaining(w, succ) <= N - k
      <3>1. CASE v.todo = <<>>
        BY <2>4, <3>1
      <3>2. CASE v.todo # <<>>
        <4>1. \A a, b \in Nat : (a <= b - 1 /\ b <= N - (k - 1)) => a <= N - k
          BY <1>1
        <4> QED
          BY ONLY <2>3, <2>4, <2>5, <3>2, <4>1
      <3> QED
        BY <3>1, <3>2
    <2>7. k \in 0..N
      BY <1>1
    <2> QED
      BY <2>1, <2>4, <2>6, <2>7
  <1>5. N \in S
    <2>1. \A k \in 1..N : k - 1 \in S => k \in S
      BY <1>4
    <2>2. N \in 0..N
      BY <1>1
    <2> HIDE DEF S
    <2> QED
      BY ONLY <1>1, <1>3, <2>1, <2>2, CountingUp
  <1>6. PICK v : v = f[N]
    OBVIOUS
  <1>7. SearchInv(v, roots, succ) /\ (v.todo = <<>> \/ Remaining(v, succ) <= N - N)
    BY <1>5, <1>6
  <1>8. 1..Len(v.todo) = {}
    <2>1. CASE v.todo = <<>>
      BY <2>1
    <2>2. CASE Remaining(v, succ) <= N - N
      <3>1. Remaining(v, succ) \in Nat /\ Len(v.todo) \in Nat /\ Len(v.todo) <= Remaining(v, succ)
        BY <1>7, SeenNumber DEF SearchInv
      <3>2. Len(v.todo) <= 0
        BY <1>1, <2>2, <3>1
      <3> QED
        BY <3>1, <3>2
    <2> QED
      BY <1>7, <2>1, <2>2
  <1>9. PICK o : o = v.out
    OBVIOUS
  <1>10. o = PostOrder(roots, succ)
    BY <1>2, <1>6, <1>9
  <1>11. \A n : ~Open(v, n) /\ ~Waits(v, n)
    BY ONLY <1>8 DEF Open, Waits
  <1>12. \A n \in v.seen : \E i \in 1..Len(o) : o[i] = n
    BY <1>7, <1>9, <1>11 DEF SearchInv, SeenOnce, Finished
  <1>13. o \in Seq(DOMAIN succ)
    BY <1>7, <1>9 DEF SearchInv, SearchTypes
  <1>14. \A i, j \in 1..Len(o) : o[i] = o[j] => i = j
    BY <1>7, <1>9 DEF SearchInv, SeenOnce
  <1>15. \A r \in 1..Len(roots) : \E i \in 1..Len(o) : o[i] = roots[r]
    BY <1>7, <1>11, <1>12 DEF SearchInv, RootsKept
  <1>16. \A i \in 1..Len(o) : \A m \in Successors(succ, o[i]) : \E j \in 1..Len(o) : o[j] = m
    <2>1. \A i \in 1..Len(o) : Successors(succ, o[i]) \subseteq v.seen
      BY <1>7, <1>9 DEF SearchInv, ChildrenKept
    <2> QED
      BY <1>12, <2>1
  <1>17. \A i \in 1..Len(o) : \E r \in 1..Len(roots) : Reaches(succ, roots[r], o[i])
    BY <1>7, <1>9 DEF SearchInv, FromRoots
  <1>18. ASSUME NEW a, NEW b, Below(v, succ, a, b)
         PROVE  Beneath(o, succ, a, b)
    <2>1. \A x, y : Precedes(v, y, x) =>
             \E i, j \in 1..Len(o) : i < j /\ o[i] = y /\ o[j] = x
      BY ONLY <1>8, <1>9, <1>11 DEF Precedes
    <2> SUFFICES ASSUME NEW T \in SUBSET DOMAIN succ, a \in T,
                        \A i, j \in 1..Len(o) :
                            (i < j /\ o[j] \in T /\ o[i] \in Successors(succ, o[j])) => o[i] \in T
                 PROVE  b \in T
      BY DEF Beneath
    <2>2. ASSUME NEW x \in T, NEW y \in Successors(succ, x), Precedes(v, y, x)
          PROVE  y \in T
      BY <2>1, <2>2
    <2> QED
      BY <1>18, <2>2 DEF Below
  <1>19. \A i \in 1..Len(o) : \A m : Early(v, i, m) => By(o, i, m)
    BY <1>9 DEF Early, By
  <1>20. \A i \in 1..Len(o) : \A m \in Successors(succ, o[i]) :
           By(o, i, m) \/ Beneath(o, succ, m, o[i])
    <2>1. \A i \in 1..Len(o) : \A m \in Successors(succ, o[i]) :
             Early(v, i, m) \/ Below(v, succ, m, o[i])
      BY <1>7, <1>9 DEF SearchInv, BackEdges
    <2> QED
      BY <1>18, <1>19, <2>1
  <1>21. \A i \in 1..Len(o) : \A m, k \in Successors(succ, o[i]) :
           By(o, i, m) \/ By(o, i, k) \/ Beneath(o, succ, m, k) \/ Beneath(o, succ, k, m)
    <2>1. \A i \in 1..Len(o) : \A m, k \in Successors(succ, o[i]) :
             \/ Early(v, i, m) \/ Early(v, i, k)
             \/ Below(v, succ, m, k) \/ Below(v, succ, k, m)
      BY <1>7, <1>9 DEF SearchInv, BackEdges
    <2> QED
      BY <1>18, <1>19, <2>1
  <1>22. Searched(o, roots, succ)
    BY ONLY <1>13, <1>14, <1>15, <1>16, <1>17, <1>20, <1>21 DEF Searched
  <1> QED
    BY <1>10, <1>22

-----------------------------------------------------------------------------
(* The object.  Loops change a few of its fields at a time; what the       *)
(* proofs need of the others is that they stay fields.                     *)

Fields ==
    {"state", "sources", "order", "contracts", "scopes", "optimize", "evm", "libraries",
     "requested", "standard", "compiles", "errors", "excess", "count"}

(* The reporter: its list is above the limit only if its count is.         *)
ReporterInv(s) ==
    /\ DOMAIN s = Fields
    /\ s.errors \in Nat
    /\ s.count \in Nat
    /\ s.excess \in BOOLEAN
    /\ s.excess => s.count > ErrorLimit

(* Every source has a name and a text.                                     *)
SourcesInv(s) ==
    /\ DOMAIN s.sources \subseteq SourceNames
    /\ \A n \in DOMAIN s.sources :
           s.sources[n] \in [text : Texts, ast : Texts \cup {None}, lib : BOOLEAN]

Reported(s) == s.errors > 0 \/ s.excess

(* Two stacks with the same reporter, the same settings, the same results  *)
(* of the analysis.                                                        *)
SameReporter(s, t) ==
    /\ DOMAIN t = DOMAIN s
    /\ t.errors = s.errors /\ t.count = s.count /\ t.excess = s.excess
SameSettings(s, t) ==
    /\ t.state = s.state /\ t.optimize = s.optimize /\ t.evm = s.evm
    /\ t.libraries = s.libraries /\ t.requested = s.requested /\ t.standard = s.standard
    /\ t.compiles = s.compiles
SameResults(s, t) ==
    t.order = s.order /\ t.scopes = s.scopes /\ t.contracts = s.contracts

(* The reporter depends on its own fields.                                 *)
LEMMA ReporterKept ==
    ASSUME NEW s, NEW t, ReporterInv(s), SameReporter(s, t)
    PROVE  ReporterInv(t)
  BY DEF ReporterInv, SameReporter

(* An error is listed, or the limit is reached; nothing else changes.      *)
LEMMA Reports ==
    ASSUME NEW s, ReporterInv(s)
    PROVE  /\ ReporterInv(Report(s))
           /\ Reported(Report(s))
           /\ Report(s).sources = s.sources
           /\ SameSettings(s, Report(s))
           /\ SameResults(s, Report(s))
           /\ Report(s).errors >= s.errors
           /\ ~TooMany(s) => Report(s).errors > 0
  <1> USE ConstantTypes
  <1>1. CASE TooMany(s)
    BY <1>1 DEF Report, TooMany, ReporterInv, Reported, Fields, SameSettings, SameResults
  <1>2. CASE ~TooMany(s)
    BY <1>2 DEF Report, TooMany, ReporterInv, Reported, Fields, SameSettings, SameResults
  <1> QED
    BY <1>1, <1>2

-----------------------------------------------------------------------------
(* Lists.                                                                  *)

(* A sequence of elements of a set is one of elements of a larger set.     *)
LEMMA WiderSeq ==
    ASSUME NEW A, NEW B, A \subseteq B, NEW q \in Seq(A)
    PROVE  q \in Seq(B)
  OBVIOUS

(* The elements of a list.                                                 *)
LEMMA SetOfSeq ==
    ASSUME NEW T, NEW q \in Seq(T)
    PROVE  /\ ToSet(q) = {q[i] : i \in 1..Len(q)}
           /\ Len(q) \in Nat /\ DOMAIN q = 1..Len(q)
           /\ \A i \in 1..Len(q) : q[i] \in T
  BY DEF ToSet

(* The elements taken are those of the list that are asked for, each once. *)
LEMMA OnlyFacts ==
    ASSUME NEW T, NEW list \in Seq(T), NEW good
    PROVE  LET o == Only(list, good) IN
           /\ o \in Seq(T \cap good)
           /\ \A j \in 1..Len(o) : \E i \in 1..Len(list) : o[j] = list[i]
           /\ \A i \in 1..Len(list) : list[i] \in good => \E j \in 1..Len(o) : o[j] = list[i]
           /\ (\A i, j \in 1..Len(list) : list[i] = list[j] => i = j)
                  => (\A i, j \in 1..Len(o) : o[i] = o[j] => i = j)
  <1> DEFINE N == Len(list)
             G == T \cap good
             Once == \A i, j \in 1..Len(list) : list[i] = list[j] => i = j
  <1>1. N \in Nat /\ \A i \in 1..N : list[i] \in T
    OBVIOUS
  <1>2. PICK f : /\ Only(list, good) = f[Len(list)]
                 /\ f[0] = <<>>
                 /\ \A n \in 1..Len(list) :
                        f[n] = IF list[n] \in good THEN Append(f[n - 1], list[n]) ELSE f[n - 1]
    <2>1. Len(list) \in Nat
      BY <1>1
    <2> QED
      BY ONLY <2>1, OnlyLoop
  <1> DEFINE P(o, n) == /\ o \in Seq(G)
                        /\ \A j \in 1..Len(o) : \E i \in 1..N : i <= n /\ o[j] = list[i]
                        /\ \A i \in 1..N : (i <= n /\ list[i] \in good) => \E j \in 1..Len(o) : o[j] = list[i]
                        /\ Once => (\A i, j \in 1..Len(o) : o[i] = o[j] => i = j)
             S == {n \in 0..N : P(f[n], n)}
  <1> HIDE DEF N, G, Once
  <1>3. 0 \in S
    <2>1. f[0] \in Seq(G) /\ Len(f[0]) = 0
      BY <1>2
    <2>2. 1..Len(f[0]) = {} /\ \A i \in 1..N : ~(i <= 0)
      BY <1>1, <2>1
    <2>3. P(f[0], 0)
      BY ONLY <2>1, <2>2
    <2>4. 0 \in 0..N
      BY <1>1
    <2> HIDE DEF P
    <2> QED
      BY <2>3, <2>4
  <1>4. ASSUME NEW n \in 1..N, n - 1 \in S
        PROVE  n \in S
    <2>1. P(f[n - 1], n - 1) /\ n \in 0..N
      <3> HIDE DEF P
      <3> QED
        BY <1>1, <1>4
    <2>2. PICK a, b, x : a = f[n - 1] /\ b = f[n] /\ x = list[n]
      OBVIOUS
    <2>3. /\ a \in Seq(G)
          /\ \A j \in 1..Len(a) : \E i \in 1..N : i <= n - 1 /\ a[j] = list[i]
          /\ \A i \in 1..N : (i <= n - 1 /\ list[i] \in good) => \E j \in 1..Len(a) : a[j] = list[i]
          /\ Once => (\A i, j \in 1..Len(a) : a[i] = a[j] => i = j)
      BY <2>1, <2>2
    <2>4. \A i \in 1..N : (i <= n <=> (i <= n - 1 \/ i = n))
      BY <1>1
    <2>5. CASE x \in good
      <3>1. b = Append(a, x)
        BY <1>2, <2>2, <2>5 DEF N
      <3>2. x \in G
        BY <1>1, <2>2, <2>5 DEF G
      <3>3. /\ b \in Seq(G) /\ Len(b) = Len(a) + 1
            /\ \A j \in 1..Len(a) : b[j] = a[j]
            /\ b[Len(a) + 1] = x
        BY ONLY <2>3, <3>1, <3>2, AppendProperties
      <3>4. PICK l : l = Len(a)
        OBVIOUS
      <3>5. l \in Nat /\ Len(b) = l + 1 /\ \A j \in 1..(l + 1) : j \in 1..l \/ j = l + 1
        BY <2>3, <3>3, <3>4
      <3>6. \A j \in 1..Len(b) : \E i \in 1..N : i <= n /\ b[j] = list[i]
        <4>1. \A j \in 1..l : \E i \in 1..N : i <= n /\ b[j] = list[i]
          BY <2>3, <2>4, <3>3, <3>4
        <4>2. n \in 1..N /\ n <= n /\ b[l + 1] = list[n]
          BY <1>1, <2>2, <3>3, <3>4
        <4> QED
          BY ONLY <3>5, <4>1, <4>2
      <3>7. \A j \in 1..l : j \in 1..Len(b) /\ l + 1 \in 1..Len(b)
        BY <3>5
      <3>8. \A i \in 1..N : (i <= n /\ list[i] \in good) => \E j \in 1..Len(b) : b[j] = list[i]
        <4> SUFFICES ASSUME NEW i \in 1..N, i <= n, list[i] \in good
                     PROVE  \E j \in 1..Len(b) : b[j] = list[i]
          OBVIOUS
        <4>1. CASE i = n
          <5>1. PICK q : q = l + 1
            OBVIOUS
          <5>2. q \in 1..Len(b) /\ b[q] = list[i]
            BY <2>2, <3>3, <3>4, <3>5, <4>1, <5>1
          <5> QED
            BY <5>2
        <4>2. CASE i <= n - 1
          <5>1. PICK j \in 1..Len(a) : a[j] = list[i]
            BY <2>3, <4>2
          <5> QED
            BY <3>3, <3>4, <3>7, <5>1
        <4> QED
          BY <2>4, <4>1, <4>2
      <3>9. ASSUME Once PROVE \A i, j \in 1..Len(b) : b[i] = b[j] => i = j
        <4>1. \A j \in 1..l : b[j] # x
          <5> SUFFICES ASSUME NEW j \in 1..l, b[j] = x PROVE FALSE
            OBVIOUS
          <5>1. PICK i \in 1..N : i <= n - 1 /\ a[j] = list[i]
            BY <2>3, <3>4
          <5>2. list[i] = list[n]
            BY <2>2, <3>3, <3>4, <5>1
          <5>3. i = n
            BY <3>9, <5>2 DEF Once, N
          <5> QED
            BY <1>1, <5>1, <5>3
        <4>2. \A i, j \in 1..l : b[i] = b[j] => i = j
          BY <2>3, <3>3, <3>4, <3>9
        <4>3. b[l + 1] = x
          BY <3>3, <3>4
        <4> QED
          BY ONLY <3>5, <4>1, <4>2, <4>3
      <3>10. P(b, n)
        BY ONLY <3>3, <3>6, <3>8, <3>9
      <3> HIDE DEF P
      <3> QED
        BY <2>1, <2>2, <3>10
    <2>6. CASE x \notin good
      <3>1. b = a
        BY <1>2, <2>2, <2>6 DEF N
      <3>2. \A i \in 1..N : (i <= n /\ list[i] \in good) => i <= n - 1
        BY <2>2, <2>4, <2>6
      <3>3. P(a, n)
        BY ONLY <2>3, <2>4, <3>2
      <3> HIDE DEF P
      <3> QED
        BY <2>1, <2>2, <3>1, <3>3
    <2> QED
      BY <2>5, <2>6
  <1>5. N \in S
    <2>1. \A k \in 1..N : k - 1 \in S => k \in S
      BY <1>4
    <2>2. N \in 0..N
      BY <1>1
    <2> HIDE DEF S
    <2> QED
      BY ONLY <1>1, <1>3, <2>1, <2>2, CountingUp
  <1>6. P(f[N], N)
    <2> HIDE DEF P
    <2> QED
      BY <1>5
  <1>7. PICK o : o = Only(list, good)
    OBVIOUS
  <1>8. P(o, N)
    <2> HIDE DEF P
    <2> QED
      BY <1>2, <1>6, <1>7 DEF N
  <1>9. /\ o \in Seq(G)
        /\ \A j \in 1..Len(o) : \E i \in 1..N : o[j] = list[i]
        /\ \A i \in 1..N : list[i] \in good => \E j \in 1..Len(o) : o[j] = list[i]
        /\ Once => (\A i, j \in 1..Len(o) : o[i] = o[j] => i = j)
    <2>1. \A i \in 1..N : i <= N
      BY <1>1
    <2> QED
      BY ONLY <1>8, <2>1
  <1> QED
    BY <1>7, <1>9 DEF N, G, Once

(* The names are as many as the list of names is long.                     *)
LEMMA NameNumber ==
    /\ NameOrder \in Seq(SourceNames) /\ Len(NameOrder) \in Nat
    /\ \A i, j \in 1..Len(NameOrder) : NameOrder[i] = NameOrder[j] => i = j
    /\ \A n \in SourceNames : \E i \in 1..Len(NameOrder) : NameOrder[i] = n
    /\ IsFiniteSet(SourceNames) /\ Cardinality(SourceNames) = Len(NameOrder)
  <1> DEFINE N == Len(NameOrder)
  <1>1. NameOrder \in Seq(SourceNames) /\ N \in Nat /\ DOMAIN NameOrder = 1..N
    <2>1. NameOrder \in Seq(SourceNames)
      BY ConstantTypes
    <2> QED
      BY ONLY <2>1, LenProperties
  <1>2. \A i, j \in 1..N : NameOrder[i] = NameOrder[j] => i = j
    <2>1. IsInjective(NameOrder)
      BY SourcesAssumption, Zenon
    <2> QED
      BY <1>1, <2>1 DEF IsInjective
  <1>3. \A n \in SourceNames : \E i \in 1..N : NameOrder[i] = n
    BY <1>1 DEF SourceNames, ToSet
  <1> HIDE DEF N
  <1>4. NameOrder \in [1..N -> SourceNames]
    BY <1>1 DEF N
  <1>5. NameOrder \in Bijection(1..N, SourceNames)
    BY ONLY <1>2, <1>3, <1>4 DEF Bijection, Injection, Surjection, IsInjective
  <1>6. IsFiniteSet(1..N) /\ Cardinality(1..N) = N
    <2>1. 1 \in Int /\ N \in Int
      BY <1>1
    <2>2. IsFiniteSet(1..N) /\ Cardinality(1..N) = IF 1 > N THEN 0 ELSE N - 1 + 1
      BY ONLY <2>1, FS_Interval
    <2> QED
      BY <1>1, <2>2
  <1>7. IsFiniteSet(SourceNames) /\ Cardinality(SourceNames) = N
    <2>1. ExistsBijection(1..N, SourceNames)
      BY <1>5 DEF ExistsBijection
    <2> QED
      BY ONLY <1>6, <2>1, FS_Bijection
  <1> QED
    BY <1>1, <1>2, <1>3, <1>7 DEF N

Listed(q, x) == \E j \in 1..Len(q) : q[j] = x
Once(q) == \A i, j \in 1..Len(q) : q[i] = q[j] => i = j

(* The first element of a list, and the others.                            *)
LEMMA TailFacts ==
    ASSUME NEW T, NEW q \in Seq(T), q # <<>>, Once(q)
    PROVE  /\ Head(q) \in T /\ Tail(q) \in Seq(T)
           /\ Once(Tail(q))
           /\ Listed(q, Head(q)) /\ ~Listed(Tail(q), Head(q))
           /\ \A x : Listed(q, x) <=> (x = Head(q) \/ Listed(Tail(q), x))
  <1>1. PICK r, l : r = Tail(q) /\ l = Len(q)
    OBVIOUS
  <1>2. l \in Nat /\ l >= 1
    BY <1>1, EmptySeq
  <1>3. Head(q) = q[1] /\ q[1] \in T
    BY <1>1, <1>2
  <1>4. /\ r \in Seq(T) /\ Len(r) = l - 1
        /\ \A p \in 1..Len(r) : r[p] = q[p + 1]
    BY ONLY <1>1, q \in Seq(T), q # <<>>, HeadTailProperties
  <1>5. \A p \in 1..Len(r) : p + 1 \in 1..l
    BY <1>2, <1>4
  <1>6. \A p \in 1..l : p = 1 \/ (p - 1 \in 1..Len(r) /\ r[p - 1] = q[p])
    <2> SUFFICES ASSUME NEW p \in 1..l, p # 1
                 PROVE  p - 1 \in 1..Len(r) /\ r[p - 1] = q[p]
      OBVIOUS
    <2>1. p - 1 \in 1..Len(r) /\ (p - 1) + 1 = p
      BY <1>2, <1>4
    <2> QED
      BY <1>4, <2>1
  <1>7. 1 \in 1..l
    BY <1>2
  <1>8. \A i, j \in 1..l : q[i] = q[j] => i = j
    BY <1>1 DEF Once
  <1>9. Once(r)
    <2> SUFFICES ASSUME NEW i \in 1..Len(r), NEW j \in 1..Len(r), r[i] = r[j]
                 PROVE  i = j
      BY DEF Once
    <2>1. i + 1 = j + 1
      BY <1>4, <1>5, <1>8
    <2> QED
      BY <1>4, <2>1
  <1>10. ~Listed(r, q[1])
    <2> SUFFICES ASSUME NEW i \in 1..Len(r), r[i] = q[1]
                 PROVE  FALSE
      BY DEF Listed
    <2>1. i + 1 = 1
      BY <1>4, <1>5, <1>7, <1>8
    <2> QED
      BY <1>4, <2>1
  <1>11. ASSUME NEW x PROVE Listed(q, x) <=> (x = q[1] \/ Listed(r, x))
    <2>1. ASSUME Listed(q, x) PROVE x = q[1] \/ Listed(r, x)
      <3>1. PICK p \in 1..l : q[p] = x
        BY <1>1, <2>1 DEF Listed
      <3>2. CASE p = 1
        BY <3>1, <3>2
      <3>3. CASE p # 1
        <4>1. PICK k : k = p - 1
          OBVIOUS
        <4>2. k \in 1..Len(r) /\ r[k] = x
          BY <1>6, <3>1, <3>3, <4>1
        <4> QED
          BY <4>2 DEF Listed
      <3> QED
        BY <3>2, <3>3
    <2>2. ASSUME Listed(r, x) PROVE Listed(q, x)
      <3>1. PICK p \in 1..Len(r) : r[p] = x
        BY <2>2 DEF Listed
      <3>2. PICK k : k = p + 1
        OBVIOUS
      <3>3. k \in 1..l /\ q[k] = x
        BY <1>4, <1>5, <3>1, <3>2
      <3> QED
        BY <1>1, <3>3 DEF Listed
    <2>3. Listed(q, q[1])
      BY <1>1, <1>7 DEF Listed
    <2> QED
      BY <2>1, <2>2, <2>3
  <1>12. Listed(q, q[1])
    BY <1>1, <1>7 DEF Listed
  <1> QED
    BY <1>1, <1>3, <1>4, <1>9, <1>10, <1>11, <1>12

(* One list after the other.                                               *)
LEMMA ConcatFacts ==
    ASSUME NEW T, NEW a \in Seq(T), NEW b \in Seq(T)
    PROVE  /\ a \o b \in Seq(T)
           /\ \A x : Listed(a \o b, x) <=> (Listed(a, x) \/ Listed(b, x))
           /\ (Once(a) /\ Once(b) /\ \A x : ~(Listed(a, x) /\ Listed(b, x))) => Once(a \o b)
  <1>1. PICK c, l, k : c = a \o b /\ l = Len(a) /\ k = Len(b)
    OBVIOUS
  <1>2. l \in Nat /\ k \in Nat
    BY <1>1
  <1>3. /\ c \in Seq(T) /\ Len(c) = l + k
        /\ \A p \in 1..(l + k) : c[p] = IF p <= l THEN a[p] ELSE b[p - l]
    BY ONLY <1>1, a \in Seq(T), b \in Seq(T), ConcatProperties
  <1>4. \A p \in 1..(l + k) : (p \in 1..l /\ c[p] = a[p]) \/ (p - l \in 1..k /\ c[p] = b[p - l])
    <2> SUFFICES ASSUME NEW p \in 1..(l + k)
                 PROVE  (p \in 1..l /\ c[p] = a[p]) \/ (p - l \in 1..k /\ c[p] = b[p - l])
      OBVIOUS
    <2>1. CASE p <= l
      BY <1>2, <1>3, <2>1
    <2>2. CASE ~(p <= l)
      <3>1. p - l \in 1..k
        BY <1>2, <2>2
      <3> QED
        BY <1>3, <2>2, <3>1
    <2> QED
      BY <2>1, <2>2
  <1>5. \A p \in 1..l : p \in 1..(l + k) /\ c[p] = a[p]
    BY <1>2, <1>3
  <1>6. ASSUME NEW p \in 1..k PROVE l + p \in 1..(l + k) /\ c[l + p] = b[p]
    <2>1. l + p \in 1..(l + k) /\ ~(l + p <= l) /\ (l + p) - l = p
      BY <1>2
    <2> QED
      BY <1>3, <2>1
  <1>7. ASSUME NEW x PROVE Listed(c, x) <=> (Listed(a, x) \/ Listed(b, x))
    <2>1. ASSUME Listed(c, x) PROVE Listed(a, x) \/ Listed(b, x)
      <3>1. PICK p \in 1..(l + k) : c[p] = x
        BY <1>3, <2>1 DEF Listed
      <3>2. CASE p \in 1..l /\ c[p] = a[p]
        BY <1>1, <3>1, <3>2 DEF Listed
      <3>3. CASE p - l \in 1..k /\ c[p] = b[p - l]
        <4>1. PICK h : h = p - l
          OBVIOUS
        <4>2. h \in 1..k /\ b[h] = x
          BY <3>1, <3>3, <4>1
        <4> QED
          BY <1>1, <4>2 DEF Listed
      <3> QED
        BY <1>4, <3>2, <3>3
    <2>2. ASSUME Listed(a, x) PROVE Listed(c, x)
      BY <1>1, <1>3, <1>5, <2>2 DEF Listed
    <2>3. ASSUME Listed(b, x) PROVE Listed(c, x)
      <3>1. PICK p \in 1..k : b[p] = x
        BY <1>1, <2>3 DEF Listed
      <3>2. PICK h : h = l + p
        OBVIOUS
      <3>3. h \in 1..(l + k) /\ c[h] = x
        BY <1>6, <3>1, <3>2
      <3> QED
        BY <1>3, <3>3 DEF Listed
    <2> QED
      BY <2>1, <2>2, <2>3
  <1>8. ASSUME Once(a), Once(b), \A x : ~(Listed(a, x) /\ Listed(b, x))
        PROVE  Once(c)
    <2> SUFFICES ASSUME NEW i \in 1..(l + k), NEW j \in 1..(l + k), c[i] = c[j]
                 PROVE  i = j
      BY <1>3 DEF Once
    <2>1. \A p \in 1..l : Listed(a, a[p])
      BY <1>1 DEF Listed
    <2>2. \A p \in 1..k : Listed(b, b[p])
      BY <1>1 DEF Listed
    <2>3. CASE i \in 1..l /\ c[i] = a[i] /\ j \in 1..l /\ c[j] = a[j]
      BY <1>1, <1>8, <2>3 DEF Once
    <2>4. CASE i - l \in 1..k /\ c[i] = b[i - l] /\ j - l \in 1..k /\ c[j] = b[j - l]
      <3>1. i - l = j - l
        BY <1>1, <1>8, <2>4 DEF Once
      <3> QED
        BY <1>2, <3>1
    <2> QED
      BY <1>4, <1>8, <2>1, <2>2, <2>3, <2>4
  <1> QED
    BY <1>1, <1>3, <1>7, <1>8

(* The names taken are those asked for, each once.                         *)
LEMMA NamesTaken ==
    ASSUME NEW names, names \subseteq SourceNames
    PROVE  /\ InNameOrder(names) \in Seq(names)
           /\ Once(InNameOrder(names))
           /\ \A x : Listed(InNameOrder(names), x) <=> x \in names
  <1>1. PICK o : o = Only(NameOrder, names)
    OBVIOUS
  <1>2. InNameOrder(names) = o
    BY <1>1 DEF InNameOrder
  <1>3. /\ o \in Seq(SourceNames \cap names)
        /\ \A j \in 1..Len(o) : \E i \in 1..Len(NameOrder) : o[j] = NameOrder[i]
        /\ \A i \in 1..Len(NameOrder) : NameOrder[i] \in names => \E j \in 1..Len(o) : o[j] = NameOrder[i]
        /\ \A i, j \in 1..Len(o) : o[i] = o[j] => i = j
    <2>1. NameOrder \in Seq(SourceNames)
      BY NameNumber
    <2>2. \A i, j \in 1..Len(NameOrder) : NameOrder[i] = NameOrder[j] => i = j
      BY NameNumber
    <2> DEFINE u == Only(NameOrder, names)
    <2>3. /\ u \in Seq(SourceNames \cap names)
          /\ \A j \in 1..Len(u) : \E i \in 1..Len(NameOrder) : u[j] = NameOrder[i]
          /\ \A i \in 1..Len(NameOrder) : NameOrder[i] \in names => \E j \in 1..Len(u) : u[j] = NameOrder[i]
          /\ (\A i, j \in 1..Len(NameOrder) : NameOrder[i] = NameOrder[j] => i = j)
                  => (\A i, j \in 1..Len(u) : u[i] = u[j] => i = j)
      BY ONLY <2>1, OnlyFacts
    <2> HIDE DEF u
    <2>4. o = u
      BY <1>1 DEF u
    <2> QED
      BY ONLY <2>2, <2>3, <2>4
  <1>4. o \in Seq(names)
    <2>1. SourceNames \cap names = names
      OBVIOUS
    <2> QED
      BY <1>3, <2>1
  <1>5. \A j \in 1..Len(o) : o[j] \in names
    BY ONLY <1>4, ElementOfSeq
  <1>6. \A x \in names : \E i \in 1..Len(NameOrder) : NameOrder[i] = x
    BY NameNumber
  <1> QED
    BY ONLY <1>2, <1>3, <1>4, <1>5, <1>6 DEF Listed, Once

-----------------------------------------------------------------------------
(* parse, with loadMissingSources.                                         *)

(* What loadMissingSources keeps of the stack it starts from, and finds.   *)
LoadInv(m, s, t, i) ==
    /\ DOMAIN m = {"s", "new", "thrown"}
    /\ ReporterInv(m.s)
    /\ m.s.sources = s.sources /\ SameSettings(s, m.s) /\ SameResults(s, m.s)
    /\ m.s.errors >= s.errors
    /\ \A x \in DOMAIN m.new : m.new[x] \in Texts /\ x \in DOMAIN Files /\ x \notin DOMAIN s.sources
    /\ (~m.thrown /\ m.s.errors = 0) =>
           \A j \in 1..Len(Imports[t]) : j <= i => Imports[t][j] \in DOMAIN s.sources \cup DOMAIN m.new

(* One import directive.                                                   *)
LEMMA ImportKeeps ==
    ASSUME NEW s, ReporterInv(s), NEW t \in Texts, NEW i \in 1..Len(Imports[t]), NEW m,
           LoadInv(m, s, t, i - 1)
    PROVE  LoadInv(LoadImport(m, Imports[t][i]), s, t, i)
  <1>0. PICK path : path = Imports[t][i]
    OBVIOUS
  <1>a. Len(Imports[t]) \in Nat
    BY Lengths
  <1>b. \A j \in 1..Len(Imports[t]) : j <= i <=> (j <= i - 1 \/ j = i)
    BY <1>a
  <1>c. Known(m.s) = DOMAIN s.sources
    BY DEF Known, LoadInv
  <1>d. /\ DOMAIN m = {"s", "new", "thrown"}
        /\ ReporterInv(m.s)
        /\ m.s.sources = s.sources /\ SameSettings(s, m.s) /\ SameResults(s, m.s)
        /\ m.s.errors >= s.errors
        /\ \A x \in DOMAIN m.new : m.new[x] \in Texts /\ x \in DOMAIN Files /\ x \notin DOMAIN s.sources
    BY DEF LoadInv
  <1>e. (~m.thrown /\ m.s.errors = 0) =>
           \A j \in 1..Len(Imports[t]) : j <= i - 1 => Imports[t][j] \in DOMAIN s.sources \cup DOMAIN m.new
    BY DEF LoadInv
  <1>1. CASE m.thrown \/ path \in Known(m.s) \cup DOMAIN m.new
    <2>1. LoadImport(m, path) = m
      BY <1>1 DEF LoadImport
    <2>2. (~m.thrown /\ m.s.errors = 0) =>
            \A j \in 1..Len(Imports[t]) : j <= i => Imports[t][j] \in DOMAIN s.sources \cup DOMAIN m.new
      BY ONLY <1>0, <1>1, <1>b, <1>c, <1>e
    <2> QED
      BY ONLY <1>0, <1>d, <2>1, <2>2 DEF LoadInv
  <1>2. CASE ~(m.thrown \/ path \in Known(m.s) \cup DOMAIN m.new) /\ path \in DOMAIN Files
    <2>1. LoadImport(m, path) = [m EXCEPT !.new = Put(@, path, Files[path])]
      BY <1>2 DEF LoadImport
    <2>2. Files[path] \in Texts
      BY <1>2, ConstantTypes
    <2>3. PICK w, new : w = LoadImport(m, path) /\ new = Put(m.new, path, Files[path])
      OBVIOUS
    <2>4. DOMAIN w = DOMAIN m /\ w.s = m.s /\ w.new = new /\ w.thrown = m.thrown
      BY <1>d, <2>1, <2>3
    <2>5. /\ DOMAIN new = DOMAIN m.new \cup {path}
          /\ \A x \in DOMAIN new : new[x] \in Texts /\ x \in DOMAIN Files /\ x \notin DOMAIN s.sources
      BY <1>2, <1>c, <1>d, <2>2, <2>3 DEF Put
    <2>6. (~w.thrown /\ w.s.errors = 0) =>
            \A j \in 1..Len(Imports[t]) : j <= i => Imports[t][j] \in DOMAIN s.sources \cup DOMAIN w.new
      BY ONLY <1>0, <1>b, <1>e, <2>4, <2>5
    <2>7. LoadInv(w, s, t, i)
      BY ONLY <1>d, <2>4, <2>5, <2>6 DEF LoadInv
    <2> QED
      BY <1>0, <2>3, <2>7
  <1>3. CASE ~(m.thrown \/ path \in Known(m.s) \cup DOMAIN m.new) /\ path \notin DOMAIN Files
    <2>1. LoadImport(m, path) = [m EXCEPT !.s = Report(@), !.thrown = TooMany(m.s)]
      BY <1>3 DEF LoadImport
    <2>2. PICK w, u : w = LoadImport(m, path) /\ u = Report(m.s)
      OBVIOUS
    <2>3. DOMAIN w = DOMAIN m /\ w.s = u /\ w.new = m.new /\ w.thrown = TooMany(m.s)
      BY <1>d, <2>1, <2>2
    <2>4. /\ ReporterInv(u)
          /\ u.sources = m.s.sources /\ SameSettings(m.s, u) /\ SameResults(m.s, u)
          /\ u.errors >= m.s.errors
          /\ ~TooMany(m.s) => u.errors > 0
      BY <1>d, <2>2, Reports
    <2>5. u.errors \in Nat /\ m.s.errors \in Nat /\ s.errors \in Nat
      BY <1>d, <2>4 DEF ReporterInv
    <2>6. u.errors >= s.errors /\ (~w.thrown => u.errors # 0)
      BY ONLY <1>d, <2>3, <2>4, <2>5
    <2>7. SameSettings(s, u) /\ SameResults(s, u) /\ u.sources = s.sources
      BY <1>d, <2>4 DEF SameSettings, SameResults
    <2>8. LoadInv(w, s, t, i)
      BY ONLY <1>d, <2>3, <2>4, <2>6, <2>7 DEF LoadInv
    <2> QED
      BY <1>0, <2>2, <2>8
  <1> QED
    BY <1>1, <1>2, <1>3

(* All import directives of a text.                                        *)
LEMMA LoadKeeps ==
    ASSUME NEW s, ReporterInv(s), NEW t \in Texts
    PROVE  LoadInv(LoadMissingSources(s, t), s, t, Len(Imports[t]))
  <1> DEFINE N == Len(Imports[t])
  <1>1. N \in Nat
    BY Lengths
  <1>2. PICK f : /\ LoadMissingSources(s, t) = f[N]
                 /\ f[0] = [s |-> s, new |-> <<>>, thrown |-> FALSE]
                 /\ \A n \in 1..N : f[n] = LoadImport(f[n - 1], Imports[t][n])
    BY LoadLoop
  <1> DEFINE S == {n \in 0..N : LoadInv(f[n], s, t, n)}
  <1>3. 0 \in S
    <2>1. PICK m : m = f[0]
      OBVIOUS
    <2>2. DOMAIN m = {"s", "new", "thrown"} /\ m.s = s /\ m.new = <<>>
      BY <1>2, <2>1
    <2>3. DOMAIN m.new = {} /\ \A j \in 1..Len(Imports[t]) : ~(j <= 0)
      BY <1>1, <2>2
    <2>4. s.errors >= s.errors
      BY DEF ReporterInv
    <2>5. LoadInv(m, s, t, 0)
      BY ONLY <2>2, <2>3, <2>4, ReporterInv(s) DEF LoadInv, SameSettings, SameResults
    <2>6. 0 \in 0..N
      BY <1>1
    <2> QED
      BY <2>1, <2>5, <2>6
  <1>4. ASSUME NEW n \in 1..N, n - 1 \in S
        PROVE  n \in S
    <2>1. LoadInv(f[n - 1], s, t, n - 1)
      BY <1>4
    <2>2. LoadInv(LoadImport(f[n - 1], Imports[t][n]), s, t, n)
      BY <2>1, ImportKeeps
    <2>3. n \in 0..N
      BY <1>1
    <2> QED
      BY <1>2, <2>2, <2>3
  <1>5. N \in S
    <2>1. \A k \in 1..N : k - 1 \in S => k \in S
      BY <1>4
    <2>2. N \in 0..N
      BY <1>1
    <2> HIDE DEF S, N
    <2> QED
      BY ONLY <1>1, <1>3, <2>1, <2>2, CountingUp
  <1> QED
    BY <1>2, <1>5

(* The tree of a source is that of its text, and its imports are there.    *)
TreeGood(s, n) ==
    /\ Ast(s, n) = s.sources[n].text
    /\ ToSet(Imports[Ast(s, n)]) \subseteq Known(s)
    /\ ~Faulty("parse", Ast(s, n))

DoneWith(p) == {n \in DOMAIN p.s.sources : ~Listed(p.todo, n)}

(* The loop of parse: what is still to do is among the sources, and what   *)
(* is done has its tree as long as no error is listed.                     *)
ParseInv(p, s, k) ==
    /\ DOMAIN p = {"s", "todo", "thrown"}
    /\ ReporterInv(p.s)
    /\ SourcesInv(p.s) /\ SameSettings(s, p.s) /\ SameResults(s, p.s)
    /\ DOMAIN s.sources \subseteq DOMAIN p.s.sources
    /\ DOMAIN p.s.sources \subseteq DOMAIN s.sources \cup DOMAIN Files
    /\ p.todo \in Seq(DOMAIN p.s.sources) /\ Once(p.todo)
    /\ (~p.thrown /\ p.s.errors = 0) =>
           \A n \in DOMAIN p.s.sources : Listed(p.todo, n) \/ TreeGood(p.s, n)
    /\ p.thrown \/ p.todo = <<>> \/ Cardinality(DoneWith(p)) >= k

(* What has been done with grows by the first of the list.                 *)
LEMMA OneMoreDone ==
    ASSUME NEW p, NEW w, NEW k \in Nat, NEW n, IsFiniteSet(DoneWith(p)),
           Cardinality(DoneWith(p)) >= k,
           n \notin DoneWith(p), DoneWith(w) = DoneWith(p) \cup {n}
    PROVE  Cardinality(DoneWith(w)) >= k + 1
  <1>1. Cardinality(DoneWith(w)) = Cardinality(DoneWith(p)) + 1
    BY FS_AddElement
  <1>2. Cardinality(DoneWith(p)) \in Nat
    BY FS_CardinalityType
  <1> QED
    BY <1>1, <1>2

(* One source.                                                             *)
LEMMA ParseNextKeeps ==
    ASSUME NEW s, NEW k \in Nat, NEW p, ParseInv(p, s, k)
    PROVE  ParseInv(ParseNext(p), s, k + 1)
  <1>a. /\ DOMAIN p = {"s", "todo", "thrown"}
        /\ ReporterInv(p.s)
        /\ SourcesInv(p.s) /\ SameSettings(s, p.s) /\ SameResults(s, p.s)
        /\ DOMAIN s.sources \subseteq DOMAIN p.s.sources
        /\ DOMAIN p.s.sources \subseteq DOMAIN s.sources \cup DOMAIN Files
        /\ p.todo \in Seq(DOMAIN p.s.sources) /\ Once(p.todo)
    BY DEF ParseInv
  <1>b. (~p.thrown /\ p.s.errors = 0) =>
           \A n \in DOMAIN p.s.sources : Listed(p.todo, n) \/ TreeGood(p.s, n)
    BY DEF ParseInv
  <1>1. CASE p.thrown \/ p.todo = <<>>
    <2>1. ParseNext(p) = p
      BY <1>1 DEF ParseNext
    <2>2. ParseInv(p, s, k + 1)
      BY ONLY <1>1, <1>a, <1>b DEF ParseInv
    <2> QED
      BY <2>1, <2>2
  <1>2. CASE ~(p.thrown \/ p.todo = <<>>)
    <2> DEFINE n == Head(p.todo)
               rest == Tail(p.todo)
               t == p.s.sources[n].text
               failed == Throws(p.s, "parse", t)
               u == After(p.s, "parse", t)
               e == IF failed THEN None ELSE t
               s1 == [u EXCEPT !.sources[n].ast = e]
               m == LoadMissingSources(s1, t)
               src == [x \in Known(m.s) \cup DOMAIN m.new |->
                          IF x \in DOMAIN m.new
                          THEN [text |-> m.new[x], ast |-> None, lib |-> FALSE]
                          ELSE m.s.sources[x]]
               s2 == [m.s EXCEPT !.sources = src]
               D == DOMAIN p.s.sources
               new == InNameOrder(DOMAIN m.new)
               w == ParseNext(p)
    <2>1. IF failed THEN w = [s |-> s1, todo |-> rest, thrown |-> OnlyWarnings(s1)]
          ELSE IF m.thrown THEN w = [s |-> m.s, todo |-> <<>>, thrown |-> TRUE]
          ELSE w = [s |-> s2, todo |-> rest \o new, thrown |-> FALSE]
      BY <1>2 DEF ParseNext
    <2> HIDE DEF w
    <2>2. /\ n \in D /\ rest \in Seq(D) /\ Once(rest)
          /\ Listed(p.todo, n) /\ ~Listed(rest, n)
          /\ \A x : Listed(p.todo, x) <=> (x = n \/ Listed(rest, x))
      BY <1>2, <1>a, TailFacts
    <2>3. t \in Texts
      BY <1>a, <2>2 DEF SourcesInv
    <2>4. Cardinality(DoneWith(p)) >= k
      BY <1>2 DEF ParseInv
    <2>5. IsFiniteSet(DoneWith(p))
      <3>1. DoneWith(p) \in SUBSET SourceNames /\ IsFiniteSet(SourceNames)
        BY <1>a, NameNumber DEF DoneWith, SourcesInv
      <3> QED
        BY ONLY <3>1, FS_Subset
    <2>6. n \notin DoneWith(p)
      BY <2>2 DEF DoneWith
    <2> HIDE DEF n, rest, t
    <2>7. /\ ReporterInv(u)
          /\ u.sources = p.s.sources /\ SameSettings(p.s, u) /\ SameResults(p.s, u)
          /\ u.errors >= p.s.errors
          /\ (u.errors = 0 /\ ~failed) => ~Faulty("parse", t)
      <3>1. CASE Faulty("parse", t)
        <4>1. u = Report(p.s)
          BY <3>1 DEF After
        <4>2. ~failed => ~TooMany(p.s)
          BY <3>1 DEF Throws
        <4> HIDE DEF u, failed
        <4>3. u.errors \in Nat
          BY <1>a, <4>1, Reports DEF ReporterInv
        <4> QED
          BY <1>a, <4>1, <4>2, <4>3, Reports
      <3>2. CASE ~Faulty("parse", t)
        <4>1. u = p.s
          BY <3>2 DEF After
        <4>2. p.s.errors >= p.s.errors
          BY <1>a DEF ReporterInv
        <4> HIDE DEF u, failed
        <4> QED
          BY <1>a, <3>2, <4>1, <4>2 DEF SameSettings, SameResults
      <3> QED
        BY <3>1, <3>2
    <2>8. e \in Texts \cup {None} /\ (~failed => e = t)
      BY <2>3
    <2> HIDE DEF failed, e, u
    <2>9. s1 = [u EXCEPT !.sources = [u.sources EXCEPT ![n] = [u.sources[n] EXCEPT !.ast = e]]]
      OBVIOUS
    <2> HIDE DEF s1
    <2>10. DOMAIN u = Fields
      BY <2>7 DEF ReporterInv
    <2>11. /\ SameReporter(u, s1) /\ SameSettings(u, s1) /\ SameResults(u, s1)
           /\ s1.sources = [u.sources EXCEPT ![n] = [u.sources[n] EXCEPT !.ast = e]]
      BY ONLY <2>9, <2>10 DEF SameReporter, SameSettings, SameResults, Fields
    <2>12. /\ DOMAIN s1.sources = D
           /\ s1.sources[n].text = t /\ s1.sources[n].ast = e
           /\ \A x \in D : x # n => s1.sources[x] = p.s.sources[x]
           /\ SourcesInv(s1)
      <3>1. s1.sources = [p.s.sources EXCEPT ![n] = [p.s.sources[n] EXCEPT !.ast = e]]
        BY <2>7, <2>11
      <3>2. /\ DOMAIN s1.sources = D
            /\ s1.sources[n] = [p.s.sources[n] EXCEPT !.ast = e]
            /\ \A x \in D : x # n => s1.sources[x] = p.s.sources[x]
        BY ONLY <2>2, <3>1
      <3>3. p.s.sources[n] \in [text : Texts, ast : Texts \cup {None}, lib : BOOLEAN]
        BY <1>a, <2>2 DEF SourcesInv
      <3>4. /\ s1.sources[n] \in [text : Texts, ast : Texts \cup {None}, lib : BOOLEAN]
            /\ s1.sources[n].text = p.s.sources[n].text /\ s1.sources[n].ast = e
        BY ONLY <2>8, <3>2, <3>3
      <3>5. SourcesInv(s1)
        BY <1>a, <3>2, <3>4 DEF SourcesInv
      <3> QED
        BY <3>2, <3>4, <3>5 DEF t
    <2>13. ReporterInv(s1) /\ s1.errors = u.errors
      BY <2>7, <2>11, ReporterKept DEF SameReporter
    <2>14. SameSettings(s, s1) /\ SameResults(s, s1)
      BY <1>a, <2>7, <2>11 DEF SameSettings, SameResults
    <2>15. CASE failed
      <3>1. w = [s |-> s1, todo |-> rest, thrown |-> OnlyWarnings(s1)]
        BY <2>1, <2>15
      <3>2. DOMAIN w = {"s", "todo", "thrown"} /\ w.s = s1 /\ w.todo = rest
        BY <3>1
      <3>3. w.thrown <=> s1.errors = 0
        BY <3>1 DEF OnlyWarnings
      <3>4. DoneWith(w) = DoneWith(p) \cup {n}
        BY ONLY <2>2, <2>12, <3>2 DEF DoneWith
      <3>5. Cardinality(DoneWith(w)) >= k + 1
        BY ONLY <2>4, <2>5, <2>6, <3>4, OneMoreDone, k \in Nat
      <3> QED
        BY ONLY <1>a, <2>2, <2>12, <2>13, <2>14, <3>2, <3>3, <3>5 DEF ParseInv, w
    <2>16. LoadInv(m, s1, t, Len(Imports[t]))
      BY <2>3, <2>13, LoadKeeps
    <2> HIDE DEF m
    <2>17. /\ ReporterInv(m.s)
           /\ m.s.sources = s1.sources /\ SameSettings(s1, m.s) /\ SameResults(s1, m.s)
           /\ m.s.errors >= s1.errors
           /\ \A x \in DOMAIN m.new : m.new[x] \in Texts /\ x \in DOMAIN Files /\ x \notin D
      BY <2>12, <2>16 DEF LoadInv
    <2>18. (~m.thrown /\ m.s.errors = 0) => ToSet(Imports[t]) \subseteq D \cup DOMAIN m.new
      <3>1. Imports[t] \in Seq(SourceNames)
        BY <2>3, ConstantTypes
      <3>2. /\ ToSet(Imports[t]) = {Imports[t][i] : i \in 1..Len(Imports[t])}
            /\ Len(Imports[t]) \in Nat
        BY ONLY <3>1, SetOfSeq
      <3>3. (~m.thrown /\ m.s.errors = 0) =>
              \A j \in 1..Len(Imports[t]) : j <= Len(Imports[t]) => Imports[t][j] \in D \cup DOMAIN m.new
        BY <2>12, <2>16 DEF LoadInv
      <3> QED
        BY <3>2, <3>3
    <2>19. SameSettings(s, m.s) /\ SameResults(s, m.s)
      BY <2>14, <2>17 DEF SameSettings, SameResults
    <2>20. CASE ~failed /\ m.thrown
      <3>1. w = [s |-> m.s, todo |-> <<>>, thrown |-> TRUE]
        BY <2>1, <2>20
      <3>2. DOMAIN w = {"s", "todo", "thrown"} /\ w.s = m.s /\ w.todo = <<>> /\ w.thrown
        BY <3>1
      <3>3. SourcesInv(m.s)
        BY <2>12, <2>17 DEF SourcesInv
      <3>4. w.todo \in Seq(D) /\ Once(w.todo)
        BY <3>2 DEF Once
      <3> QED
        BY ONLY <1>a, <2>12, <2>17, <2>19, <3>2, <3>3, <3>4 DEF ParseInv, w
    <2>21. CASE ~failed /\ ~m.thrown
      <3> DEFINE todo == rest \o new
      <3>1. w = [s |-> s2, todo |-> todo, thrown |-> FALSE]
        BY <2>1, <2>21
      <3> HIDE DEF todo
      <3>2. DOMAIN w = {"s", "todo", "thrown"} /\ w.s = s2 /\ w.todo = todo /\ ~w.thrown
        BY <3>1
      <3>3. /\ DOMAIN src = D \cup DOMAIN m.new
            /\ \A x \in DOMAIN m.new : src[x] = [text |-> m.new[x], ast |-> None, lib |-> FALSE]
            /\ \A x \in D : src[x] = s1.sources[x]
        BY <2>12, <2>17 DEF Known
      <3> HIDE DEF src
      <3>4. SameReporter(m.s, s2) /\ SameSettings(m.s, s2) /\ SameResults(m.s, s2) /\ s2.sources = src
        BY <2>17 DEF ReporterInv, SameReporter, SameSettings, SameResults, Fields
      <3> HIDE DEF s2
      <3>5. ReporterInv(s2) /\ s2.errors = m.s.errors
        BY <2>17, <3>4, ReporterKept DEF SameReporter
      <3>6. SameSettings(s, s2) /\ SameResults(s, s2)
        BY <2>19, <3>4 DEF SameSettings, SameResults
      <3>7. DOMAIN m.new \subseteq SourceNames
        <4>1. DOMAIN Files \subseteq SourceNames
          BY SourcesAssumption, Zenon
        <4> QED
          BY ONLY <2>17, <4>1
      <3>8. SourcesInv(s2)
        <4>1. \A x \in DOMAIN m.new : src[x] \in [text : Texts, ast : Texts \cup {None}, lib : BOOLEAN]
          <5>1. \A x \in DOMAIN m.new : m.new[x] \in Texts
            BY <2>17
          <5>2. \A y \in Texts : [text |-> y, ast |-> None, lib |-> FALSE]
                                   \in [text : Texts, ast : Texts \cup {None}, lib : BOOLEAN]
            OBVIOUS
          <5> QED
            BY ONLY <3>3, <5>1, <5>2
        <4>2. \A x \in D : src[x] \in [text : Texts, ast : Texts \cup {None}, lib : BOOLEAN]
          BY <2>12, <3>3 DEF SourcesInv
        <4>3. DOMAIN src \subseteq SourceNames
          BY <1>a, <3>3, <3>7 DEF SourcesInv
        <4> QED
          BY ONLY <3>3, <3>4, <4>1, <4>2, <4>3 DEF SourcesInv
      <3>9. /\ new \in Seq(DOMAIN m.new) /\ Once(new)
            /\ \A x : Listed(new, x) <=> x \in DOMAIN m.new
        BY ONLY <3>7, NamesTaken
      <3> HIDE DEF new
      <3>10. rest \in Seq(DOMAIN src) /\ new \in Seq(DOMAIN src)
        BY ONLY <2>2, <3>3, <3>9, WiderSeq
      <3>11. \A x : Listed(rest, x) => x \in D
        BY ONLY <2>2, ElementOfSeq DEF Listed
      <3>12. /\ todo \in Seq(DOMAIN src)
             /\ \A x : Listed(todo, x) <=> (Listed(rest, x) \/ x \in DOMAIN m.new)
             /\ Once(todo)
        <4>1. /\ todo \in Seq(DOMAIN src)
              /\ \A x : Listed(todo, x) <=> (Listed(rest, x) \/ Listed(new, x))
              /\ (Once(rest) /\ Once(new) /\ \A x : ~(Listed(rest, x) /\ Listed(new, x))) => Once(todo)
          BY ONLY <3>10, ConcatFacts DEF todo
        <4> QED
          BY ONLY <2>2, <2>17, <3>9, <3>11, <4>1
      <3>13. DoneWith(w) = DoneWith(p) \cup {n}
        BY ONLY <2>2, <2>17, <3>2, <3>3, <3>4, <3>12 DEF DoneWith
      <3>14. Cardinality(DoneWith(w)) >= k + 1
        BY ONLY <2>4, <2>5, <2>6, <3>13, OneMoreDone, k \in Nat
      <3>15. ASSUME s2.errors = 0, NEW x \in DOMAIN src, ~Listed(todo, x)
             PROVE  TreeGood(s2, x)
        <4>1. x \in D /\ x \notin DOMAIN m.new /\ (x = n \/ ~Listed(p.todo, x))
          BY <2>2, <3>3, <3>12, <3>15
        <4>2. m.s.errors = 0 /\ u.errors = 0 /\ p.s.errors = 0
          <5>1. m.s.errors \in Nat /\ u.errors \in Nat /\ p.s.errors \in Nat
            BY <1>a, <2>7, <2>17 DEF ReporterInv
          <5> QED
            BY ONLY <2>7, <2>13, <2>17, <3>5, <3>15, <5>1
        <4>3. CASE x = n
          <5>1. s2.sources[x].ast = t /\ s2.sources[x].text = t
            BY <2>8, <2>12, <2>21, <3>3, <3>4, <4>1, <4>3
          <5>2. ToSet(Imports[t]) \subseteq DOMAIN src
            BY <2>18, <2>21, <3>3, <4>2
          <5>3. ~Faulty("parse", t)
            BY <2>7, <2>21, <4>2
          <5> QED
            BY <3>4, <5>1, <5>2, <5>3 DEF TreeGood, Ast, Known
        <4>4. CASE x # n
          <5>1. TreeGood(p.s, x)
            BY <1>2, <1>b, <4>1, <4>2, <4>4
          <5>2. s2.sources[x] = p.s.sources[x]
            BY <2>12, <3>3, <3>4, <4>1, <4>4
          <5> QED
            BY <3>3, <3>4, <5>1, <5>2 DEF TreeGood, Ast, Known
        <4> QED
          BY <4>3, <4>4
      <3>16. /\ DOMAIN s.sources \subseteq DOMAIN src
             /\ DOMAIN src \subseteq DOMAIN s.sources \cup DOMAIN Files
        BY <1>a, <2>17, <3>3
      <3> QED
        BY ONLY <3>2, <3>4, <3>5, <3>6, <3>8, <3>12, <3>14, <3>15, <3>16 DEF ParseInv, w
    <2> QED
      BY <2>15, <2>20, <2>21
  <1> QED
    BY <1>1, <1>2

(* All settings but the state.                                             *)
SameOptions(s, t) ==
    /\ t.optimize = s.optimize /\ t.evm = s.evm
    /\ t.libraries = s.libraries /\ t.requested = s.requested /\ t.standard = s.standard
    /\ t.compiles = s.compiles

(* The state is a field of its own.                                        *)
LEMMA StateOnly ==
    ASSUME NEW s, DOMAIN s = Fields, NEW x
    PROVE  LET t == [s EXCEPT !.state = x] IN
           /\ SameReporter(s, t) /\ SameOptions(s, t) /\ SameResults(s, t)
           /\ t.sources = s.sources /\ t.state = x
  BY DEF SameReporter, SameOptions, SameResults, Fields

(* As many turns as there are names are enough.                            *)
LEMMA ParseDone ==
    ASSUME NEW p, NEW s, ParseInv(p, s, Len(NameOrder)), ~p.thrown
    PROVE  p.todo = <<>>
  <1> SUFFICES ASSUME p.todo # <<>> PROVE FALSE
    OBVIOUS
  <1>1. /\ Cardinality(DoneWith(p)) >= Len(NameOrder)
        /\ SourcesInv(p.s) /\ p.todo \in Seq(DOMAIN p.s.sources) /\ Once(p.todo)
    BY DEF ParseInv
  <1>2. PICK D : D = DoneWith(p)
    OBVIOUS
  <1>3. D \in SUBSET SourceNames
    BY <1>1, <1>2 DEF DoneWith, SourcesInv
  <1>4. IsFiniteSet(SourceNames) /\ Cardinality(SourceNames) = Len(NameOrder) /\ Len(NameOrder) \in Nat
    BY NameNumber
  <1>5. /\ Cardinality(D) <= Cardinality(SourceNames)
        /\ (Cardinality(SourceNames) = Cardinality(D) => SourceNames = D)
        /\ IsFiniteSet(D)
    BY ONLY <1>3, <1>4, FS_Subset
  <1>6. Cardinality(D) \in Nat
    BY <1>5, FS_CardinalityType
  <1>7. D = SourceNames
    BY ONLY <1>1, <1>2, <1>4, <1>5, <1>6
  <1>8. Head(p.todo) \in DOMAIN p.s.sources /\ Listed(p.todo, Head(p.todo))
    BY <1>1, TailFacts
  <1> QED
    BY <1>1, <1>2, <1>7, <1>8 DEF DoneWith, SourcesInv

(* What parse leaves, however it ends.                                     *)
AfterParse(s, t) ==
    /\ ReporterInv(t) /\ SourcesInv(t) /\ SameOptions(s, t) /\ SameResults(s, t)
    /\ DOMAIN s.sources \subseteq DOMAIN t.sources
    /\ DOMAIN t.sources \subseteq DOMAIN s.sources \cup DOMAIN Files

(* parse: all trees are there, or an error is reported, or it throws.      *)
LEMMA ParseEnds ==
    ASSUME NEW s, ReporterInv(s), SourcesInv(s), s.state = "SourcesSet"
    PROVE  LET q == Parse(s) IN
           /\ AfterParse(s, q.s)
           /\ \/ q.res = "thrown" /\ q.s.state = "SourcesSet"
              \/ q.res = "false" /\ q.s.state = "SourcesSet" /\ Reported(q.s)
              \/ /\ q.res = "true" /\ q.s.state = "ParsingSuccessful"
                 /\ q.s.errors = 0
                 /\ \A n \in DOMAIN q.s.sources : TreeGood(q.s, n)
  <1>1. Len(NameOrder) \in Nat
    BY NameNumber
  <1>2. PICK f : /\ Parse(s) = ParseEnd(f[Len(NameOrder)])
                 /\ f[0] = [s |-> ClearErrors(s), todo |-> InNameOrder(Known(s)), thrown |-> FALSE]
                 /\ \A n \in 1..Len(NameOrder) : f[n] = ParseNext(f[n - 1])
    BY ParseLoop
  <1> DEFINE N == Len(NameOrder)
             S == {n \in 0..N : ParseInv(f[n], s, n)}
  <1>3. 0 \in S
    <2>1. PICK p, c, todo : p = f[0] /\ c = ClearErrors(s) /\ todo = InNameOrder(Known(s))
      OBVIOUS
    <2>2. DOMAIN p = {"s", "todo", "thrown"} /\ p.s = c /\ p.todo = todo /\ ~p.thrown
      BY <1>2, <2>1
    <2>3. /\ ReporterInv(c) /\ SameSettings(s, c) /\ SameResults(s, c) /\ c.sources = s.sources
      BY <2>1 DEF ClearErrors, ReporterInv, SameSettings, SameResults, Fields
    <2>4. SourcesInv(c) /\ DOMAIN s.sources \subseteq SourceNames
      BY <2>3 DEF SourcesInv
    <2>5. /\ todo \in Seq(DOMAIN c.sources) /\ Once(todo)
          /\ \A x : Listed(todo, x) <=> x \in DOMAIN c.sources
      BY <2>1, <2>3, <2>4, NamesTaken DEF Known
    <2>6. Cardinality(DoneWith(p)) >= 0
      <3>1. DoneWith(p) = {}
        BY <2>2, <2>5 DEF DoneWith
      <3> QED
        BY <3>1, FS_EmptySet
    <2>7. ParseInv(p, s, 0)
      BY ONLY <2>2, <2>3, <2>4, <2>5, <2>6 DEF ParseInv
    <2> QED
      BY <1>1, <2>1, <2>7
  <1>4. ASSUME NEW n \in 1..N, n - 1 \in S
        PROVE  n \in S
    <2>1. ParseInv(f[n - 1], s, n - 1) /\ n - 1 \in Nat /\ n \in 0..N /\ (n - 1) + 1 = n
      BY <1>1, <1>4
    <2>2. ParseInv(ParseNext(f[n - 1]), s, (n - 1) + 1)
      BY ONLY <2>1, ParseNextKeeps
    <2> QED
      BY <1>2, <2>1, <2>2
  <1>5. N \in S
    <2>1. \A k \in 1..N : k - 1 \in S => k \in S
      BY <1>4
    <2>2. N \in 0..N
      BY <1>1
    <2> HIDE DEF S, N
    <2> QED
      BY ONLY <1>1, <1>3, <2>1, <2>2, CountingUp DEF N
  <1>6. PICK p, q : p = f[N] /\ q = Parse(s)
    OBVIOUS
  <1>7. ParseInv(p, s, Len(NameOrder)) /\ q = ParseEnd(p)
    BY <1>2, <1>5, <1>6
  <1>8. /\ ReporterInv(p.s)
        /\ SourcesInv(p.s) /\ SameSettings(s, p.s) /\ SameResults(s, p.s)
        /\ DOMAIN s.sources \subseteq DOMAIN p.s.sources
        /\ DOMAIN p.s.sources \subseteq DOMAIN s.sources \cup DOMAIN Files
    BY <1>7 DEF ParseInv
  <1>9. SameOptions(s, p.s) /\ p.s.state = "SourcesSet"
    BY <1>8 DEF SameSettings, SameOptions
  <1>10. CASE p.thrown
    <2>1. q.s = p.s /\ q.res = "thrown"
      BY <1>7, <1>10 DEF ParseEnd, Done
    <2> QED
      BY ONLY <1>6, <1>8, <1>9, <2>1 DEF AfterParse
  <1>11. CASE ~p.thrown /\ p.s.errors # 0
    <2>1. q.s = p.s /\ q.res = "false"
      BY <1>7, <1>11 DEF ParseEnd, Done, OnlyWarnings
    <2>2. Reported(p.s)
      BY <1>8, <1>11 DEF Reported, ReporterInv
    <2> QED
      BY ONLY <1>6, <1>8, <1>9, <2>1, <2>2 DEF AfterParse
  <1>12. CASE ~p.thrown /\ p.s.errors = 0
    <2>1. PICK u : u = [p.s EXCEPT !.state = "ParsingSuccessful"]
      OBVIOUS
    <2>2. q.s = u /\ q.res = "true"
      BY <1>7, <1>12, <2>1 DEF ParseEnd, Done, OnlyWarnings
    <2>3. /\ SameReporter(p.s, u) /\ SameOptions(p.s, u) /\ SameResults(p.s, u)
          /\ u.sources = p.s.sources /\ u.state = "ParsingSuccessful"
      <3>1. DOMAIN p.s = Fields
        BY <1>8 DEF ReporterInv
      <3> QED
        BY ONLY <2>1, <3>1, StateOnly
    <2>4. ReporterInv(u) /\ u.errors = 0
      BY <1>8, <1>12, <2>3, ReporterKept DEF SameReporter
    <2>5. SourcesInv(u) /\ SameOptions(s, u) /\ SameResults(s, u)
      BY <1>8, <1>9, <2>3 DEF SourcesInv, SameOptions, SameResults
    <2>6. p.todo = <<>>
      BY <1>7, <1>12, ParseDone
    <2>7. \A n \in DOMAIN p.s.sources : TreeGood(p.s, n)
      <3>1. \A n : ~Listed(p.todo, n)
        BY <2>6 DEF Listed
      <3> QED
        BY <1>7, <1>12, <3>1 DEF ParseInv
    <2>8. \A n \in DOMAIN u.sources : TreeGood(u, n)
      BY <2>3, <2>7 DEF TreeGood, Ast, Known
    <2> QED
      BY ONLY <1>6, <1>8, <2>2, <2>3, <2>4, <2>5, <2>8 DEF AfterParse
  <1> QED
    BY <1>10, <1>11, <1>12

-----------------------------------------------------------------------------
(* The order of the sources.                                               *)

ImportGraph(s) == [n \in Known(s) |-> Imports[s.sources[n].ast]]
NoLibraries(s) == InNameOrder({n \in Known(s) : ~s.sources[n].lib})

AllGood(s) == SourcesInv(s) /\ \A n \in DOMAIN s.sources : TreeGood(s, n)

(* The imports of a tree.                                                  *)
LEMMA GoodTrees ==
    ASSUME NEW s, AllGood(s), NEW n \in DOMAIN s.sources
    PROVE  /\ Ast(s, n) \in Texts
           /\ ImportGraph(s)[n] = Imports[Ast(s, n)]
           /\ Successors(ImportGraph(s), n) = ToSet(Imports[Ast(s, n)])
           /\ ToSet(Imports[Ast(s, n)]) \subseteq DOMAIN s.sources
           /\ Imports[Ast(s, n)] \in Seq(DOMAIN s.sources)
           /\ ~Faulty("parse", Ast(s, n))
  <1>1. /\ Ast(s, n) = s.sources[n].text /\ Ast(s, n) = s.sources[n].ast
        /\ ToSet(Imports[Ast(s, n)]) \subseteq DOMAIN s.sources
        /\ ~Faulty("parse", Ast(s, n))
    BY DEF AllGood, TreeGood, Ast, Known
  <1>2. Ast(s, n) \in Texts
    BY <1>1 DEF AllGood, SourcesInv
  <1>3. ImportGraph(s)[n] = Imports[Ast(s, n)]
    BY <1>1 DEF ImportGraph, Known
  <1>4. Imports[Ast(s, n)] \in Seq(SourceNames)
    BY <1>2, ConstantTypes
  <1>5. PICK q : q = Imports[Ast(s, n)]
    OBVIOUS
  <1>6. /\ ToSet(q) = {q[i] : i \in 1..Len(q)}
        /\ Len(q) \in Nat /\ DOMAIN q = 1..Len(q)
    BY ONLY <1>4, <1>5, SetOfSeq
  <1>7. Successors(ImportGraph(s), n) = ToSet(Imports[Ast(s, n)])
    BY ONLY <1>3, <1>5, <1>6 DEF Successors
  <1>8. q \in Seq(DOMAIN s.sources)
    <2>1. \A i \in 1..Len(q) : q[i] \in DOMAIN s.sources
      BY ONLY <1>1, <1>5, <1>6
    <2>2. q \in Seq(SourceNames)
      BY <1>4, <1>5
    <2> QED
      BY ONLY <1>6, <2>1, <2>2
  <1> QED
    BY <1>1, <1>2, <1>3, <1>5, <1>7, <1>8

(* resolveImports searches the graph of the imports.                       *)
LEMMA OrderSearched ==
    ASSUME NEW s, AllGood(s)
    PROVE  /\ Searched(ResolveImports(s), NoLibraries(s), ImportGraph(s))
           /\ DOMAIN ImportGraph(s) = DOMAIN s.sources
           /\ \A n : Listed(NoLibraries(s), n) <=> (n \in DOMAIN s.sources /\ ~s.sources[n].lib)
           /\ Len(NoLibraries(s)) \in Nat
  <1>1. DOMAIN s.sources \subseteq SourceNames
    BY DEF AllGood, SourcesInv
  <1>2. DOMAIN ImportGraph(s) = DOMAIN s.sources
    BY DEF ImportGraph, Known
  <1>3. PICK R : R = {n \in DOMAIN s.sources : ~s.sources[n].lib}
    OBVIOUS
  <1>4. R \subseteq SourceNames /\ R \subseteq DOMAIN s.sources /\ NoLibraries(s) = InNameOrder(R)
    BY <1>1, <1>3 DEF NoLibraries, Known
  <1>5. /\ NoLibraries(s) \in Seq(R)
        /\ \A n : Listed(NoLibraries(s), n) <=> n \in R
    BY ONLY <1>4, NamesTaken
  <1>6. NoLibraries(s) \in Seq(DOMAIN s.sources)
    BY ONLY <1>4, <1>5, WiderSeq
  <1>7. IsFiniteSet(DOMAIN s.sources)
    <2>1. IsFiniteSet(SourceNames)
      BY NameNumber
    <2> QED
      BY ONLY <1>1, <2>1, FS_Subset
  <1>8. \A n \in DOMAIN s.sources : ImportGraph(s)[n] \in Seq(DOMAIN s.sources)
    BY GoodTrees
  <1>9. Graph(NoLibraries(s), ImportGraph(s))
    BY ONLY <1>2, <1>6, <1>7, <1>8 DEF Graph
  <1>10. Searched(PostOrder(NoLibraries(s), ImportGraph(s)), NoLibraries(s), ImportGraph(s))
    BY ONLY <1>9, SearchResult
  <1>11. ResolveImports(s) = PostOrder(NoLibraries(s), ImportGraph(s))
    BY DEF ResolveImports, NoLibraries, ImportGraph
  <1>12. Len(NoLibraries(s)) \in Nat
    BY <1>6
  <1> QED
    BY <1>2, <1>3, <1>5, <1>10, <1>11, <1>12

(* The order is a list of sources.                                         *)
LEMMA OrderFacts ==
    ASSUME NEW s, AllGood(s)
    PROVE  LET o == ResolveImports(s) IN
           /\ o \in Seq(DOMAIN s.sources) /\ Len(o) \in Nat /\ DOMAIN o = 1..Len(o)
           /\ \A i \in 1..Len(o) : o[i] \in DOMAIN s.sources
           /\ \A i, j \in 1..Len(o) : o[i] = o[j] => i = j
           /\ \A i \in 1..Len(o) : \A m \in ToSet(Imports[Ast(s, o[i])]) : \E j \in 1..Len(o) : o[j] = m
  <1>1. PICK o, g : o = ResolveImports(s) /\ g = ImportGraph(s)
    OBVIOUS
  <1>2. Searched(o, NoLibraries(s), g) /\ DOMAIN g = DOMAIN s.sources
    BY <1>1, OrderSearched
  <1>3. /\ o \in Seq(DOMAIN s.sources)
        /\ \A i, j \in 1..Len(o) : o[i] = o[j] => i = j
        /\ \A i \in 1..Len(o) : \A m \in Successors(g, o[i]) : \E j \in 1..Len(o) : o[j] = m
    BY <1>2 DEF Searched
  <1>4. Len(o) \in Nat /\ DOMAIN o = 1..Len(o) /\ \A i \in 1..Len(o) : o[i] \in DOMAIN s.sources
    BY ONLY <1>3, SetOfSeq
  <1>5. \A i \in 1..Len(o) : Successors(g, o[i]) = ToSet(Imports[Ast(s, o[i])])
    BY <1>1, <1>4, GoodTrees
  <1> QED
    BY ONLY <1>1, <1>3, <1>4, <1>5

(* Leads is reachability in the graph of the imports.                      *)
LEMMA LeadsReaches ==
    ASSUME NEW s, AllGood(s), NEW n \in DOMAIN s.sources, NEW m \in DOMAIN s.sources
    PROVE  m \in Leads(s, n) <=> Reaches(ImportGraph(s), n, m)
  <1>1. DOMAIN ImportGraph(s) = DOMAIN s.sources /\ Known(s) = DOMAIN s.sources
    BY DEF ImportGraph, Known
  <1>2. ASSUME NEW S \in SUBSET DOMAIN s.sources
        PROVE  Closed(ImportGraph(s), S) <=>
               \A x \in S : ToSet(Imports[Ast(s, x)]) \cap DOMAIN s.sources \subseteq S
    <2>1. \A x \in S : /\ Successors(ImportGraph(s), x) = ToSet(Imports[Ast(s, x)])
                       /\ ToSet(Imports[Ast(s, x)]) \subseteq DOMAIN s.sources
      BY GoodTrees
    <2> QED
      BY ONLY <2>1 DEF Closed
  <1> QED
    BY ONLY <1>1, <1>2, m \in DOMAIN s.sources DEF Leads, Reaches

(* A path in the order is a path.                                          *)
LEMMA BeneathReaches ==
    ASSUME NEW o, NEW succ, NEW a, NEW b, Beneath(o, succ, a, b)
    PROVE  Reaches(succ, a, b)
  <1> SUFFICES ASSUME NEW S \in SUBSET DOMAIN succ, a \in S, Closed(succ, S)
               PROVE  b \in S
    BY DEF Reaches
  <1>1. \A i, j \in 1..Len(o) :
           (i < j /\ o[j] \in S /\ o[i] \in Successors(succ, o[j])) => o[i] \in S
    BY DEF Closed
  <1> QED
    BY <1>1 DEF Beneath

ImportsInOrder(s) ==
    /\ IsInjective(s.order)
    /\ ToSet(s.order) = UNION {Leads(s, n) : n \in {m \in Known(s) : ~s.sources[m].lib}}
    /\ \A i, j \in DOMAIN s.order :
           (/\ s.order[j] \in ToSet(Imports[Ast(s, s.order[i])])
            /\ s.order[i] \notin Leads(s, s.order[j])) => j < i

(* resolveImports: every source that is needed, once, after its imports.   *)
LEMMA OrderGood ==
    ASSUME NEW s, AllGood(s), s.order = ResolveImports(s)
    PROVE  ImportsInOrder(s)
  <1>1. PICK o, g, r : o = s.order /\ g = ImportGraph(s) /\ r = NoLibraries(s)
    OBVIOUS
  <1>2. Searched(o, r, g) /\ DOMAIN g = DOMAIN s.sources
        /\ \A n : Listed(r, n) <=> (n \in DOMAIN s.sources /\ ~s.sources[n].lib)
    BY <1>1, OrderSearched
  <1>3. /\ o \in Seq(DOMAIN s.sources)
        /\ \A i, j \in 1..Len(o) : o[i] = o[j] => i = j
        /\ \A x \in 1..Len(r) : \E i \in 1..Len(o) : o[i] = r[x]
        /\ \A i \in 1..Len(o) : \A m \in Successors(g, o[i]) : \E j \in 1..Len(o) : o[j] = m
        /\ \A i \in 1..Len(o) : \E x \in 1..Len(r) : Reaches(g, r[x], o[i])
        /\ \A i \in 1..Len(o) : \A m \in Successors(g, o[i]) : By(o, i, m) \/ Beneath(o, g, m, o[i])
    BY ONLY <1>2 DEF Searched
  <1>4. /\ Len(o) \in Nat /\ DOMAIN o = 1..Len(o) /\ \A i \in 1..Len(o) : o[i] \in DOMAIN s.sources
        /\ ToSet(o) = {o[i] : i \in 1..Len(o)}
    <2>1. o \in Seq(DOMAIN s.sources)
      BY <1>3
    <2> QED
      BY ONLY <2>1, SetOfSeq
  <1>5. \A i \in 1..Len(o) : Successors(g, o[i]) = ToSet(Imports[Ast(s, o[i])])
    BY <1>1, <1>4, GoodTrees
  <1>6. IsInjective(o)
    BY ONLY <1>3, <1>4 DEF IsInjective
  <1>7. \A n, m \in DOMAIN s.sources : m \in Leads(s, n) <=> Reaches(g, n, m)
    BY <1>1, LeadsReaches
  <1>8. \A n, m : m \in Leads(s, n) => m \in DOMAIN s.sources
    BY DEF Leads, Known
  <1>9. ASSUME NEW y \in ToSet(o)
        PROVE  \E n \in DOMAIN s.sources : ~s.sources[n].lib /\ y \in Leads(s, n)
    <2>1. PICK i \in 1..Len(o) : o[i] = y
      BY <1>4, <1>9
    <2>2. PICK x \in 1..Len(r) : Reaches(g, r[x], y)
      BY <1>3, <2>1
    <2>3. r[x] \in DOMAIN s.sources /\ ~s.sources[r[x]].lib
      BY <1>2, <2>2 DEF Listed
    <2> QED
      BY <1>4, <1>7, <2>1, <2>2, <2>3
  <1>10. ASSUME NEW n \in DOMAIN s.sources, ~s.sources[n].lib, NEW y \in Leads(s, n)
         PROVE  y \in ToSet(o)
    <2>1. Reaches(g, n, y)
      BY <1>7, <1>8
    <2>2. n \in ToSet(o)
      <3>1. Listed(r, n)
        BY <1>2, <1>10
      <3>2. PICK x \in 1..Len(r) : r[x] = n
        BY <3>1 DEF Listed
      <3>3. PICK i \in 1..Len(o) : o[i] = r[x]
        BY <1>3
      <3> QED
        BY <1>4, <3>2, <3>3
    <2>3. ToSet(o) \in SUBSET DOMAIN g
      BY <1>2, <1>4
    <2>4. Closed(g, ToSet(o))
      BY ONLY <1>3, <1>4 DEF Closed
    <2> QED
      BY ONLY <2>1, <2>2, <2>3, <2>4 DEF Reaches
  <1>11. ASSUME NEW i \in 1..Len(o), NEW j \in 1..Len(o), o[j] \in ToSet(Imports[Ast(s, o[i])]),
                o[i] \notin Leads(s, o[j])
         PROVE  j < i
    <2>1. ~Reaches(g, o[j], o[i])
      BY <1>4, <1>7, <1>11
    <2>2. By(o, i, o[j])
      BY <1>3, <1>5, <1>11, <2>1, BeneathReaches
    <2>3. j <= i
      BY <1>3, <2>2 DEF By
    <2>4. i # j
      BY <2>1 DEF Reaches
    <2> QED
      BY <1>4, <2>3, <2>4
  <1>12. ToSet(o) = UNION {Leads(s, n) : n \in {m \in Known(s) : ~s.sources[m].lib}}
    BY <1>9, <1>10 DEF Known
  <1> QED
    BY ONLY <1>1, <1>4, <1>6, <1>11, <1>12 DEF ImportsInOrder

-----------------------------------------------------------------------------
(* analyze.                                                                *)

NoEntry == [compiler |-> 0, code |-> NoCode, linked |-> FALSE, map |-> 0]

(* What the analysis that started with b leaves alone.                     *)
AnalysisFrame(b, u) ==
    /\ ReporterInv(u)
    /\ u.sources = b.sources /\ u.order = b.order /\ SameSettings(b, u)
    /\ DOMAIN u.contracts \subseteq AllContracts(b)
    /\ \A c \in DOMAIN u.contracts : u.contracts[c] = NoEntry

(* As long as nothing has been thrown and nothing is reported all phases   *)
(* have answered true.                                                     *)
AnalysisInv(a, b) ==
    /\ DOMAIN a = {"s", "ok", "ended"}
    /\ AnalysisFrame(b, a.s)
    /\ b.order = <<>> => a.s.errors = b.errors
    /\ \/ a.ended = "thrown"
       \/ a.ok /\ a.ended = "no"
       \/ Reported(a.s)

(* Scopes and contracts are all that a phase records.                      *)
LEMMA RecordKeeps ==
    ASSUME NEW b, NEW u, AnalysisFrame(b, u), NEW p, NEW n, n \in {b.order[i] : i \in DOMAIN b.order}
    PROVE  AnalysisFrame(b, Record(u, p, n)) /\ SameReporter(u, Record(u, p, n))
  <1>1. DOMAIN u = Fields
    BY DEF AnalysisFrame, ReporterInv
  <1>2. PICK v : v = Record(u, p, n)
    OBVIOUS
  <1>3. CASE p = "resolve"
    <2> DEFINE C == ToSet(ContractsOf(u, n))
               new == [c \in DOMAIN u.contracts \cup C |-> IF c \in DOMAIN u.contracts THEN u.contracts[c] ELSE NoEntry]
    <2>1. v = [u EXCEPT !.contracts = new]
      BY <1>2, <1>3 DEF Record, NoEntry
    <2>2. C \subseteq AllContracts(b)
      <3>1. ContractsOf(u, n) = ContractsOf(b, n)
        BY DEF AnalysisFrame, ContractsOf, Ast
      <3> QED
        BY <3>1 DEF AllContracts
    <2> HIDE DEF C
    <2>3. DOMAIN new = DOMAIN u.contracts \cup C /\ \A c \in DOMAIN new : new[c] = NoEntry
      BY DEF AnalysisFrame
    <2> HIDE DEF new
    <2>4. /\ SameReporter(u, v) /\ v.sources = u.sources /\ v.order = u.order /\ SameSettings(u, v)
          /\ v.contracts = new
      BY <1>1, <2>1 DEF SameReporter, SameSettings, Fields
    <2>5. ReporterInv(v)
      BY <2>4, ReporterKept DEF AnalysisFrame
    <2> QED
      BY <1>2, <2>2, <2>3, <2>4, <2>5 DEF AnalysisFrame, SameSettings
  <1>4. CASE p # "resolve"
    <2>1. \E x : v = [u EXCEPT !.scopes = x] \/ v = u
      BY <1>1, <1>2, <1>4 DEF Record, Fields
    <2>2. /\ SameReporter(u, v) /\ v.sources = u.sources /\ v.order = u.order /\ SameSettings(u, v)
          /\ v.contracts = u.contracts
      BY <1>1, <2>1 DEF SameReporter, SameSettings, Fields
    <2>3. ReporterInv(v)
      BY <2>2, ReporterKept DEF AnalysisFrame
    <2> QED
      BY <1>2, <2>2, <2>3 DEF AnalysisFrame, SameSettings
  <1> QED
    BY <1>3, <1>4

(* What one phase on one source does.                                      *)
CheckThrown(a, p, n) ==
    /\ FindsError(a.s, p, n)
    /\ TooMany(a.s) \/ (Faulty(p, Ast(a.s, n)) /\ Fault[Ast(a.s, n)].fatal)
CheckedStack(a, p, n) == IF FindsError(a.s, p, n) THEN Report(a.s) ELSE a.s
CheckGood(a, p, n) == PhaseOk(p, CheckedStack(a, p, n), n, FindsError(a.s, p, n))
CheckEnds(a, p, n) == CheckThrown(a, p, n) \/ (p \in Stopping /\ ~CheckGood(a, p, n))
CheckAgain(a, p, n) == p = "register" /\ n \in DOMAIN a.s.scopes /\ ContractsOf(a.s, n) # <<>>

(* Check, by its cases.                                                    *)
LEMMA CheckCases ==
    ASSUME NEW a, NEW p, NEW n
    PROVE  /\ a.ended # "no" => Check(a, p, n) = a
           /\ (a.ended = "no" /\ CheckAgain(a, p, n)) => Check(a, p, n) = [a EXCEPT !.ended = "thrown"]
           /\ (a.ended = "no" /\ ~CheckAgain(a, p, n)) =>
                  Check(a, p, n) =
                      [s |-> IF CheckEnds(a, p, n) THEN CheckedStack(a, p, n)
                             ELSE Record(CheckedStack(a, p, n), p, n),
                       ok |-> a.ok /\ CheckGood(a, p, n),
                       ended |-> IF CheckEnds(a, p, n) THEN "false" ELSE "no"]
  BY DEF Check, CheckThrown, CheckedStack, CheckGood, CheckEnds, CheckAgain

(* The stack of a check before the phase records anything.                 *)
LEMMA CheckedKeeps ==
    ASSUME NEW a, NEW b, AnalysisFrame(b, a.s), NEW p, NEW n
    PROVE  /\ AnalysisFrame(b, CheckedStack(a, p, n))
           /\ FindsError(a.s, p, n) => Reported(CheckedStack(a, p, n))
           /\ ~FindsError(a.s, p, n) => CheckedStack(a, p, n) = a.s
           /\ Reported(a.s) => Reported(CheckedStack(a, p, n))
           /\ (~CheckThrown(a, p, n) /\ FindsError(a.s, p, n)) => CheckedStack(a, p, n).errors > 0
  <1>1. CASE FindsError(a.s, p, n)
    <2>1. PICK u : u = Report(a.s)
      OBVIOUS
    <2>2. CheckedStack(a, p, n) = u
      BY <1>1, <2>1 DEF CheckedStack
    <2>3. ReporterInv(a.s)
      BY DEF AnalysisFrame
    <2>4. /\ ReporterInv(u) /\ Reported(u) /\ u.sources = a.s.sources
          /\ SameSettings(a.s, u) /\ SameResults(a.s, u)
          /\ ~TooMany(a.s) => u.errors > 0
      BY <2>1, <2>3, Reports
    <2>5. AnalysisFrame(b, u)
      BY <2>4 DEF AnalysisFrame, SameSettings, SameResults
    <2>6. ~CheckThrown(a, p, n) => ~TooMany(a.s)
      BY <1>1 DEF CheckThrown
    <2> QED
      BY <1>1, <2>2, <2>4, <2>5, <2>6
  <1>2. CASE ~FindsError(a.s, p, n)
    BY <1>2 DEF CheckedStack
  <1> QED
    BY <1>1, <1>2

(* One phase on one source.                                                *)
LEMMA CheckKeeps ==
    ASSUME NEW a, NEW b, AnalysisInv(a, b), NEW p, NEW n,
           n \in {b.order[i] : i \in DOMAIN b.order}
    PROVE  AnalysisInv(Check(a, p, n), b)
  <1>0. PICK w, u, v : /\ w = Check(a, p, n) /\ u = CheckedStack(a, p, n)
                       /\ v = IF CheckEnds(a, p, n) THEN u ELSE Record(u, p, n)
    OBVIOUS
  <1>1. CASE a.ended # "no"
    BY <1>1, CheckCases
  <1>2. CASE a.ended = "no" /\ CheckAgain(a, p, n)
    <2>1. w = [a EXCEPT !.ended = "thrown"]
      BY <1>0, <1>2, CheckCases
    <2> QED
      BY <1>0, <2>1 DEF AnalysisInv
  <1>3. CASE a.ended = "no" /\ ~CheckAgain(a, p, n)
    <2> DEFINE ends == CheckEnds(a, p, n)
               good == CheckGood(a, p, n)
    <2>1. w = [s |-> v, ok |-> a.ok /\ good, ended |-> IF ends THEN "false" ELSE "no"]
      BY <1>0, <1>3, CheckCases
    <2>2. AnalysisFrame(b, a.s) /\ (a.ok \/ Reported(a.s))
      BY <1>3 DEF AnalysisInv
    <2>3. b.order # <<>>
      OBVIOUS
    <2>4. /\ AnalysisFrame(b, u)
          /\ FindsError(a.s, p, n) => Reported(u)
          /\ Reported(a.s) => Reported(u)
      BY <1>0, <2>2, CheckedKeeps
    <2>5. ~good => Reported(u)
      <3>1. u.errors \in Nat
        BY <2>4 DEF AnalysisFrame, ReporterInv
      <3> QED
        BY <1>0, <2>4, <3>1 DEF CheckGood, PhaseOk, OnlyWarnings, Reported
    <2>6. ends => Reported(u)
      BY <2>4, <2>5 DEF CheckEnds, CheckThrown
    <2> HIDE DEF ends, good
    <2>7. AnalysisFrame(b, v) /\ (Reported(u) => Reported(v))
      <3>1. AnalysisFrame(b, Record(u, p, n)) /\ SameReporter(u, Record(u, p, n))
        BY <2>4, RecordKeeps
      <3>2. Reported(u) => Reported(Record(u, p, n))
        BY <3>1 DEF SameReporter, Reported
      <3> QED
        BY <1>0, <2>4, <3>1, <3>2
    <2>8. CASE a.ok /\ good /\ ~ends
      <3>1. (a.ok /\ good) = TRUE /\ (IF ends THEN "false" ELSE "no") = "no"
        BY <2>8, Zenon
      <3>2. w = [s |-> v, ok |-> TRUE, ended |-> "no"]
        BY <2>1, <3>1, Zenon
      <3> QED
        BY <1>0, <2>3, <2>7, <3>2 DEF AnalysisInv
    <2>9. CASE ~(a.ok /\ good /\ ~ends)
      <3>1. Reported(v)
        BY <2>2, <2>4, <2>5, <2>6, <2>7, <2>9
      <3> QED
        BY <1>0, <2>1, <2>3, <2>7, <3>1 DEF AnalysisInv
    <2> QED
      BY <2>8, <2>9
  <1> QED
    BY <1>1, <1>2, <1>3

(* What holds at the last number, and at the one before every number at    *)
(* which it holds, holds from 0 on.                                        *)
LEMMA CountingDown ==
    ASSUME NEW N \in Nat, NEW S, N \in S,
           \A k \in 1..N : k \in S => k - 1 \in S
    PROVE  \A k \in 0..N : k \in S
  <1> DEFINE T == {k \in 0..N : N - k \in S}
  <1>1. 0 \in T
    BY N - 0 = N
  <1>2. ASSUME NEW k \in 1..N, k - 1 \in T PROVE k \in T
    <2>1. PICK j : j = N - (k - 1)
      OBVIOUS
    <2>2. j \in S /\ j \in 1..N /\ j - 1 = N - k /\ k \in 0..N
      BY <1>2, <2>1
    <2> QED
      BY <2>2
  <1>3. \A k \in 0..N : k \in T
    <2>1. \A k \in 1..N : k - 1 \in T => k \in T
      BY <1>2
    <2> HIDE DEF T
    <2> QED
      BY ONLY N \in Nat, <1>1, <2>1, CountingUp
  <1> SUFFICES ASSUME NEW k \in 0..N PROVE k \in S
    OBVIOUS
  <1>4. N - k \in 0..N /\ N - (N - k) = k
    OBVIOUS
  <1> QED
    BY <1>3, <1>4

Fine(a) == a.ok /\ a.ended = "no"

(* A check that leaves the answer true and the analysis going.             *)
LEMMA FineCheck ==
    ASSUME NEW a, NEW b, AnalysisInv(a, b), NEW p, NEW n,
           n \in {b.order[i] : i \in DOMAIN b.order}, Fine(Check(a, p, n))
    PROVE  /\ Fine(a)
           /\ ~CheckEnds(a, p, n) /\ CheckGood(a, p, n) /\ ~CheckAgain(a, p, n)
           /\ Check(a, p, n).s = Record(CheckedStack(a, p, n), p, n)
           /\ Check(a, p, n).s.errors = CheckedStack(a, p, n).errors
  <1>0. PICK w : w = Check(a, p, n)
    OBVIOUS
  <1>1. CASE a.ended # "no"
    BY <1>1, CheckCases DEF Fine
  <1>2. CASE a.ended = "no" /\ CheckAgain(a, p, n)
    <2>1. w = [a EXCEPT !.ended = "thrown"]
      BY <1>0, <1>2, CheckCases
    <2>2. w.ended = "thrown"
      BY <2>1 DEF AnalysisInv
    <2> QED
      BY <1>0, <2>2 DEF Fine
  <1>3. CASE a.ended = "no" /\ ~CheckAgain(a, p, n)
    <2> DEFINE ends == CheckEnds(a, p, n)
               good == CheckGood(a, p, n)
               v == IF ends THEN CheckedStack(a, p, n) ELSE Record(CheckedStack(a, p, n), p, n)
    <2>1. w = [s |-> v, ok |-> a.ok /\ good, ended |-> IF ends THEN "false" ELSE "no"]
      BY <1>0, <1>3, CheckCases
    <2> HIDE DEF ends, good, v
    <2>2. w.ok = (a.ok /\ good) /\ w.ended = (IF ends THEN "false" ELSE "no") /\ w.s = v
      BY <2>1, Zenon
    <2>3. w.ok /\ w.ended = "no"
      BY <1>0 DEF Fine
    <2>4. a.ok /\ good
      BY <2>2, <2>3, Zenon
    <2>5. ~ends
      BY <2>2, <2>3
    <2>6. w.s = Record(CheckedStack(a, p, n), p, n)
      BY <2>2, <2>5 DEF v, ends
    <2>7. SameReporter(CheckedStack(a, p, n), w.s)
      <3>1. AnalysisFrame(b, a.s)
        BY DEF AnalysisInv
      <3>2. AnalysisFrame(b, CheckedStack(a, p, n))
        BY <3>1, CheckedKeeps
      <3> QED
        BY <2>6, <3>2, RecordKeeps
    <2> QED
      BY <1>0, <1>3, <2>4, <2>5, <2>6, <2>7 DEF Fine, ends, good, SameReporter
  <1> QED
    BY <1>1, <1>2, <1>3

(* When no error is listed afterwards none was found.                      *)
LEMMA GoodCheck ==
    ASSUME NEW a, NEW b, AnalysisInv(a, b), NEW p, NEW n,
           n \in {b.order[i] : i \in DOMAIN b.order}, Fine(Check(a, p, n)),
           Check(a, p, n).s.errors = 0
    PROVE  /\ a.s.errors = 0 /\ ~FindsError(a.s, p, n)
           /\ Check(a, p, n).s = Record(a.s, p, n)
           /\ ~CheckAgain(a, p, n)
  <1>1. /\ ~CheckEnds(a, p, n) /\ ~CheckAgain(a, p, n)
        /\ Check(a, p, n).s = Record(CheckedStack(a, p, n), p, n)
        /\ CheckedStack(a, p, n).errors = 0
    BY FineCheck
  <1>2. AnalysisFrame(b, a.s)
    BY DEF AnalysisInv
  <1>3. ~CheckThrown(a, p, n)
    BY <1>1 DEF CheckEnds
  <1>4. ~FindsError(a.s, p, n)
    BY <1>1, <1>2, <1>3, CheckedKeeps
  <1>5. CheckedStack(a, p, n) = a.s
    BY <1>2, <1>4, CheckedKeeps
  <1> QED
    BY <1>1, <1>4, <1>5

(* The static analyser answers for the whole list of errors.               *)
LEMMA StaticCheck ==
    ASSUME NEW a, NEW b, AnalysisInv(a, b), NEW n,
           n \in {b.order[i] : i \in DOMAIN b.order}, Fine(Check(a, "static", n))
    PROVE  Check(a, "static", n).s.errors = 0
  <1>1. /\ CheckGood(a, "static", n)
        /\ Check(a, "static", n).s.errors = CheckedStack(a, "static", n).errors
    BY FineCheck
  <1> QED
    BY <1>1 DEF CheckGood, PhaseOk, ByList, OnlyWarnings

(* The phases after it find their errors themselves, or report none.       *)
LEMMA LateCheck ==
    ASSUME NEW a, NEW b, AnalysisInv(a, b), NEW p \in {"viewPure", "smt", "standard"}, NEW n,
           n \in {b.order[i] : i \in DOMAIN b.order}, Fine(Check(a, p, n)),
           a.s.errors = 0, Ast(b, n) \in Texts
    PROVE  Check(a, p, n).s.errors = 0
  <1>1. /\ CheckGood(a, p, n)
        /\ Check(a, p, n).s.errors = CheckedStack(a, p, n).errors
    BY FineCheck
  <1>2. AnalysisFrame(b, a.s) /\ Ast(a.s, n) = Ast(b, n)
    BY DEF AnalysisInv, AnalysisFrame, Ast
  <1>3. ~FindsError(a.s, p, n)
    <2>1. CASE p = "viewPure"
      BY <1>1, <2>1 DEF CheckGood, PhaseOk, ByItself
    <2>2. CASE p \in {"smt", "standard"}
      <3>1. Fault[Ast(b, n)].phase \in
               {"none", "parse", "syntax", "docs", "register", "imports", "resolve", "types",
                "postTypes", "flow", "flowCheck", "static", "viewPure"}
        BY SourcesAssumption, Zenon
      <3>2. ~Faulty(p, Ast(a.s, n))
        BY <1>2, <2>2, <3>1 DEF Faulty
      <3> QED
        BY <2>2, <3>2 DEF FindsError
    <2> QED
      BY <2>1, <2>2
  <1> QED
    BY <1>1, <1>2, <1>3, CheckedKeeps

IsOrder(o) == Len(o) \in Nat /\ DOMAIN o = 1..Len(o)

(* The checks of a phase, one source after the other.                      *)
IsPhase(f, a, b, p) ==
    /\ f[Len(b.order)] = RunPhase(a, p)
    /\ f[0] = a
    /\ \A n \in 1..Len(b.order) : f[n] = Check(f[n - 1], p, b.order[n])
    /\ \A n \in 0..Len(b.order) : AnalysisInv(f[n], b)

(* A phase that is not left out keeps the invariant from check to check.   *)
LEMMA PhaseChecks ==
    ASSUME NEW a, NEW b, AnalysisInv(a, b), IsOrder(b.order), NEW p,
           a.ended = "no", p \in Gated => a.ok, ~(p = "standard" /\ a.s.standard = "unknown")
    PROVE  \E f : IsPhase(f, a, b, p)
  <1>1. a.s.order = b.order
    BY DEF AnalysisInv, AnalysisFrame
  <1>2. Len(b.order) \in Nat /\ DOMAIN b.order = 1..Len(b.order)
    BY DEF IsOrder
  <1>3. PICK f : /\ RunPhase(a, p) = f[Len(b.order)]
                 /\ f[0] = a
                 /\ \A n \in 1..Len(b.order) : f[n] = Check(f[n - 1], p, b.order[n])
    <2>1. Len(a.s.order) \in Nat
      BY <1>1, <1>2
    <2>2. \E f : /\ RunPhase(a, p) = f[Len(a.s.order)]
                 /\ f[0] = a
                 /\ \A n \in 1..Len(a.s.order) : f[n] = Check(f[n - 1], p, a.s.order[n])
      BY ONLY <2>1, a.ended = "no", p \in Gated => a.ok, ~(p = "standard" /\ a.s.standard = "unknown"),
         PhaseLoop
    <2> QED
      BY ONLY <1>1, <2>2
  <1> DEFINE N == Len(b.order)
             S == {n \in 0..N : AnalysisInv(f[n], b)}
  <1>4. 0 \in S
    BY <1>2, <1>3
  <1>5. ASSUME NEW n \in 1..N, n - 1 \in S PROVE n \in S
    <2>1. AnalysisInv(f[n - 1], b) /\ n \in 0..N /\ b.order[n] \in {b.order[i] : i \in DOMAIN b.order}
      BY <1>2, <1>5
    <2>2. AnalysisInv(Check(f[n - 1], p, b.order[n]), b)
      BY ONLY <2>1, CheckKeeps
    <2> QED
      BY <1>3, <2>1, <2>2
  <1>6. \A n \in 0..N : n \in S
    <2>1. \A k \in 1..N : k - 1 \in S => k \in S
      BY <1>5
    <2>2. N \in Nat
      BY <1>2
    <2> HIDE DEF S, N
    <2> QED
      BY ONLY <1>4, <2>1, <2>2, CountingUp
  <1>7. IsPhase(f, a, b, p)
    BY <1>3, <1>6 DEF IsPhase
  <1> QED
    BY <1>7

(* One phase.                                                              *)
LEMMA PhaseKeeps ==
    ASSUME NEW a, NEW b, AnalysisInv(a, b), IsOrder(b.order), NEW p
    PROVE  AnalysisInv(RunPhase(a, p), b)
  <1>1. CASE a.ended # "no" \/ (p \in Gated /\ ~a.ok)
    BY <1>1 DEF RunPhase
  <1>2. CASE /\ ~(a.ended # "no" \/ (p \in Gated /\ ~a.ok))
             /\ p = "standard" /\ a.s.standard = "unknown"
    <2>1. RunPhase(a, p) = [a EXCEPT !.ended = "thrown"]
      BY <1>2 DEF RunPhase
    <2> QED
      BY <2>1 DEF AnalysisInv
  <1>3. CASE /\ ~(a.ended # "no" \/ (p \in Gated /\ ~a.ok))
             /\ ~(p = "standard" /\ a.s.standard = "unknown")
    <2>1. PICK f : IsPhase(f, a, b, p)
      BY <1>3, PhaseChecks
    <2>2. Len(b.order) \in 0..Len(b.order)
      BY DEF IsOrder
    <2> QED
      BY <2>1, <2>2 DEF IsPhase
  <1> QED
    BY <1>1, <1>2, <1>3

(* A phase that leaves the answer true ran, and so did every check of it.  *)
LEMMA FinePhase ==
    ASSUME NEW a, NEW b, AnalysisInv(a, b), IsOrder(b.order), NEW p, Fine(RunPhase(a, p))
    PROVE  /\ Fine(a)
           /\ \E f : IsPhase(f, a, b, p) /\ \A n \in 0..Len(b.order) : Fine(f[n])
  <1>1. a.ended = "no" /\ (p \in Gated => a.ok)
    BY DEF RunPhase, Fine
  <1>2. ~(p = "standard" /\ a.s.standard = "unknown")
    <2> SUFFICES ASSUME p = "standard", a.s.standard = "unknown" PROVE FALSE
      OBVIOUS
    <2>1. RunPhase(a, p) = [a EXCEPT !.ended = "thrown"]
      BY <1>1 DEF RunPhase
    <2>2. RunPhase(a, p).ended = "thrown"
      BY <2>1 DEF AnalysisInv
    <2> QED
      BY <2>2 DEF Fine
  <1>3. PICK f : IsPhase(f, a, b, p)
    BY <1>1, <1>2, PhaseChecks
  <1> DEFINE N == Len(b.order)
             S == {n \in 0..N : Fine(f[n])}
  <1>4. N \in Nat /\ DOMAIN b.order = 1..N
    BY DEF IsOrder
  <1>5. N \in S
    BY <1>3, <1>4 DEF IsPhase
  <1>6. ASSUME NEW n \in 1..N, n \in S PROVE n - 1 \in S
    <2>1. n - 1 \in 0..N /\ b.order[n] \in {b.order[i] : i \in DOMAIN b.order}
      BY <1>4
    <2>2. AnalysisInv(f[n - 1], b) /\ Fine(Check(f[n - 1], p, b.order[n]))
      BY <1>3, <1>6, <2>1 DEF IsPhase
    <2>3. Fine(f[n - 1])
      BY ONLY <2>1, <2>2, FineCheck
    <2> QED
      BY <2>1, <2>3
  <1>7. \A n \in 0..N : n \in S
    <2>1. \A k \in 1..N : k \in S => k - 1 \in S
      BY <1>6
    <2> HIDE DEF S, N
    <2> QED
      BY ONLY <1>4, <1>5, <2>1, CountingDown
  <1>8. Fine(a)
    <2>1. 0 \in 0..N
      BY <1>4
    <2> QED
      BY <1>3, <1>7, <2>1 DEF IsPhase
  <1> QED
    BY <1>3, <1>7, <1>8

(* What a phase records when it finds no error.                            *)
IsClean(g, u, v, b, p) ==
    /\ g[0] = u /\ g[Len(b.order)] = v
    /\ \A n \in 1..Len(b.order) :
           g[n] = Record(g[n - 1], p, b.order[n]) /\ ~FindsError(g[n - 1], p, b.order[n])
    /\ \A n \in 0..Len(b.order) : AnalysisFrame(b, g[n])

(* A phase after which no error is listed found none.                      *)
LEMMA GoodPhase ==
    ASSUME NEW a, NEW b, AnalysisInv(a, b), IsOrder(b.order), NEW p, Fine(RunPhase(a, p)),
           RunPhase(a, p).s.errors = 0
    PROVE  /\ a.s.errors = 0
           /\ \E g : IsClean(g, a.s, RunPhase(a, p).s, b, p)
  <1>1. PICK f : IsPhase(f, a, b, p) /\ \A n \in 0..Len(b.order) : Fine(f[n])
    BY FinePhase
  <1> DEFINE N == Len(b.order)
             S == {n \in 0..N : f[n].s.errors = 0}
             g == [n \in 0..N |-> f[n].s]
  <1>2. N \in Nat /\ DOMAIN b.order = 1..N
    BY DEF IsOrder
  <1>3. N \in S
    BY <1>1, <1>2 DEF IsPhase
  <1>4. ASSUME NEW n \in 1..N, f[n].s.errors = 0
        PROVE  /\ f[n - 1].s.errors = 0
               /\ f[n].s = Record(f[n - 1].s, p, b.order[n])
               /\ ~FindsError(f[n - 1].s, p, b.order[n])
    <2>1. n - 1 \in 0..N /\ n \in 0..N /\ b.order[n] \in {b.order[i] : i \in DOMAIN b.order}
      BY <1>2
    <2>2. AnalysisInv(f[n - 1], b) /\ Fine(f[n]) /\ f[n] = Check(f[n - 1], p, b.order[n])
      BY <1>1, <2>1 DEF IsPhase
    <2> QED
      BY ONLY <1>4, <2>1, <2>2, GoodCheck
  <1>5. \A n \in 0..N : n \in S
    <2>1. \A k \in 1..N : k \in S => k - 1 \in S
      <3>1. \A k \in 1..N : k - 1 \in 0..N
        BY <1>2
      <3> QED
        BY <1>4, <3>1
    <2> HIDE DEF S, N
    <2> QED
      BY ONLY <1>2, <1>3, <2>1, CountingDown
  <1>6. \A n \in 1..N : n \in 0..N /\ n - 1 \in 0..N /\ 0 \in 0..N /\ N \in 0..N
    BY <1>2
  <1>7. 0 \in 0..N /\ N \in 0..N
    BY <1>2
  <1>8. f[0] = a /\ f[N] = RunPhase(a, p) /\ \A n \in 0..N : AnalysisFrame(b, f[n].s)
    BY <1>1 DEF IsPhase, AnalysisInv
  <1>9. a.s.errors = 0
    BY <1>5, <1>7, <1>8
  <1>10. \A n \in 0..N : g[n] = f[n].s
    OBVIOUS
  <1>11. \A n \in 1..N : g[n] = Record(g[n - 1], p, b.order[n]) /\ ~FindsError(g[n - 1], p, b.order[n])
    <2> SUFFICES ASSUME NEW n \in 1..N
                 PROVE  g[n] = Record(g[n - 1], p, b.order[n]) /\ ~FindsError(g[n - 1], p, b.order[n])
      OBVIOUS
    <2>1. f[n].s.errors = 0
      BY <1>5, <1>6
    <2>2. g[n] = f[n].s /\ g[n - 1] = f[n - 1].s
      BY <1>6, <1>10
    <2> HIDE DEF g
    <2> QED
      BY <1>4, <2>1, <2>2
  <1> HIDE DEF g
  <1>12. IsClean(g, a.s, RunPhase(a, p).s, b, p)
    BY <1>7, <1>8, <1>10, <1>11 DEF IsClean
  <1> QED
    BY <1>9, <1>12

(* After the static analyser no error is listed.                           *)
LEMMA StaticPhase ==
    ASSUME NEW a, NEW b, AnalysisInv(a, b), IsOrder(b.order), Fine(RunPhase(a, "static")),
           b.order = <<>> => b.errors = 0
    PROVE  RunPhase(a, "static").s.errors = 0
  <1>1. PICK f : IsPhase(f, a, b, "static") /\ \A n \in 0..Len(b.order) : Fine(f[n])
    BY FinePhase
  <1>2. Len(b.order) \in Nat /\ DOMAIN b.order = 1..Len(b.order)
    BY DEF IsOrder
  <1>3. CASE b.order = <<>>
    <2>1. AnalysisInv(RunPhase(a, "static"), b)
      BY PhaseKeeps
    <2> QED
      BY <1>3, <2>1 DEF AnalysisInv
  <1>4. CASE Len(b.order) # 0
    <2>1. PICK n : n = Len(b.order)
      OBVIOUS
    <2>2. /\ n \in 1..Len(b.order) /\ n \in 0..Len(b.order) /\ n - 1 \in 0..Len(b.order)
      BY <1>2, <1>4, <2>1
    <2>3. b.order[n] \in {b.order[i] : i \in DOMAIN b.order}
      BY <1>2, <2>2
    <2>4. /\ AnalysisInv(f[n - 1], b) /\ Fine(f[n]) /\ f[n] = Check(f[n - 1], "static", b.order[n])
          /\ f[n] = RunPhase(a, "static")
      BY <1>1, <2>1, <2>2 DEF IsPhase
    <2> QED
      BY ONLY <2>3, <2>4, StaticCheck
  <1>5. Len(b.order) = 0 => b.order = <<>>
    <2> SUFFICES ASSUME Len(b.order) = 0, b.order # <<>> PROVE FALSE
      OBVIOUS
    <2>1. DOMAIN b.order = {}
      BY <1>2
    <2> QED
      BY <2>1
  <1> QED
    BY <1>3, <1>4, <1>5

(* The phases after it find none without saying so.                        *)
LEMMA LatePhase ==
    ASSUME NEW a, NEW b, AnalysisInv(a, b), IsOrder(b.order),
           NEW p \in {"viewPure", "smt", "standard"}, Fine(RunPhase(a, p)), a.s.errors = 0,
           \A i \in DOMAIN b.order : Ast(b, b.order[i]) \in Texts
    PROVE  RunPhase(a, p).s.errors = 0
  <1>1. PICK f : IsPhase(f, a, b, p) /\ \A n \in 0..Len(b.order) : Fine(f[n])
    BY FinePhase
  <1> DEFINE N == Len(b.order)
             S == {n \in 0..N : f[n].s.errors = 0}
  <1>2. N \in Nat /\ DOMAIN b.order = 1..N
    BY DEF IsOrder
  <1>3. 0 \in S
    BY <1>1, <1>2 DEF IsPhase
  <1>4. ASSUME NEW n \in 1..N, n - 1 \in S PROVE n \in S
    <2>1. n \in 0..N /\ n - 1 \in 0..N /\ b.order[n] \in {b.order[i] : i \in DOMAIN b.order}
      BY <1>2
    <2>2. /\ AnalysisInv(f[n - 1], b) /\ Fine(f[n]) /\ f[n] = Check(f[n - 1], p, b.order[n])
          /\ f[n - 1].s.errors = 0 /\ Ast(b, b.order[n]) \in Texts
      BY <1>1, <1>2, <1>4, <2>1 DEF IsPhase
    <2>3. f[n].s.errors = 0
      BY ONLY <2>1, <2>2, p \in {"viewPure", "smt", "standard"}, LateCheck
    <2> QED
      BY <2>1, <2>3
  <1>5. N \in S
    <2>1. \A k \in 1..N : k - 1 \in S => k \in S
      BY <1>4
    <2>2. N \in 0..N
      BY <1>2
    <2> HIDE DEF S, N
    <2> QED
      BY ONLY <1>2, <1>3, <2>1, <2>2, CountingUp
  <1> QED
    BY <1>1, <1>5 DEF IsPhase

(* A phase without errors meets no fault of its own.                       *)
LEMMA NoFault ==
    ASSUME NEW g, NEW u, NEW v, NEW b, IsOrder(b.order), NEW p, IsClean(g, u, v, b, p)
    PROVE  \A n \in 1..Len(b.order) : ~Faulty(p, Ast(b, b.order[n]))
  <1> SUFFICES ASSUME NEW n \in 1..Len(b.order) PROVE ~Faulty(p, Ast(b, b.order[n]))
    OBVIOUS
  <1>1. n - 1 \in 0..Len(b.order)
    BY DEF IsOrder
  <1>2. ~FindsError(g[n - 1], p, b.order[n]) /\ g[n - 1].sources = b.sources
    BY <1>1 DEF IsClean, AnalysisFrame
  <1> QED
    BY <1>2 DEF FindsError, Ast

(* Most phases record nothing.                                             *)
LEMMA SteadyPhase ==
    ASSUME NEW g, NEW u, NEW v, NEW b, IsOrder(b.order), NEW p, IsClean(g, u, v, b, p),
           p \notin {"register", "imports", "resolve"}
    PROVE  v = u
  <1> DEFINE N == Len(b.order)
             S == {n \in 0..N : g[n] = u}
  <1>1. N \in Nat
    BY DEF IsOrder
  <1>2. 0 \in S
    BY <1>1 DEF IsClean
  <1>3. \A k \in 1..N : k - 1 \in S => k \in S
    <2> SUFFICES ASSUME NEW k \in 1..N, k - 1 \in S PROVE k \in S
      OBVIOUS
    <2>1. g[k] = Record(u, p, b.order[k]) /\ k \in 0..N
      BY <1>1 DEF IsClean
    <2> QED
      BY <2>1 DEF Record
  <1>4. N \in S
    <2>1. N \in 0..N
      BY <1>1
    <2> HIDE DEF S, N
    <2> QED
      BY ONLY <1>1, <1>2, <1>3, <2>1, CountingUp
  <1> QED
    BY <1>4 DEF IsClean

(* registerDeclarations: every source has a scope.                         *)
LEMMA RegisterPhase ==
    ASSUME NEW g, NEW u, NEW v, NEW b, IsOrder(b.order), IsClean(g, u, v, b, "register")
    PROVE  \A n \in 1..Len(b.order) : b.order[n] \in DOMAIN v.scopes
  <1> DEFINE N == Len(b.order)
             S == {n \in 0..N : \A j \in 1..N : j <= n => b.order[j] \in DOMAIN g[n].scopes}
  <1>1. N \in Nat
    BY DEF IsOrder
  <1>2. 0 \in S
    BY <1>1
  <1>3. \A k \in 1..N : k - 1 \in S => k \in S
    <2> SUFFICES ASSUME NEW k \in 1..N, k - 1 \in S PROVE k \in S
      OBVIOUS
    <2>1. PICK x, y : x = g[k - 1] /\ y = g[k]
      OBVIOUS
    <2>2. y = Record(x, "register", b.order[k]) /\ k \in 0..N /\ DOMAIN x = Fields
      BY <1>1, <2>1 DEF IsClean, AnalysisFrame, ReporterInv
    <2>3. PICK z : y = [x EXCEPT !.scopes = Put(@, b.order[k], z)]
      BY <2>2 DEF Record
    <2>4. y.scopes = Put(x.scopes, b.order[k], z)
      BY <2>2, <2>3 DEF Fields
    <2>5. DOMAIN y.scopes = DOMAIN x.scopes \cup {b.order[k]}
      BY <2>4 DEF Put
    <2>6. \A j \in 1..N : j <= k => (j <= k - 1 \/ j = k)
      BY <1>1
    <2> QED
      BY <2>1, <2>2, <2>5, <2>6
  <1>4. N \in S
    <2>1. N \in 0..N
      BY <1>1
    <2> HIDE DEF S, N
    <2> QED
      BY ONLY <1>1, <1>2, <1>3, <2>1, CountingUp
  <1>5. \A j \in 1..N : j <= N
    BY <1>1
  <1> QED
    BY <1>4, <1>5 DEF IsClean

(* No name for two contracts.                                              *)
ClashFree(scope) == \A c, d \in scope : c[2] = d[2] => c = d

(* performImports on the first i sources of the order.                     *)
Imported(scopes, b, i) ==
    /\ \A j \in 1..Len(b.order) : b.order[j] \in DOMAIN scopes
    /\ \A j \in 1..Len(b.order) : j <= i => ClashFree(scopes[b.order[j]])
    /\ \A j, k \in 1..Len(b.order) :
           (j <= i /\ k < j /\ b.order[k] \in ToSet(Imports[Ast(b, b.order[j])])) =>
               scopes[b.order[k]] \subseteq scopes[b.order[j]]

(* performImports on one more.                                             *)
LEMMA OneImported ==
    ASSUME NEW b, IsOrder(b.order),
           \A i, j \in 1..Len(b.order) : b.order[i] = b.order[j] => i = j,
           NEW i \in 1..Len(b.order), NEW x, NEW y, AnalysisFrame(b, x), Imported(x.scopes, b, i - 1),
           y = Record(x, "imports", b.order[i]), ~FindsError(x, "imports", b.order[i])
    PROVE  Imported(y.scopes, b, i)
  <1> DEFINE N == Len(b.order)
             n == b.order[i]
             W == Visible(x, n)
  <1>1. N \in Nat /\ i \in 1..N
    BY DEF IsOrder
  <1>2. y.scopes = [x.scopes EXCEPT ![n] = W]
    <2>1. DOMAIN x = Fields
      BY DEF AnalysisFrame, ReporterInv
    <2>2. y = [x EXCEPT !.scopes = [x.scopes EXCEPT ![n] = W]]
      BY DEF Record
    <2> HIDE DEF W, n
    <2> QED
      BY <2>1, <2>2 DEF Fields
  <1>3. ClashFree(W)
    BY DEF FindsError, NameClash, ClashFree
  <1>4. W = x.scopes[n] \cup UNION {x.scopes[m] : m \in ToSet(Imports[Ast(b, n)]) \cap DOMAIN x.scopes}
    BY DEF Visible, Ast, AnalysisFrame
  <1> HIDE DEF W
  <1>5. /\ \A j \in 1..N : b.order[j] \in DOMAIN x.scopes
        /\ \A j \in 1..N : j <= i - 1 => ClashFree(x.scopes[b.order[j]])
        /\ \A j, k \in 1..N :
              (j <= i - 1 /\ k < j /\ b.order[k] \in ToSet(Imports[Ast(b, b.order[j])])) =>
                  x.scopes[b.order[k]] \subseteq x.scopes[b.order[j]]
    BY DEF Imported
  <1>6. \A j \in 1..N : y.scopes[b.order[j]] = IF j = i THEN W ELSE x.scopes[b.order[j]]
    BY <1>1, <1>2, <1>5
  <1>7. DOMAIN y.scopes = DOMAIN x.scopes
    BY <1>2
  <1>8. \A j \in 1..N : j <= i => (j <= i - 1 /\ j # i) \/ j = i
    BY <1>1
  <1>9. ASSUME NEW j \in 1..N, j <= i PROVE ClashFree(y.scopes[b.order[j]])
    BY <1>3, <1>5, <1>6, <1>8, <1>9
  <1>10. ASSUME NEW j \in 1..N, NEW k \in 1..N, j <= i, k < j,
                b.order[k] \in ToSet(Imports[Ast(b, b.order[j])])
         PROVE  y.scopes[b.order[k]] \subseteq y.scopes[b.order[j]]
    <2>1. k # i /\ y.scopes[b.order[k]] = x.scopes[b.order[k]]
      BY <1>1, <1>6, <1>10
    <2>2. CASE j = i
      <3>1. y.scopes[b.order[j]] = W
        BY <1>6, <2>2
      <3>2. x.scopes[b.order[k]] \subseteq W
        BY <1>4, <1>5, <1>10, <2>2
      <3> QED
        BY <2>1, <3>1, <3>2
    <2>3. CASE j # i
      <3>1. j <= i - 1 /\ y.scopes[b.order[j]] = x.scopes[b.order[j]]
        BY <1>6, <1>8, <1>10, <2>3
      <3> QED
        BY <1>5, <1>10, <2>1, <3>1
    <2> QED
      BY <2>2, <2>3
  <1> QED
    BY <1>5, <1>7, <1>9, <1>10 DEF Imported

(* performImports on all.                                                  *)
LEMMA ImportsPhase ==
    ASSUME NEW g, NEW u, NEW v, NEW b, IsOrder(b.order), IsClean(g, u, v, b, "imports"),
           \A i, j \in 1..Len(b.order) : b.order[i] = b.order[j] => i = j,
           \A n \in 1..Len(b.order) : b.order[n] \in DOMAIN u.scopes
    PROVE  Imported(v.scopes, b, Len(b.order))
  <1> DEFINE N == Len(b.order)
             S == {n \in 0..N : Imported(g[n].scopes, b, n)}
  <1>1. N \in Nat
    BY DEF IsOrder
  <1>2. 0 \in S
    <2>1. g[0] = u /\ 0 \in 0..N /\ \A j \in 1..N : ~(j <= 0)
      BY <1>1 DEF IsClean
    <2>2. Imported(u.scopes, b, 0)
      BY <2>1 DEF Imported
    <2> QED
      BY <2>1, <2>2
  <1>3. \A k \in 1..N : k - 1 \in S => k \in S
    <2> SUFFICES ASSUME NEW k \in 1..N, k - 1 \in S PROVE k \in S
      OBVIOUS
    <2>1. k \in 0..N /\ k - 1 \in 0..N
      BY <1>1
    <2>2. /\ g[k] = Record(g[k - 1], "imports", b.order[k])
          /\ ~FindsError(g[k - 1], "imports", b.order[k])
          /\ AnalysisFrame(b, g[k - 1]) /\ Imported(g[k - 1].scopes, b, k - 1)
      BY <2>1 DEF IsClean
    <2>3. Imported(g[k].scopes, b, k)
      BY <2>2, OneImported
    <2> QED
      BY <2>1, <2>3
  <1>4. N \in S
    <2>1. N \in 0..N
      BY <1>1
    <2> HIDE DEF S, N
    <2> QED
      BY ONLY <1>1, <1>2, <1>3, <2>1, CountingUp
  <1> QED
    BY <1>4 DEF IsClean

(* resolveNamesAndTypes: every contract has an entry, every name is found. *)
LEMMA ResolvePhase ==
    ASSUME NEW g, NEW u, NEW v, NEW b, IsOrder(b.order), IsClean(g, u, v, b, "resolve")
    PROVE  /\ v.scopes = u.scopes
           /\ DOMAIN v.contracts = AllContracts(b)
           /\ \A n \in 1..Len(b.order) : ~Unresolved(v, b.order[n])
  <1> DEFINE N == Len(b.order)
             Has(x, n) == \A j \in 1..N : j <= n => ToSet(ContractsOf(b, b.order[j])) \subseteq DOMAIN x.contracts
             S == {n \in 0..N : g[n].scopes = u.scopes /\ Has(g[n], n)}
  <1>1. N \in Nat /\ DOMAIN b.order = 1..N
    BY DEF IsOrder
  <1>2. 0 \in S
    BY <1>1 DEF IsClean
  <1>3. \A k \in 1..N : k - 1 \in S => k \in S
    <2> SUFFICES ASSUME NEW k \in 1..N, k - 1 \in S PROVE k \in S
      OBVIOUS
    <2>1. PICK x, y : x = g[k - 1] /\ y = g[k]
      OBVIOUS
    <2>2. /\ y = Record(x, "resolve", b.order[k]) /\ k \in 0..N /\ DOMAIN x = Fields
          /\ x.sources = b.sources /\ x.scopes = u.scopes /\ Has(x, k - 1)
      BY <1>1, <2>1 DEF IsClean, AnalysisFrame, ReporterInv
    <2> DEFINE C == ToSet(ContractsOf(b, b.order[k]))
               new == [c \in DOMAIN x.contracts \cup C |-> IF c \in DOMAIN x.contracts THEN x.contracts[c] ELSE NoEntry]
    <2>3. ContractsOf(x, b.order[k]) = ContractsOf(b, b.order[k])
      BY <2>2 DEF ContractsOf, Ast
    <2>4. y = [x EXCEPT !.contracts = new]
      BY <2>2, <2>3 DEF Record, NoEntry
    <2>5. DOMAIN new = DOMAIN x.contracts \cup C
      OBVIOUS
    <2> HIDE DEF new
    <2>6. y.contracts = new /\ y.scopes = x.scopes
      BY <2>2, <2>4 DEF Fields
    <2>7. \A j \in 1..N : j <= k => (j <= k - 1 \/ j = k)
      BY <1>1
    <2>8. Has(y, k)
      BY <2>2, <2>5, <2>6, <2>7
    <2> QED
      BY <2>1, <2>2, <2>6, <2>8
  <1>4. \A n \in 0..N : n \in S
    <2> HIDE DEF S, N
    <2> QED
      BY ONLY <1>1, <1>2, <1>3, CountingUp
  <1>5. g[N] = v /\ AnalysisFrame(b, v) /\ N \in 0..N /\ \A j \in 1..N : j <= N
    BY <1>1 DEF IsClean
  <1>6. v.scopes = u.scopes /\ Has(v, N)
    BY <1>4, <1>5
  <1>7. DOMAIN v.contracts = AllContracts(b)
    <2>1. AllContracts(b) \subseteq DOMAIN v.contracts
      BY <1>1, <1>5, <1>6 DEF AllContracts
    <2>2. DOMAIN v.contracts \subseteq AllContracts(b)
      BY <1>5 DEF AnalysisFrame
    <2> QED
      BY <2>1, <2>2
  <1>8. ASSUME NEW n \in 1..N PROVE ~Unresolved(v, b.order[n])
    <2>1. n - 1 \in 0..N
      BY <1>1
    <2>2. /\ ~FindsError(g[n - 1], "resolve", b.order[n]) /\ g[n - 1].scopes = u.scopes
          /\ g[n - 1].sources = b.sources /\ v.sources = b.sources
      BY <1>4, <1>5, <2>1 DEF IsClean, AnalysisFrame
    <2> QED
      BY <1>6, <2>2 DEF FindsError, Unresolved, Ast
  <1> QED
    BY <1>6, <1>7, <1>8

(* Trees and imports are matters of the sources alone.                     *)
LEMMA SourcesOnly ==
    ASSUME NEW s, NEW t, t.sources = s.sources
    PROVE  /\ AllGood(s) => AllGood(t)
           /\ ResolveImports(t) = ResolveImports(s)
           /\ \A n : Ast(t, n) = Ast(s, n) /\ ContractsOf(t, n) = ContractsOf(s, n)
           /\ t.order = s.order => AllContracts(t) = AllContracts(s)
  <1>1. \A n : Ast(t, n) = Ast(s, n)
    BY DEF Ast
  <1>2. \A n : ContractsOf(t, n) = ContractsOf(s, n)
    BY <1>1 DEF ContractsOf
  <1>3. AllGood(s) => AllGood(t)
    BY <1>1 DEF AllGood, SourcesInv, TreeGood, Known
  <1>4. ResolveImports(t) = ResolveImports(s)
    BY DEF ResolveImports, Known
  <1> QED
    BY <1>1, <1>2, <1>3, <1>4 DEF AllContracts

(* A scope holds what the scopes of the imports finished before hold, and  *)
(* the scopes on a circle of imports hold each other: in what is visible   *)
(* no name is used twice, because in no scope it is.                       *)
LEMMA NoClash ==
    ASSUME NEW b, AllGood(b), b.order = ResolveImports(b), NEW v, v.sources = b.sources,
           Imported(v.scopes, b, Len(b.order)), NEW i \in 1..Len(b.order)
    PROVE  ~NameClash(v, b.order[i])
  <1>1. PICK o, g, F : o = b.order /\ g = ImportGraph(b) /\ F = v.scopes
    OBVIOUS
  <1>2. Searched(o, NoLibraries(b), g) /\ DOMAIN g = DOMAIN b.sources
    BY <1>1, OrderSearched
  <1>3. /\ o \in Seq(DOMAIN b.sources)
        /\ \A k \in 1..Len(o) : \A m \in Successors(g, o[k]) : \E j \in 1..Len(o) : o[j] = m
        /\ \A m \in Successors(g, o[i]) : By(o, i, m) \/ Beneath(o, g, m, o[i])
        /\ \A m, k \in Successors(g, o[i]) :
               By(o, i, m) \/ By(o, i, k) \/ Beneath(o, g, m, k) \/ Beneath(o, g, k, m)
    BY <1>1, <1>2 DEF Searched
  <1>4. Len(o) \in Nat /\ i \in 1..Len(o) /\ \A k \in 1..Len(o) : o[k] \in DOMAIN b.sources
    <2>1. o \in Seq(DOMAIN b.sources)
      BY <1>3
    <2>2. i \in 1..Len(o)
      BY <1>1
    <2> QED
      BY ONLY <2>1, <2>2, SetOfSeq
  <1>5. \A k \in 1..Len(o) : Successors(g, o[k]) = ToSet(Imports[Ast(b, o[k])])
    BY <1>1, <1>4, GoodTrees
  <1>6. /\ \A j \in 1..Len(o) : ClashFree(F[o[j]])
        /\ \A j, k \in 1..Len(o) : (k < j /\ o[k] \in Successors(g, o[j])) => F[o[k]] \subseteq F[o[j]]
    <2>1. \A j \in 1..Len(o) : j <= Len(o)
      BY <1>4
    <2> QED
      BY <1>1, <1>5, <2>1 DEF Imported
  <1>7. ASSUME NEW x \in 1..Len(o), NEW y, Beneath(o, g, o[x], y)
        PROVE  F[y] \subseteq F[o[x]]
    <2> DEFINE S == {z \in DOMAIN g : F[z] \subseteq F[o[x]]}
    <2>1. S \in SUBSET DOMAIN g /\ o[x] \in S
      BY <1>2, <1>4
    <2>2. \A k, j \in 1..Len(o) :
             (k < j /\ o[j] \in S /\ o[k] \in Successors(g, o[j])) => o[k] \in S
      <3> SUFFICES ASSUME NEW k \in 1..Len(o), NEW j \in 1..Len(o), k < j, o[j] \in S,
                          o[k] \in Successors(g, o[j])
                   PROVE  o[k] \in S
        OBVIOUS
      <3>1. F[o[k]] \subseteq F[o[j]] /\ F[o[j]] \subseteq F[o[x]]
        BY <1>6
      <3> QED
        BY <1>2, <1>4, <3>1
    <2>3. y \in S
      <3> HIDE DEF S
      <3> QED
        BY ONLY <1>7, <2>1, <2>2 DEF Beneath
    <2> QED
      BY <2>3
  <1> DEFINE Scopes == {o[i]} \cup Successors(g, o[i])
  <1>8. \A m \in Successors(g, o[i]) : By(o, i, m) => F[m] \subseteq F[o[i]]
    <2> SUFFICES ASSUME NEW m \in Successors(g, o[i]), By(o, i, m) PROVE F[m] \subseteq F[o[i]]
      OBVIOUS
    <2>1. PICK j \in 1..Len(o) : j <= i /\ o[j] = m
      BY DEF By
    <2>2. CASE j = i
      BY <2>1, <2>2
    <2>3. CASE j < i
      BY <1>4, <1>6, <2>1, <2>3
    <2> QED
      BY <1>4, <2>1, <2>2, <2>3
  <1>9. \A m \in Successors(g, o[i]) : ~By(o, i, m) => F[o[i]] \subseteq F[m]
    BY <1>3, <1>4, <1>7
  <1>10. \A m, k \in Successors(g, o[i]) :
            (~By(o, i, m) /\ ~By(o, i, k)) => (F[m] \subseteq F[k] \/ F[k] \subseteq F[m])
    <2> SUFFICES ASSUME NEW m \in Successors(g, o[i]), NEW k \in Successors(g, o[i]),
                        ~By(o, i, m), ~By(o, i, k)
                 PROVE  F[m] \subseteq F[k] \/ F[k] \subseteq F[m]
      OBVIOUS
    <2>1. PICK x \in 1..Len(o) : o[x] = m
      BY <1>3, <1>4
    <2>2. PICK y \in 1..Len(o) : o[y] = k
      BY <1>3, <1>4
    <2>3. Beneath(o, g, o[x], o[y]) \/ Beneath(o, g, o[y], o[x])
      BY <1>3, <2>1, <2>2
    <2>4. F[o[y]] \subseteq F[o[x]] \/ F[o[x]] \subseteq F[o[y]]
      BY ONLY <1>7, <2>3, x \in 1..Len(o), y \in 1..Len(o)
    <2> QED
      BY <2>1, <2>2, <2>4
  <1>11. \A m, k \in Scopes : \E z \in Scopes : F[m] \subseteq F[z] /\ F[k] \subseteq F[z]
    BY ONLY <1>8, <1>9, <1>10
  <1>12. \A z \in Scopes : ClashFree(F[z])
    <2>1. \A z \in Scopes : \E j \in 1..Len(o) : o[j] = z
      BY ONLY <1>3, <1>4
    <2> HIDE DEF Scopes
    <2> QED
      BY ONLY <1>6, <2>1
  <1>13. \A c \in Visible(v, o[i]) : \E m \in Scopes : c \in F[m]
    <2>1. Ast(v, o[i]) = Ast(b, o[i])
      BY DEF Ast
    <2>2. Visible(v, o[i]) = F[o[i]] \cup UNION {F[m] : m \in Successors(g, o[i]) \cap DOMAIN F}
      BY <1>1, <1>4, <1>5, <2>1 DEF Visible
    <2> QED
      BY ONLY <2>2
  <1> HIDE DEF Scopes
  <1>14. \A c, d \in Visible(v, o[i]) : c[2] = d[2] => c = d
    <2> SUFFICES ASSUME NEW c \in Visible(v, o[i]), NEW d \in Visible(v, o[i]), c[2] = d[2] PROVE c = d
      OBVIOUS
    <2>1. PICK m \in Scopes : c \in F[m]
      BY <1>13
    <2>2. PICK k \in Scopes : d \in F[k]
      BY <1>13
    <2>3. PICK z \in Scopes : F[m] \subseteq F[z] /\ F[k] \subseteq F[z]
      BY <1>11
    <2> QED
      BY <1>12, <2>1, <2>2, <2>3 DEF ClashFree
  <1> QED
    BY <1>1, <1>14 DEF NameClash

(* No error in the list, no fault in the sources, no clash, no name that   *)
(* is not in scope.                                                        *)
Clean(s) ==
    /\ s.errors = 0
    /\ \A i \in DOMAIN s.order :
           /\ Fault[Ast(s, s.order[i])].phase = "none"
           /\ ~NameClash(s, s.order[i]) /\ ~Unresolved(s, s.order[i])

(* The analysis, phase by phase.                                           *)
IsAnalysis(f, b) ==
    /\ f[0] = [s |-> b, ok |-> TRUE, ended |-> "no"]
    /\ \A k \in 1..13 : f[k] = RunPhase(f[k - 1], AnalysisPhases[k])
    /\ \A k \in 0..13 : AnalysisInv(f[k], b)

(* When all phases answer true, none found an error.                       *)
LEMMA AllPhasesClean ==
    ASSUME NEW f, NEW b, IsAnalysis(f, b), AllGood(b), IsOrder(b.order), Fine(f[13]),
           b.order = <<>> => b.errors = 0,
           \A i \in DOMAIN b.order : b.order[i] \in DOMAIN b.sources
    PROVE  /\ f[13].s.errors = 0
           /\ \A k \in 1..13 : \E g : IsClean(g, f[k - 1].s, f[k].s, b, AnalysisPhases[k])
  <1>0. /\ 13 \in Nat
        /\ \A k \in 1..13 : k - 1 \in 0..13 /\ k \in 0..13
        /\ 13 \in 0..13 /\ 12 \in 0..13 /\ 11 \in 0..13 /\ 10 \in 0..13 /\ 9 \in 0..13
        /\ 13 \in 1..13 /\ 12 \in 1..13 /\ 11 \in 1..13 /\ 10 \in 1..13
        /\ 13 - 1 = 12 /\ 12 - 1 = 11 /\ 11 - 1 = 10 /\ 10 - 1 = 9
    OBVIOUS
  <1>1. \A k \in 1..13 : /\ AnalysisInv(f[k - 1], b) /\ AnalysisInv(f[k], b)
                         /\ f[k] = RunPhase(f[k - 1], AnalysisPhases[k])
    BY <1>0 DEF IsAnalysis
  <1>2. \A k \in 0..13 : Fine(f[k])
    <2> DEFINE S == {k \in 0..13 : Fine(f[k])}
    <2>1. \A k \in 1..13 : k \in S => k - 1 \in S
      <3> SUFFICES ASSUME NEW k \in 1..13, k \in S PROVE k - 1 \in S
        OBVIOUS
      <3>1. Fine(RunPhase(f[k - 1], AnalysisPhases[k]))
        BY <1>1
      <3>2. AnalysisInv(f[k - 1], b) /\ k - 1 \in 0..13
        BY <1>0, <1>1
      <3>3. Fine(f[k - 1])
        BY ONLY <3>1, <3>2, IsOrder(b.order), FinePhase
      <3> QED
        BY <3>2, <3>3
    <2>2. 13 \in S
      BY <1>0
    <2>3. \A k \in 0..13 : k \in S
      <3> HIDE DEF S
      <3> QED
        BY ONLY <1>0, <2>1, <2>2, CountingDown
    <2> QED
      BY <2>3
  <1>3. \A i \in DOMAIN b.order : Ast(b, b.order[i]) \in Texts
    BY GoodTrees
  <1>4. /\ AnalysisPhases[10] = "static" /\ AnalysisPhases[11] = "viewPure"
        /\ AnalysisPhases[12] = "smt" /\ AnalysisPhases[13] = "standard"
    BY DEF AnalysisPhases
  <1>5. f[10].s.errors = 0
    <2>1. AnalysisInv(f[9], b) /\ f[10] = RunPhase(f[9], "static") /\ Fine(f[10])
      BY <1>0, <1>1, <1>2, <1>4
    <2> QED
      BY <2>1, StaticPhase
  <1>6. f[11].s.errors = 0
    <2>1. AnalysisInv(f[10], b) /\ f[11] = RunPhase(f[10], "viewPure") /\ Fine(f[11])
      BY <1>0, <1>1, <1>2, <1>4
    <2> QED
      BY <1>3, <1>5, <2>1, LatePhase
  <1>7. f[12].s.errors = 0
    <2>1. AnalysisInv(f[11], b) /\ f[12] = RunPhase(f[11], "smt") /\ Fine(f[12])
      BY <1>0, <1>1, <1>2, <1>4
    <2> QED
      BY <1>3, <1>6, <2>1, LatePhase
  <1>8. f[13].s.errors = 0
    <2>1. AnalysisInv(f[12], b) /\ f[13] = RunPhase(f[12], "standard") /\ Fine(f[13])
      BY <1>0, <1>1, <1>2, <1>4
    <2> QED
      BY <1>3, <1>7, <2>1, LatePhase
  <1>9. ASSUME NEW k \in 1..13, f[k].s.errors = 0
        PROVE  /\ f[k - 1].s.errors = 0
               /\ \E g : IsClean(g, f[k - 1].s, f[k].s, b, AnalysisPhases[k])
    <2>1. /\ AnalysisInv(f[k - 1], b) /\ f[k] = RunPhase(f[k - 1], AnalysisPhases[k])
          /\ Fine(f[k])
      BY <1>0, <1>1, <1>2
    <2> QED
      BY ONLY <1>9, <2>1, IsOrder(b.order), GoodPhase
  <1>10. \A k \in 0..13 : f[k].s.errors = 0
    <2> DEFINE S == {k \in 0..13 : f[k].s.errors = 0}
    <2>1. \A k \in 1..13 : k \in S => k - 1 \in S
      BY <1>0, <1>9
    <2>2. 13 \in S
      BY <1>0, <1>8
    <2>3. \A k \in 0..13 : k \in S
      <3> HIDE DEF S
      <3> QED
        BY ONLY <1>0, <2>1, <2>2, CountingDown
    <2> QED
      BY <2>3
  <1> QED
    BY <1>0, <1>8, <1>9, <1>10

(* A successful analysis leaves clean sources and an entry per contract.   *)
LEMMA AnalysisClean ==
    ASSUME NEW f, NEW b, IsAnalysis(f, b), AllGood(b), b.order = ResolveImports(b), Fine(f[13]),
           b.order = <<>> => b.errors = 0
    PROVE  Clean(f[13].s) /\ DOMAIN f[13].s.contracts = AllContracts(b)
  <1>1. /\ IsOrder(b.order)
        /\ \A i \in 1..Len(b.order) : b.order[i] \in DOMAIN b.sources
        /\ \A i, j \in 1..Len(b.order) : b.order[i] = b.order[j] => i = j
        /\ DOMAIN b.order = 1..Len(b.order)
    BY OrderFacts DEF IsOrder
  <1>2. /\ f[13].s.errors = 0
        /\ \A k \in 1..13 : \E g : IsClean(g, f[k - 1].s, f[k].s, b, AnalysisPhases[k])
    BY <1>1, AllPhasesClean
  <1>3. /\ AnalysisPhases[1] = "syntax" /\ AnalysisPhases[2] = "docs" /\ AnalysisPhases[3] = "register"
        /\ AnalysisPhases[4] = "imports" /\ AnalysisPhases[5] = "resolve" /\ AnalysisPhases[6] = "types"
        /\ AnalysisPhases[7] = "postTypes" /\ AnalysisPhases[8] = "flow" /\ AnalysisPhases[9] = "flowCheck"
        /\ AnalysisPhases[10] = "static" /\ AnalysisPhases[11] = "viewPure"
        /\ AnalysisPhases[12] = "smt" /\ AnalysisPhases[13] = "standard"
    BY DEF AnalysisPhases
  <1>4. ASSUME NEW k \in 1..13, NEW n \in 1..Len(b.order)
        PROVE  ~Faulty(AnalysisPhases[k], Ast(b, b.order[n]))
    BY <1>1, <1>2, NoFault
  <1>5. ASSUME NEW n \in 1..Len(b.order) PROVE Fault[Ast(b, b.order[n])].phase = "none"
    <2>1. PICK t : t = Ast(b, b.order[n])
      OBVIOUS
    <2>2. t \in Texts /\ ~Faulty("parse", t)
      BY <1>1, <2>1, GoodTrees
    <2>3. Fault[t].phase \in
             {"none", "parse", "syntax", "docs", "register", "imports", "resolve", "types",
              "postTypes", "flow", "flowCheck", "static", "viewPure"}
      BY <2>2, SourcesAssumption, Zenon
    <2>4. \A k \in 1..13 : Fault[t].phase # AnalysisPhases[k]
      BY <1>4, <2>1 DEF Faulty
    <2>5. /\ Fault[t].phase # AnalysisPhases[1] /\ Fault[t].phase # AnalysisPhases[2]
          /\ Fault[t].phase # AnalysisPhases[3] /\ Fault[t].phase # AnalysisPhases[4]
          /\ Fault[t].phase # AnalysisPhases[5] /\ Fault[t].phase # AnalysisPhases[6]
          /\ Fault[t].phase # AnalysisPhases[7] /\ Fault[t].phase # AnalysisPhases[8]
          /\ Fault[t].phase # AnalysisPhases[9] /\ Fault[t].phase # AnalysisPhases[10]
          /\ Fault[t].phase # AnalysisPhases[11]
      BY ONLY <2>4
    <2>6. Fault[t].phase # "parse"
      BY <2>2 DEF Faulty
    <2> QED
      BY ONLY <1>3, <2>1, <2>3, <2>5, <2>6
  <1> DEFINE u(k) == f[k].s
  <1>6. PICK g3 : IsClean(g3, u(2), u(3), b, "register")
    <2>1. 3 \in 1..13 /\ 3 - 1 = 2
      OBVIOUS
    <2>2. \E g : IsClean(g, f[3 - 1].s, f[3].s, b, AnalysisPhases[3])
      BY <1>2, <2>1
    <2> QED
      BY <1>3, <2>1, <2>2
  <1>7. PICK g4 : IsClean(g4, u(3), u(4), b, "imports")
    <2>1. 4 \in 1..13 /\ 4 - 1 = 3
      OBVIOUS
    <2>2. \E g : IsClean(g, f[4 - 1].s, f[4].s, b, AnalysisPhases[4])
      BY <1>2, <2>1
    <2> QED
      BY <1>3, <2>1, <2>2
  <1>8. PICK g5 : IsClean(g5, u(4), u(5), b, "resolve")
    <2>1. 5 \in 1..13 /\ 5 - 1 = 4
      OBVIOUS
    <2>2. \E g : IsClean(g, f[5 - 1].s, f[5].s, b, AnalysisPhases[5])
      BY <1>2, <2>1
    <2> QED
      BY <1>3, <2>1, <2>2
  <1>9. \A n \in 1..Len(b.order) : b.order[n] \in DOMAIN u(3).scopes
    BY <1>1, <1>6, RegisterPhase
  <1>10. Imported(u(4).scopes, b, Len(b.order))
    BY <1>1, <1>7, <1>9, ImportsPhase
  <1>11. /\ u(5).scopes = u(4).scopes
         /\ DOMAIN u(5).contracts = AllContracts(b)
         /\ \A n \in 1..Len(b.order) : ~Unresolved(u(5), b.order[n])
    BY <1>1, <1>8, ResolvePhase
  <1>12. ASSUME NEW k \in 6..13 PROVE f[k].s = f[k - 1].s
    <2>1. k \in 1..13
      OBVIOUS
    <2>2. PICK g : IsClean(g, f[k - 1].s, f[k].s, b, AnalysisPhases[k])
      BY <1>2, <2>1
    <2>3. AnalysisPhases[k] \notin {"register", "imports", "resolve"}
      BY <1>3
    <2> QED
      BY ONLY <1>1, <2>2, <2>3, SteadyPhase
  <1>13. u(13) = u(5)
    <2>1. /\ f[6].s = f[5].s /\ f[7].s = f[6].s /\ f[8].s = f[7].s /\ f[9].s = f[8].s
          /\ f[10].s = f[9].s /\ f[11].s = f[10].s /\ f[12].s = f[11].s /\ f[13].s = f[12].s
      BY <1>12, 6 - 1 = 5, 7 - 1 = 6, 8 - 1 = 7, 9 - 1 = 8, 10 - 1 = 9, 11 - 1 = 10, 12 - 1 = 11, 13 - 1 = 12
    <2> QED
      BY <2>1
  <1>14. u(13).sources = b.sources /\ u(13).order = b.order
    <2>1. AnalysisInv(f[13], b)
      BY DEF IsAnalysis
    <2> QED
      BY <2>1 DEF AnalysisInv, AnalysisFrame
  <1>15. Imported(u(13).scopes, b, Len(b.order))
    BY <1>10, <1>11, <1>13
  <1> HIDE DEF u
  <1>16. \A n \in 1..Len(b.order) : ~NameClash(u(13), b.order[n])
    BY <1>14, <1>15, NoClash
  <1>17. u(13).errors = 0
    BY <1>2 DEF u
  <1>18. Clean(u(13))
    BY <1>1, <1>5, <1>11, <1>13, <1>14, <1>16, <1>17 DEF Clean, Ast
  <1> QED
    BY <1>11, <1>13, <1>18 DEF u

(* The results of an analysis that is to come or has failed.               *)
ParsedInv(s) ==
    /\ AllGood(s)
    /\ s.order \in {<<>>, ResolveImports(s)}
    /\ s.order = <<>> => s.errors = 0
    /\ DOMAIN s.contracts \subseteq AllContracts(s)
    /\ \A c \in DOMAIN s.contracts : s.contracts[c] = NoEntry

(* The results of one that has succeeded.                                  *)
AnalysedInv(s) ==
    /\ AllGood(s)
    /\ s.order = ResolveImports(s)
    /\ DOMAIN s.contracts = AllContracts(s)
    /\ Clean(s)

(* analyze: it succeeds, or something is reported, or it throws.           *)
LEMMA AnalyzeEnds ==
    ASSUME NEW s, ReporterInv(s), s.state = "ParsingSuccessful", ParsedInv(s)
    PROVE  LET q == Analyze(s) IN
           /\ ReporterInv(q.s) /\ q.s.sources = s.sources /\ SameOptions(s, q.s)
           /\ \/ q.res = "thrown" /\ q.s.state = "ParsingSuccessful" /\ ParsedInv(q.s)
              \/ q.res = "false" /\ q.s.state = "ParsingSuccessful" /\ ParsedInv(q.s) /\ Reported(q.s)
              \/ /\ q.res = "true" /\ q.s.state = "AnalysisSuccessful" /\ AnalysedInv(q.s)
                 /\ \A c \in DOMAIN q.s.contracts : q.s.contracts[c] = NoEntry
  <1>1. PICK b, q : b = [s EXCEPT !.order = ResolveImports(s)] /\ q = Analyze(s)
    OBVIOUS
  <1>2. /\ SameReporter(s, b) /\ SameSettings(s, b) /\ b.sources = s.sources
        /\ b.order = ResolveImports(s) /\ b.contracts = s.contracts
    BY <1>1 DEF ReporterInv, SameReporter, SameSettings, Fields
  <1>3. /\ AllGood(b) /\ b.order = ResolveImports(b) /\ ReporterInv(b) /\ b.errors = s.errors
        /\ \A n : ContractsOf(b, n) = ContractsOf(s, n)
    BY <1>2, SourcesOnly, ReporterKept DEF ParsedInv, SameReporter
  <1>4. DOMAIN b.contracts \subseteq AllContracts(b) /\ \A c \in DOMAIN b.contracts : b.contracts[c] = NoEntry
    <2>1. CASE s.order = <<>>
      <3>1. DOMAIN s.order = {}
        BY <2>1
      <3>2. AllContracts(s) = {}
        BY <3>1 DEF AllContracts
      <3> QED
        BY <1>2, <3>2 DEF ParsedInv
    <2>2. CASE s.order = ResolveImports(s)
      BY <1>2, <1>3, <2>2 DEF ParsedInv, AllContracts
    <2> QED
      BY <2>1, <2>2 DEF ParsedInv
  <1>5. b.order = <<>> => b.errors = 0
    BY <1>2, <1>3 DEF ParsedInv
  <1>6. IsOrder(b.order)
    BY <1>3, OrderFacts DEF IsOrder
  <1>7. PICK f : /\ q = AnalyzeEnd(f[13])
                 /\ f[0] = [s |-> b, ok |-> TRUE, ended |-> "no"]
                 /\ \A n \in 1..13 : f[n] = RunPhase(f[n - 1], AnalysisPhases[n])
    <2>1. \E f : /\ Analyze(s) = AnalyzeEnd(f[Len(AnalysisPhases)])
                 /\ f[0] = [s |-> [s EXCEPT !.order = ResolveImports(s)], ok |-> TRUE, ended |-> "no"]
                 /\ \A n \in 1..Len(AnalysisPhases) : f[n] = RunPhase(f[n - 1], AnalysisPhases[n])
      BY AnalyzeLoop
    <2>2. Len(AnalysisPhases) = 13
      BY Lengths
    <2> QED
      BY ONLY <1>1, <2>1, <2>2
  <1>8. IsAnalysis(f, b)
    <2> DEFINE S == {k \in 0..13 : AnalysisInv(f[k], b)}
    <2>1. 0 \in S
      <3>1. AnalysisFrame(b, b)
        BY <1>3, <1>4 DEF AnalysisFrame, SameSettings
      <3>2. AnalysisInv(f[0], b)
        BY <1>7, <3>1 DEF AnalysisInv
      <3> QED
        BY <3>2
    <2>2. ASSUME NEW k \in 1..13, k - 1 \in S PROVE k \in S
      <3>1. AnalysisInv(f[k - 1], b) /\ f[k] = RunPhase(f[k - 1], AnalysisPhases[k]) /\ k \in 0..13
        BY <1>7, <2>2
      <3> QED
        BY <1>6, <3>1, PhaseKeeps
    <2>3. \A k \in 0..13 : k \in S
      <3>1. \A k \in 1..13 : k - 1 \in S => k \in S
        BY <2>2
      <3>2. 13 \in Nat
        OBVIOUS
      <3> HIDE DEF S
      <3> QED
        BY ONLY <2>1, <3>1, <3>2, CountingUp
    <2> QED
      BY <1>7, <2>3 DEF IsAnalysis
  <1>9. PICK a : a = f[13]
    OBVIOUS
  <1>10. AnalysisInv(a, b)
    BY <1>8, <1>9 DEF IsAnalysis
  <1>11. /\ ReporterInv(a.s) /\ a.s.sources = s.sources /\ a.s.order = b.order
         /\ SameSettings(s, a.s) /\ SameOptions(s, a.s) /\ a.s.state = "ParsingSuccessful"
         /\ DOMAIN a.s.contracts \subseteq AllContracts(a.s)
         /\ \A c \in DOMAIN a.s.contracts : a.s.contracts[c] = NoEntry
    <2>1. AnalysisFrame(b, a.s)
      BY <1>10 DEF AnalysisInv
    <2>2. a.s.sources = b.sources /\ a.s.order = b.order
      BY <2>1 DEF AnalysisFrame
    <2>3. AllContracts(a.s) = AllContracts(b)
      BY <2>2, SourcesOnly
    <2> QED
      BY <1>2, <2>1, <2>2, <2>3 DEF AnalysisFrame, SameSettings, SameOptions
  <1>12. AllGood(a.s) /\ a.s.order = ResolveImports(a.s)
    BY <1>2, <1>11, SourcesOnly DEF ParsedInv
  <1>13. ParsedInv(a.s)
    BY <1>5, <1>10, <1>11, <1>12 DEF ParsedInv, AnalysisInv
  <1>14. CASE a.ended = "thrown"
    <2>1. q.s = a.s /\ q.res = "thrown"
      BY <1>7, <1>9, <1>14 DEF AnalyzeEnd, Done
    <2> QED
      BY ONLY <1>1, <1>11, <1>13, <2>1
  <1>15. CASE a.ended # "thrown" /\ ~Fine(a)
    <2>1. q.s = a.s /\ q.res = "false"
      BY <1>7, <1>9, <1>15 DEF AnalyzeEnd, Done, Fine
    <2>2. Reported(a.s)
      BY <1>10, <1>15 DEF AnalysisInv, Fine
    <2> QED
      BY ONLY <1>1, <1>11, <1>13, <2>1, <2>2
  <1>16. CASE Fine(a)
    <2>1. PICK u : u = [a.s EXCEPT !.state = "AnalysisSuccessful"]
      OBVIOUS
    <2>2. q.s = u /\ q.res = "true"
      BY <1>7, <1>9, <1>16, <2>1 DEF AnalyzeEnd, Done, Fine
    <2>3. /\ SameReporter(a.s, u) /\ SameOptions(a.s, u) /\ SameResults(a.s, u)
          /\ u.sources = a.s.sources /\ u.state = "AnalysisSuccessful"
      <3>1. DOMAIN a.s = Fields
        BY <1>11 DEF ReporterInv
      <3> QED
        BY ONLY <2>1, <3>1, StateOnly
    <2>4. Clean(a.s) /\ DOMAIN a.s.contracts = AllContracts(b)
      <3>1. Fine(f[13]) /\ AllGood(b) /\ b.order = ResolveImports(b)
        BY <1>3, <1>9, <1>16
      <3>2. Clean(f[13].s) /\ DOMAIN f[13].s.contracts = AllContracts(b)
        BY ONLY <1>5, <1>8, <3>1, AnalysisClean
      <3> QED
        BY <1>9, <3>2
    <2>5. ReporterInv(u)
      BY <1>11, <2>3, ReporterKept
    <2>6. Clean(u)
      <3>1. /\ u.sources = a.s.sources /\ u.scopes = a.s.scopes /\ u.order = a.s.order
            /\ u.errors = a.s.errors
        BY <2>3 DEF SameReporter, SameResults
      <3>2. \A n : /\ Ast(u, n) = Ast(a.s, n)
                   /\ NameClash(u, n) => NameClash(a.s, n)
                   /\ Unresolved(u, n) => Unresolved(a.s, n)
        BY ONLY <3>1 DEF Ast, NameClash, Unresolved, Visible
      <3> QED
        BY ONLY <2>4, <3>1, <3>2 DEF Clean
    <2>7. AllGood(u) /\ u.order = ResolveImports(u) /\ AllContracts(u) = AllContracts(b)
      <3>1. u.sources = b.sources /\ u.order = b.order
        BY <1>2, <1>11, <2>3 DEF SameResults
      <3> QED
        BY <1>3, <3>1, SourcesOnly
    <2>8. AnalysedInv(u)
      BY <2>3, <2>4, <2>6, <2>7 DEF AnalysedInv, SameResults
    <2>9. SameOptions(s, u) /\ u.sources = s.sources
      BY <1>11, <2>3 DEF SameOptions
    <2>10. \A c \in DOMAIN u.contracts : u.contracts[c] = NoEntry
      BY <1>11, <2>3 DEF SameResults
    <2> QED
      BY ONLY <1>1, <2>2, <2>3, <2>5, <2>8, <2>9, <2>10
  <1> QED
    BY <1>14, <1>15, <1>16

-----------------------------------------------------------------------------
(* compile.                                                                *)

(* A list has finitely many elements.                                      *)
LEMMA FinitelyMany ==
    ASSUME NEW T, NEW q \in Seq(T)
    PROVE  IsFiniteSet({q[i] : i \in 1..Len(q)})
  <1> DEFINE X == {q[i] : i \in 1..Len(q)}
  <1>1. Len(q) \in Nat /\ DOMAIN q = 1..Len(q)
    OBVIOUS
  <1>2. q \in [1..Len(q) -> X]
    BY <1>1
  <1>3. \A x \in X : \E i \in 1..Len(q) : q[i] = x
    OBVIOUS
  <1> HIDE DEF X
  <1>4. q \in Surjection(1..Len(q), X)
    BY ONLY <1>2, <1>3 DEF Surjection
  <1>5. IsFiniteSet(1..Len(q))
    BY <1>1, FS_Interval
  <1>6. IsFiniteSet(X)
    BY ONLY <1>4, <1>5, FS_Surjection
  <1> QED
    BY <1>6 DEF X

(* The contracts of a source.                                              *)
LEMMA ContractsOfSource ==
    ASSUME NEW s, AllGood(s), NEW n \in DOMAIN s.sources
    PROVE  /\ ContractsOf(s, n) \in Seq(ToSet(ContractsOf(s, n)))
           /\ \A c : Listed(ContractsOf(s, n), c) <=> c \in ToSet(ContractsOf(s, n))
           /\ \A c \in ToSet(ContractsOf(s, n)) : c[1] = n /\ c[2] \in Contracts
  <1>1. PICK d, q : d = Declares[Ast(s, n)] /\ q = ContractsOf(s, n)
    OBVIOUS
  <1>2. d \in Seq(Contracts)
    <2>1. Declares \in [Texts -> Seq(Contracts)]
      BY SourcesAssumption, Zenon
    <2> QED
      BY <1>1, <2>1, GoodTrees
  <1>3. Len(d) \in Nat /\ DOMAIN d = 1..Len(d) /\ \A i \in 1..Len(d) : d[i] \in Contracts
    BY ONLY <1>2, SetOfSeq
  <1>4. q = [i \in 1..Len(d) |-> <<n, d[i]>>]
    BY <1>1, <1>3 DEF ContractsOf
  <1>5. DOMAIN q = 1..Len(d) /\ \A i \in 1..Len(d) : q[i] = <<n, d[i]>>
    BY <1>4
  <1>6. ToSet(q) = {q[i] : i \in 1..Len(d)}
    BY <1>5 DEF ToSet
  <1>7. q \in Seq(ToSet(q)) /\ Len(q) = Len(d)
    <2>1. q \in [1..Len(d) -> ToSet(q)]
      BY <1>4, <1>5, <1>6
    <2> QED
      BY ONLY <1>3, <2>1
  <1>8. \A c : Listed(q, c) <=> c \in ToSet(q)
    BY ONLY <1>6, <1>7 DEF Listed
  <1>9. \A c \in ToSet(q) : c[1] = n /\ c[2] \in Contracts
    BY <1>3, <1>5, <1>6
  <1> QED
    BY <1>1, <1>7, <1>8, <1>9

(* The list of all contracts.                                              *)
LEMMA ContractListed ==
    ASSUME NEW s, AllGood(s), s.order = ResolveImports(s)
    PROVE  /\ ContractList(s) \in Seq(AllContracts(s))
           /\ \A c \in AllContracts(s) : Listed(ContractList(s), c)
           /\ \A c \in AllContracts(s) : c[1] \in DOMAIN s.sources /\ c[2] \in Contracts
           /\ IsFiniteSet(AllContracts(s))
  <1>1. /\ Len(s.order) \in Nat /\ DOMAIN s.order = 1..Len(s.order)
        /\ \A i \in 1..Len(s.order) : s.order[i] \in DOMAIN s.sources
    BY OrderFacts
  <1>2. PICK f : /\ ContractList(s) = f[Len(s.order)]
                 /\ f[0] = <<>>
                 /\ \A n \in 1..Len(s.order) : f[n] = f[n - 1] \o ContractsOf(s, s.order[n])
    BY <1>1, ListLoop
  <1> DEFINE N == Len(s.order)
             Of(i) == ContractsOf(s, s.order[i])
             A == AllContracts(s)
             Has(q, i) == /\ q \in Seq(A)
                          /\ \A j \in 1..N : j <= i => \A c \in ToSet(Of(j)) : Listed(q, c)
             S == {i \in 0..N : Has(f[i], i)}
  <1>3. /\ \A i \in 1..N : ToSet(Of(i)) \subseteq A
        /\ \A c \in A : \E i \in 1..N : c \in ToSet(Of(i))
    BY <1>1 DEF AllContracts
  <1>4. \A i \in 1..N : /\ Of(i) \in Seq(ToSet(Of(i)))
                        /\ \A c : Listed(Of(i), c) <=> c \in ToSet(Of(i))
                        /\ \A c \in ToSet(Of(i)) : c[1] = s.order[i] /\ c[2] \in Contracts
    BY <1>1, ContractsOfSource
  <1> HIDE DEF A, Of
  <1>5. 0 \in S
    <2>1. f[0] \in Seq(A) /\ 0 \in 0..N /\ \A j \in 1..N : ~(j <= 0)
      BY <1>1, <1>2
    <2>2. Has(f[0], 0)
      BY <2>1
    <2> HIDE DEF Has
    <2> QED
      BY <2>1, <2>2
  <1>6. ASSUME NEW i \in 1..N, i - 1 \in S PROVE i \in S
    <2>1. PICK p, q : p = f[i - 1] /\ q = f[i]
      OBVIOUS
    <2>2. /\ q = p \o Of(i) /\ p \in Seq(A) /\ i \in 0..N
          /\ \A j \in 1..N : j <= i - 1 => \A c \in ToSet(Of(j)) : Listed(p, c)
      BY <1>1, <1>2, <1>6, <2>1 DEF Of
    <2>3. Of(i) \in Seq(A)
      BY <1>3, <1>4, WiderSeq
    <2>4. q \in Seq(A) /\ \A c : Listed(q, c) <=> (Listed(p, c) \/ Listed(Of(i), c))
      BY ONLY <2>2, <2>3, ConcatFacts
    <2>5. \A j \in 1..N : j <= i => (j <= i - 1 \/ j = i)
      BY <1>1
    <2>6. Has(q, i)
      BY <1>4, <2>2, <2>4, <2>5
    <2> HIDE DEF Has
    <2> QED
      BY <2>1, <2>2, <2>6
  <1>7. N \in S
    <2>1. \A k \in 1..N : k - 1 \in S => k \in S
      BY <1>6
    <2>2. N \in 0..N /\ N \in Nat
      BY <1>1
    <2> HIDE DEF S, N
    <2> QED
      BY ONLY <1>5, <2>1, <2>2, CountingUp
  <1>8. Has(ContractList(s), N)
    <2> HIDE DEF Has
    <2> QED
      BY <1>2, <1>7
  <1>9. ContractList(s) \in Seq(A) /\ \A c \in A : Listed(ContractList(s), c)
    <2>1. \A j \in 1..N : j <= N
      BY <1>1
    <2> QED
      BY <1>3, <1>8, <2>1
  <1>10. \A c \in A : c[1] \in DOMAIN s.sources /\ c[2] \in Contracts
    BY <1>1, <1>3, <1>4
  <1>11. IsFiniteSet(A)
    <2>1. PICK q : q = ContractList(s)
      OBVIOUS
    <2>2. q \in Seq(A) /\ \A c \in A : \E i \in 1..Len(q) : q[i] = c
      BY <1>9, <2>1 DEF Listed
    <2>3. A = {q[i] : i \in 1..Len(q)}
      <3>1. \A i \in 1..Len(q) : q[i] \in A
        BY <2>2
      <3> QED
        BY ONLY <2>2, <3>1
    <2>4. IsFiniteSet({q[i] : i \in 1..Len(q)})
      BY ONLY <2>2, FinitelyMany
    <2> QED
      BY ONLY <2>3, <2>4
  <1> QED
    BY <1>9, <1>10, <1>11 DEF A

(* What Only takes.                                                        *)
LEMMA TakenFrom ==
    ASSUME NEW T, NEW list \in Seq(T), NEW good
    PROVE  /\ Only(list, good) \in Seq(T)
           /\ \A x : Listed(Only(list, good), x) <=> (Listed(list, x) /\ x \in good)
  <1> DEFINE u == Only(list, good)
  <1>1. /\ u \in Seq(T \cap good)
        /\ \A j \in 1..Len(u) : \E i \in 1..Len(list) : u[j] = list[i]
        /\ \A i \in 1..Len(list) : list[i] \in good => \E j \in 1..Len(u) : u[j] = list[i]
    BY ONLY list \in Seq(T), OnlyFacts
  <1> HIDE DEF u
  <1>2. u \in Seq(T)
    <2>1. T \cap good \subseteq T
      OBVIOUS
    <2> QED
      BY ONLY <1>1, <2>1, WiderSeq
  <1>3. \A j \in 1..Len(u) : u[j] \in good
    <2>1. \A j \in 1..Len(u) : u[j] \in T \cap good
      BY ONLY <1>1, ElementOfSeq
    <2> QED
      BY <2>1
  <1>4. \A x : Listed(u, x) <=> (Listed(list, x) /\ x \in good)
    BY ONLY <1>1, <1>3 DEF Listed
  <1> QED
    BY <1>2, <1>4 DEF u

(* What the analysis has prepared.                                         *)
Prepared(s) ==
    AllGood(s) /\ s.order = ResolveImports(s) /\ DOMAIN s.contracts = AllContracts(s)

(* The contracts a contract creates, in the order of the sources.          *)
LEMMA DependencyFacts ==
    ASSUME NEW s, Prepared(s), NEW c
    PROVE  /\ DependencyOrder(s, c) \in Seq(DOMAIN s.contracts)
           /\ \A d : Listed(DependencyOrder(s, c), d) => (d \in DOMAIN s.contracts /\ d[2] \in Needs[c[2]])
           /\ \A d : d \in ToSet(DependencyOrder(s, c)) <=> Listed(DependencyOrder(s, c), d)
  <1>1. PICK q, G : /\ q = DependencyOrder(s, c)
                    /\ G = {d \in Dependencies(s, c) : Deployable(d)}
    OBVIOUS
  <1>2. q = Only(ContractList(s), G)
    BY <1>1 DEF DependencyOrder
  <1>3. ContractList(s) \in Seq(DOMAIN s.contracts)
    BY ContractListed DEF Prepared
  <1>4. q \in Seq(DOMAIN s.contracts) /\ \A x : Listed(q, x) => x \in G
    BY ONLY <1>2, <1>3, TakenFrom
  <1>5. \A x \in G : x[2] \in Needs[c[2]]
    BY <1>1 DEF Dependencies
  <1>6. /\ ToSet(q) = {q[i] : i \in 1..Len(q)}
        /\ \A i \in 1..Len(q) : q[i] \in DOMAIN s.contracts
    BY ONLY <1>4, SetOfSeq
  <1> QED
    BY ONLY <1>1, <1>4, <1>5, <1>6 DEF Listed

Creates(s) == [c \in DOMAIN s.contracts |-> DependencyOrder(s, c)]

(* No contract is created on a path from itself.                           *)
LEMMA NoCircle ==
    ASSUME NEW s, Prepared(s), NEW c \in DOMAIN s.contracts, NEW d \in Successors(Creates(s), c)
    PROVE  d # c /\ ~Reaches(Creates(s), d, c)
  <1>1. PICK depth \in [Contracts -> 0..Cardinality(Contracts)] :
            \A x \in Contracts : \A y \in Needs[x] : depth[y] < depth[x]
    BY SourcesAssumption, Zenon
  <1>2. Needs \in [Contracts -> SUBSET Contracts]
    BY SourcesAssumption, Zenon
  <1>3. \A x \in DOMAIN s.contracts : x[2] \in Contracts
    BY ContractListed DEF Prepared
  <1>4. \A x \in Contracts : depth[x] \in Int
    BY <1>1
  <1>5. ASSUME NEW x \in DOMAIN s.contracts, NEW y \in Successors(Creates(s), x)
        PROVE  y \in DOMAIN s.contracts /\ depth[y[2]] < depth[x[2]]
    <2>1. PICK q : q = DependencyOrder(s, x)
      OBVIOUS
    <2>2. Creates(s)[x] = q
      BY <2>1 DEF Creates
    <2>3. Listed(q, y)
      BY <2>2 DEF Successors, Listed
    <2>4. y \in DOMAIN s.contracts /\ y[2] \in Needs[x[2]]
      BY <2>1, <2>3, DependencyFacts
    <2> QED
      BY <1>1, <1>3, <2>4
  <1>6. d \in DOMAIN s.contracts /\ depth[d[2]] < depth[c[2]]
    BY <1>5
  <1>7. depth[d[2]] \in Int /\ depth[c[2]] \in Int
    BY <1>3, <1>4, <1>6
  <1>8. d # c
    BY <1>6, <1>7
  <1>9. ASSUME Reaches(Creates(s), d, c) PROVE FALSE
    <2> DEFINE S == {x \in DOMAIN s.contracts : depth[x[2]] <= depth[d[2]]}
    <2>1. DOMAIN Creates(s) = DOMAIN s.contracts
      BY DEF Creates
    <2>2. S \in SUBSET DOMAIN Creates(s) /\ d \in S
      BY <1>6, <1>7, <2>1
    <2>3. Closed(Creates(s), S)
      <3> SUFFICES ASSUME NEW x \in S, NEW y \in Successors(Creates(s), x) PROVE y \in S
        BY DEF Closed
      <3>1. y \in DOMAIN s.contracts /\ depth[y[2]] < depth[x[2]]
        BY <1>5
      <3>2. depth[x[2]] \in Int /\ depth[y[2]] \in Int
        BY <1>3, <1>4, <3>1
      <3> QED
        BY <1>7, <3>1, <3>2
    <2>4. c \in S
      <3> HIDE DEF S
      <3> QED
        BY ONLY <1>9, <2>2, <2>3 DEF Reaches
    <2> QED
      BY <1>6, <1>7, <2>4
  <1> QED
    BY <1>8, <1>9

(* compileContract: every wanted contract, after those it creates.         *)
LEMMA CompileOrderFacts ==
    ASSUME NEW s, Prepared(s)
    PROVE  LET o == CompileOrder(s) IN
           /\ o \in Seq(DOMAIN s.contracts) /\ Len(o) \in Nat
           /\ \A i \in 1..Len(o) : o[i] \in DOMAIN s.contracts
           /\ \A i, j \in 1..Len(o) : o[i] = o[j] => i = j
           /\ \A c \in DOMAIN s.contracts : (IsRequested(s, c) /\ Deployable(c)) => Listed(o, c)
           /\ \A i \in 1..Len(o) : \A d \in ToSet(DependencyOrder(s, o[i])) :
                  \E j \in 1..Len(o) : j < i /\ o[j] = d
  <1>1. PICK o, g, r, C : o = CompileOrder(s) /\ g = Creates(s) /\ r = Wanted(s) /\ C = DOMAIN s.contracts
    OBVIOUS
  <1>2. DOMAIN g = C /\ \A c \in C : g[c] = DependencyOrder(s, c)
    BY <1>1 DEF Creates
  <1>3. ContractList(s) \in Seq(C) /\ (\A c \in C : Listed(ContractList(s), c)) /\ IsFiniteSet(C)
    BY <1>1, ContractListed DEF Prepared
  <1>4. PICK W : W = {c \in C : IsRequested(s, c) /\ Deployable(c)}
    OBVIOUS
  <1>5. r = Only(ContractList(s), W)
    BY <1>1, <1>4 DEF Wanted
  <1>6. r \in Seq(C) /\ \A x : Listed(r, x) <=> (Listed(ContractList(s), x) /\ x \in W)
    BY ONLY <1>3, <1>5, TakenFrom
  <1>7. \A c \in C : g[c] \in Seq(C)
    BY <1>1, <1>2, DependencyFacts
  <1>8. Graph(r, g)
    BY ONLY <1>2, <1>3, <1>6, <1>7 DEF Graph
  <1>9. o = PostOrder(r, g)
    BY <1>1 DEF CompileOrder, Creates
  <1>10. Searched(o, r, g)
    BY ONLY <1>8, <1>9, SearchResult
  <1>11. /\ o \in Seq(C)
         /\ \A i, j \in 1..Len(o) : o[i] = o[j] => i = j
         /\ \A x \in 1..Len(r) : \E i \in 1..Len(o) : o[i] = r[x]
         /\ \A i \in 1..Len(o) : \A m \in Successors(g, o[i]) : By(o, i, m) \/ Beneath(o, g, m, o[i])
    BY ONLY <1>2, <1>10 DEF Searched
  <1>12. Len(o) \in Nat /\ \A i \in 1..Len(o) : o[i] \in C
    <2>1. o \in Seq(C)
      BY <1>11
    <2> QED
      BY ONLY <2>1, SetOfSeq
  <1>13. \A c \in C : (IsRequested(s, c) /\ Deployable(c)) => Listed(o, c)
    <2> SUFFICES ASSUME NEW c \in C, IsRequested(s, c) /\ Deployable(c) PROVE Listed(o, c)
      OBVIOUS
    <2>1. Listed(r, c)
      BY <1>3, <1>4, <1>6
    <2>2. PICK x \in 1..Len(r) : r[x] = c
      BY <2>1 DEF Listed
    <2> QED
      BY <1>11, <2>2 DEF Listed
  <1>14. ASSUME NEW i \in 1..Len(o), NEW d \in ToSet(DependencyOrder(s, o[i]))
         PROVE  \E j \in 1..Len(o) : j < i /\ o[j] = d
    <2>1. Listed(DependencyOrder(s, o[i]), d)
      BY DependencyFacts
    <2>2. d \in Successors(g, o[i])
      BY <1>2, <1>12, <2>1 DEF Successors, Listed
    <2>3. d # o[i] /\ ~Reaches(g, d, o[i])
      BY <1>1, <1>12, <2>2, NoCircle
    <2>4. By(o, i, d)
      BY <1>11, <2>2, <2>3, BeneathReaches
    <2>5. PICK j \in 1..Len(o) : j <= i /\ o[j] = d
      BY <2>4 DEF By
    <2>6. j < i
      BY <1>12, <2>3, <2>5
    <2> QED
      BY <2>5, <2>6
  <1> QED
    BY ONLY <1>1, <1>11, <1>12, <1>13, <1>14

(* An entry: its code is of a compilation up to g.                         *)
EntryInv(e, g) ==
    /\ DOMAIN e = {"compiler", "code", "linked", "map"}
    /\ e.code.gen \in Nat /\ e.code.gen <= g

(* The entry of a contract that the compilation gen of s has made, in the  *)
(* entries E.                                                              *)
Made(E, c, s, gen) ==
    /\ E[c].compiler = gen /\ E[c].map = s.contracts[c].map
    /\ E[c].code.gen = gen
    /\ E[c].code.text = Ast(s, c[1])
    /\ E[c].code.optimize = s.optimize /\ E[c].code.evm = s.evm
    /\ \A x \in E[c].code.embeds : x[1] \in DOMAIN E /\ x[2] = gen /\ E[x[1]].code.gen = gen

(* Code of compilation g embeds code of compilation g.                     *)
Together(E, g) ==
    \A c \in DOMAIN E :
        E[c].code.gen = g =>
            \A x \in E[c].code.embeds : x[1] \in DOMAIN E /\ x[2] = g /\ E[x[1]].code.gen = g

(* The loop of compile, after i contracts.                                 *)
CodeFrame(k, s) ==
    /\ DOMAIN k = {"s", "thrown"}
    /\ DOMAIN k.s = Fields
    /\ k.s.sources = s.sources /\ k.s.order = s.order /\ k.s.scopes = s.scopes
    /\ k.s.optimize = s.optimize /\ k.s.evm = s.evm /\ k.s.compiles = s.compiles + 1
    /\ DOMAIN k.s.contracts = DOMAIN s.contracts
    /\ \A c \in DOMAIN s.contracts : EntryInv(k.s.contracts[c], s.compiles + 1)
    /\ Together(k.s.contracts, s.compiles + 1)

CodeInv(k, s, i) ==
    /\ CodeFrame(k, s)
    /\ ~k.thrown =>
           /\ \A j \in 1..Len(CompileOrder(s)) :
                  j <= i => Made(k.s.contracts, CompileOrder(s)[j], s, s.compiles + 1)
           /\ \A c \in DOMAIN s.contracts :
                  (\A j \in 1..Len(CompileOrder(s)) : j <= i => CompileOrder(s)[j] # c) =>
                      k.s.contracts[c] = s.contracts[c]

(* The order of the dependencies is a matter of the analysis.              *)
LEMMA DependenciesKept ==
    ASSUME NEW s, NEW t, t.sources = s.sources, t.order = s.order, t.scopes = s.scopes,
           Len(s.order) \in Nat, NEW c
    PROVE  DependencyOrder(t, c) = DependencyOrder(s, c) /\ Ast(t, c[1]) = Ast(s, c[1])
  <1>1. \A n : ContractsOf(t, n) = ContractsOf(s, n)
    BY DEF ContractsOf, Ast
  <1>2. ContractList(t) = ContractList(s)
    <2>1. PICK f : /\ ContractList(s) = f[Len(s.order)]
                   /\ f[0] = <<>>
                   /\ \A n \in 1..Len(s.order) : f[n] = f[n - 1] \o ContractsOf(s, s.order[n])
      BY ListLoop
    <2>2. PICK g : /\ ContractList(t) = g[Len(t.order)]
                   /\ g[0] = <<>>
                   /\ \A n \in 1..Len(t.order) : g[n] = g[n - 1] \o ContractsOf(t, t.order[n])
      BY ListLoop
    <2> DEFINE N == Len(s.order)
               S == {i \in 0..N : f[i] = g[i]}
    <2>3. 0 \in S
      BY <2>1, <2>2
    <2>4. ASSUME NEW i \in 1..N, i - 1 \in S PROVE i \in S
      <3>1. f[i - 1] = g[i - 1] /\ i \in 0..N
        BY <2>4
      <3>2. ContractsOf(t, t.order[i]) = ContractsOf(s, s.order[i])
        BY <1>1
      <3>3. /\ f[i] = f[i - 1] \o ContractsOf(s, s.order[i])
            /\ g[i] = g[i - 1] \o ContractsOf(t, t.order[i])
        BY <2>1, <2>2
      <3>4. f[i] = g[i]
        BY ONLY <3>1, <3>2, <3>3, Zenon
      <3> QED
        BY <3>1, <3>4
    <2>5. N \in S
      <3>1. N \in Nat /\ N \in 0..N
        OBVIOUS
      <3>2. \A k \in 1..N : k - 1 \in S => k \in S
        BY <2>4
      <3> HIDE DEF S, N
      <3> QED
        BY ONLY <2>3, <3>1, <3>2, CountingUp
    <2> QED
      BY <2>1, <2>2, <2>5
  <1>3. Dependencies(t, c) = Dependencies(s, c)
    BY DEF Dependencies
  <1> QED
    BY <1>2, <1>3 DEF DependencyOrder, Ast

(* One contract.                                                           *)
LEMMA ContractKeeps ==
    ASSUME NEW s, Prepared(s), s.compiles \in Nat, NEW i \in 1..Len(CompileOrder(s)), NEW k,
           CodeInv(k, s, i - 1)
    PROVE  CodeInv(CompileContract(k, CompileOrder(s)[i]), s, i)
  <1>1. PICK o, c, gen, w, C : /\ o = CompileOrder(s) /\ c = CompileOrder(s)[i] /\ gen = s.compiles + 1
                               /\ w = CompileContract(k, c) /\ C = DOMAIN s.contracts
    OBVIOUS
  <1>2. /\ Len(o) \in Nat /\ i \in 1..Len(o) /\ c = o[i] /\ c \in C
        /\ \A a, b \in 1..Len(o) : o[a] = o[b] => a = b
        /\ \A d \in ToSet(DependencyOrder(s, c)) : \E j \in 1..Len(o) : j < i /\ o[j] = d
        /\ \A j \in 1..Len(o) : o[j] \in C
    BY <1>1, CompileOrderFacts
  <1>3. gen \in Nat /\ gen > 0 /\ gen <= gen
    BY <1>1
  <1>4. /\ DOMAIN k = {"s", "thrown"}
        /\ DOMAIN k.s = Fields
        /\ k.s.sources = s.sources /\ k.s.order = s.order /\ k.s.scopes = s.scopes
        /\ k.s.optimize = s.optimize /\ k.s.evm = s.evm /\ k.s.compiles = gen
        /\ DOMAIN k.s.contracts = C
        /\ \A x \in C : EntryInv(k.s.contracts[x], gen)
        /\ Together(k.s.contracts, gen)
    BY <1>1 DEF CodeInv, CodeFrame
  <1>5. ~k.thrown =>
           /\ \A j \in 1..Len(o) : j <= i - 1 => Made(k.s.contracts, o[j], s, gen)
           /\ \A x \in C : (\A j \in 1..Len(o) : j <= i - 1 => o[j] # x) =>
                  k.s.contracts[x] = s.contracts[x]
    BY <1>1 DEF CodeInv
  <1>6. CASE k.thrown
    <2>1. w = k
      BY <1>1, <1>6 DEF CompileContract
    <2> QED
      BY <1>1, <1>6, <2>1 DEF CodeInv
  <1>7. CASE ~k.thrown /\ c[2] \in Unsupported
    <2>1. w = [s |-> [k.s EXCEPT !.contracts[c].compiler = k.s.compiles], thrown |-> TRUE]
      BY <1>1, <1>7 DEF CompileContract
    <2>2. PICK e, E, u : /\ e = [k.s.contracts[c] EXCEPT !.compiler = k.s.compiles]
                         /\ E = [k.s.contracts EXCEPT ![c] = e]
                         /\ u = [k.s EXCEPT !.contracts = E]
      OBVIOUS
    <2>3. w = [s |-> u, thrown |-> TRUE]
      BY <2>1, <2>2
    <2>4. DOMAIN w = {"s", "thrown"} /\ w.s = u /\ w.thrown
      BY <2>3
    <2>5. EntryInv(e, gen)
      BY <1>2, <1>4, <2>2 DEF EntryInv
    <2>6. DOMAIN E = C /\ \A x \in C : EntryInv(E[x], gen)
      BY <1>2, <1>4, <2>2, <2>5
    <2>7. /\ DOMAIN u = Fields /\ u.contracts = E
          /\ u.sources = k.s.sources /\ u.order = k.s.order /\ u.scopes = k.s.scopes
          /\ u.optimize = k.s.optimize /\ u.evm = k.s.evm /\ u.compiles = k.s.compiles
      BY ONLY <1>4, <2>2 DEF Fields
    <2>8. \A x : E[x].code = k.s.contracts[x].code
      <3> SUFFICES ASSUME NEW x PROVE E[x].code = k.s.contracts[x].code
        OBVIOUS
      <3>1. CASE x = c
        BY <1>2, <1>4, <2>2, <3>1 DEF EntryInv
      <3>2. CASE x # c
        BY ONLY <1>4, <2>2, <3>2
      <3> QED
        BY <3>1, <3>2
    <2>9. Together(E, gen)
      BY ONLY <1>4, <2>6, <2>8 DEF Together
    <2>10. CodeInv(w, s, i)
      BY ONLY <1>1, <1>4, <2>4, <2>6, <2>7, <2>9 DEF CodeInv, CodeFrame
    <2> QED
      BY <1>1, <2>10
  <1>8. CASE ~k.thrown /\ c[2] \notin Unsupported
    <2> DEFINE D == ToSet(DependencyOrder(k.s, c))
               code == [text |-> Ast(k.s, c[1]), optimize |-> k.s.optimize, evm |-> k.s.evm,
                        gen |-> k.s.compiles,
                        embeds |-> {<<d, k.s.contracts[d].compiler>> : d \in D}]
    <2>1. w = [k EXCEPT !.s.contracts[c] =
                  [@ EXCEPT !.compiler = k.s.compiles, !.code = code, !.linked = FALSE]]
      BY <1>1, <1>8 DEF CompileContract
    <2>2. D = ToSet(DependencyOrder(s, c)) /\ Ast(k.s, c[1]) = Ast(s, c[1])
      <3>1. Len(s.order) \in Nat
        BY OrderFacts DEF Prepared
      <3> QED
        BY <1>4, <3>1, DependenciesKept
    <2> HIDE DEF D
    <2>3. /\ code.text = Ast(s, c[1]) /\ code.optimize = s.optimize /\ code.evm = s.evm
          /\ code.gen = gen /\ code.embeds = {<<d, k.s.contracts[d].compiler>> : d \in D}
      BY <1>4, <2>2
    <2> HIDE DEF code
    <2>4. PICK e, E, u : /\ e = [k.s.contracts[c] EXCEPT !.compiler = k.s.compiles, !.code = code, !.linked = FALSE]
                         /\ E = [k.s.contracts EXCEPT ![c] = e]
                         /\ u = [k.s EXCEPT !.contracts = E]
      OBVIOUS
    <2>5. w = [k EXCEPT !.s = u]
      BY <2>1, <2>4
    <2>6. DOMAIN w = {"s", "thrown"} /\ w.s = u /\ ~w.thrown
      BY <1>4, <1>8, <2>5
    <2>7. /\ DOMAIN e = {"compiler", "code", "linked", "map"}
          /\ e.compiler = gen /\ e.code = code /\ e.map = k.s.contracts[c].map
      BY <1>2, <1>4, <2>4 DEF EntryInv
    <2>8. EntryInv(e, gen)
      BY <1>3, <2>3, <2>7 DEF EntryInv
    <2>9. DOMAIN E = C /\ E[c] = e /\ \A x \in C : x # c => E[x] = k.s.contracts[x]
      BY <1>2, <1>4, <2>4
    <2>10. \A x \in C : EntryInv(E[x], gen)
      BY <1>4, <2>8, <2>9
    <2>11. /\ DOMAIN u = Fields /\ u.contracts = E
           /\ u.sources = k.s.sources /\ u.order = k.s.order /\ u.scopes = k.s.scopes
           /\ u.optimize = k.s.optimize /\ u.evm = k.s.evm /\ u.compiles = k.s.compiles
      BY ONLY <1>4, <2>4 DEF Fields
    <2>12. \A j \in 1..Len(o) : j <= i <=> (j <= i - 1 \/ j = i)
      BY <1>2
    <2>13. \A j \in 1..Len(o) : j <= i - 1 => o[j] # c
      BY <1>2
    <2>14. \A x : k.s.contracts[x].code.gen = gen => E[x].code.gen = gen
      <3> SUFFICES ASSUME NEW x, k.s.contracts[x].code.gen = gen PROVE E[x].code.gen = gen
        OBVIOUS
      <3>1. CASE x = c
        BY <2>3, <2>7, <2>9, <3>1
      <3>2. CASE x # c
        <4>1. E[x] = k.s.contracts[x]
          BY ONLY <1>4, <2>4, <3>2
        <4> QED
          BY <4>1
      <3> QED
        BY <3>1, <3>2
    <2>15. Made(E, c, s, gen)
      <3>1. k.s.contracts[c].map = s.contracts[c].map
        BY <1>2, <1>5, <1>8, <2>13
      <3>2. ASSUME NEW d \in D PROVE d \in C /\ k.s.contracts[d].compiler = gen /\ E[d].code.gen = gen
        <4>1. PICK j \in 1..Len(o) : j < i /\ o[j] = d
          BY <1>2, <2>2, <3>2
        <4>2. j <= i - 1
          BY <1>2, <4>1
        <4>3. Made(k.s.contracts, d, s, gen)
          BY <1>5, <1>8, <4>1, <4>2
        <4> QED
          BY <1>2, <2>14, <4>1, <4>3 DEF Made
      <3>3. ASSUME NEW x \in code.embeds PROVE x[1] \in C /\ x[2] = gen /\ E[x[1]].code.gen = gen
        <4>1. PICK d \in D : x = <<d, k.s.contracts[d].compiler>>
          BY <2>3, <3>3
        <4> QED
          BY <3>2, <4>1
      <3> QED
        BY ONLY <2>3, <2>7, <2>9, <3>1, <3>3 DEF Made
    <2>16. ASSUME NEW j \in 1..Len(o), j <= i - 1 PROVE Made(E, o[j], s, gen)
      <3>1. Made(k.s.contracts, o[j], s, gen) /\ E[o[j]] = k.s.contracts[o[j]]
        BY <1>2, <1>5, <1>8, <2>9, <2>13, <2>16
      <3> QED
        BY ONLY <1>4, <2>9, <2>14, <3>1 DEF Made
    <2>17. ASSUME NEW x \in C, \A j \in 1..Len(o) : j <= i => o[j] # x
           PROVE  E[x] = s.contracts[x]
      BY <1>2, <1>5, <1>8, <2>9, <2>12, <2>17
    <2>18. \A j \in 1..Len(o) : j <= i => Made(E, o[j], s, gen)
      BY <1>2, <2>12, <2>15, <2>16
    <2>19. Together(E, gen)
      <3> SUFFICES ASSUME NEW y \in C, E[y].code.gen = gen, NEW x \in E[y].code.embeds
                   PROVE  x[1] \in C /\ x[2] = gen /\ E[x[1]].code.gen = gen
        BY <2>9 DEF Together
      <3>1. CASE y = c
        BY <2>9, <2>15, <3>1 DEF Made
      <3>2. CASE y # c
        <4>1. E[y] = k.s.contracts[y]
          BY <2>9, <3>2
        <4>2. x[1] \in C /\ x[2] = gen /\ k.s.contracts[x[1]].code.gen = gen
          BY ONLY <1>4, <4>1, E[y].code.gen = gen, x \in E[y].code.embeds, y \in C DEF Together
        <4> QED
          BY <2>14, <4>2
      <3> QED
        BY <3>1, <3>2
    <2>20. CodeFrame(w, s)
      BY ONLY <1>1, <1>4, <2>6, <2>9, <2>10, <2>11, <2>19 DEF CodeFrame
    <2>21. CodeInv(w, s, i)
      BY ONLY <1>1, <2>6, <2>11, <2>20, <2>17, <2>18 DEF CodeInv
    <2> QED
      BY <1>1, <2>21
  <1> QED
    BY <1>6, <1>7, <1>8

(* What compile leaves alone once the analysis is done.                    *)
GenerateFrame(s, t) ==
    /\ ReporterInv(t) /\ t.errors = s.errors
    /\ t.sources = s.sources /\ t.order = s.order /\ t.scopes = s.scopes
    /\ t.compiles = s.compiles + 1
    /\ DOMAIN t.contracts = DOMAIN s.contracts
    /\ \A c \in DOMAIN s.contracts : EntryInv(t.contracts[c], s.compiles + 1)
    /\ Together(t.contracts, s.compiles + 1)

(* The contracts that were made, and the others.                           *)
Compiled(s, t) ==
    \A c \in DOMAIN s.contracts :
        IF Listed(CompileOrder(s), c) THEN Made(t.contracts, c, s, s.compiles + 1)
        ELSE /\ t.contracts[c].code = s.contracts[c].code
             /\ t.contracts[c].compiler = s.contracts[c].compiler
             /\ t.contracts[c].map = s.contracts[c].map

(* link does not touch code.                                               *)
LEMMA LinkKeeps ==
    ASSUME NEW s, DOMAIN s = Fields, NEW g, \A c \in DOMAIN s.contracts : EntryInv(s.contracts[c], g)
    PROVE  LET t == Link(s) IN
           /\ SameReporter(s, t) /\ SameOptions(s, t) /\ t.state = s.state
           /\ t.sources = s.sources /\ t.order = s.order /\ t.scopes = s.scopes
           /\ DOMAIN t.contracts = DOMAIN s.contracts
           /\ \A c \in DOMAIN s.contracts :
                  /\ DOMAIN t.contracts[c] = {"compiler", "code", "linked", "map"}
                  /\ t.contracts[c].code = s.contracts[c].code
                  /\ t.contracts[c].compiler = s.contracts[c].compiler
                  /\ t.contracts[c].map = s.contracts[c].map
  <1> DEFINE E == [c \in DOMAIN s.contracts |->
                     [s.contracts[c] EXCEPT !.linked = @ \/ (s.libraries /\ s.contracts[c].code # NoCode)]]
  <1>1. PICK t : t = Link(s)
    OBVIOUS
  <1>2. t = [s EXCEPT !.contracts = E]
    BY <1>1 DEF Link
  <1>3. DOMAIN E = DOMAIN s.contracts
    OBVIOUS
  <1>4. ASSUME NEW c \in DOMAIN s.contracts
        PROVE  /\ DOMAIN E[c] = {"compiler", "code", "linked", "map"}
               /\ E[c].code = s.contracts[c].code
               /\ E[c].compiler = s.contracts[c].compiler
               /\ E[c].map = s.contracts[c].map
    <2>1. PICK x : E[c] = [s.contracts[c] EXCEPT !.linked = x]
      OBVIOUS
    <2>2. DOMAIN s.contracts[c] = {"compiler", "code", "linked", "map"}
      BY DEF EntryInv
    <2> HIDE DEF E
    <2> QED
      BY ONLY <2>1, <2>2
  <1> HIDE DEF E
  <1>5. /\ SameReporter(s, t) /\ SameOptions(s, t) /\ t.state = s.state
        /\ t.sources = s.sources /\ t.order = s.order /\ t.scopes = s.scopes /\ t.contracts = E
    BY ONLY <1>2, DOMAIN s = Fields DEF SameReporter, SameOptions, Fields
  <1> QED
    BY ONLY <1>1, <1>3, <1>4, <1>5

(* compile without the analysis: code for all that is wanted, or it throws *)
(* and the state stays.                                                    *)
LEMMA GenerateEnds ==
    ASSUME NEW s, ReporterInv(s), Prepared(s), s.compiles \in Nat,
           \A c \in DOMAIN s.contracts : EntryInv(s.contracts[c], s.compiles)
    PROVE  LET q == Generate(s) IN
           /\ GenerateFrame(s, q.s)
           /\ \/ q.res = "thrown" /\ q.s.state = s.state
              \/ q.res = "true" /\ q.s.state = "CompilationSuccessful" /\ Compiled(s, q.s)
  <1>1. PICK o, q, C, gen : /\ o = CompileOrder(s) /\ q = Generate(s) /\ C = DOMAIN s.contracts
                            /\ gen = s.compiles + 1
    OBVIOUS
  <1>2. Len(CompileOrder(s)) \in Nat /\ \A i \in 1..Len(o) : o[i] \in C
    BY <1>1, CompileOrderFacts
  <1>3. PICK f : /\ Generate(s) = GenerateEnd(s, f[Len(CompileOrder(s))])
                 /\ f[0] = [s |-> Counted(s), thrown |-> FALSE]
                 /\ \A n \in 1..Len(CompileOrder(s)) : f[n] = CompileContract(f[n - 1], CompileOrder(s)[n])
    BY <1>2, CodeLoop
  <1>4. PICK new : new = Counted(s)
    OBVIOUS
  <1>5. /\ DOMAIN new = Fields /\ SameReporter(s, new) /\ new.state = s.state
        /\ new.sources = s.sources /\ new.order = s.order /\ new.scopes = s.scopes
        /\ new.optimize = s.optimize /\ new.evm = s.evm /\ new.contracts = s.contracts
        /\ new.compiles = gen
    BY <1>1, <1>4 DEF Counted, ReporterInv, SameReporter, Fields
  <1> DEFINE N == Len(CompileOrder(s))
             S == {i \in 0..N : CodeInv(f[i], s, i)}
  <1>6. 0 \in S
    <2>1. PICK k : k = f[0]
      OBVIOUS
    <2>2. DOMAIN k = {"s", "thrown"} /\ k.s = new
      BY <1>3, <1>4, <2>1
    <2>3. \A c \in C : s.contracts[c].code.gen \in Nat /\ s.contracts[c].code.gen <= s.compiles
                       /\ EntryInv(s.contracts[c], s.compiles)
      BY <1>1 DEF EntryInv
    <2>4. \A c \in C : EntryInv(s.contracts[c], gen)
      <3>1. \A x \in Nat : x <= s.compiles => x <= gen
        BY <1>1
      <3> QED
        BY <2>3, <3>1 DEF EntryInv
    <2>5. \A c \in C : s.contracts[c].code.gen # gen
      <3>1. \A x \in Nat : x <= s.compiles => x # gen
        BY <1>1
      <3> QED
        BY <2>3, <3>1
    <2>6. Together(s.contracts, gen)
      BY <1>1, <2>5 DEF Together
    <2>7. CodeFrame(k, s)
      BY ONLY <1>1, <1>5, <2>2, <2>4, <2>6 DEF CodeFrame
    <2>8. \A j \in 1..N : ~(j <= 0)
      BY <1>2
    <2>9. CodeInv(k, s, 0)
      BY ONLY <1>5, <2>2, <2>7, <2>8 DEF CodeInv
    <2> QED
      BY <1>2, <2>1, <2>9
  <1>7. ASSUME NEW i \in 1..N, i - 1 \in S PROVE i \in S
    <2>1. CodeInv(f[i - 1], s, i - 1) /\ i \in 0..N
      BY <1>2, <1>7
    <2>2. CodeInv(CompileContract(f[i - 1], CompileOrder(s)[i]), s, i)
      BY <2>1, ContractKeeps
    <2> QED
      BY <1>3, <2>1, <2>2
  <1>8. N \in S
    <2>1. \A k \in 1..N : k - 1 \in S => k \in S
      BY <1>7
    <2>2. N \in Nat /\ N \in 0..N
      BY <1>2
    <2> HIDE DEF S, N
    <2> QED
      BY ONLY <1>6, <2>1, <2>2, CountingUp
  <1>9. PICK k, E, made : k = f[N] /\ E = k.s.contracts /\ made = [new EXCEPT !.contracts = E]
    OBVIOUS
  <1>10. CodeInv(k, s, Len(o)) /\ q = GenerateEnd(s, k)
    BY <1>1, <1>3, <1>8, <1>9
  <1>11. DOMAIN E = C /\ (\A c \in C : EntryInv(E[c], gen)) /\ Together(E, gen)
    BY <1>1, <1>9, <1>10 DEF CodeInv, CodeFrame
  <1>12. /\ DOMAIN made = Fields /\ SameReporter(s, made) /\ made.state = s.state
         /\ made.sources = s.sources /\ made.order = s.order /\ made.scopes = s.scopes
         /\ made.compiles = gen /\ made.contracts = E
    BY ONLY <1>5, <1>9 DEF SameReporter, Fields
  <1>13. CASE k.thrown
    <2>1. q.s = made /\ q.res = "thrown"
      BY <1>4, <1>9, <1>10, <1>13 DEF GenerateEnd, Done
    <2>2. ReporterInv(made) /\ made.errors = s.errors
      BY <1>12, ReporterKept DEF SameReporter
    <2>3. GenerateFrame(s, made)
      BY ONLY <1>1, <1>11, <1>12, <2>2 DEF GenerateFrame
    <2> QED
      BY ONLY <1>1, <1>12, <2>1, <2>3
  <1>14. CASE ~k.thrown
    <2>1. PICK l, t : l = Link(made) /\ t = [l EXCEPT !.state = "CompilationSuccessful"]
      OBVIOUS
    <2>2. q.s = t /\ q.res = "true"
      BY <1>4, <1>9, <1>10, <1>14, <2>1 DEF GenerateEnd, Done
    <2>3. /\ SameReporter(made, l) /\ SameOptions(made, l)
          /\ l.sources = made.sources /\ l.order = made.order /\ l.scopes = made.scopes
          /\ DOMAIN l.contracts = C
          /\ \A c \in C :
                  /\ DOMAIN l.contracts[c] = {"compiler", "code", "linked", "map"}
                  /\ l.contracts[c].code = E[c].code
                  /\ l.contracts[c].compiler = E[c].compiler
                  /\ l.contracts[c].map = E[c].map
      BY <1>11, <1>12, <2>1, LinkKeeps
    <2>4. DOMAIN l = Fields
      BY <1>12, <2>3 DEF SameReporter
    <2>5. /\ SameReporter(l, t) /\ SameOptions(l, t) /\ SameResults(l, t) /\ t.sources = l.sources
          /\ t.state = "CompilationSuccessful"
      BY ONLY <2>1, <2>4, StateOnly
    <2>6. SameReporter(s, t) /\ t.compiles = gen /\ t.sources = s.sources /\ t.order = s.order
          /\ t.scopes = s.scopes
      BY <1>12, <2>3, <2>5 DEF SameReporter, SameOptions, SameResults
    <2>7. ReporterInv(t) /\ t.errors = s.errors
      BY <2>6, ReporterKept DEF SameReporter
    <2>8. /\ DOMAIN t.contracts = C
          /\ \A c \in C :
                  /\ DOMAIN t.contracts[c] = {"compiler", "code", "linked", "map"}
                  /\ t.contracts[c].code = E[c].code
                  /\ t.contracts[c].compiler = E[c].compiler
                  /\ t.contracts[c].map = E[c].map
      BY <2>3, <2>5 DEF SameResults
    <2>9. \A c \in C : EntryInv(t.contracts[c], gen)
      BY ONLY <1>11, <2>8 DEF EntryInv
    <2>10. /\ \A i \in 1..Len(o) : Made(E, o[i], s, gen)
           /\ \A c \in C : ~Listed(o, c) => E[c] = s.contracts[c]
      <3>1. \A j \in 1..Len(o) : j <= Len(o)
        BY <1>1, <1>2
      <3> QED
        BY <1>1, <1>9, <1>10, <1>14, <3>1 DEF CodeInv, Listed
    <2>11. ASSUME NEW c \in C, NEW x \in E[c].code.embeds, E[c].code.gen = gen
           PROVE  x[1] \in C /\ x[2] = gen /\ t.contracts[x[1]].code.gen = gen
      <3>1. x[1] \in C /\ x[2] = gen /\ E[x[1]].code.gen = gen
        BY ONLY <1>11, <2>11, c \in C, x \in E[c].code.embeds DEF Together
      <3> QED
        BY <2>8, <3>1
    <2>12. Together(t.contracts, gen)
      BY ONLY <2>8, <2>11 DEF Together
    <2>13. GenerateFrame(s, t)
      BY ONLY <1>1, <2>6, <2>7, <2>8, <2>9, <2>12 DEF GenerateFrame
    <2>14. Compiled(s, t)
      <3> SUFFICES ASSUME NEW c \in C
                   PROVE  IF Listed(o, c) THEN Made(t.contracts, c, s, gen)
                          ELSE /\ t.contracts[c].code = s.contracts[c].code
                               /\ t.contracts[c].compiler = s.contracts[c].compiler
                               /\ t.contracts[c].map = s.contracts[c].map
        BY <1>1 DEF Compiled
      <3>1. CASE Listed(o, c)
        <4>1. Made(E, c, s, gen)
          BY <2>10, <3>1 DEF Listed
        <4>2. E[c].code.gen = gen
          BY <4>1 DEF Made
        <4>3. \A x \in E[c].code.embeds : x[1] \in C /\ x[2] = gen /\ t.contracts[x[1]].code.gen = gen
          BY <2>11, <4>2
        <4>4. Made(t.contracts, c, s, gen)
          BY ONLY <2>8, <4>1, <4>3, c \in C DEF Made
        <4> QED
          BY <3>1, <4>4
      <3>2. CASE ~Listed(o, c)
        BY <2>8, <2>10, <3>2
      <3> QED
        BY <3>1, <3>2
    <2> QED
      BY ONLY <1>1, <2>2, <2>5, <2>13, <2>14
  <1> QED
    BY <1>13, <1>14

-----------------------------------------------------------------------------
(* The stack between two calls.                                            *)

EntriesInv(s) == \A c \in DOMAIN s.contracts : EntryInv(s.contracts[c], s.compiles)

StackInv(s) ==
    /\ ReporterInv(s) /\ SourcesInv(s) /\ s.compiles \in Nat
    /\ s.state \in {"Empty", "SourcesSet", "ParsingSuccessful", "AnalysisSuccessful",
                    "CompilationSuccessful"}
    /\ s.state \in {"Empty", "SourcesSet"} => s.order = <<>> /\ s.contracts = <<>>
    /\ s.state = "ParsingSuccessful" => ParsedInv(s)
    /\ s.state \in {"AnalysisSuccessful", "CompilationSuccessful"} => AnalysedInv(s) /\ EntriesInv(s)
    /\ s.state = "CompilationSuccessful" => Together(s.contracts, s.compiles)

(* An empty function.                                                      *)
LEMMA Nothing == DOMAIN <<>> = {}
  <1>1. <<>> \in Seq({}) /\ Len(<<>>) = 0
    BY EmptySeq
  <1> QED
    BY <1>1

(* The order of the states.                                                *)
LEMMA Ranks ==
    ASSUME NEW s, s.state \in {"Empty", "SourcesSet", "ParsingSuccessful", "AnalysisSuccessful",
                               "CompilationSuccessful"}
    PROVE  /\ AtLeast(s, "AnalysisSuccessful")
                  <=> s.state \in {"AnalysisSuccessful", "CompilationSuccessful"}
           /\ AtLeast(s, "ParsingSuccessful") <=> s.state \notin {"Empty", "SourcesSet"}
  <1>1. /\ Rank("Empty") = 1 /\ Rank("SourcesSet") = 2 /\ Rank("ParsingSuccessful") = 3
        /\ Rank("AnalysisSuccessful") = 4 /\ Rank("CompilationSuccessful") = 5
    BY DEF Rank, States
  <1> QED
    BY <1>1 DEF AtLeast

(* What is clean stays clean.                                              *)
LEMMA AnalysedKept ==
    ASSUME NEW s, NEW t, AnalysedInv(s), t.sources = s.sources, t.order = s.order,
           t.scopes = s.scopes, t.errors = s.errors, DOMAIN t.contracts = DOMAIN s.contracts
    PROVE  AnalysedInv(t)
  <1>1. \A n : Ast(t, n) = Ast(s, n)
    BY DEF Ast
  <1>2. \A n : NameClash(t, n) = NameClash(s, n) /\ Unresolved(t, n) = Unresolved(s, n)
    BY <1>1 DEF NameClash, Unresolved, Visible
  <1>3. Clean(t)
    BY <1>1, <1>2 DEF AnalysedInv, Clean
  <1> QED
    BY <1>3, SourcesOnly DEF AnalysedInv

(* Settings do not matter.                                                 *)
LEMMA StackKept ==
    ASSUME NEW s, NEW t, StackInv(s), SameReporter(s, t), SameResults(s, t),
           t.sources = s.sources, t.state = s.state, t.compiles = s.compiles
    PROVE  StackInv(t)
  <1>1. ReporterInv(t) /\ SourcesInv(t)
    BY ReporterKept DEF StackInv, SourcesInv
  <1>2. s.state = "ParsingSuccessful" => ParsedInv(t)
    BY SourcesOnly DEF StackInv, ParsedInv, SameResults, SameReporter
  <1>3. s.state \in {"AnalysisSuccessful", "CompilationSuccessful"} => AnalysedInv(t) /\ EntriesInv(t)
    BY AnalysedKept DEF StackInv, EntriesInv, SameResults, SameReporter
  <1> QED
    BY ONLY <1>1, <1>2, <1>3, StackInv(s), SameResults(s, t), t.state = s.state,
            t.compiles = s.compiles DEF StackInv, SameResults

(* A new stack, and what reset and addSource leave.                        *)
LEMMA NewStackInv == StackInv(NewStack)
  <1>1. DOMAIN NewStack.sources = {} /\ DOMAIN NewStack = Fields
    BY Nothing DEF NewStack, Fields
  <1>2. SourcesInv(NewStack)
    BY <1>1 DEF SourcesInv
  <1>3. ReporterInv(NewStack)
    BY <1>1 DEF NewStack, ReporterInv
  <1> QED
    BY <1>2, <1>3 DEF StackInv, NewStack

(* reset.                                                                  *)
LEMMA ResetKeeps ==
    ASSUME NEW s, ReporterInv(s), s.compiles \in Nat, SourcesInv(s), NEW keep \in BOOLEAN
    PROVE  LET t == Reset(s, keep) IN
           /\ StackInv(t)
           /\ t.state = (IF keep THEN "SourcesSet" ELSE "Empty")
           /\ t.sources = (IF keep THEN s.sources ELSE <<>>)
           /\ t.errors = 0 /\ t.excess = FALSE /\ t.count = s.count /\ t.compiles = s.compiles
           /\ t.order = <<>> /\ t.contracts = <<>>
           /\ t.optimize = FALSE /\ t.evm = FALSE
  <1>1. PICK t : t = Reset(s, keep)
    OBVIOUS
  <1>2. /\ DOMAIN t = Fields
        /\ t.state = (IF keep THEN "SourcesSet" ELSE "Empty")
        /\ t.sources = (IF keep THEN s.sources ELSE <<>>)
        /\ t.errors = 0 /\ t.excess = FALSE /\ t.count = s.count /\ t.compiles = s.compiles
        /\ t.order = <<>> /\ t.contracts = <<>>
        /\ t.optimize = FALSE /\ t.evm = FALSE
    BY <1>1 DEF Reset, ClearErrors, ReporterInv, Fields, DefaultOptimize, DefaultEVM
  <1>3. SourcesInv(t)
    BY <1>2, Nothing DEF SourcesInv
  <1>4. ReporterInv(t)
    <2>1. s.count \in Nat
      BY DEF ReporterInv
    <2>2. t.errors \in Nat /\ t.count \in Nat
      BY ONLY <1>2, <2>1
    <2>3. t.excess \in BOOLEAN /\ ~t.excess
      BY ONLY <1>2, Zenon
    <2> QED
      BY <1>2, <2>2, <2>3, Zenon DEF ReporterInv
  <1>5. StackInv(t)
    BY ONLY <1>2, <1>3, <1>4, s.compiles \in Nat, keep \in BOOLEAN DEF StackInv
  <1> QED
    BY <1>1, <1>2, <1>5

(* addSource.                                                              *)
LEMMA AddSourceKeeps ==
    ASSUME NEW s, ReporterInv(s), s.compiles \in Nat, SourcesInv(s),
           NEW n \in SourceNames, NEW x \in Texts, NEW lib \in BOOLEAN
    PROVE  LET t == AddSource(s, n, x, lib) IN
           /\ StackInv(t) /\ t.state = "SourcesSet"
           /\ DOMAIN t.sources \subseteq DOMAIN s.sources \cup {n}
           /\ t.errors = 0 /\ t.excess = FALSE /\ t.optimize = FALSE /\ t.evm = FALSE
           /\ t.order = <<>> /\ t.contracts = <<>>
  <1>1. PICK t, u, new : /\ t = AddSource(s, n, x, lib) /\ u = Reset(s, TRUE)
                         /\ new = [text |-> x, ast |-> TreeOf(Reset(s, TRUE), n), lib |-> lib]
    OBVIOUS
  <1>2. /\ StackInv(u) /\ u.sources = s.sources
        /\ u.errors = 0 /\ u.excess = FALSE /\ u.compiles = s.compiles
        /\ u.order = <<>> /\ u.contracts = <<>> /\ u.optimize = FALSE /\ u.evm = FALSE
    <2>1. TRUE \in BOOLEAN
      OBVIOUS
    <2> QED
      BY <1>1, <2>1, ResetKeeps
  <1>3. t = [u EXCEPT !.state = "SourcesSet", !.sources = Put(@, n, new)]
    BY <1>1 DEF AddSource
  <1>4. ReporterInv(u)
    BY <1>2 DEF StackInv
  <1>5. DOMAIN u = Fields
    BY <1>4 DEF ReporterInv
  <1>6. /\ SameReporter(u, t) /\ t.sources = Put(s.sources, n, new) /\ t.state = "SourcesSet"
        /\ t.order = <<>> /\ t.contracts = <<>> /\ t.compiles = s.compiles
        /\ t.optimize = FALSE /\ t.evm = FALSE
    BY ONLY <1>2, <1>3, <1>5 DEF SameReporter, Fields
  <1>7. TreeOf(u, n) \in Texts \cup {None}
    BY <1>2 DEF TreeOf, Known, SourcesInv
  <1>8. new \in [text : Texts, ast : Texts \cup {None}, lib : BOOLEAN]
    BY <1>1, <1>7
  <1>9. SourcesInv(t) /\ DOMAIN t.sources \subseteq DOMAIN s.sources \cup {n}
    BY ONLY <1>6, <1>8, SourcesInv(s), n \in SourceNames DEF SourcesInv, Put
  <1>10. ReporterInv(t) /\ t.errors = 0 /\ t.excess = FALSE
    BY <1>2, <1>4, <1>6, ReporterKept DEF SameReporter
  <1>11. StackInv(t)
    BY ONLY <1>6, <1>9, <1>10, s.compiles \in Nat DEF StackInv
  <1> QED
    BY <1>1, <1>6, <1>9, <1>10, <1>11

(* Entries without code are of no compilation.                             *)
LEMMA FreshEntries ==
    ASSUME NEW s, s.compiles \in Nat, \A c \in DOMAIN s.contracts : s.contracts[c] = NoEntry
    PROVE  EntriesInv(s)
  <1>1. EntryInv(NoEntry, s.compiles)
    BY DEF EntryInv, NoEntry, NoCode
  <1> QED
    BY <1>1 DEF EntriesInv

(* parse.                                                                  *)
LEMMA ParseKeeps ==
    ASSUME NEW s, StackInv(s)
    PROVE  LET q == Parse(s) IN
           /\ StackInv(q.s)
           /\ q.res = "true" => q.s.state = "ParsingSuccessful"
  <1>1. PICK q, t : q = Parse(s) /\ t = Parse(s).s
    OBVIOUS
  <1>2. CASE s.state # "SourcesSet"
    BY <1>1, <1>2 DEF Parse, Done
  <1>3. CASE s.state = "SourcesSet"
    <2>1. /\ ReporterInv(s) /\ SourcesInv(s) /\ s.compiles \in Nat
          /\ s.order = <<>> /\ s.contracts = <<>>
      BY <1>3 DEF StackInv
    <2>2. /\ AfterParse(s, t)
          /\ \/ q.res = "thrown" /\ t.state = "SourcesSet"
             \/ q.res = "false" /\ t.state = "SourcesSet" /\ Reported(t)
             \/ /\ q.res = "true" /\ t.state = "ParsingSuccessful"
                /\ t.errors = 0
                /\ \A n \in DOMAIN t.sources : TreeGood(t, n)
      BY <1>1, <1>3, <2>1, ParseEnds
    <2>3. /\ ReporterInv(t) /\ SourcesInv(t) /\ t.compiles \in Nat
          /\ t.order = <<>> /\ t.contracts = <<>>
      BY <2>1, <2>2 DEF AfterParse, SameOptions, SameResults
    <2>4. CASE t.state = "SourcesSet"
      <3>1. StackInv(t) /\ q.res # "true"
        BY ONLY <2>2, <2>3, <2>4 DEF StackInv
      <3> QED
        BY <1>1, <3>1
    <2>5. CASE q.res = "true" /\ t.state = "ParsingSuccessful"
      <3>1. AllGood(t) /\ t.errors = 0
        BY <2>2, <2>3, <2>5 DEF AllGood
      <3>2. DOMAIN t.contracts = {}
        BY <2>3, Nothing
      <3>3. ParsedInv(t)
        BY ONLY <2>3, <3>1, <3>2 DEF ParsedInv
      <3>4. StackInv(t)
        BY ONLY <2>3, <2>5, <3>3 DEF StackInv
      <3> QED
        BY <1>1, <2>5, <3>4
    <2> QED
      BY <2>2, <2>4, <2>5
  <1> QED
    BY <1>2, <1>3

(* analyze.                                                                *)
LEMMA AnalyzeKeeps ==
    ASSUME NEW s, StackInv(s)
    PROVE  LET q == Analyze(s) IN
           /\ StackInv(q.s)
           /\ q.res = "true" =>
                 /\ q.s.state = "AnalysisSuccessful"
                 /\ \A c \in DOMAIN q.s.contracts : q.s.contracts[c] = NoEntry
  <1>1. PICK q, t : q = Analyze(s) /\ t = Analyze(s).s
    OBVIOUS
  <1>2. CASE s.state # "ParsingSuccessful"
    BY <1>1, <1>2 DEF Analyze, Done
  <1>3. CASE s.state = "ParsingSuccessful"
    <2>1. ReporterInv(s) /\ SourcesInv(s) /\ s.compiles \in Nat /\ ParsedInv(s)
      BY <1>3 DEF StackInv
    <2>2. /\ ReporterInv(t) /\ t.sources = s.sources /\ SameOptions(s, t)
          /\ \/ q.res = "thrown" /\ t.state = "ParsingSuccessful" /\ ParsedInv(t)
             \/ q.res = "false" /\ t.state = "ParsingSuccessful" /\ ParsedInv(t) /\ Reported(t)
             \/ /\ q.res = "true" /\ t.state = "AnalysisSuccessful" /\ AnalysedInv(t)
                /\ \A c \in DOMAIN t.contracts : t.contracts[c] = NoEntry
      BY <1>1, <1>3, <2>1, AnalyzeEnds
    <2>3. SourcesInv(t) /\ t.compiles \in Nat
      BY <2>1, <2>2 DEF SourcesInv, SameOptions
    <2>4. CASE t.state = "ParsingSuccessful" /\ ParsedInv(t)
      <3>1. StackInv(t) /\ q.res # "true"
        BY ONLY <2>2, <2>3, <2>4 DEF StackInv
      <3> QED
        BY <1>1, <3>1
    <2>5. CASE /\ t.state = "AnalysisSuccessful" /\ AnalysedInv(t)
               /\ \A c \in DOMAIN t.contracts : t.contracts[c] = NoEntry
      <3>1. EntriesInv(t)
        BY <2>3, <2>5, FreshEntries
      <3>2. StackInv(t)
        BY ONLY <2>2, <2>3, <2>5, <3>1 DEF StackInv
      <3> QED
        BY <1>1, <2>5, <3>2
    <2> QED
      BY <2>2, <2>4, <2>5
  <1> QED
    BY <1>2, <1>3

(* parseAndAnalyze.                                                        *)
LEMMA ParseAndAnalyzeKeeps ==
    ASSUME NEW s, StackInv(s)
    PROVE  LET q == ParseAndAnalyze(s) IN
           /\ StackInv(q.s)
           /\ q.res = "true" => q.s.state = "AnalysisSuccessful"
  <1>1. PICK p : p = Parse(s)
    OBVIOUS
  <1>2. StackInv(p.s)
    BY <1>1, ParseKeeps
  <1>3. CASE p.res = "true"
    BY <1>1, <1>2, <1>3, AnalyzeKeeps DEF ParseAndAnalyze
  <1>4. CASE p.res # "true"
    BY <1>1, <1>2, <1>4 DEF ParseAndAnalyze
  <1> QED
    BY <1>3, <1>4

(* compile, after the analysis.                                            *)
LEMMA GenerateKeeps ==
    ASSUME NEW s, StackInv(s), s.state \in {"AnalysisSuccessful", "CompilationSuccessful"}
    PROVE  LET q == Generate(s) IN
           /\ StackInv(q.s) /\ q.s.sources = s.sources /\ q.s.compiles = s.compiles + 1
           /\ DOMAIN q.s.contracts = DOMAIN s.contracts
           /\ \/ q.res = "thrown" /\ q.s.state = s.state
              \/ q.res = "true" /\ q.s.state = "CompilationSuccessful" /\ Compiled(s, q.s)
  <1>1. PICK q, t : q = Generate(s) /\ t = Generate(s).s
    OBVIOUS
  <1>2. /\ ReporterInv(s) /\ SourcesInv(s) /\ s.compiles \in Nat /\ AnalysedInv(s) /\ EntriesInv(s)
    BY DEF StackInv
  <1>3. /\ Prepared(s)
        /\ \A c \in DOMAIN s.contracts : EntryInv(s.contracts[c], s.compiles)
    BY <1>2 DEF AnalysedInv, Prepared, EntriesInv
  <1>4. /\ GenerateFrame(s, t)
        /\ \/ q.res = "thrown" /\ t.state = s.state
           \/ q.res = "true" /\ t.state = "CompilationSuccessful" /\ Compiled(s, t)
    BY ONLY <1>1, <1>2, <1>3, GenerateEnds
  <1>5. /\ ReporterInv(t) /\ t.errors = s.errors
        /\ t.sources = s.sources /\ t.order = s.order /\ t.scopes = s.scopes
        /\ t.compiles = s.compiles + 1
        /\ DOMAIN t.contracts = DOMAIN s.contracts
        /\ \A c \in DOMAIN s.contracts : EntryInv(t.contracts[c], t.compiles)
        /\ Together(t.contracts, t.compiles)
    BY <1>4 DEF GenerateFrame
  <1>6. AnalysedInv(t)
    BY ONLY <1>2, <1>5, AnalysedKept
  <1>7. EntriesInv(t) /\ SourcesInv(t) /\ t.compiles \in Nat
    BY <1>2, <1>5 DEF EntriesInv, SourcesInv
  <1>8. StackInv(t)
    BY ONLY <1>4, <1>5, <1>6, <1>7, s.state \in {"AnalysisSuccessful", "CompilationSuccessful"} DEF StackInv
  <1> QED
    BY ONLY <1>1, <1>4, <1>5, <1>8

(* compile.                                                                *)
LEMMA CompileKeeps ==
    ASSUME NEW s, StackInv(s)
    PROVE  StackInv(Compile(s).s)
  <1>1. PICK p : p = ParseAndAnalyze(s)
    OBVIOUS
  <1>2. StackInv(p.s) /\ (p.res = "true" => p.s.state = "AnalysisSuccessful")
    BY <1>1, ParseAndAnalyzeKeeps
  <1>3. AtLeast(s, "AnalysisSuccessful") => s.state \in {"AnalysisSuccessful", "CompilationSuccessful"}
    BY Ranks DEF StackInv
  <1>4. CASE AtLeast(s, "AnalysisSuccessful")
    <2>1. Compile(s) = Generate(s)
      BY <1>4 DEF Compile, Done
    <2> QED
      BY <1>3, <1>4, <2>1, GenerateKeeps
  <1>5. CASE ~AtLeast(s, "AnalysisSuccessful") /\ p.res = "true"
    <2>1. Compile(s) = Generate(p.s)
      BY <1>1, <1>5 DEF Compile
    <2> QED
      BY <1>2, <1>5, <2>1, GenerateKeeps
  <1>6. CASE ~AtLeast(s, "AnalysisSuccessful") /\ p.res # "true"
    <2>1. Compile(s) = p
      BY <1>1, <1>6 DEF Compile
    <2> QED
      BY <1>2, <2>1
  <1> QED
    BY <1>4, <1>5, <1>6

(* Source maps do not touch code.                                          *)
LEMMA MapsKept ==
    ASSUME NEW s, NEW t, StackInv(s), SameReporter(s, t), t.sources = s.sources, t.order = s.order,
           t.scopes = s.scopes, t.state = s.state, t.compiles = s.compiles,
           s.state \in {"AnalysisSuccessful", "CompilationSuccessful"},
           DOMAIN t.contracts = DOMAIN s.contracts,
           \A c \in DOMAIN s.contracts :
               /\ DOMAIN t.contracts[c] = DOMAIN s.contracts[c]
               /\ t.contracts[c].code = s.contracts[c].code
    PROVE  StackInv(t)
  <1>1. ReporterInv(t) /\ SourcesInv(t) /\ t.compiles \in Nat
    BY ReporterKept DEF StackInv, SourcesInv
  <1>2. AnalysedInv(t)
    BY AnalysedKept DEF StackInv, SameReporter
  <1>3. EntriesInv(s)
    BY DEF StackInv
  <1>4. EntriesInv(t)
    BY <1>3 DEF EntriesInv, EntryInv
  <1>5. s.state = "CompilationSuccessful" => Together(t.contracts, t.compiles)
    <2> SUFFICES ASSUME s.state = "CompilationSuccessful" PROVE Together(t.contracts, t.compiles)
      OBVIOUS
    <2>1. Together(s.contracts, s.compiles)
      BY DEF StackInv
    <2> QED
      BY <2>1 DEF Together
  <1> QED
    BY ONLY <1>1, <1>2, <1>4, <1>5, t.state = s.state,
            s.state \in {"AnalysisSuccessful", "CompilationSuccessful"} DEF StackInv

(* sourceMapping.                                                          *)
LEMMA SourceMappingKeeps ==
    ASSUME NEW s, StackInv(s), NEW c
    PROVE  StackInv(SourceMapping(s, c).s)
  <1>1. CASE c \in DOMAIN s.contracts /\ s.contracts[c].map = 0 /\ s.contracts[c].compiler # 0
    <2>1. s.state \in {"AnalysisSuccessful", "CompilationSuccessful"}
      <3>1. CASE s.state \in {"Empty", "SourcesSet"}
        <4>1. DOMAIN s.contracts = {}
          BY <3>1, Nothing DEF StackInv
        <4> QED
          BY <1>1, <4>1
      <3>2. CASE s.state = "ParsingSuccessful"
        <4>1. s.contracts[c] = NoEntry
          BY <1>1, <3>2 DEF StackInv, ParsedInv
        <4> QED
          BY <1>1, <4>1 DEF NoEntry
      <3> QED
        BY <3>1, <3>2 DEF StackInv
    <2>2. PICK e, E, t : /\ e = [s.contracts[c] EXCEPT !.map = s.contracts[c].compiler]
                         /\ E = [s.contracts EXCEPT ![c] = e]
                         /\ t = [s EXCEPT !.contracts = E]
      OBVIOUS
    <2>3. SourceMapping(s, c).s = t
      BY <1>1, <2>2 DEF SourceMapping, Done
    <2>4. DOMAIN s = Fields
      BY DEF StackInv, ReporterInv
    <2>5. /\ SameReporter(s, t) /\ t.sources = s.sources /\ t.order = s.order
          /\ t.scopes = s.scopes /\ t.state = s.state /\ t.compiles = s.compiles /\ t.contracts = E
      BY ONLY <2>2, <2>4 DEF SameReporter, Fields
    <2>6. DOMAIN s.contracts[c] = {"compiler", "code", "linked", "map"}
      BY <1>1, <2>1 DEF StackInv, EntriesInv, EntryInv
    <2>7. DOMAIN e = DOMAIN s.contracts[c] /\ e.code = s.contracts[c].code
      BY ONLY <2>2, <2>6
    <2>8. /\ DOMAIN E = DOMAIN s.contracts
          /\ \A d \in DOMAIN s.contracts :
                 /\ DOMAIN E[d] = DOMAIN s.contracts[d]
                 /\ E[d].code = s.contracts[d].code
      BY ONLY <2>2, <2>7
    <2>9. StackInv(t)
      BY <2>1, <2>5, <2>8, MapsKept
    <2> QED
      BY <2>3, <2>9
  <1>2. CASE ~(c \in DOMAIN s.contracts /\ s.contracts[c].map = 0 /\ s.contracts[c].compiler # 0)
    <2>1. SourceMapping(s, c).s = s
      BY <1>2 DEF SourceMapping, Done
    <2> QED
      BY <2>1
  <1> QED
    BY <1>1, <1>2

(* A field of its own for every setting.                                   *)
LEMMA SettersKeep ==
    ASSUME NEW s, StackInv(s), NEW x
    PROVE  /\ StackInv([s EXCEPT !.optimize = x])
           /\ StackInv([s EXCEPT !.libraries = x])
           /\ StackInv([s EXCEPT !.requested = x])
           /\ StackInv([s EXCEPT !.standard = x])
           /\ StackInv([s EXCEPT !.evm = x])
  <1> DEFINE Same(t) == /\ SameReporter(s, t) /\ SameResults(s, t)
                        /\ t.sources = s.sources /\ t.state = s.state /\ t.compiles = s.compiles
  <1>1. DOMAIN s = Fields
    BY DEF StackInv, ReporterInv
  <1>2. /\ Same([s EXCEPT !.optimize = x]) /\ Same([s EXCEPT !.libraries = x])
        /\ Same([s EXCEPT !.requested = x]) /\ Same([s EXCEPT !.standard = x])
        /\ Same([s EXCEPT !.evm = x])
    BY ONLY <1>1 DEF SameReporter, SameResults, Fields
  <1>3. ASSUME NEW t, Same(t) PROVE StackInv(t)
    BY <1>3, StackKept
  <1> HIDE DEF Same
  <1> QED
    BY <1>2, <1>3

(* Every call of a program keeps the stack in order.                       *)
LEMMA CallsKeep ==
    ASSUME StackInv(stack), Next
    PROVE  StackInv(stack')
  <1>1. ReporterInv(stack) /\ SourcesInv(stack) /\ stack.compiles \in Nat
    BY DEF StackInv
  <1>2. CASE CallReset
    <2>1. PICK keep \in BOOLEAN : stack' = Reset(stack, keep)
      BY <1>2 DEF CallReset, Set, Change, Done
    <2> QED
      BY <1>1, <2>1, ResetKeeps
  <1>3. CASE CallAddSource
    <2>1. PICK n \in Given, t \in Texts, lib \in BOOLEAN : stack' = AddSource(stack, n, t, lib)
      BY <1>3 DEF CallAddSource, Change, Done
    <2>2. n \in SourceNames
      BY SourcesAssumption, Zenon
    <2> QED
      BY <1>1, <2>1, <2>2, AddSourceKeeps
  <1>4. CASE SetOptimiserSettings
    <2>1. PICK x : stack' = [stack EXCEPT !.optimize = x]
      BY <1>4 DEF SetOptimiserSettings, Set, Change, Done
    <2> QED
      BY <2>1, SettersKeep
  <1>5. CASE SetLibraries
    <2>1. PICK x : stack' = [stack EXCEPT !.libraries = x]
      BY <1>5 DEF SetLibraries, Set, Change, Done
    <2> QED
      BY <2>1, SettersKeep
  <1>6. CASE SetRequestedContractNames
    <2>1. PICK x : stack' = [stack EXCEPT !.requested = x]
      BY <1>6 DEF SetRequestedContractNames, Set, Change, Done
    <2> QED
      BY <2>1, SettersKeep
  <1>7. CASE SetContractStandard
    <2>1. PICK x : stack' = [stack EXCEPT !.standard = x]
      BY <1>7 DEF SetContractStandard, Set, Change, Done
    <2> QED
      BY <2>1, SettersKeep
  <1>8. CASE SetEVMVersion
    <2>1. CASE AtLeast(stack, "ParsingSuccessful")
      <3>1. stack' = stack
        BY <1>8, <2>1 DEF SetEVMVersion, Call, Done
      <3> QED
        BY <3>1
    <2>2. CASE ~AtLeast(stack, "ParsingSuccessful")
      <3>1. PICK x : stack' = [stack EXCEPT !.evm = x]
        BY <1>8, <2>2 DEF SetEVMVersion, Set, Change, Done
      <3> QED
        BY <3>1, SettersKeep
    <2> QED
      BY <2>1, <2>2
  <1>9. CASE CallParse
    <2>1. stack' = Parse(stack).s
      BY <1>9 DEF CallParse, Call
    <2> QED
      BY <2>1, ParseKeeps
  <1>10. CASE CallAnalyze
    <2>1. stack' = Analyze(stack).s
      BY <1>10 DEF CallAnalyze, Call
    <2> QED
      BY <2>1, AnalyzeKeeps
  <1>11. CASE CallParseAndAnalyze
    <2>1. stack' = ParseAndAnalyze(stack).s
      BY <1>11 DEF CallParseAndAnalyze, Call
    <2> QED
      BY <2>1, ParseAndAnalyzeKeeps
  <1>12. CASE CallCompile
    <2>1. stack' = Compile(stack).s
      BY <1>12 DEF CallCompile, Call
    <2> QED
      BY <2>1, CompileKeeps
  <1>13. CASE CallSourceMapping
    <2>1. PICK c : stack' = SourceMapping(stack, c).s
      BY <1>13 DEF CallSourceMapping, Call
    <2> QED
      BY <2>1, SourceMappingKeeps
  <1> QED
    BY <1>2, <1>3, <1>4, <1>5, <1>6, <1>7, <1>8, <1>9, <1>10, <1>11, <1>12, <1>13 DEF Next

(* The state tells what the data are good for.                             *)
LEMMA StackInvMeans ==
    ASSUME StackInv(stack)
    PROVE  StateMatchesData /\ SuccessClean
  <1>1. /\ AtLeast(stack, "AnalysisSuccessful")
               <=> stack.state \in {"AnalysisSuccessful", "CompilationSuccessful"}
        /\ AtLeast(stack, "ParsingSuccessful") <=> stack.state \notin {"Empty", "SourcesSet"}
    BY Ranks DEF StackInv
  <1>2. AtLeast(stack, "AnalysisSuccessful") => AnalysedInv(stack)
    BY <1>1 DEF StackInv
  <1>3. AtLeast(stack, "ParsingSuccessful") => AllGood(stack)
    <2>1. stack.state = "ParsingSuccessful" => AllGood(stack)
      BY DEF StackInv, ParsedInv
    <2>2. stack.state \in {"AnalysisSuccessful", "CompilationSuccessful"} => AllGood(stack)
      BY <1>1, <1>2 DEF AnalysedInv
    <2> QED
      BY <1>1, <2>1, <2>2 DEF StackInv
  <1>4. AtLeast(stack, "ParsingSuccessful") =>
           \A n \in Known(stack) :
               /\ Ast(stack, n) = stack.sources[n].text
               /\ ToSet(Imports[Ast(stack, n)]) \subseteq Known(stack)
    BY <1>3 DEF AllGood, TreeGood, Known
  <1>5. AtLeast(stack, "AnalysisSuccessful") => DOMAIN stack.contracts = AllContracts(stack)
    BY <1>2 DEF AnalysedInv
  <1>6. DOMAIN stack.contracts # {} => AtLeast(stack, "ParsingSuccessful")
    BY <1>1, Nothing DEF StackInv
  <1>7. ImportsFirst
    <2>1. AtLeast(stack, "AnalysisSuccessful") => ImportsInOrder(stack)
      BY <1>2, OrderGood DEF AnalysedInv
    <2> QED
      BY ONLY <2>1 DEF ImportsFirst, ImportsInOrder
  <1>8. EmbeddedTogether
    <2>1. stack.state = "CompilationSuccessful" => Together(stack.contracts, stack.compiles)
      BY DEF StackInv
    <2> QED
      BY ONLY <2>1 DEF EmbeddedTogether, Together
  <1>9. StateMatchesData
    BY ONLY <1>4, <1>5, <1>6, <1>7, <1>8 DEF StateMatchesData
  <1>10. SuccessClean
    <2>1. AtLeast(stack, "AnalysisSuccessful") => Clean(stack)
      BY <1>2 DEF AnalysedInv
    <2> QED
      BY ONLY <2>1 DEF SuccessClean, Clean
  <1> QED
    BY <1>9, <1>10

-----------------------------------------------------------------------------
(* Requests.                                                               *)

(* A compilation that did not succeed has a reason.                        *)
Explained(c) ==
    \/ c.res = "thrown"
    \/ c.s.state = "CompilationSuccessful"
    \/ Reported(c.s)

(* t is what compile made of the analysed stack a, whose settings are      *)
(* those of s and whose entries were new.                                  *)
Fresh(a, s, t) ==
    /\ Prepared(a) /\ SameOptions(s, a) /\ a.sources = t.sources
    /\ DOMAIN t.contracts = DOMAIN a.contracts
    /\ \A c \in DOMAIN a.contracts : a.contracts[c] = NoEntry
    /\ a.compiles \in Nat /\ t.compiles = a.compiles + 1 /\ Compiled(a, t)

(* parseAndAnalyze of new sources.                                         *)
LEMMA AnalysisFresh ==
    ASSUME NEW s, StackInv(s), s.state = "SourcesSet"
    PROVE  LET q == ParseAndAnalyze(s) IN
           /\ StackInv(q.s) /\ SameOptions(s, q.s)
           /\ DOMAIN q.s.sources \subseteq DOMAIN s.sources \cup DOMAIN Files
           /\ q.s.state # "CompilationSuccessful"
           /\ \/ q.res = "thrown"
              \/ q.res = "false" /\ Reported(q.s)
              \/ /\ q.res = "true" /\ q.s.state = "AnalysisSuccessful"
                 /\ \A c \in DOMAIN q.s.contracts : q.s.contracts[c] = NoEntry
  <1>1. PICK p, t : p = Parse(s) /\ t = Parse(s).s
    OBVIOUS
  <1>2. ReporterInv(s) /\ SourcesInv(s)
    BY DEF StackInv
  <1>3. /\ AfterParse(s, t)
        /\ \/ p.res = "thrown" /\ t.state = "SourcesSet"
           \/ p.res = "false" /\ t.state = "SourcesSet" /\ Reported(t)
           \/ p.res = "true" /\ t.state = "ParsingSuccessful"
    BY <1>1, <1>2, ParseEnds
  <1>4. StackInv(t)
    BY <1>1, ParseKeeps
  <1>5. SameOptions(s, t) /\ DOMAIN t.sources \subseteq DOMAIN s.sources \cup DOMAIN Files
    BY <1>3 DEF AfterParse
  <1>6. CASE p.res # "true"
    <2>1. ParseAndAnalyze(s) = p /\ p.s = t
      BY <1>1, <1>6 DEF ParseAndAnalyze
    <2> QED
      BY ONLY <1>3, <1>4, <1>5, <1>6, <2>1
  <1>7. CASE p.res = "true"
    <2>1. PICK a, u : a = Analyze(t) /\ u = Analyze(t).s
      OBVIOUS
    <2>2. ParseAndAnalyze(s) = a
      BY <1>1, <1>7, <2>1 DEF ParseAndAnalyze
    <2>3. t.state = "ParsingSuccessful" /\ ReporterInv(t)
      BY <1>3, <1>4, <1>7 DEF StackInv
    <2>4. ParsedInv(t)
      BY <1>4, <2>3 DEF StackInv
    <2>5. /\ u.sources = t.sources /\ SameOptions(t, u)
          /\ \/ a.res = "thrown" /\ u.state = "ParsingSuccessful"
             \/ a.res = "false" /\ u.state = "ParsingSuccessful" /\ Reported(u)
             \/ /\ a.res = "true" /\ u.state = "AnalysisSuccessful"
                /\ \A c \in DOMAIN u.contracts : u.contracts[c] = NoEntry
      BY <2>1, <2>3, <2>4, AnalyzeEnds
    <2>6. StackInv(u)
      BY <1>4, <2>1, AnalyzeKeeps
    <2>7. SameOptions(s, u) /\ DOMAIN u.sources \subseteq DOMAIN s.sources \cup DOMAIN Files
      BY <1>5, <2>5 DEF SameOptions
    <2> QED
      BY ONLY <2>1, <2>2, <2>5, <2>6, <2>7
  <1> QED
    BY <1>6, <1>7

(* compile of new sources.                                                 *)
LEMMA CompileFresh ==
    ASSUME NEW s, StackInv(s), s.state = "SourcesSet"
    PROVE  LET q == Compile(s) IN
           /\ StackInv(q.s) /\ Explained(q)
           /\ DOMAIN q.s.sources \subseteq DOMAIN s.sources \cup DOMAIN Files
           /\ q.s.state = "CompilationSuccessful" => \E a : Fresh(a, s, q.s)
  <1>1. PICK p, b : p = ParseAndAnalyze(s) /\ b = ParseAndAnalyze(s).s
    OBVIOUS
  <1>2. /\ StackInv(b) /\ SameOptions(s, b)
        /\ DOMAIN b.sources \subseteq DOMAIN s.sources \cup DOMAIN Files
        /\ b.state # "CompilationSuccessful"
        /\ \/ p.res = "thrown"
           \/ p.res = "false" /\ Reported(b)
           \/ /\ p.res = "true" /\ b.state = "AnalysisSuccessful"
              /\ \A c \in DOMAIN b.contracts : b.contracts[c] = NoEntry
    BY <1>1, AnalysisFresh
  <1>3. ~AtLeast(s, "AnalysisSuccessful")
    BY Ranks
  <1>4. CASE p.res # "true"
    <2>1. Compile(s) = p /\ p.s = b
      BY <1>1, <1>3, <1>4 DEF Compile
    <2> QED
      BY ONLY <1>2, <1>4, <2>1 DEF Explained
  <1>5. CASE p.res = "true"
    <2>1. PICK q, t : q = Generate(b) /\ t = Generate(b).s
      OBVIOUS
    <2>2. Compile(s) = q
      BY <1>1, <1>3, <1>5, <2>1 DEF Compile
    <2>3. /\ b.state = "AnalysisSuccessful" /\ StackInv(b)
          /\ \A c \in DOMAIN b.contracts : b.contracts[c] = NoEntry
      BY <1>2, <1>5
    <2>4. /\ StackInv(t) /\ t.sources = b.sources /\ t.compiles = b.compiles + 1
          /\ DOMAIN t.contracts = DOMAIN b.contracts
          /\ \/ q.res = "thrown" /\ t.state = b.state
             \/ q.res = "true" /\ t.state = "CompilationSuccessful" /\ Compiled(b, t)
      BY <2>1, <2>3, GenerateKeeps
    <2>5. Prepared(b) /\ b.compiles \in Nat
      BY <2>3 DEF StackInv, AnalysedInv, Prepared
    <2>6. t.state = "CompilationSuccessful" => Fresh(b, s, t)
      BY ONLY <1>2, <2>3, <2>4, <2>5 DEF Fresh
    <2>7. Explained(q)
      BY ONLY <2>1, <2>4 DEF Explained
    <2> QED
      BY ONLY <1>2, <2>1, <2>2, <2>4, <2>6, <2>7
  <1> QED
    BY <1>4, <1>5

(* Without sources nothing happens.                                        *)
LEMMA NothingToCompile ==
    ASSUME NEW s, s.state = "Empty"
    PROVE  Compile(s) = Done(s, "false")
  <1>1. Parse(s) = Done(s, "false")
    BY DEF Parse
  <1>2. ParseAndAnalyze(s) = Done(s, "false")
    BY <1>1 DEF ParseAndAnalyze, Done
  <1>3. ~AtLeast(s, "AnalysisSuccessful")
    BY Ranks
  <1> QED
    BY <1>2, <1>3 DEF Compile, Done

(* An offer is taken if there is a text, and it is one.                    *)
LEMMA TakenText ==
    ASSUME NEW X, NEW offers \in Seq(X)
    PROVE  IF Taken(offers) = 0
           THEN \A i \in 1..Len(offers) : offers[i] \notin Texts
           ELSE offers[Taken(offers)] \in Texts
  <1> DEFINE I == {i \in 1..Len(offers) : offers[i] \in Texts}
  <1>1. Taken(offers) = IF I # {} THEN Min(I) ELSE 0
    BY DEF Taken, SelectInSeq
  <1>2. CASE I = {}
    BY <1>1, <1>2
  <1>3. CASE I # {}
    <2>1. I \in SUBSET Nat /\ \A i \in I : i # 0
      OBVIOUS
    <2>2. PICK i \in I : \A j \in I : i <= j
      BY <1>3, <2>1, LeastNumber
    <2>3. Min(I) \in I
      BY <2>2 DEF Min
    <2> QED
      BY <1>1, <1>3, <2>1, <2>3
  <1> QED
    BY <1>2, <1>3

(* The stack while the sources of a request are added: nothing is          *)
(* reported, the state tells whether there is a source, and the settings   *)
(* are the defaults.                                                       *)
AddInv(s, r) ==
    /\ StackInv(s)
    /\ s.errors = 0 /\ s.excess = FALSE
    /\ s.state \in {"Empty", "SourcesSet"}
    /\ s.optimize = FALSE /\ s.evm = FALSE
    /\ DOMAIN s.sources \subseteq DOMAIN r.sources

Offered(r, n) == n \in DOMAIN r.sources /\ Taken(r.sources[n]) # 0

(* One source.                                                             *)
LEMMA AddOneKeeps ==
    ASSUME NEW r \in Requests, NEW s, AddInv(s, r), NEW n
    PROVE  /\ AddInv(AddOne(s, r, n), r)
           /\ AddOne(s, r, n).state = IF Offered(r, n) THEN "SourcesSet" ELSE s.state
  <1>1. CASE ~Offered(r, n)
    BY <1>1 DEF AddOne, Offered
  <1>2. CASE Offered(r, n)
    <2>1. PICK t, v : /\ t = r.sources[n][Taken(r.sources[n])]
                      /\ v = AddSource(s, n, r.sources[n][Taken(r.sources[n])], FALSE)
      OBVIOUS
    <2>2. AddOne(s, r, n) = v
      BY <1>2, <2>1 DEF AddOne, Offered
    <2>3. t \in Texts /\ n \in SourceNames /\ n \in DOMAIN r.sources
      BY <1>2, <2>1, RequestsAssumption, TakenText DEF Offered
    <2>4. ReporterInv(s) /\ s.compiles \in Nat /\ SourcesInv(s)
      BY DEF AddInv, StackInv
    <2>5. /\ StackInv(v) /\ v.state = "SourcesSet"
          /\ DOMAIN v.sources \subseteq DOMAIN s.sources \cup {n}
          /\ v.errors = 0 /\ v.excess = FALSE /\ v.optimize = FALSE /\ v.evm = FALSE
      <3>1. PICK lib \in BOOLEAN : lib = FALSE
        OBVIOUS
      <3>2. v = AddSource(s, n, t, lib)
        BY ONLY <2>1, <3>1
      <3>3. /\ StackInv(AddSource(s, n, t, lib)) /\ AddSource(s, n, t, lib).state = "SourcesSet"
            /\ DOMAIN AddSource(s, n, t, lib).sources \subseteq DOMAIN s.sources \cup {n}
            /\ AddSource(s, n, t, lib).errors = 0 /\ AddSource(s, n, t, lib).excess = FALSE
            /\ AddSource(s, n, t, lib).optimize = FALSE /\ AddSource(s, n, t, lib).evm = FALSE
        BY ONLY <2>3, <2>4, lib \in BOOLEAN, AddSourceKeeps
      <3> QED
        BY ONLY <3>2, <3>3, Zenon
    <2>6. DOMAIN v.sources \subseteq DOMAIN r.sources
      BY <2>3, <2>5 DEF AddInv
    <2>7. AddInv(v, r)
      BY ONLY <2>5, <2>6 DEF AddInv
    <2> QED
      BY ONLY <1>2, <2>2, <2>5, <2>7
  <1> QED
    BY <1>1, <1>2

(* All sources.                                                            *)
LEMMA AddSourcesKeeps ==
    ASSUME NEW r \in Requests, NEW s, AddInv(s, r), s.state = "Empty"
    PROVE  /\ AddInv(AddSources(s, r), r)
           /\ AddSources(s, r).state = "Empty" => \A n \in DOMAIN r.sources : Taken(r.sources[n]) = 0
  <1> DEFINE N == Len(NameOrder)
  <1>1. N \in Nat
    BY Lengths
  <1>2. PICK f : /\ AddSources(s, r) = f[N]
                 /\ f[0] = s
                 /\ \A n \in 1..N : f[n] = AddOne(f[n - 1], r, NameOrder[n])
    BY AddLoop
  <1> DEFINE Inv(n) == /\ AddInv(f[n], r)
                       /\ f[n].state = "Empty" => \A j \in 1..n : ~Offered(r, NameOrder[j])
             S == {n \in 0..N : Inv(n)}
  <1>3. \A x \in DOMAIN r.sources : \E j \in 1..N : x = NameOrder[j]
    <2>1. DOMAIN r.sources \subseteq SourceNames
      BY RequestsAssumption
    <2> QED
      BY <2>1, NameNumber
  <1> HIDE DEF N
  <1>4. 0 \in S
    BY <1>1, <1>2
  <1>5. ASSUME NEW n \in 1..N, n - 1 \in S
        PROVE  n \in S
    <2>1. f[n] = AddOne(f[n - 1], r, NameOrder[n]) /\ Inv(n - 1) /\ n \in 0..N
      BY <1>1, <1>2, <1>5
    <2>2. /\ AddInv(f[n], r)
          /\ f[n].state = IF Offered(r, NameOrder[n]) THEN "SourcesSet" ELSE f[n - 1].state
      BY <2>1, AddOneKeeps
    <2>3. \A j \in 1..n : j = n \/ j \in 1..(n - 1)
      BY <1>1
    <2> QED
      BY <2>1, <2>2, <2>3
  <1>6. N \in S
    <2> HIDE DEF S
    <2> QED
      BY <1>1, <1>4, <1>5, CountingUp
  <1> QED
    BY <1>2, <1>3, <1>6 DEF Offered

(* The settings of a request that is not malformed.                        *)
AsAsked(t, r) ==
    /\ t.optimize = (r.optimize = "on") /\ t.evm = (r.evm = "on") /\ t.requested = r.requested

(* Two stacks that differ in their settings.                               *)
SameButSettings(s, t) ==
    /\ SameReporter(s, t) /\ SameResults(s, t)
    /\ t.sources = s.sources /\ t.state = s.state /\ t.compiles = s.compiles

(* The settings.                                                           *)
LEMMA ConfigureKeeps ==
    ASSUME NEW r, NEW s, AddInv(s, r)
    PROVE  /\ SameButSettings(s, Configure(s, r))
           /\ r.bad = "no" => AsAsked(Configure(s, r), r)
  <1>1. DOMAIN s = Fields /\ s.optimize = FALSE /\ s.evm = FALSE
    BY DEF AddInv, StackInv, ReporterInv
  <1>2. SameButSettings(s, s)
    BY DEF SameButSettings, SameReporter, SameResults
  <1>3. PICK s1 : s1 = IF r.evm = "absent" THEN s ELSE [s EXCEPT !.evm = (r.evm = "on")]
    OBVIOUS
  <1>4. DOMAIN s1 = Fields /\ SameButSettings(s, s1)
    BY ONLY <1>1, <1>2, <1>3 DEF SameButSettings, SameReporter, SameResults, Fields
  <1>5. s1.evm = (r.evm = "on") /\ s1.optimize = FALSE
    <2>1. CASE r.evm = "absent"
      <3>1. r.evm # "on" /\ s1 = s
        BY ONLY <1>3, <2>1
      <3>2. (r.evm = "on") = FALSE
        BY ONLY <3>1
      <3> QED
        BY ONLY <1>1, <3>1, <3>2, Zenon
    <2>2. CASE r.evm # "absent"
      BY ONLY <1>1, <1>3, <2>2 DEF Fields
    <2> QED
      BY ONLY <2>1, <2>2
  <1>6. PICK s2 : s2 = IF r.optimize = "absent" THEN s1 ELSE [s1 EXCEPT !.optimize = (r.optimize = "on")]
    OBVIOUS
  <1>7. DOMAIN s2 = Fields /\ SameButSettings(s, s2)
    BY ONLY <1>4, <1>6 DEF SameButSettings, SameReporter, SameResults, Fields
  <1>8. s2.evm = s1.evm /\ s2.optimize = (r.optimize = "on")
    <2>1. CASE r.optimize = "absent"
      <3>1. r.optimize # "on" /\ s2 = s1
        BY ONLY <1>6, <2>1
      <3>2. (r.optimize = "on") = FALSE
        BY ONLY <3>1
      <3> QED
        BY ONLY <1>5, <3>1, <3>2, Zenon
    <2>2. CASE r.optimize # "absent"
      BY ONLY <1>4, <1>6, <2>2 DEF Fields
    <2> QED
      BY ONLY <2>1, <2>2
  <1>9. PICK s3 : s3 = IF r.standard = "absent" THEN s2 ELSE [s2 EXCEPT !.standard = r.standard]
    OBVIOUS
  <1>10. DOMAIN s3 = Fields /\ SameButSettings(s, s3) /\ s3.evm = s2.evm /\ s3.optimize = s2.optimize
    BY ONLY <1>7, <1>9 DEF SameButSettings, SameReporter, SameResults, Fields
  <1>11. PICK s4 : s4 = [s3 EXCEPT !.libraries = r.libraries, !.requested = RequestedContractNames(r)]
    OBVIOUS
  <1>12. /\ SameButSettings(s, s4) /\ s4.evm = s3.evm /\ s4.optimize = s3.optimize
         /\ s4.requested = RequestedContractNames(r)
    BY ONLY <1>10, <1>11 DEF SameButSettings, SameReporter, SameResults, Fields
  <1>13. /\ Configure(s, r) \in {s, s1, s3, s4}
         /\ r.bad = "no" => Configure(s, r) = s4
    BY <1>3, <1>6, <1>9, <1>11 DEF Configure
  <1>14. AsAsked(s4, r)
    <2>1. s4.evm = (r.evm = "on")
      BY ONLY <1>5, <1>8, <1>10, <1>12, Zenon
    <2>2. s4.optimize = (r.optimize = "on")
      BY ONLY <1>8, <1>10, <1>12, Zenon
    <2>3. s4.requested = r.requested
      BY ONLY <1>12 DEF RequestedContractNames
    <2> QED
      BY ONLY <2>1, <2>2, <2>3, Zenon DEF AsAsked
  <1> QED
    BY ONLY <1>2, <1>4, <1>10, <1>12, <1>13, <1>14, Zenon

(* The source maps of a successful compilation.                            *)
LEMMA MapAllKeeps ==
    ASSUME NEW s, StackInv(s), s.state = "CompilationSuccessful"
    PROVE  LET t == MapAll(s) IN
           /\ StackInv(t) /\ t.state = s.state /\ t.sources = s.sources /\ t.compiles = s.compiles
           /\ DOMAIN t.contracts = DOMAIN s.contracts
           /\ \A c \in DOMAIN s.contracts :
                  /\ t.contracts[c].code = s.contracts[c].code
                  /\ t.contracts[c].map = (IF s.contracts[c].map = 0 THEN s.contracts[c].compiler
                                           ELSE s.contracts[c].map)
  <1>1. PICK t, E : /\ E = [c \in DOMAIN s.contracts |-> SourceMapping(s, c).s.contracts[c]]
                    /\ t = MapAll(s)
    OBVIOUS
  <1>2. t = [s EXCEPT !.contracts = E]
    BY <1>1 DEF MapAll
  <1>3. DOMAIN s = Fields /\ EntriesInv(s)
    BY DEF StackInv, ReporterInv
  <1>4. /\ SameReporter(s, t) /\ t.sources = s.sources /\ t.order = s.order
        /\ t.scopes = s.scopes /\ t.state = s.state /\ t.compiles = s.compiles /\ t.contracts = E
    BY ONLY <1>2, <1>3 DEF SameReporter, Fields
  <1>5. ASSUME NEW c \in DOMAIN s.contracts
        PROVE  /\ DOMAIN E[c] = DOMAIN s.contracts[c]
               /\ E[c].code = s.contracts[c].code
               /\ E[c].map = (IF s.contracts[c].map = 0 THEN s.contracts[c].compiler
                              ELSE s.contracts[c].map)
    <2>1. E[c] = SourceMapping(s, c).s.contracts[c]
      BY <1>1
    <2>2. DOMAIN s.contracts[c] = {"compiler", "code", "linked", "map"}
      BY <1>3 DEF EntriesInv, EntryInv
    <2>3. CASE s.contracts[c].map = 0 /\ s.contracts[c].compiler # 0
      <3>1. SourceMapping(s, c).s = [s EXCEPT !.contracts[c].map = s.contracts[c].compiler]
        BY <2>3 DEF SourceMapping, Done
      <3>2. E[c] = [s.contracts[c] EXCEPT !.map = s.contracts[c].compiler]
        BY ONLY <1>3, <2>1, <3>1, c \in DOMAIN s.contracts DEF Fields
      <3> QED
        BY ONLY <2>2, <2>3, <3>2
    <2>4. CASE ~(s.contracts[c].map = 0 /\ s.contracts[c].compiler # 0)
      <3>1. SourceMapping(s, c).s = s
        BY <2>4 DEF SourceMapping, Done
      <3>2. E[c] = s.contracts[c]
        BY ONLY <2>1, <3>1
      <3> QED
        BY ONLY <2>4, <3>2
    <2> QED
      BY <2>3, <2>4
  <1>6. DOMAIN E = DOMAIN s.contracts
    BY <1>1
  <1>7. s.state \in {"AnalysisSuccessful", "CompilationSuccessful"}
    OBVIOUS
  <1>8. StackInv(t)
    BY <1>4, <1>5, <1>6, <1>7, MapsKept
  <1> QED
    BY ONLY <1>1, <1>4, <1>5, <1>6, <1>8

(* What the answer a shows was made by the request r.                      *)
AnswerShows(a, r) ==
    \A c \in DOMAIN a.res.contracts :
        LET shown == a.res.contracts[c] IN
        /\ shown.code # NoCode =>
               /\ shown.code.gen = a.s.compiles
               /\ shown.map = a.s.compiles
               /\ shown.code.text = a.s.sources[c[1]].text
               /\ shown.code.optimize = (r.optimize = "on")
               /\ shown.code.evm = (r.evm = "on")
        /\ (Deployable(c) /\ (r.requested = {} \/ c \in r.requested)) => shown.code # NoCode
        /\ c[1] \in DOMAIN r.sources \cup DOMAIN Files

(* The entries of a fresh compilation.                                     *)
LEMMA FreshShown ==
    ASSUME NEW r, NEW s, NEW a, NEW t, Fresh(a, s, t), AsAsked(s, r),
           DOMAIN t.sources \subseteq DOMAIN r.sources \cup DOMAIN Files,
           NEW c \in DOMAIN t.contracts
    PROVE  LET e == t.contracts[c] IN
           /\ e.code # NoCode =>
                  /\ e.code.gen = t.compiles
                  /\ (IF e.map = 0 THEN e.compiler ELSE e.map) = t.compiles
                  /\ e.code.text = t.sources[c[1]].text
                  /\ e.code.optimize = (r.optimize = "on")
                  /\ e.code.evm = (r.evm = "on")
           /\ (Deployable(c) /\ (r.requested = {} \/ c \in r.requested)) => e.code # NoCode
           /\ c[1] \in DOMAIN r.sources \cup DOMAIN Files
  <1>1. /\ Prepared(a) /\ SameOptions(s, a) /\ a.sources = t.sources
        /\ c \in DOMAIN a.contracts /\ a.contracts[c] = NoEntry
        /\ a.compiles \in Nat /\ t.compiles = a.compiles + 1 /\ Compiled(a, t)
    BY DEF Fresh
  <1>2. a.optimize = s.optimize /\ a.evm = s.evm /\ a.requested = s.requested
    BY <1>1 DEF SameOptions
  <1>3. AllGood(a) /\ c \in AllContracts(a) /\ a.order = ResolveImports(a)
    BY <1>1 DEF Prepared
  <1>4. c[1] \in DOMAIN a.sources
    BY <1>3, ContractListed
  <1>5. Ast(a, c[1]) = t.sources[c[1]].text
    BY <1>1, <1>3, <1>4 DEF AllGood, TreeGood
  <1>6. t.compiles \in Nat /\ t.compiles # 0
    BY <1>1
  <1>7. CASE Listed(CompileOrder(a), c)
    <2>1. Made(t.contracts, c, a, t.compiles)
      BY <1>1, <1>7 DEF Compiled
    <2>2. PICK e : e = t.contracts[c]
      OBVIOUS
    <2>3. /\ e.compiler = t.compiles /\ e.map = a.contracts[c].map
          /\ e.code.gen = t.compiles /\ e.code.text = Ast(a, c[1])
          /\ e.code.optimize = a.optimize /\ e.code.evm = a.evm
      BY ONLY <2>1, <2>2 DEF Made
    <2>4. e.map = 0
      BY <1>1, <2>3 DEF NoEntry
    <2>5. e.code # NoCode
      BY <1>6, <2>3 DEF NoCode
    <2>6. e.code.optimize = (r.optimize = "on") /\ e.code.evm = (r.evm = "on")
      BY ONLY <1>2, <2>3, AsAsked(s, r), Zenon DEF AsAsked
    <2>7. (IF e.map = 0 THEN e.compiler ELSE e.map) = t.compiles
      BY <2>3, <2>4
    <2>8. c[1] \in DOMAIN r.sources \cup DOMAIN Files
      BY <1>1, <1>4
    <2> QED
      BY ONLY <1>5, <2>2, <2>3, <2>5, <2>6, <2>7, <2>8, Zenon
  <1>8. CASE ~Listed(CompileOrder(a), c)
    <2>1. t.contracts[c].code = NoCode
      <3>1. t.contracts[c].code = a.contracts[c].code
        BY <1>1, <1>8 DEF Compiled
      <3> QED
        BY <1>1, <3>1 DEF NoEntry
    <2>2. ~(Deployable(c) /\ (r.requested = {} \/ c \in r.requested))
      <3>1. ~(IsRequested(a, c) /\ Deployable(c))
        BY <1>1, <1>8, CompileOrderFacts
      <3>2. a.requested = r.requested
        BY <1>2 DEF AsAsked
      <3> QED
        BY <3>1, <3>2 DEF IsRequested
    <2>3. c[1] \in DOMAIN r.sources \cup DOMAIN Files
      BY <1>1, <1>4
    <2> QED
      BY ONLY <2>1, <2>2, <2>3
  <1> QED
    BY <1>7, <1>8

(* An answer of a failed compilation says why, or there was nothing to     *)
(* compile, or the reporter is above its limit.                            *)
AnswerSays(a, r) ==
    /\ a.res.kind = "silent" => \A n \in DOMAIN r.sources : r.sources[n] = <<>>
    /\ (a.res.kind = "output" /\ a.s.state # "CompilationSuccessful") =>
           a.res.errors \/ a.s.count > ErrorLimit

(* What is offered and not taken was tried in vain.                        *)
LEMMA NotTaken ==
    ASSUME NEW r \in Requests, NEW n \in DOMAIN r.sources, Taken(r.sources[n]) = 0
    PROVE  /\ ~IOListed(r.sources[n]) => r.sources[n] = <<>>
           /\ IOListed(r.sources[n]) => IOErrors(r.sources[n])
  <1>1. PICK offers : offers = r.sources[n]
    OBVIOUS
  <1>2. offers \in Seq(Texts \cup {Mismatch, Unreadable})
    BY <1>1, RequestsAssumption
  <1>3. Tried(offers) = offers
    BY <1>1 DEF Tried
  <1>4. \A i \in 1..Len(offers) : offers[i] \notin Texts
    BY <1>1, <1>2, TakenText
  <1>5. ToSet(offers) = {offers[i] : i \in 1..Len(offers)}
    BY <1>2 DEF ToSet
  <1>6. ASSUME offers # <<>>
        PROVE  {Mismatch, Unreadable} \cap ToSet(offers) # {}
    <2>1. 1 \in 1..Len(offers)
      BY <1>2, <1>6
    <2>2. offers[1] \in {Mismatch, Unreadable}
      BY <1>2, <1>4, <2>1
    <2> QED
      BY <1>5, <2>1, <2>2
  <1>7. ~IOListed(offers) => offers = <<>>
    BY <1>3, <1>6 DEF IOListed
  <1>8. IOListed(offers) => IOErrors(offers)
    BY <1>1, <1>3 DEF IOListed, IOErrors
  <1> QED
    BY <1>1, <1>7, <1>8

(* The answer to a request whose compilation ended.                        *)
LEMMA AnswerEnds ==
    ASSUME NEW r \in Requests, NEW q, NEW c, StackInv(c.s), AsAsked(q, r),
           Explained(c) \/ \A n \in DOMAIN r.sources : Taken(r.sources[n]) = 0,
           DOMAIN c.s.sources \subseteq DOMAIN r.sources \cup DOMAIN Files,
           c.s.state = "CompilationSuccessful" => \E a : Fresh(a, q, c.s)
    PROVE  LET a == Answer(r, c) IN StackInv(a.s) /\ AnswerSays(a, r) /\ AnswerShows(a, r)
  <1> DEFINE io == \E n \in DOMAIN r.sources : IOErrors(r.sources[n])
             listed == \E n \in DOMAIN r.sources : IOListed(r.sources[n])
             success == c.s.state = "CompilationSuccessful"
             s == MapAll(c.s)
             errors == io \/ c.res = "thrown" \/ c.s.errors > 0
             shown == listed \/ c.res = "thrown" \/ c.s.errors > 0 \/ c.s.excess
             contracts == IF success
                          THEN [n \in DOMAIN s.contracts |->
                                  [code |-> s.contracts[n].code, map |-> s.contracts[n].map]]
                          ELSE <<>>
             answered == [kind |-> "output", errors |-> errors, listed |-> shown, contracts |-> contracts]
  <1>1. Answer(r, c) = IF ~success /\ ~shown THEN Done(c.s, SilentAnswer)
                       ELSE Done(IF success THEN s ELSE c.s, answered)
    BY DEF Answer
  <1>2. success => StackInv(s) /\ s.state = c.s.state
    BY MapAllKeeps
  <1>3. answered.kind = "output" /\ answered.errors = errors /\ answered.contracts = contracts
    BY Zenon
  <1>4. (~success /\ ~shown) => \A n \in DOMAIN r.sources : r.sources[n] = <<>>
    BY NotTaken DEF Explained, Reported
  <1>5. (~success /\ shown) => errors \/ c.s.count > ErrorLimit
    <2>1. CASE Explained(c)
      BY <2>1 DEF Explained, Reported, StackInv, ReporterInv
    <2>2. CASE ~Explained(c)
      <3>1. \A n \in DOMAIN r.sources : Taken(r.sources[n]) = 0
        BY <2>2
      <3>2. listed => io
        BY <3>1, NotTaken
      <3> QED
        BY <2>2, <3>2 DEF Explained, Reported
    <2> QED
      BY <2>1, <2>2
  <1>6. ASSUME success PROVE AnswerShows(Done(s, answered), r)
    <2>1. PICK a : Fresh(a, q, c.s)
      BY <1>6
    <2>2. PICK u : u = Done(s, answered)
      OBVIOUS
    <2>3. u.s = s /\ u.res = answered
      BY <2>2 DEF Done
    <2>4. /\ s.sources = c.s.sources /\ s.compiles = c.s.compiles
          /\ DOMAIN s.contracts = DOMAIN c.s.contracts
          /\ \A n \in DOMAIN c.s.contracts :
                 /\ s.contracts[n].code = c.s.contracts[n].code
                 /\ s.contracts[n].map = (IF c.s.contracts[n].map = 0 THEN c.s.contracts[n].compiler
                                          ELSE c.s.contracts[n].map)
      BY <1>6, MapAllKeeps
    <2> HIDE DEF s
    <2>5. /\ DOMAIN contracts = DOMAIN c.s.contracts
          /\ \A n \in DOMAIN c.s.contracts : /\ contracts[n].code = s.contracts[n].code
                                             /\ contracts[n].map = s.contracts[n].map
      BY <1>6, <2>4
    <2> HIDE DEF contracts, answered
    <2>6. ASSUME NEW n \in DOMAIN c.s.contracts
          PROVE  LET e == contracts[n] IN
                 /\ e.code # NoCode =>
                        /\ e.code.gen = s.compiles
                        /\ e.map = s.compiles
                        /\ e.code.text = s.sources[n[1]].text
                        /\ e.code.optimize = (r.optimize = "on")
                        /\ e.code.evm = (r.evm = "on")
                 /\ (Deployable(n) /\ (r.requested = {} \/ n \in r.requested)) => e.code # NoCode
                 /\ n[1] \in DOMAIN r.sources \cup DOMAIN Files
      <3>1. PICK e, k : e = c.s.contracts[n] /\ k = contracts[n]
        OBVIOUS
      <3>2. /\ e.code # NoCode =>
                  /\ e.code.gen = c.s.compiles
                  /\ (IF e.map = 0 THEN e.compiler ELSE e.map) = c.s.compiles
                  /\ e.code.text = c.s.sources[n[1]].text
                  /\ e.code.optimize = (r.optimize = "on")
                  /\ e.code.evm = (r.evm = "on")
            /\ (Deployable(n) /\ (r.requested = {} \/ n \in r.requested)) => e.code # NoCode
            /\ n[1] \in DOMAIN r.sources \cup DOMAIN Files
        BY <2>1, <3>1, FreshShown
      <3>3. k.code = e.code /\ k.map = (IF e.map = 0 THEN e.compiler ELSE e.map)
        BY <2>4, <2>5, <3>1
      <3> QED
        BY ONLY <2>4, <3>1, <3>2, <3>3
    <2>7. u.res.contracts = contracts
      BY ONLY <1>3, <2>3
    <2>8. AnswerShows(u, r)
      BY ONLY <2>3, <2>5, <2>6, <2>7 DEF AnswerShows
    <2> QED
      BY <2>2, <2>8
  <1> HIDE DEF io, listed, errors, shown, s
  <1>7. CASE ~success /\ ~shown
    <2>1. Answer(r, c) = Done(c.s, SilentAnswer)
      BY <1>1, <1>7
    <2>2. DOMAIN SilentAnswer.contracts = {} /\ SilentAnswer.kind = "silent"
      BY Nothing DEF SilentAnswer
    <2>3. AnswerShows(Done(c.s, SilentAnswer), r)
      BY <2>2 DEF Done, AnswerShows
    <2> QED
      BY <1>4, <1>7, <2>1, <2>2, <2>3 DEF Done, AnswerSays
  <1>8. CASE ~success /\ shown
    <2>1. Answer(r, c) = Done(c.s, answered)
      BY <1>1, <1>8
    <2>2. PICK a : a = Answer(r, c)
      OBVIOUS
    <2>3. a.s = c.s /\ a.res = answered
      BY <2>1, <2>2 DEF Done
    <2>4. answered.errors \/ c.s.count > ErrorLimit
      BY <1>3, <1>5, <1>8, Zenon
    <2>5. DOMAIN answered.contracts = {}
      BY <1>3, <1>8, Nothing
    <2> HIDE DEF answered
    <2>6. AnswerSays(a, r)
      BY <1>3, <2>3, <2>4 DEF AnswerSays
    <2>7. AnswerShows(a, r)
      BY ONLY <2>3, <2>5 DEF AnswerShows
    <2> QED
      BY <2>2, <2>3, <2>6, <2>7
  <1>9. CASE success
    <2>1. PICK a : a = Answer(r, c)
      OBVIOUS
    <2>2. a = Done(s, answered)
      BY <1>1, <1>9, <2>1
    <2>3. a.s = s /\ a.res = answered
      BY <2>2 DEF Done
    <2> HIDE DEF answered
    <2>4. AnswerSays(a, r)
      BY <1>2, <1>3, <1>9, <2>3 DEF AnswerSays
    <2> QED
      BY <1>2, <1>6, <1>9, <2>1, <2>2, <2>3, <2>4
  <1> QED
    BY <1>7, <1>8, <1>9

(* One request, whatever the requests before it left in the stack.         *)
LEMMA RequestEnds ==
    ASSUME NEW s0, StackInv(s0), NEW r \in Requests
    PROVE  LET a == CompileInternal(s0, r) IN
           StackInv(a.s) /\ AnswerSays(a, r) /\ AnswerShows(a, r)
  <1>1. PICK s, b, t : /\ s = Reset(s0, FALSE) /\ b = AddSources(s, r) /\ t = Configure(b, r)
    OBVIOUS
  <1>2. ReporterInv(s0) /\ s0.compiles \in Nat /\ SourcesInv(s0)
    BY DEF StackInv
  <1>3. /\ StackInv(s) /\ s.state = "Empty" /\ s.sources = <<>>
        /\ s.errors = 0 /\ s.excess = FALSE /\ s.optimize = FALSE /\ s.evm = FALSE
    <2>1. PICK keep \in BOOLEAN : keep = FALSE
      OBVIOUS
    <2>2. s = Reset(s0, keep)
      BY ONLY <1>1, <2>1
    <2>3. /\ StackInv(s) /\ s.state = (IF keep THEN "SourcesSet" ELSE "Empty")
          /\ s.sources = (IF keep THEN s0.sources ELSE <<>>)
          /\ s.errors = 0 /\ s.excess = FALSE /\ s.optimize = FALSE /\ s.evm = FALSE
      BY ONLY <1>2, <2>2, keep \in BOOLEAN, ResetKeeps
    <2> QED
      BY ONLY <2>1, <2>3
  <1>4. AddInv(s, r)
    <2>1. DOMAIN s.sources \subseteq DOMAIN r.sources
      BY <1>3, Nothing
    <2> QED
      BY ONLY <1>3, <2>1 DEF AddInv
  <1>5. /\ AddInv(b, r)
        /\ b.state = "Empty" => \A n \in DOMAIN r.sources : Taken(r.sources[n]) = 0
    BY <1>1, <1>3, <1>4, AddSourcesKeeps
  <1>6. SameButSettings(b, t) /\ (r.bad = "no" => AsAsked(t, r))
    BY <1>1, <1>5, ConfigureKeeps
  <1>7. StackInv(b) /\ b.state \in {"Empty", "SourcesSet"} /\ DOMAIN b.sources \subseteq DOMAIN r.sources
    BY <1>5 DEF AddInv
  <1>8. StackInv(t) /\ t.state = b.state /\ t.sources = b.sources
    BY <1>6, <1>7, StackKept DEF SameButSettings
  <1>9. DOMAIN FatalAnswer.contracts = {} /\ FatalAnswer.kind = "fatal"
    BY Nothing DEF FatalAnswer
  <1>10. ASSUME NEW u, StackInv(u)
         PROVE  LET a == Done(u, FatalAnswer) IN
                StackInv(a.s) /\ AnswerSays(a, r) /\ AnswerShows(a, r)
    BY <1>9, <1>10 DEF Done, AnswerSays, AnswerShows
  <1>11. CASE r.bad = "input" \/ DOMAIN r.sources = {}
    <2>1. CompileInternal(s0, r) = Done(s, FatalAnswer)
      BY <1>1, <1>11 DEF CompileInternal
    <2> QED
      BY <1>3, <1>10, <2>1
  <1>12. CASE ~(r.bad = "input" \/ DOMAIN r.sources = {}) /\ r.bad # "no"
    <2>1. CompileInternal(s0, r) = Done(t, FatalAnswer)
      BY <1>1, <1>12 DEF CompileInternal
    <2> QED
      BY <1>8, <1>10, <2>1
  <1>13. CASE ~(r.bad = "input" \/ DOMAIN r.sources = {}) /\ r.bad = "no"
    <2>1. PICK c : c = Compile(t)
      OBVIOUS
    <2>2. CompileInternal(s0, r) = Answer(r, c)
      BY <1>1, <1>13, <2>1 DEF CompileInternal
    <2>3. AsAsked(t, r)
      BY <1>6, <1>13
    <2>4. CASE t.state = "SourcesSet"
      <3>1. /\ StackInv(c.s) /\ Explained(c)
            /\ DOMAIN c.s.sources \subseteq DOMAIN t.sources \cup DOMAIN Files
            /\ c.s.state = "CompilationSuccessful" => \E a : Fresh(a, t, c.s)
        BY <1>8, <2>1, <2>4, CompileFresh
      <3>2. DOMAIN c.s.sources \subseteq DOMAIN r.sources \cup DOMAIN Files
        BY <1>7, <1>8, <3>1
      <3> QED
        BY <2>2, <2>3, <3>1, <3>2, AnswerEnds
    <2>5. CASE t.state = "Empty"
      <3>1. c = Done(t, "false")
        BY <2>1, <2>5, NothingToCompile
      <3>2. c.s = t
        BY <3>1 DEF Done
      <3>3. \A n \in DOMAIN r.sources : Taken(r.sources[n]) = 0
        BY <1>5, <1>8, <2>5
      <3>4. /\ StackInv(c.s) /\ DOMAIN c.s.sources \subseteq DOMAIN r.sources \cup DOMAIN Files
            /\ c.s.state # "CompilationSuccessful"
        BY <1>7, <1>8, <2>5, <3>2
      <3> QED
        BY <2>2, <2>3, <3>3, <3>4, AnswerEnds
    <2> QED
      BY <1>7, <1>8, <2>4, <2>5
  <1> QED
    BY <1>11, <1>12, <1>13

-----------------------------------------------------------------------------
(* The theorems.                                                           *)

(* The stack is in order between two calls.  A program that sends requests *)
(* has the answer to its last request; one that calls the stack itself     *)
(* gets no answer.                                                         *)
RequestsInv ==
    /\ StackInv(stack)
    /\ user \in {"api", "json"}
    /\ user = "api" => answer = NoAnswer
    /\ FailureExplained
    /\ AnswerCurrent

(* No answer says nothing and shows nothing.                               *)
LEMMA NoAnswerFacts == NoAnswer.kind = "none" /\ DOMAIN NoAnswer.contracts = {}
  BY Nothing DEF NoAnswer

(* The invariant holds in every behaviour of both kinds of programs.       *)
LEMMA RequestsKept == AllSpec => []RequestsInv
  <1>1. AllInit => RequestsInv
    <2> SUFFICES ASSUME AllInit PROVE RequestsInv
      OBVIOUS
    <2>1. stack = NewStack /\ answer = NoAnswer /\ user \in {"api", "json"}
      BY DEF AllInit, Init
    <2>2. StackInv(stack)
      BY <2>1, NewStackInv
    <2> QED
      BY <2>1, <2>2, NoAnswerFacts DEF RequestsInv, FailureExplained, AnswerCurrent
  <1>2. RequestsInv /\ [AllNext]_allVars => RequestsInv'
    <2> SUFFICES ASSUME RequestsInv, [AllNext]_allVars PROVE RequestsInv'
      OBVIOUS
    <2>1. CASE UserCalls
      <3>1. user' = "api" /\ answer' = NoAnswer /\ StackInv(stack) /\ Next
        BY <2>1 DEF UserCalls, RequestsInv
      <3>2. StackInv(stack')
        BY <3>1, CallsKeep
      <3> QED
        BY <3>1, <3>2, NoAnswerFacts DEF RequestsInv, FailureExplained, AnswerCurrent
    <2>2. ASSUME NEW r \in Requests, StandardCompile(r)
          PROVE  RequestsInv'
      <3>1. PICK a : a = CompileInternal(stack, r)
        OBVIOUS
      <3>2. /\ user = "json" /\ user' = user
            /\ stack' = a.s /\ answer' = a.res /\ request' = r
        BY <2>2, <3>1 DEF StandardCompile
      <3>3. StackInv(a.s) /\ AnswerSays(a, r) /\ AnswerShows(a, r)
        BY <3>1, RequestEnds DEF RequestsInv
      <3>4. FailureExplained'
        BY ONLY <3>2, <3>3 DEF FailureExplained, AnswerSays
      <3>5. AnswerCurrent'
        BY ONLY <3>2, <3>3 DEF AnswerCurrent, AnswerShows
      <3> QED
        BY ONLY <3>2, <3>3, <3>4, <3>5 DEF RequestsInv
    <2>3. CASE UNCHANGED allVars
      <3>1. stack' = stack /\ user' = user /\ answer' = answer /\ request' = request
        BY <2>3 DEF allVars
      <3>2. StackInv(stack')
        BY <3>1 DEF RequestsInv
      <3>3. FailureExplained' /\ AnswerCurrent'
        BY <3>1 DEF RequestsInv, FailureExplained, AnswerCurrent
      <3> QED
        BY <3>1, <3>2, <3>3 DEF RequestsInv
    <2> QED
      BY <2>1, <2>2, <2>3 DEF AllNext
  <1> QED
    BY <1>1, <1>2, PTL DEF AllSpec

(* CompilerStack: after any sequence of calls and of requests, for all     *)
(* sources, the state tells what the data are good for.  Trees are those   *)
(* of the present texts, contracts those of the analysed sources, these    *)
(* are in the order of their imports unless there is a circle, and code    *)
(* embeds code of its own compilation.                                     *)
THEOREM DataMatchState == AllSpec => []StateMatchesData
  <1>1. RequestsInv => StateMatchesData
    BY StackInvMeans DEF RequestsInv
  <1> QED
    BY <1>1, RequestsKept, PTL

(* CompilerStack::analyze: no program with an error is compiled, for all   *)
(* sources and any limit of the reporter: after a successful analysis none *)
(* of the analysed sources has a fault of any phase, a name of two         *)
(* contracts or a name that is not in scope.                               *)
THEOREM CompiledClean == AllSpec => []SuccessClean
  <1>1. RequestsInv => SuccessClean
    BY StackInvMeans DEF RequestsInv
  <1> QED
    BY <1>1, RequestsKept, PTL

(* compileInternal: code and source map of every contract an answer shows  *)
(* are of its own compilation, its own texts and its own settings, for any *)
(* number of requests on one stack, and every requested contract that can  *)
(* be deployed has code.                                                   *)
THEOREM AnswersCurrent == AllSpec => []AnswerCurrent
  <1>1. RequestsInv => AnswerCurrent
    BY DEF RequestsInv
  <1> QED
    BY <1>1, RequestsKept, PTL

(* compileInternal: for all programs, any number of requests on one stack  *)
(* and any limit of the reporter, an answer without output and without     *)
(* errors is given only to a request whose sources have no URLs, and a     *)
(* failed compilation shows an error unless the reporter's count, which is *)
(* never reset, is above its limit.                                        *)
THEOREM FailuresExplained == AllSpec => []FailureExplained
  <1>1. RequestsInv => FailureExplained
    BY DEF RequestsInv
  <1> QED
    BY <1>1, RequestsKept, PTL
==============================================================================
