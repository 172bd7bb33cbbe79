-------------------------- MODULE RuleEngine_proofs --------------------------
(***************************************************************************)
(* Proofs about RuleEngine, for any facts, rules, contents and bounds.     *)
(***************************************************************************)
EXTENDS RuleEngine, SequenceTheorems, FiniteSetTheorems, TLAPS

-----------------------------------------------------------------------------
(* Sequences.                                                              *)

(* A bounded sequence is a sequence that is not too long.                  *)
LEMMA BoundedSeqIsSeq ==
    ASSUME NEW S, NEW n \in Nat
    PROVE  \A s : s \in BoundedSeq(S, n) <=> s \in Seq(S) /\ Len(s) <= n
  <1>1. ASSUME NEW s, s \in BoundedSeq(S, n)
        PROVE  s \in Seq(S) /\ Len(s) <= n
    <2>1. PICK m \in 0..n : s \in [1..m -> S]
      BY <1>1 DEF BoundedSeq, SeqOf
    <2>2. s \in Seq(S)
      BY <2>1, SeqDef
    <2> QED
      BY <2>1, <2>2, LenProperties
  <1>2. ASSUME NEW s, s \in Seq(S), Len(s) <= n
        PROVE  s \in BoundedSeq(S, n)
    <2>1. s \in [1..Len(s) -> S] /\ Len(s) \in 0..n
      BY <1>2, LenProperties
    <2> QED
      BY <2>1 DEF BoundedSeq, SeqOf
  <1> QED
    BY <1>1, <1>2

(* The last element and what comes before it.                              *)
LEMMA FrontLast ==
    ASSUME NEW S, NEW s \in Seq(S), s # <<>>
    PROVE  /\ Len(s) \in Nat \ {0}
           /\ Last(s) = s[Len(s)]
           /\ Last(s) \in S
           /\ Front(s) \in Seq(S)
           /\ Len(Front(s)) = Len(s) - 1
           /\ \A i \in 1..Len(s) - 1 : Front(s)[i] = s[i]
  <1>1. Len(s) \in Nat \ {0} /\ s \in [1..Len(s) -> S]
    BY EmptySeq, LenProperties
  <1>2. \A i \in 1..Len(s) - 1 : s[i] \in S
    BY <1>1
  <1>3. /\ Front(s) \in Seq(S)
        /\ Len(Front(s)) = Len(s) - 1
        /\ \A i \in 1..Len(s) - 1 : Front(s)[i] = s[i]
    BY <1>1, <1>2, SubSeqProperties DEF Front
  <1> QED
    BY <1>1, <1>3 DEF Last

-----------------------------------------------------------------------------
(* Type correctness.                                                       *)

(* A frame that works on an element of a list has one, and one that works  *)
(* on a rule has one: without this the element a rule acts on could be     *)
(* anything.                                                               *)
FrameOK(fr) ==
    /\ fr.pc # "eval" => fr.k <= NumRules
    /\ fr.pc = "then" => fr.i <= Len(fr.list)

FramesOK == \A n \in 1..Len(frames) : FrameOK(frames[n])

TypeInv == TypeOK /\ FramesOK

(* The contents of storage after an operation of user code.                *)
LEMMA StorageFields ==
    ASSUME NEW s \in Storages
    PROVE  /\ s.facts \in WorkingMemories
           /\ s.listOf \in [Facts -> Types \cup {NoList}]
           /\ s.val \in Contents
           /\ s.lock \in BOOLEAN
           /\ s.reeval \in BOOLEAN
           /\ s.lockMap \in SUBSET Activations
           /\ s.noLoop \in Activations \cup {NoMark}
  BY DEF Storages

(* factInsert and factDelete keep a list of facts a bounded list of facts. *)
LEMMA ListOps ==
    ASSUME NEW s \in BoundedSeq(Facts, MaxList), NEW f \in Facts
    PROVE  /\ Len(s) < MaxList => Append(s, f) \in BoundedSeq(Facts, MaxList)
           /\ f \in Range(s) => DeleteItem(s, f) \in BoundedSeq(Facts, MaxList)
  <1>1. s \in Seq(Facts) /\ Len(s) <= MaxList /\ MaxList \in Nat
    BY BoundedSeqIsSeq, ConstantsAssumption
  <1>2. ASSUME Len(s) < MaxList
        PROVE  Append(s, f) \in BoundedSeq(Facts, MaxList)
    <2>1. Append(s, f) \in Seq(Facts) /\ Len(Append(s, f)) = Len(s) + 1
      BY <1>1, AppendProperties
    <2>2. Len(Append(s, f)) <= MaxList
      BY <1>1, <1>2, <2>1, LenProperties
    <2> QED
      BY <1>1, <2>1, <2>2, BoundedSeqIsSeq
  <1>3. ASSUME f \in Range(s)
        PROVE  DeleteItem(s, f) \in BoundedSeq(Facts, MaxList)
    <2>1. s # <<>> /\ Len(s) \in Nat \ {0} /\ s \in [1..Len(s) -> Facts]
      BY <1>1, <1>3, LenProperties, EmptySeq DEF Range
    <2>2. Last(s) \in Facts
      BY <1>1, <2>1, FrontLast
    <2>3. DeleteItem(s, f) \in [1..Len(s) - 1 -> Facts]
      BY <2>1, <2>2 DEF DeleteItem
    <2>4. Len(s) - 1 \in 0..MaxList
      BY <1>1, <2>1
    <2> QED
      BY <2>3, <2>4 DEF BoundedSeq, SeqOf
  <1> QED
    BY <1>2, <1>3

(* The innermost frame may be replaced by another good frame.              *)
LEMMA SetTopOK ==
    ASSUME frames \in Seq(Frames), frames # <<>>, FramesOK,
           NEW fr \in Frames, FrameOK(fr)
    PROVE  /\ SetTop(fr) \in Seq(Frames)
           /\ SetTop(fr) # <<>>
           /\ Len(SetTop(fr)) = Len(frames)
           /\ \A n \in 1..Len(SetTop(fr)) : FrameOK(SetTop(fr)[n])
  <1>1. Len(frames) \in Nat \ {0} /\ Len(frames) \in 1..Len(frames)
    BY FrontLast
  <1>2. /\ SetTop(fr) \in Seq(Frames)
        /\ Len(SetTop(fr)) = Len(frames)
        /\ \A j \in 1..Len(frames) :
             SetTop(fr)[j] = IF j = Len(frames) THEN fr ELSE frames[j]
    BY <1>1, ExceptSeq DEF SetTop
  <1> QED
    BY <1>1, <1>2, EmptySeq DEF FramesOK

(* What is known of the innermost frame.                                   *)
LEMMA TopOK ==
    ASSUME TypeInv, frames # <<>>
    PROVE  /\ Top \in Frames
           /\ FrameOK(Top)
           /\ Top.k \in Nat \ {0}
           /\ Top.i \in Nat \ {0}
           /\ Top.list \in Seq(FactTuples)
           /\ Top.seen \in Contents
           /\ Top.pc \in {"eval", "loop", "then", "reeval"}
           /\ Top.k <= NumRules => Rule \in Rules
           /\ Top.i <= Len(Top.list) => Tuple \in FactTuples
           /\ Top.k <= NumRules /\ Top.i <= Len(Top.list) =>
                 Act \in Activations /\ Hash = Act
  <1>1. Top \in Frames /\ Top = frames[Len(frames)] /\ Len(frames) \in Nat \ {0}
    BY FrontLast DEF TypeInv, TypeOK, Top
  <1>2. FrameOK(Top)
    BY <1>1 DEF TypeInv, FramesOK
  <1>3. /\ Top.k \in Nat \ {0}
        /\ Top.i \in Nat \ {0}
        /\ Top.list \in Seq(FactTuples)
        /\ Top.seen \in Contents
        /\ Top.pc \in {"eval", "loop", "then", "reeval"}
    BY <1>1 DEF Frames
  <1>4. Top.k <= NumRules => Rule \in Rules
    BY <1>3, ConstantsAssumption DEF TypeInv, TypeOK, Rule
  <1>5. Top.i <= Len(Top.list) => Tuple \in FactTuples
    BY <1>3, LenProperties, ElementOfSeq DEF Tuple
  <1>6. Top.k <= NumRules /\ Top.i <= Len(Top.list) =>
            Act \in Activations /\ Hash = Act
    BY <1>4, <1>5 DEF Act, Hash, Activations
  <1> QED
    BY <1>1, <1>2, <1>3, <1>4, <1>5, <1>6

(* A message that fails leaves a state of the right type.                  *)
LEMMA AbortTyped ==
    ASSUME TypeInv, calls # <<>>, Abort
    PROVE  TypeInv'
  <1> USE DEF TypeInv, TypeOK
  <1>1. /\ Last(calls) \in Storages
        /\ Front(calls) \in Seq(Storages)
        /\ Len(Front(calls)) = Len(calls) - 1
        /\ Len(calls) \in Nat \ {0}
    BY FrontLast
  <1>2. CASE Engine
    <2>1. engineAt' = 0 /\ frames' = <<>> /\ fired' = {} /\ ran' = {}
          /\ lockList' = [r \in Rules |-> <<>>]
      BY <1>2 DEF Abort
    <2>2. lockList' \in [Rules -> Seq(FactTuples)] /\ frames' \in Seq(Frames)
          /\ Len(frames') = 0
      BY <2>1, EmptySeq
    <2>3. FramesOK'
      BY <2>2 DEF FramesOK
    <2> QED
      BY <1>1, <2>1, <2>2, <2>3 DEF Abort
  <1>3. CASE ~Engine
    <2>1. UNCHANGED <<engineAt, frames, lockList, fired, ran>>
      BY <1>3 DEF Abort
    <2>2. engineAt \in 0..Len(calls) - 1
      BY <1>1, <1>3 DEF Engine
    <2>3. FramesOK'
      BY <2>1 DEF FramesOK
    <2> QED
      BY <1>1, <2>1, <2>2, <2>3 DEF Abort
  <1> QED
    BY <1>2, <1>3

(* Storage after the operations of user code.                              *)
LEMMA UserStorage ==
    ASSUME st \in Storages, NEW f \in Facts
    PROVE  /\ \A v \in Vals : [st EXCEPT !.val[f] = v] \in Storages
           /\ Len(st.facts[TypeOf[f]]) < MaxList =>
                [st EXCEPT !.listOf[f] = TypeOf[f],
                           !.facts[TypeOf[f]] = Append(@, f)] \in Storages
           /\ Listed(f) =>
                [st EXCEPT !.facts[st.listOf[f]] = DeleteItem(@, f)] \in Storages
  <1>1. /\ st.facts \in WorkingMemories
        /\ st.listOf \in [Facts -> Types \cup {NoList}]
        /\ st.val \in Contents
        /\ TypeOf \in [Facts -> Types]
    BY StorageFields, ConstantsAssumption
  <1>2. \A v \in Vals : [st.val EXCEPT ![f] = v] \in Contents
    BY <1>1 DEF Contents
  <1>3. \A t \in Types : \A l \in BoundedSeq(Facts, MaxList) :
            [st.facts EXCEPT ![t] = l] \in WorkingMemories
    BY <1>1 DEF WorkingMemories
  <1>4. \A t \in Types : st.facts[t] \in BoundedSeq(Facts, MaxList)
    BY <1>1 DEF WorkingMemories
  <1>5. [st.listOf EXCEPT ![f] = TypeOf[f]] \in [Facts -> Types \cup {NoList}]
    BY <1>1
  <1>6. \A v \in Vals : [st EXCEPT !.val[f] = v] \in Storages
    BY <1>2 DEF Storages
  <1>7. ASSUME Len(st.facts[TypeOf[f]]) < MaxList
        PROVE  [st EXCEPT !.listOf[f] = TypeOf[f],
                          !.facts[TypeOf[f]] = Append(@, f)] \in Storages
    <2>1. Append(st.facts[TypeOf[f]], f) \in BoundedSeq(Facts, MaxList)
      BY <1>1, <1>4, <1>7, ListOps
    <2>2. [st.facts EXCEPT ![TypeOf[f]] = Append(@, f)] \in WorkingMemories
      BY <1>1, <1>3, <2>1
    <2> QED
      BY <1>5, <2>2 DEF Storages
  <1>8. ASSUME Listed(f)
        PROVE  [st EXCEPT !.facts[st.listOf[f]] = DeleteItem(@, f)] \in Storages
    <2>1. st.listOf[f] \in Types
      BY <1>1, <1>8 DEF Listed
    <2>2. DeleteItem(st.facts[st.listOf[f]], f) \in BoundedSeq(Facts, MaxList)
      BY <1>4, <1>8, <2>1, ListOps DEF Listed
    <2>3. [st.facts EXCEPT ![st.listOf[f]] = DeleteItem(@, f)] \in WorkingMemories
      BY <1>3, <2>1, <2>2
    <2> QED
      BY <2>3 DEF Storages
  <1> QED
    BY <1>6, <1>7, <1>8

(* Messages and the operations of user code keep the types.                *)
LEMMA UserTyped ==
    ASSUME TypeInv,
           \/ Begin \/ Reenter \/ Return \/ Fail
           \/ \E f \in Facts, v \in Vals : WriteFact(f, v)
           \/ \E f \in Facts : FactInsert(f) \/ FactDelete(f)
           \/ Update
    PROVE  TypeInv'
  <1> USE DEF TypeInv, TypeOK
  <1>1. CASE Begin
    <2>1. calls' \in Seq(Storages) /\ engineAt' = 0 /\ Len(calls') = 1
      BY <1>1, EmptySeq DEF Begin
    <2> QED
      BY <1>1, <2>1, ConstantsAssumption DEF Begin, FramesOK
  <1>2. CASE Reenter
    <2>1. calls' \in Seq(Storages) /\ Len(calls') = Len(calls) + 1
      BY <1>2, AppendProperties DEF Reenter
    <2>2. engineAt \in 0..Len(calls')
      BY <2>1, LenProperties
    <2>3. msgs - 1 \in Nat
      BY <1>2 DEF Reenter
    <2> QED
      BY <1>2, <2>1, <2>2, <2>3 DEF Reenter, FramesOK
  <1>3. CASE Return
    <2>1. /\ calls' \in Seq(Storages)
          /\ Len(calls') = Len(calls) - 1
          /\ Len(calls) \in Nat \ {0}
      BY <1>3, FrontLast DEF Return, UserCode
    <2>2. engineAt \in 0..Len(calls')
      BY <1>3, <2>1 DEF Return, Engine
    <2> QED
      BY <1>3, <2>1, <2>2 DEF Return, FramesOK
  <1>4. CASE Fail
    BY <1>4, AbortTyped DEF Fail
  <1>5. ASSUME NEW f \in Facts, NEW v \in Vals, WriteFact(f, v)
        PROVE  TypeInv'
    BY <1>5, UserStorage DEF WriteFact, OnlyStorage, FramesOK
  <1>6. ASSUME NEW f \in Facts, FactInsert(f)
        PROVE  TypeInv'
    <2>1. CASE NoRuleEngineLock
      BY <1>6, <2>1, UserStorage DEF FactInsert, OnlyStorage, FramesOK
    <2>2. CASE ~NoRuleEngineLock
      BY <1>6, <2>2, AbortTyped DEF FactInsert, UserCode
    <2> QED
      BY <2>1, <2>2
  <1>7. ASSUME NEW f \in Facts, FactDelete(f)
        PROVE  TypeInv'
    <2>1. CASE NoRuleEngineLock /\ Listed(f)
      BY <1>7, <2>1, UserStorage DEF FactDelete, OnlyStorage, FramesOK
    <2>2. CASE ~NoRuleEngineLock \/ ~Listed(f)
      BY <1>7, <2>2, AbortTyped DEF FactDelete, UserCode
    <2> QED
      BY <2>1, <2>2
  <1>8. CASE Update
    <2>1. CASE st.lock
      <3>1. [st EXCEPT !.reeval = TRUE] \in Storages
        BY DEF Storages
      <3> QED
        BY <1>8, <2>1, <3>1 DEF Update, OnlyStorage, FramesOK
    <2>2. CASE ~st.lock
      BY <1>8, <2>2, AbortTyped DEF Update, UserCode
    <2> QED
      BY <2>1, <2>2
  <1> QED
    BY <1>1, <1>2, <1>3, <1>4, <1>5, <1>6, <1>7, <1>8

(* The frame fireAllRules and a reevaluation begin with.                   *)
LEMMA NewFrameOK ==
    ASSUME st \in Storages
    PROVE  NewFrame \in Frames /\ FrameOK(NewFrame)
  BY StorageFields, EmptySeq DEF NewFrame, Frames, FrameOK

(* The frames the steps of rulesExec make from a frame.                    *)
LEMMA FrameSteps ==
    ASSUME NEW fr \in Frames
    PROVE  /\ NextRule(fr) \in Frames /\ FrameOK(NextRule(fr))
           /\ \A l \in Seq(FactTuples), v \in Contents :
                LET g == [fr EXCEPT !.list = l, !.i = 1, !.pc = "loop", !.seen = v]
                IN g \in Frames /\ (fr.k <= NumRules => FrameOK(g))
           /\ LET g == [fr EXCEPT !.i = @ + 1, !.pc = "loop"]
              IN g \in Frames /\ (fr.k <= NumRules => FrameOK(g))
           /\ LET g == [fr EXCEPT !.pc = "then"]
              IN /\ g \in Frames
                 /\ fr.k <= NumRules /\ fr.i <= Len(fr.list) => FrameOK(g)
           /\ LET g == [fr EXCEPT !.pc = "reeval", !.list = <<>>, !.i = 1]
              IN g \in Frames /\ (fr.k <= NumRules => FrameOK(g))
  <1>1. <<>> \in Seq(FactTuples)
    BY EmptySeq
  <1>2. /\ fr.k \in Nat \ {0} /\ fr.i \in Nat \ {0}
        /\ fr.k + 1 \in Nat \ {0} /\ fr.i + 1 \in Nat \ {0} /\ 1 \in Nat \ {0}
    BY DEF Frames
  <1>3. NextRule(fr) \in Frames /\ FrameOK(NextRule(fr))
    <2>1. NextRule(fr) \in Frames
      BY <1>1, <1>2 DEF NextRule, Frames
    <2>2. NextRule(fr).pc = "eval"
      BY DEF NextRule, Frames
    <2> QED
      BY <2>1, <2>2 DEF FrameOK
  <1>4. ASSUME NEW l \in Seq(FactTuples), NEW v \in Contents
        PROVE  LET g == [fr EXCEPT !.list = l, !.i = 1, !.pc = "loop", !.seen = v]
               IN g \in Frames /\ (fr.k <= NumRules => FrameOK(g))
    <2> DEFINE g == [fr EXCEPT !.list = l, !.i = 1, !.pc = "loop", !.seen = v]
    <2>1. g \in Frames
      BY <1>2 DEF Frames
    <2>2. g.pc = "loop" /\ g.k = fr.k
      BY DEF Frames
    <2> QED
      BY <2>1, <2>2 DEF FrameOK
  <1>5. LET g == [fr EXCEPT !.i = @ + 1, !.pc = "loop"]
        IN g \in Frames /\ (fr.k <= NumRules => FrameOK(g))
    <2> DEFINE g == [fr EXCEPT !.i = @ + 1, !.pc = "loop"]
    <2>1. g \in Frames
      BY <1>2 DEF Frames
    <2>2. g.pc = "loop" /\ g.k = fr.k
      BY DEF Frames
    <2> QED
      BY <2>1, <2>2 DEF FrameOK
  <1>6. LET g == [fr EXCEPT !.pc = "then"]
        IN /\ g \in Frames
           /\ fr.k <= NumRules /\ fr.i <= Len(fr.list) => FrameOK(g)
    <2> DEFINE g == [fr EXCEPT !.pc = "then"]
    <2>1. g \in Frames
      BY DEF Frames
    <2>2. g.pc = "then" /\ g.k = fr.k /\ g.i = fr.i /\ g.list = fr.list
      BY DEF Frames
    <2> QED
      BY <2>1, <2>2 DEF FrameOK
  <1>7. LET g == [fr EXCEPT !.pc = "reeval", !.list = <<>>, !.i = 1]
        IN g \in Frames /\ (fr.k <= NumRules => FrameOK(g))
    <2> DEFINE g == [fr EXCEPT !.pc = "reeval", !.list = <<>>, !.i = 1]
    <2>1. g \in Frames
      BY <1>1, <1>2 DEF Frames
    <2>2. g.pc = "reeval" /\ g.k = fr.k
      BY DEF Frames
    <2> QED
      BY <2>1, <2>2 DEF FrameOK
  <1> QED
    BY <1>3, <1>4, <1>5, <1>6, <1>7

(* Everything but the frames stays: then good frames are enough.           *)
LEMMA OnlyFramesTyped ==
    ASSUME TypeInv, OnlyFrames,
           frames' \in Seq(Frames), \A n \in 1..Len(frames') : FrameOK(frames'[n])
    PROVE  TypeInv'
  BY DEF TypeInv, TypeOK, OnlyFrames, FramesOK

(* Marking a tuple keeps storage and lists of the right type.              *)
LEMMA MarkTyped ==
    ASSUME TypeInv, frames # <<>>, Top.k <= NumRules, Top.i <= Len(Top.list), Mark
    PROVE  st' \in Storages /\ lockList' \in [Rules -> Seq(FactTuples)]
  <1>1. /\ Rule \in Rules /\ Tuple \in FactTuples /\ Hash \in Activations
        /\ st \in Storages /\ lockList \in [Rules -> Seq(FactTuples)]
    BY TopOK DEF TypeInv, TypeOK
  <1>2. CASE Rule \in LockOnActiveRules
    <2>1. st.lockMap \cup {Hash} \in SUBSET Activations
      BY <1>1, StorageFields
    <2>2. st' \in Storages
      BY <1>1, <1>2, <2>1 DEF Mark, Storages
    <2>3. Append(lockList[Rule], Tuple) \in Seq(FactTuples)
      BY <1>1, AppendProperties
    <2>4. lockList' = [lockList EXCEPT ![Rule] = Append(lockList[Rule], Tuple)]
      BY <1>2 DEF Mark
    <2>5. lockList' \in [Rules -> Seq(FactTuples)]
      BY <1>1, <2>3, <2>4
    <2> QED
      BY <2>2, <2>5
  <1>3. CASE Rule \notin LockOnActiveRules
    BY <1>1, <1>3 DEF Mark, Storages
  <1> QED
    BY <1>2, <1>3

(* fireAllRules and the steps of rulesExec keep the types.                 *)
LEMMA EngineTyped ==
    ASSUME TypeInv, FireAllRules \/ Step
    PROVE  TypeInv'
  <1>0. /\ st \in Storages
        /\ frames \in Seq(Frames)
        /\ FramesOK
    BY DEF TypeInv, TypeOK
  <1>1. CASE FireAllRules
    <2>1. CASE st.lock
      BY <1>1, <2>1, AbortTyped DEF FireAllRules, UserCode
    <2>2. CASE ~st.lock
      <3>1. [st EXCEPT !.lock = TRUE] \in Storages
        BY <1>0 DEF Storages
      <3>2. /\ frames' \in Seq(Frames)
            /\ Len(frames') = 1
            /\ frames'[1] = NewFrame
            /\ engineAt' = Len(calls)
        <4>1. frames' = <<NewFrame>> /\ engineAt' = Len(calls)
          BY <1>1, <2>2 DEF FireAllRules
        <4>2. NewFrame \in Frames
          BY <1>0, NewFrameOK
        <4> HIDE DEF NewFrame
        <4> QED
          BY <4>1, <4>2
      <3>3. FramesOK'
        BY <1>0, <3>2, NewFrameOK DEF FramesOK
      <3>4. lockList' \in [Rules -> Seq(FactTuples)]
        BY <1>1, <2>2, EmptySeq DEF FireAllRules
      <3>5. engineAt' \in 0..Len(calls)
        BY <3>2, LenProperties DEF TypeInv, TypeOK
      <3> QED
        BY <1>1, <2>2, <3>1, <3>2, <3>3, <3>4, <3>5
        DEF FireAllRules, TypeInv, TypeOK
    <2> QED
      BY <2>1, <2>2
  <1>2. CASE EvalRule
    <2>1. frames # <<>> /\ Top.k <= NumRules
      BY <1>2 DEF EvalRule, Running
    <2>2. Matches(Rule, st.facts, st.val) \in Seq(FactTuples)
      BY <1>0, <2>1, TopOK, StorageFields, MatchesAssumption
    <2> DEFINE fr == [Top EXCEPT !.list = Matches(Rule, st.facts, st.val),
                                 !.i = 1, !.pc = "loop", !.seen = st.val]
    <2>3. fr \in Frames /\ FrameOK(fr)
      BY <1>0, <2>1, <2>2, TopOK, FrameSteps, StorageFields
    <2> QED
      BY <1>0, <1>2, <2>1, <2>3, SetTopOK, OnlyFramesTyped DEF EvalRule
  <1>3. CASE EndList
    <2>1. frames # <<>>
      BY <1>3 DEF EndList, Running
    <2>2. NextRule(Top) \in Frames /\ FrameOK(NextRule(Top))
      BY <2>1, TopOK, FrameSteps
    <2> QED
      BY <1>0, <1>3, <2>1, <2>2, SetTopOK, OnlyFramesTyped DEF EndList
  <1>4. ASSUME frames # <<>>, Top.pc # "eval"
        PROVE  /\ NextElement \in Seq(Frames)
               /\ \A n \in 1..Len(NextElement) : FrameOK(NextElement[n])
    <2> DEFINE fr == [Top EXCEPT !.i = @ + 1, !.pc = "loop"]
    <2>1. fr \in Frames /\ FrameOK(fr)
      <3>1. Top \in Frames /\ Top.k <= NumRules
        BY <1>4, TopOK DEF FrameOK
      <3> QED
        BY <3>1, FrameSteps
    <2> QED
      BY <1>0, <1>4, <2>1, SetTopOK DEF NextElement
  <1>5. CASE SkipLocked
    <2>1. [st EXCEPT !.reeval = FALSE] \in Storages
      BY <1>0 DEF Storages
    <2>2. frames # <<>> /\ Top.pc = "loop"
      BY <1>5 DEF SkipLocked, AtElement, Running
    <2> QED
      BY <1>4, <1>5, <2>1, <2>2 DEF SkipLocked, TypeInv, TypeOK, FramesOK
  <1>6. CASE SkipLooping
    <2>1. frames # <<>> /\ Top.pc = "loop" /\ Top.i <= Len(Top.list) /\ Mark
      BY <1>6 DEF SkipLooping, AtElement, Running
    <2>2. Top.k <= NumRules
      BY <2>1, TopOK DEF FrameOK
    <2>3. st' \in Storages /\ lockList' \in [Rules -> Seq(FactTuples)]
      BY <2>1, <2>2, MarkTyped
    <2> QED
      BY <1>4, <1>6, <2>1, <2>3 DEF SkipLooping, TypeInv, TypeOK, FramesOK
  <1>7. CASE EnterThen
    <2>1. frames # <<>> /\ Top.pc = "loop" /\ Top.i <= Len(Top.list) /\ Mark
      BY <1>7 DEF EnterThen, AtElement, Running
    <2>2. Top.k <= NumRules
      BY <2>1, TopOK DEF FrameOK
    <2>3. st' \in Storages /\ lockList' \in [Rules -> Seq(FactTuples)]
      BY <2>1, <2>2, MarkTyped
    <2> DEFINE fr == [Top EXCEPT !.pc = "then"]
    <2>4. fr \in Frames /\ FrameOK(fr)
      BY <2>1, <2>2, TopOK, FrameSteps
    <2>5. /\ frames' \in Seq(Frames)
          /\ \A n \in 1..Len(frames') : FrameOK(frames'[n])
      BY <1>0, <1>7, <2>1, <2>4, SetTopOK DEF EnterThen
    <2>6. Act \in Activations
      BY <2>1, <2>2, TopOK
    <2> QED
      BY <1>7, <2>3, <2>5, <2>6 DEF EnterThen, TypeInv, TypeOK, FramesOK
  <1>8. ASSUME AtThenEnd, Executed
        PROVE  /\ frames # <<>> /\ Top.pc = "then"
               /\ Act \in Activations /\ Hash \in Activations
               /\ ran' \subseteq Activations
    <2>1. frames # <<>> /\ Top.pc = "then"
      BY <1>8 DEF AtThenEnd, Running
    <2>2. Top.k <= NumRules /\ Top.i <= Len(Top.list)
      BY <2>1, TopOK DEF FrameOK
    <2>3. Act \in Activations /\ Hash \in Activations
      BY <2>1, <2>2, TopOK
    <2> QED
      BY <1>8, <2>1, <2>3 DEF Executed, TypeInv, TypeOK
  <1>9. CASE ThenEnd
    BY <1>4, <1>8, <1>9 DEF ThenEnd, TypeInv, TypeOK, FramesOK
  <1>10. CASE Reevaluate
    <2>1. CASE Len(frames) = MaxFrames /\ Abort
      <3>1. calls # <<>>
        BY <1>10, FrontLast, EmptySeq
        DEF Reevaluate, AtThenEnd, Running, Engine, TypeInv, TypeOK
      <3> QED
        BY <2>1, <3>1, AbortTyped
    <2>2. CASE Len(frames) < MaxFrames /\ ~(Len(frames) = MaxFrames /\ Abort)
      <3>1. frames # <<>> /\ Top.pc = "then" /\ Hash \in Activations
            /\ ran' \subseteq Activations
        BY <1>8, <1>10, <2>2 DEF Reevaluate
      <3>2. [st EXCEPT !.noLoop = Hash] \in Storages
        BY <1>0, <3>1 DEF Storages
      <3>3. Cleaned \in Frames /\ FrameOK(Cleaned)
        <4>1. Top \in Frames /\ Top.k <= NumRules
          BY <3>1, TopOK DEF FrameOK
        <4> QED
          BY <4>1, FrameSteps DEF Cleaned
      <3>4. /\ SetTop(Cleaned) \in Seq(Frames)
            /\ \A n \in 1..Len(SetTop(Cleaned)) : FrameOK(SetTop(Cleaned)[n])
        BY <1>0, <3>1, <3>3, SetTopOK
      <3>5. NewFrame \in Frames /\ FrameOK(NewFrame)
        BY <1>0, NewFrameOK
      <3>6. frames' = Append(SetTop(Cleaned), NewFrame)
        BY <1>10, <2>2 DEF Reevaluate
      <3>7. frames' \in Seq(Frames) /\ FramesOK'
        BY <3>4, <3>5, <3>6, AppendProperties, LenProperties DEF FramesOK
      <3> QED
        BY <1>10, <2>2, <3>1, <3>2, <3>7 DEF Reevaluate, TypeInv, TypeOK
    <2> QED
      BY <1>10, <2>1, <2>2 DEF Reevaluate
  <1>11. CASE ReturnFrame
    <2> DEFINE below == Front(frames)
    <2>1. frames # <<>>
      BY <1>11 DEF ReturnFrame, Running
    <2>2. below \in Seq(Frames) /\ \A n \in 1..Len(below) : FrameOK(below[n])
      BY <1>0, <2>1, FrontLast DEF FramesOK
    <2>3. CASE below = <<>>
      BY <1>11, <2>3, OnlyFramesTyped, EmptySeq DEF ReturnFrame
    <2>4. CASE below # <<>>
      <3>1. Len(below) \in 1..Len(below) /\ below[Len(below)] \in Frames
        BY <2>2, <2>4, FrontLast
      <3> DEFINE fr == NextRule(below[Len(below)])
      <3>2. fr \in Frames /\ FrameOK(fr)
        BY <3>1, FrameSteps
      <3>3. frames' = [below EXCEPT ![Len(below)] = fr]
        BY <1>11, <2>4 DEF ReturnFrame
      <3>4. /\ frames' \in Seq(Frames)
            /\ \A n \in 1..Len(frames') : FrameOK(frames'[n])
        BY <2>2, <3>1, <3>2, <3>3, ExceptSeq
      <3> QED
        BY <1>11, <3>4, OnlyFramesTyped DEF ReturnFrame
    <2> QED
      BY <2>3, <2>4
  <1>12. CASE Finish
    <2>1. st' \in Storages
      BY <1>0, <1>12 DEF Finish, Unlock, ClearMarks, Storages
    <2>2. lockList' \in [Rules -> Seq(FactTuples)]
      BY <1>12, EmptySeq DEF Finish
    <2> QED
      BY <1>12, <2>1, <2>2, LenProperties DEF Finish, TypeInv, TypeOK, FramesOK
  <1> QED
    BY <1>1, <1>2, <1>3, <1>5, <1>6, <1>7, <1>9, <1>10, <1>11, <1>12 DEF Step

(* The contract starts in a state of the right type.                       *)
LEMMA InitTyped == Init => TypeInv
  <1> SUFFICES ASSUME Init PROVE TypeInv
    OBVIOUS
  <1>1. PICK v \in Contents : st = EmptyStorage(v)
    BY DEF Init
  <1>2. <<>> \in BoundedSeq(Facts, MaxList)
    <2>1. <<>> \in Seq(Facts) /\ Len(<<>>) = 0 /\ MaxList \in Nat
      BY EmptySeq, ConstantsAssumption
    <2>2. Len(<<>>) <= MaxList
      BY <2>1
    <2> QED
      BY <2>1, <2>2, BoundedSeqIsSeq
  <1>3. st \in Storages
    BY <1>1, <1>2 DEF EmptyStorage, Storages, WorkingMemories
  <1>4. /\ calls \in Seq(Storages) /\ Len(calls) = 0
        /\ frames \in Seq(Frames) /\ Len(frames) = 0
        /\ lockList \in [Rules -> Seq(FactTuples)]
    BY EmptySeq DEF Init
  <1> QED
    BY <1>3, <1>4 DEF Init, TypeInv, TypeOK, FramesOK, RuleOrders

(* No step leaves the types.                                               *)
LEMMA NextTyped == TypeInv /\ [Next]_vars => TypeInv'
  <1>1. ASSUME TypeInv, UNCHANGED vars
        PROVE  TypeInv'
    BY <1>1 DEF TypeInv, TypeOK, FramesOK, vars
  <1> QED
    BY <1>1, UserTyped, EngineTyped DEF Next

(* Every variable keeps its type, and no rule acts on an element beyond    *)
(* the end of its list (rulesExec, ContractCompiler::appendRules).         *)
THEOREM TypeCorrect == Spec => []TypeOK
  <1>1. TypeInv => TypeOK
    BY DEF TypeInv
  <1> QED
    BY <1>1, InitTyped, NextTyped, PTL DEF Spec

-----------------------------------------------------------------------------
(* The lock, the marks and working memory.  None of the properties is      *)
(* inductive as it stands: a message that fails brings back the storage    *)
(* saved when it began, so the invariant must speak of every saved storage *)
(* as well.  Those saved inside the engine's message are locked and agree  *)
(* with the present storage on facts and marks; the others are unlocked    *)
(* and carry no mark.                                                      *)

Unmarked(s) == ~s.lock => s.lockMap = {} /\ s.noLoop = NoMark

LockInv ==
    /\ LockMatchesEngine
    /\ \A i \in 1..Len(calls) : calls[i].lock <=> engineAt # 0 /\ i > engineAt

MarkInv == Unmarked(st) /\ \A i \in 1..Len(calls) : Unmarked(calls[i])

SavedInv ==
    \A i \in 1..Len(calls) : calls[i].lock =>
        /\ calls[i].facts = st.facts
        /\ calls[i].lockMap = st.lockMap
        /\ calls[i].noLoop = st.noLoop

(* Finish clears exactly the marks that its lists hold, so the lists must  *)
(* hold them all.                                                          *)
ListInv == \A a \in st.lockMap : a[2] \in Range(lockList[a[1]])

(* An activation that has fired left its mark.                             *)
FiredInv == \A a \in fired : a[1] \in LockOnActiveRules => a \in st.lockMap

SafeInv == LockInv /\ MarkInv /\ SavedInv /\ ListInv /\ FiredInv

(* The storage that a failing message brings back.                         *)
LEMMA SavedStorage ==
    ASSUME TypeInv, SafeInv, calls # <<>>
    PROVE  /\ Engine => ~Last(calls).lock
           /\ ~Engine => /\ Last(calls).lock = st.lock
                         /\ Last(calls).lockMap = st.lockMap
                         /\ Last(calls).noLoop = st.noLoop
                         /\ st.lock => Last(calls).facts = st.facts
           /\ Unmarked(Last(calls))
  <1>1. /\ Len(calls) \in 1..Len(calls)
        /\ Last(calls) = calls[Len(calls)]
        /\ Last(calls) \in Storages
        /\ engineAt \in 0..Len(calls)
    BY FrontLast DEF TypeInv, TypeOK
  <1>2. Last(calls).lock <=> engineAt # 0 /\ Len(calls) > engineAt
    BY <1>1 DEF SafeInv, LockInv
  <1>3. Last(calls).lock \in BOOLEAN /\ st.lock \in BOOLEAN
    BY <1>1, StorageFields DEF TypeInv, TypeOK
  <1>4. Unmarked(Last(calls)) /\ Unmarked(st)
    BY <1>1 DEF SafeInv, MarkInv
  <1>5. Engine => ~Last(calls).lock
    BY <1>1, <1>2 DEF Engine
  <1>6. ASSUME ~Engine
        PROVE  /\ Last(calls).lock = st.lock
               /\ Last(calls).lockMap = st.lockMap
               /\ Last(calls).noLoop = st.noLoop
               /\ st.lock => Last(calls).facts = st.facts
    <2>1. Last(calls).lock <=> st.lock
      BY <1>1, <1>2, <1>6 DEF Engine, SafeInv, LockInv, LockMatchesEngine
    <2>2. CASE st.lock
      BY <1>1, <1>3, <2>1, <2>2 DEF SafeInv, SavedInv
    <2>3. CASE ~st.lock
      BY <1>3, <1>4, <2>1, <2>3 DEF Unmarked
    <2> QED
      BY <2>2, <2>3
  <1> QED
    BY <1>4, <1>5, <1>6

(* A message that fails, whether it runs the engine or was sent by a then  *)
(* block, leaves lock, marks and facts in order.                           *)
LEMMA AbortSafe ==
    ASSUME TypeInv, SafeInv, calls # <<>>, Abort
    PROVE  SafeInv' /\ (st.lock /\ st'.lock => st'.facts = st.facts)
  <1>1. /\ st' = Last(calls)
        /\ calls' = Front(calls)
        /\ Len(calls) \in Nat \ {0}
        /\ Len(calls') = Len(calls) - 1
        /\ \A i \in 1..Len(calls') : i \in 1..Len(calls) /\ calls'[i] = calls[i]
        /\ engineAt \in 0..Len(calls)
    <2>1. /\ st' = Last(calls)
          /\ calls' = Front(calls)
          /\ calls \in Seq(Storages)
          /\ engineAt \in 0..Len(calls)
      BY DEF Abort, TypeInv, TypeOK
    <2>2. /\ Len(calls) \in Nat \ {0}
          /\ Len(calls') = Len(calls) - 1
          /\ \A i \in 1..Len(calls) - 1 : calls'[i] = calls[i]
      BY <2>1, FrontLast
    <2> QED
      BY <2>1, <2>2
  <1>2. \A i \in 1..Len(calls') : Unmarked(calls'[i])
    BY <1>1 DEF SafeInv, MarkInv
  <1>3. MarkInv'
    <2>1. Unmarked(st')
      BY <1>1, SavedStorage
    <2> QED
      BY <1>2, <2>1 DEF MarkInv, Unmarked
  <1>4. CASE Engine
    <2>1. engineAt' = 0 /\ fired' = {} /\ ~st'.lock /\ engineAt = Len(calls)
      BY <1>1, <1>4, SavedStorage DEF Abort, Engine
    <2>2. \A i \in 1..Len(calls') : ~calls'[i].lock
      BY <1>1, <2>1 DEF SafeInv, LockInv
    <2>3. LockInv' /\ SavedInv'
      BY <2>1, <2>2 DEF LockInv, LockMatchesEngine, SavedInv
    <2>4. ListInv' /\ FiredInv'
      BY <1>3, <2>1 DEF MarkInv, Unmarked, ListInv, FiredInv
    <2> QED
      BY <1>3, <2>1, <2>3, <2>4 DEF SafeInv
  <1>5. CASE ~Engine
    <2>1. UNCHANGED <<engineAt, lockList, fired>>
      BY <1>5 DEF Abort
    <2>2. /\ st'.lock = st.lock
          /\ st'.lockMap = st.lockMap
          /\ st'.noLoop = st.noLoop
          /\ st.lock => st'.facts = st.facts
      BY <1>1, <1>5, SavedStorage
    <2>3. LockInv'
      BY <1>1, <2>1, <2>2 DEF SafeInv, LockInv, LockMatchesEngine
    <2>4. \A i \in 1..Len(calls') : calls'[i].lock => st.lock
      BY <1>1 DEF SafeInv, LockInv, LockMatchesEngine
    <2>5. SavedInv'
      BY <1>1, <2>2, <2>4 DEF SafeInv, SavedInv
    <2>6. ListInv' /\ FiredInv'
      BY <2>1, <2>2 DEF SafeInv, ListInv, FiredInv
    <2> QED
      BY <1>3, <2>2, <2>3, <2>5, <2>6 DEF SafeInv
  <1> QED
    BY <1>4, <1>5

(* A step that leaves calls, lock, facts and marks alone is safe.          *)
LEMMA QuietSafe ==
    ASSUME SafeInv, UNCHANGED <<calls, engineAt, lockList, fired>>,
           st'.lock = st.lock, st'.facts = st.facts,
           st'.lockMap = st.lockMap, st'.noLoop = st.noLoop
    PROVE  SafeInv'
  BY DEF SafeInv, LockInv, LockMatchesEngine, MarkInv, Unmarked, SavedInv,
         ListInv, FiredInv

(* While the engine's own message runs, no saved storage is locked, so     *)
(* that its steps may set marks as long as the lists follow.               *)
LEMMA EngineSafe ==
    ASSUME TypeInv, SafeInv, Engine, UNCHANGED <<calls, engineAt>>,
           st'.lock, ListInv', FiredInv'
    PROVE  SafeInv'
  <1>1. /\ engineAt = Len(calls) /\ engineAt # 0 /\ Len(calls) \in Nat
        /\ \A i \in 1..Len(calls) : ~calls[i].lock
    BY LenProperties DEF TypeInv, TypeOK, Engine, SafeInv, LockInv
  <1>2. LockInv' /\ SavedInv'
    BY <1>1 DEF LockInv, LockMatchesEngine, SavedInv
  <1>3. MarkInv'
    BY DEF SafeInv, MarkInv, Unmarked
  <1> QED
    BY <1>2, <1>3 DEF SafeInv

(* What Mark does to storage and lists.                                    *)
LEMMA MarkFields ==
    ASSUME TypeInv, frames # <<>>, Top.k <= NumRules, Top.i <= Len(Top.list), Mark
    PROVE  /\ st'.lock = st.lock
           /\ st'.facts = st.facts
           /\ st'.lockMap = IF Rule \in LockOnActiveRules
                              THEN st.lockMap \cup {Act} ELSE st.lockMap
           /\ st'.val = st.val /\ st'.noLoop = st.noLoop
           /\ ListInv => ListInv'
  <1>1. /\ Rule \in Rules /\ Tuple \in FactTuples /\ Hash = Act /\ Act = <<Rule, Tuple>>
        /\ st \in Storages /\ lockList \in [Rules -> Seq(FactTuples)]
    BY TopOK DEF TypeInv, TypeOK, Act
  <1>2. /\ st'.lock = st.lock
        /\ st'.facts = st.facts
        /\ st'.lockMap = IF Rule \in LockOnActiveRules
                           THEN st.lockMap \cup {Act} ELSE st.lockMap
        /\ st'.val = st.val /\ st'.noLoop = st.noLoop
    BY <1>1 DEF Mark, Storages
  <1>3. ASSUME ListInv
        PROVE  ListInv'
    <2>1. CASE Rule \notin LockOnActiveRules
      BY <1>2, <1>3, <2>1 DEF Mark, ListInv
    <2>2. CASE Rule \in LockOnActiveRules
      <3>1. lockList' = [lockList EXCEPT ![Rule] = Append(lockList[Rule], Tuple)]
        BY <2>2 DEF Mark
      <3>2. lockList[Rule] \in Seq(FactTuples)
        BY <1>1
      <3>3. Append(lockList[Rule], Tuple) = lockList[Rule] \o <<Tuple>>
            /\ <<Tuple>> \in Seq(FactTuples)
        BY <1>1, <3>2, AppendIsConcat
      <3>4. Range(<<Tuple>>) = {Tuple}
        BY DEF Range
      <3>5. Range(lockList'[Rule]) = Range(lockList[Rule]) \cup {Tuple}
        <4>1. lockList'[Rule] = lockList[Rule] \o <<Tuple>>
          BY <1>1, <3>1, <3>3
        <4>2. Range(lockList[Rule] \o <<Tuple>>)
                = Range(lockList[Rule]) \cup Range(<<Tuple>>)
          BY <3>2, <3>3, RangeConcatenation
        <4> QED
          BY <3>4, <4>1, <4>2
      <3>6. \A r \in Rules \ {Rule} : lockList'[r] = lockList[r]
        BY <1>1, <3>1
      <3>7. \A a \in st'.lockMap : a[1] \in Rules
        BY <1>1, <1>2, <2>2, StorageFields DEF Activations
      <3>8. ASSUME NEW a \in st'.lockMap
            PROVE  a[2] \in Range(lockList'[a[1]])
        <4>1. CASE a = Act
          BY <1>1, <3>5, <4>1
        <4>2. CASE a # Act
          <5>1. a[2] \in Range(lockList[a[1]])
            BY <1>2, <1>3, <2>2, <4>2 DEF ListInv
          <5>2. CASE a[1] = Rule
            BY <3>5, <5>1, <5>2
          <5>3. CASE a[1] # Rule
            BY <3>6, <3>7, <5>1, <5>3
          <5> QED
            BY <5>2, <5>3
        <4> QED
          BY <4>1, <4>2
      <3> QED
        BY <3>8 DEF ListInv
    <2> QED
      BY <2>1, <2>2
  <1> QED
    BY <1>2, <1>3

(* Messages and the operations of user code keep the invariant, and none   *)
(* of them changes the facts of a locked engine.                           *)
LEMMA UserSafe ==
    ASSUME TypeInv, SafeInv,
           \/ Begin \/ Reenter \/ Return \/ Fail
           \/ \E f \in Facts, v \in Vals : WriteFact(f, v)
           \/ \E f \in Facts : FactInsert(f) \/ FactDelete(f)
           \/ Update
    PROVE  SafeInv' /\ (st.lock /\ st'.lock => st'.facts = st.facts)
  <1>0. /\ st \in Storages
        /\ calls \in Seq(Storages)
        /\ engineAt \in 0..Len(calls)
        /\ Len(calls) \in Nat
        /\ st.lock <=> engineAt # 0
    BY LenProperties DEF TypeInv, TypeOK, SafeInv, LockInv, LockMatchesEngine
  <1>1. CASE Begin
    <2>1. engineAt = 0 /\ calls' = <<st>> /\ UNCHANGED <<st, engineAt, lockList, fired>>
      BY <1>0, <1>1, EmptySeq DEF Begin
    <2>2. Len(calls') = 1 /\ calls'[1] = st /\ ~st.lock
      BY <1>0, <2>1
    <2> QED
      BY <2>1, <2>2 DEF SafeInv, LockInv, LockMatchesEngine, MarkInv, Unmarked,
                        SavedInv, ListInv, FiredInv
  <1>2. CASE Reenter
    <2>1. calls' = Append(calls, st) /\ UNCHANGED <<st, engineAt, lockList, fired>>
      BY <1>2 DEF Reenter
    <2>2. /\ Len(calls') = Len(calls) + 1
          /\ \A i \in 1..Len(calls) : calls'[i] = calls[i]
          /\ calls'[Len(calls) + 1] = st
      BY <1>0, <2>1, AppendProperties
    <2>3. LockInv'
      BY <1>0, <2>1, <2>2 DEF SafeInv, LockInv, LockMatchesEngine
    <2>4. MarkInv'
      BY <1>0, <2>1, <2>2 DEF SafeInv, MarkInv, Unmarked
    <2>5. SavedInv'
      BY <1>0, <2>1, <2>2 DEF SafeInv, SavedInv
    <2> QED
      BY <2>1, <2>3, <2>4, <2>5 DEF SafeInv, ListInv, FiredInv
  <1>3. CASE Return
    <2>1. calls' = Front(calls) /\ UNCHANGED <<st, engineAt, lockList, fired>>
          /\ calls # <<>>
      BY <1>3 DEF Return, UserCode
    <2>2. /\ Len(calls') = Len(calls) - 1
          /\ \A i \in 1..Len(calls) - 1 : calls'[i] = calls[i]
      BY <1>0, <2>1, FrontLast
    <2> QED
      BY <1>0, <2>1, <2>2
      DEF SafeInv, LockInv, LockMatchesEngine, MarkInv, Unmarked, SavedInv,
          ListInv, FiredInv
  <1>4. CASE Fail
    BY <1>4, AbortSafe DEF Fail
  <1>5. ASSUME NEW f \in Facts, NEW v \in Vals, WriteFact(f, v)
        PROVE  SafeInv' /\ st'.facts = st.facts
    <2>1. /\ st'.lock = st.lock /\ st'.facts = st.facts
          /\ st'.lockMap = st.lockMap /\ st'.noLoop = st.noLoop
          /\ UNCHANGED <<calls, engineAt, lockList, fired>>
      BY <1>0, <1>5 DEF WriteFact, OnlyStorage, Storages
    <2> QED
      BY <2>1, QuietSafe
  <1>6. ASSUME NEW s, st' = s, s.lock = st.lock, s.lockMap = st.lockMap,
               s.noLoop = st.noLoop, ~st.lock, OnlyStorage
        PROVE  SafeInv' /\ (st.lock /\ st'.lock => st'.facts = st.facts)
    <2>1. UNCHANGED <<calls, engineAt, lockList, fired>>
      BY <1>6 DEF OnlyStorage
    <2>2. engineAt = 0 /\ \A i \in 1..Len(calls) : ~calls[i].lock
      BY <1>0, <1>6 DEF SafeInv, LockInv
    <2> QED
      BY <1>6, <2>1, <2>2
      DEF SafeInv, LockInv, LockMatchesEngine, MarkInv, Unmarked, SavedInv,
          ListInv, FiredInv
  <1>7. ASSUME NEW f \in Facts, FactInsert(f)
        PROVE  SafeInv' /\ (st.lock /\ st'.lock => st'.facts = st.facts)
    <2>1. CASE ~NoRuleEngineLock
      BY <1>7, <2>1, AbortSafe DEF FactInsert, UserCode
    <2>2. CASE NoRuleEngineLock
      <3>1. /\ st'.lock = st.lock /\ st'.lockMap = st.lockMap
            /\ st'.noLoop = st.noLoop /\ ~st.lock /\ OnlyStorage
        BY <1>0, <1>7, <2>2 DEF FactInsert, NoRuleEngineLock, Storages
      <3> QED
        BY <1>6, <3>1
    <2> QED
      BY <2>1, <2>2
  <1>8. ASSUME NEW f \in Facts, FactDelete(f)
        PROVE  SafeInv' /\ (st.lock /\ st'.lock => st'.facts = st.facts)
    <2>1. CASE ~NoRuleEngineLock \/ ~Listed(f)
      BY <1>8, <2>1, AbortSafe DEF FactDelete, UserCode
    <2>2. CASE NoRuleEngineLock /\ Listed(f)
      <3>1. /\ st'.lock = st.lock /\ st'.lockMap = st.lockMap
            /\ st'.noLoop = st.noLoop /\ ~st.lock /\ OnlyStorage
        BY <1>0, <1>8, <2>2 DEF FactDelete, NoRuleEngineLock, Storages
      <3> QED
        BY <1>6, <3>1
    <2> QED
      BY <2>1, <2>2
  <1>9. CASE Update
    <2>1. CASE ~st.lock
      BY <1>9, <2>1, AbortSafe DEF Update, UserCode
    <2>2. CASE st.lock
      <3>1. /\ st'.lock = st.lock /\ st'.facts = st.facts
            /\ st'.lockMap = st.lockMap /\ st'.noLoop = st.noLoop
            /\ UNCHANGED <<calls, engineAt, lockList, fired>>
        BY <1>0, <1>9, <2>2 DEF Update, OnlyStorage, Storages
      <3> QED
        BY <3>1, QuietSafe
    <2> QED
      BY <2>1, <2>2
  <1> QED
    BY <1>1, <1>2, <1>3, <1>4, <1>5, <1>7, <1>8, <1>9, <1>0
    DEF Begin, Reenter, Return

(* fireAllRules and the steps of rulesExec keep the invariant and leave    *)
(* the facts alone.                                                        *)
LEMMA RulesSafe ==
    ASSUME TypeInv, SafeInv, FireAllRules \/ Step
    PROVE  SafeInv' /\ (st.lock /\ st'.lock => st'.facts = st.facts)
  <1>0. /\ st \in Storages
        /\ calls \in Seq(Storages)
        /\ engineAt \in 0..Len(calls)
        /\ Len(calls) \in Nat
        /\ st.lock <=> engineAt # 0
    BY LenProperties DEF TypeInv, TypeOK, SafeInv, LockInv, LockMatchesEngine
  <1>1. CASE FireAllRules
    <2>1. CASE st.lock
      BY <1>1, <2>1, AbortSafe DEF FireAllRules, UserCode
    <2>2. CASE ~st.lock
      <3>1. /\ st'.lock /\ st'.facts = st.facts
            /\ st'.lockMap = st.lockMap
            /\ engineAt' = Len(calls) /\ calls' = calls /\ fired' = {}
        BY <1>0, <1>1, <2>2 DEF FireAllRules, Storages
      <3>2. st.lockMap = {} /\ engineAt = 0 /\ Len(calls) # 0
        BY <1>0, <1>1, <2>2, EmptySeq
        DEF SafeInv, MarkInv, Unmarked, FireAllRules, UserCode
      <3>3. \A i \in 1..Len(calls) : ~calls[i].lock
        BY <3>2 DEF SafeInv, LockInv
      <3>4. LockInv' /\ SavedInv'
        BY <1>0, <3>1, <3>2, <3>3 DEF LockInv, LockMatchesEngine, SavedInv
      <3>5. MarkInv'
        BY <3>1 DEF SafeInv, MarkInv, Unmarked
      <3> QED
        BY <3>1, <3>2, <3>4, <3>5 DEF SafeInv, ListInv, FiredInv
    <2> QED
      BY <2>1, <2>2
  <1>2. CASE EvalRule \/ EndList \/ ReturnFrame
    <2>1. UNCHANGED <<st, calls, engineAt, lockList, fired>>
      BY <1>2 DEF EvalRule, EndList, ReturnFrame, OnlyFrames
    <2> QED
      BY <2>1, QuietSafe
  <1>3. CASE SkipLocked
    <2>1. /\ st'.lock = st.lock /\ st'.facts = st.facts
          /\ st'.lockMap = st.lockMap /\ st'.noLoop = st.noLoop
          /\ UNCHANGED <<calls, engineAt, lockList, fired>>
      BY <1>0, <1>3 DEF SkipLocked, Storages
    <2> QED
      BY <2>1, QuietSafe
  <1>4. ASSUME AtElement, Mark, UNCHANGED <<calls, engineAt>>,
               fired' \subseteq fired \cup {Act}
        PROVE  SafeInv' /\ st'.facts = st.facts
    <2>1. /\ frames # <<>> /\ Top.pc = "loop" /\ Top.i <= Len(Top.list)
          /\ Engine
      BY <1>4 DEF AtElement, Running
    <2>2. Top.k <= NumRules
      BY <2>1, TopOK DEF FrameOK
    <2>3. /\ st'.lock = st.lock
          /\ st'.facts = st.facts
          /\ st'.lockMap = IF Rule \in LockOnActiveRules
                             THEN st.lockMap \cup {Act} ELSE st.lockMap
          /\ ListInv'
      BY <1>4, <2>1, <2>2, MarkFields DEF SafeInv
    <2>4. FiredInv'
      BY <1>4, <2>3 DEF SafeInv, FiredInv, Act
    <2>5. st'.lock
      BY <1>0, <2>1, <2>3 DEF Engine
    <2> QED
      BY <1>4, <2>1, <2>3, <2>4, <2>5, EngineSafe
  <1>5. CASE SkipLooping
    BY <1>4, <1>5 DEF SkipLooping
  <1>6. CASE EnterThen
    BY <1>4, <1>6 DEF EnterThen
  <1>7. CASE ThenEnd
    BY <1>7, QuietSafe DEF ThenEnd
  <1>8. CASE Reevaluate
    <2>1. Engine /\ calls # <<>> /\ st.lock
      BY <1>0, <1>8, EmptySeq DEF Reevaluate, AtThenEnd, Running, Engine
    <2>2. CASE Abort
      BY <2>1, <2>2, AbortSafe
    <2>3. CASE ~Abort
      <3>1. /\ st'.lock = st.lock /\ st'.facts = st.facts
            /\ st'.lockMap = st.lockMap
            /\ UNCHANGED <<calls, engineAt, lockList, fired>>
        BY <1>0, <1>8, <2>3 DEF Reevaluate, Storages
      <3>2. ListInv' /\ FiredInv'
        BY <3>1 DEF SafeInv, ListInv, FiredInv
      <3> QED
        BY <2>1, <3>1, <3>2, EngineSafe
    <2> QED
      BY <2>2, <2>3
  <1>9. CASE Finish
    <2>1. /\ ~st'.lock /\ st'.noLoop = NoMark
          /\ st'.lockMap = {a \in st.lockMap : a[2] \notin Range(lockList[a[1]])}
      BY <1>0, <1>9 DEF Finish, Unlock, ClearMarks, Storages
    <2>2. st'.lockMap = {}
      BY <2>1 DEF SafeInv, ListInv
    <2>3. /\ Engine /\ calls' = calls /\ engineAt' = 0 /\ fired' = {}
      BY <1>9 DEF Finish
    <2>4. \A i \in 1..Len(calls) : ~calls[i].lock
      BY <1>0, <2>3 DEF Engine, SafeInv, LockInv
    <2>5. LockInv' /\ SavedInv'
      BY <2>1, <2>3, <2>4 DEF LockInv, LockMatchesEngine, SavedInv
    <2>6. MarkInv'
      BY <2>1, <2>2, <2>3 DEF SafeInv, MarkInv, Unmarked
    <2> QED
      BY <2>1, <2>2, <2>3, <2>5, <2>6 DEF SafeInv, ListInv, FiredInv
  <1> QED
    BY <1>1, <1>2, <1>3, <1>5, <1>6, <1>7, <1>8, <1>9
    DEF Step, EvalRule, EndList, ReturnFrame, OnlyFrames, SkipLocked, ThenEnd

(* At the start nothing is locked or marked and nothing is saved.          *)
LEMMA InitSafe == Init => SafeInv
  <1> SUFFICES ASSUME Init PROVE SafeInv
    OBVIOUS
  <1>1. /\ ~st.lock /\ st.lockMap = {} /\ st.noLoop = NoMark
        /\ Len(calls) = 0 /\ engineAt = 0 /\ fired = {}
    BY EmptySeq DEF Init, EmptyStorage
  <1> QED
    BY <1>1 DEF SafeInv, LockInv, LockMatchesEngine, MarkInv, Unmarked, SavedInv,
                ListInv, FiredInv

(* Every step keeps the invariant, and the facts of a locked engine.       *)
LEMMA NextSafe ==
    TypeInv /\ SafeInv /\ [Next]_vars
        => SafeInv' /\ (st.lock /\ st'.lock => st'.facts = st.facts)
  <1>1. ASSUME SafeInv, UNCHANGED vars
        PROVE  SafeInv' /\ st'.facts = st.facts
    BY <1>1, QuietSafe DEF vars
  <1> QED
    BY <1>1, UserSafe, RulesSafe DEF Next

(* The invariant holds throughout.                                         *)
THEOREM SafeCorrect == Spec => [](TypeInv /\ SafeInv)
  <1>1. Init => TypeInv /\ SafeInv
    BY InitTyped, InitSafe
  <1>2. (TypeInv /\ SafeInv) /\ [Next]_vars => (TypeInv /\ SafeInv)'
    BY NextTyped, NextSafe
  <1> QED
    BY <1>1, <1>2, PTL DEF Spec

(* fireAllRules holds the lock exactly while some message runs the engine: *)
(* a failing message neither leaves the engine locked nor unlocks it.      *)
THEOREM LockCorrect == Spec => []LockMatchesEngine
  <1>1. TypeInv /\ SafeInv => LockMatchesEngine
    BY DEF SafeInv, LockInv
  <1> QED
    BY <1>1, SafeCorrect, PTL

(* A fireAllRules, however it ends, leaves no lock_on_active mark and no   *)
(* no_loop marker for the next one.                                        *)
THEOREM MarksCorrect == Spec => []NoMarksLeft
  <1>1. TypeInv /\ SafeInv => NoMarksLeft
    BY DEF SafeInv, MarkInv, Unmarked, NoMarksLeft
  <1> QED
    BY <1>1, SafeCorrect, PTL

(* Working memory does not change from lock to unlock.                     *)
THEOREM FactsCorrect == Spec => FactsFrozen
  <1>1. TypeInv /\ SafeInv /\ [Next]_vars
            => [st.lock /\ st'.lock => st'.facts = st.facts]_vars
    BY NextSafe
  <1> QED
    BY <1>1, SafeCorrect, PTL DEF Spec, FactsFrozen

(* A lock_on_active rule enters its then block at most once for the same   *)
(* facts in one fireAllRules, whatever the then blocks and the messages    *)
(* they send do.                                                           *)
THEOREM LockOnActiveCorrect == Spec => LockOnActiveOnce
  <1>1. ASSUME TypeInv, SafeInv, EnterThen, Rule \in LockOnActiveRules
        PROVE  Act \notin fired
    <2>1. Act \notin st.lockMap
      BY <1>1 DEF EnterThen, Locked, Hash
    <2>2. Act[1] = Rule
      BY DEF Act
    <2> QED
      BY <1>1, <2>1, <2>2 DEF SafeInv, FiredInv
  <1>2. TypeInv /\ SafeInv /\ [Next]_vars
            => [EnterThen /\ Rule \in LockOnActiveRules => Act \notin fired]_vars
    BY <1>1
  <1> QED
    BY <1>2, SafeCorrect, PTL DEF Spec, LockOnActiveOnce

-----------------------------------------------------------------------------
(* The depth of the recursion.  A frame that is in a then block has marked *)
(* a tuple no other frame has marked, if its rule is lock_on_active.       *)

DepthInv ==
    /\ IsFiniteSet(st.lockMap)
    /\ RecursionBounded
    /\ Rules = LockOnActiveRules /\ frames # <<>> /\ Top.pc = "then"
         => Len(frames) <= Cardinality(st.lockMap)

(* Without frames there is no depth.                                       *)
LEMMA NoFramesDepth ==
    ASSUME frames' = <<>>, IsFiniteSet(st'.lockMap)
    PROVE  DepthInv'
  <1>1. Cardinality(st'.lockMap) \in Nat /\ Len(frames') = 0
    BY FS_CardinalityType, EmptySeq
  <1> QED
    BY <1>1 DEF DepthInv, RecursionBounded

(* A failing message takes all frames with it or none, and then the marks  *)
(* stay.                                                                   *)
LEMMA AbortDepth ==
    ASSUME TypeInv, SafeInv, DepthInv, calls # <<>>, Abort
    PROVE  DepthInv'
  <1>1. CASE Engine
    <2>1. frames' = <<>> /\ st'.lockMap = {}
      BY <1>1, SavedStorage DEF Abort, Unmarked
    <2> QED
      BY <2>1, FS_EmptySet, NoFramesDepth
  <1>2. CASE ~Engine
    <2>1. frames' = frames /\ st'.lockMap = st.lockMap
      BY <1>2, SavedStorage DEF Abort
    <2> QED
      BY <2>1 DEF DepthInv, RecursionBounded, Top
  <1> QED
    BY <1>1, <1>2

(* A frame replaced by one outside then blocks adds no depth.              *)
LEMMA SetTopDepth ==
    ASSUME TypeInv, DepthInv, frames # <<>>, NEW fr \in Frames, FrameOK(fr),
           frames' = SetTop(fr), fr.pc # "then",
           IsFiniteSet(st'.lockMap),
           Cardinality(st'.lockMap) >= Cardinality(st.lockMap)
    PROVE  DepthInv'
  <1>1. /\ Len(frames') = Len(frames)
        /\ Len(frames) \in Nat \ {0}
        /\ frames'[Len(frames)] = fr
    BY SetTopOK, FrontLast, ExceptSeq DEF TypeInv, TypeOK, SetTop
  <1>2. Cardinality(st'.lockMap) \in Nat /\ Cardinality(st.lockMap) \in Nat
    BY FS_CardinalityType DEF DepthInv
  <1>3. Top'.pc # "then"
    BY <1>1 DEF Top, Last
  <1> QED
    BY <1>1, <1>2, <1>3 DEF DepthInv, RecursionBounded

(* Every step respects the depth.                                          *)
LEMMA NextDepth ==
    ASSUME TypeInv, SafeInv, DepthInv, [Next]_vars
    PROVE  DepthInv'
  <1>0. /\ st \in Storages
        /\ frames \in Seq(Frames)
        /\ FramesOK
        /\ IsFiniteSet(st.lockMap)
        /\ Cardinality(st.lockMap) \in Nat
    BY FS_CardinalityType DEF TypeInv, TypeOK, DepthInv
  <1>1. ASSUME frames' = frames, st'.lockMap = st.lockMap
        PROVE  DepthInv'
    BY <1>1 DEF DepthInv, RecursionBounded, Top
  <1>2. CASE UNCHANGED vars \/ Begin \/ Reenter \/ Return
    BY <1>1, <1>2 DEF vars, Begin, Reenter, Return
  <1>3. CASE Fail
    BY <1>3, AbortDepth DEF Fail
  <1>4. ASSUME NEW f \in Facts, NEW v \in Vals, WriteFact(f, v)
        PROVE  DepthInv'
    BY <1>0, <1>1, <1>4 DEF WriteFact, OnlyStorage, Storages
  <1>5. ASSUME NEW f \in Facts, FactInsert(f)
        PROVE  DepthInv'
    <2>1. CASE ~NoRuleEngineLock
      BY <1>5, <2>1, AbortDepth DEF FactInsert, UserCode
    <2>2. CASE NoRuleEngineLock
      BY <1>0, <1>1, <1>5, <2>2 DEF FactInsert, OnlyStorage, Storages
    <2> QED
      BY <2>1, <2>2
  <1>6. ASSUME NEW f \in Facts, FactDelete(f)
        PROVE  DepthInv'
    <2>1. CASE ~NoRuleEngineLock \/ ~Listed(f)
      BY <1>6, <2>1, AbortDepth DEF FactDelete, UserCode
    <2>2. CASE NoRuleEngineLock /\ Listed(f)
      BY <1>0, <1>1, <1>6, <2>2 DEF FactDelete, OnlyStorage, Storages
    <2> QED
      BY <2>1, <2>2
  <1>7. CASE Update
    <2>1. CASE ~st.lock
      BY <1>7, <2>1, AbortDepth DEF Update, UserCode
    <2>2. CASE st.lock
      BY <1>0, <1>1, <1>7, <2>2 DEF Update, OnlyStorage, Storages
    <2> QED
      BY <2>1, <2>2
  <1>8. CASE FireAllRules
    <2>1. CASE st.lock
      BY <1>8, <2>1, AbortDepth DEF FireAllRules, UserCode
    <2>2. CASE ~st.lock
      <3>1. st'.lockMap = st.lockMap /\ frames' = <<NewFrame>>
        BY <1>0, <1>8, <2>2 DEF FireAllRules, Storages
      <3>2. Len(frames') = 1 /\ frames'[1].pc = "eval"
        BY <3>1 DEF NewFrame
      <3> QED
        BY <1>0, <3>1, <3>2 DEF DepthInv, RecursionBounded, Top, Last
    <2> QED
      BY <2>1, <2>2
  <1>9. CASE EvalRule
    <2>1. frames # <<>> /\ Top.k <= NumRules
      BY <1>9 DEF EvalRule, Running
    <2>2. Matches(Rule, st.facts, st.val) \in Seq(FactTuples)
      BY <1>0, <2>1, TopOK, StorageFields, MatchesAssumption
    <2> DEFINE fr == [Top EXCEPT !.list = Matches(Rule, st.facts, st.val),
                                 !.i = 1, !.pc = "loop", !.seen = st.val]
    <2>3. fr \in Frames /\ FrameOK(fr) /\ fr.pc = "loop"
      <3>1. fr \in Frames /\ FrameOK(fr)
        BY <1>0, <2>1, <2>2, TopOK, FrameSteps, StorageFields
      <3>2. fr.pc = "loop"
        BY <2>1, TopOK DEF Frames
      <3> QED
        BY <3>1, <3>2
    <2>4. frames' = SetTop(fr) /\ st' = st
      BY <1>9 DEF EvalRule, OnlyFrames
    <2>5. IsFiniteSet(st'.lockMap) /\ Cardinality(st'.lockMap) >= Cardinality(st.lockMap)
      BY <1>0, <2>4
    <2> HIDE DEF fr
    <2> QED
      BY <2>1, <2>3, <2>4, <2>5, SetTopDepth
  <1>10. CASE EndList
    <2>1. frames # <<>>
      BY <1>10 DEF EndList, Running
    <2>2. NextRule(Top) \in Frames /\ FrameOK(NextRule(Top))
      BY <2>1, TopOK, FrameSteps
    <2>3. NextRule(Top).pc = "eval"
      BY <2>1, TopOK DEF NextRule, Frames
    <2> QED
      BY <1>0, <1>10, <2>1, <2>2, <2>3, SetTopDepth DEF EndList, OnlyFrames
  <1>11. ASSUME frames # <<>>, Top.pc # "eval", frames' = NextElement,
                IsFiniteSet(st'.lockMap),
                Cardinality(st'.lockMap) >= Cardinality(st.lockMap)
         PROVE  DepthInv'
    <2> DEFINE fr == [Top EXCEPT !.i = @ + 1, !.pc = "loop"]
    <2>1. fr \in Frames /\ FrameOK(fr)
      <3>1. Top \in Frames /\ Top.k <= NumRules
        BY <1>11, TopOK DEF FrameOK
      <3> QED
        BY <3>1, FrameSteps
    <2>2. fr.pc = "loop"
      BY <1>11, TopOK DEF Frames
    <2>3. frames' = SetTop(fr)
      BY <1>11 DEF NextElement
    <2> QED
      BY <1>11, <2>1, <2>2, <2>3, SetTopDepth
  <1>12. CASE SkipLocked
    <2>1. frames # <<>> /\ Top.pc = "loop" /\ frames' = NextElement
      BY <1>12 DEF SkipLocked, AtElement, Running
    <2>2. st'.lockMap = st.lockMap
      BY <1>0, <1>12 DEF SkipLocked, Storages
    <2> QED
      BY <1>0, <1>11, <2>1, <2>2
  <1>13. ASSUME AtElement, ~Locked, Mark
         PROVE  /\ frames # <<>> /\ Top.pc = "loop"
                /\ Top.k <= NumRules /\ Top.i <= Len(Top.list)
                /\ IsFiniteSet(st'.lockMap)
                /\ Cardinality(st'.lockMap) \in Nat
                /\ Cardinality(st'.lockMap) =
                     Cardinality(st.lockMap)
                       + IF Rule \in LockOnActiveRules THEN 1 ELSE 0
    <2>1. frames # <<>> /\ Top.pc = "loop" /\ Top.i <= Len(Top.list)
      BY <1>13 DEF AtElement, Running
    <2>2. Top.k <= NumRules
      BY <2>1, TopOK DEF FrameOK
    <2>3. st'.lockMap = IF Rule \in LockOnActiveRules
                          THEN st.lockMap \cup {Act} ELSE st.lockMap
      BY <1>13, <2>1, <2>2, MarkFields
    <2>4. CASE Rule \in LockOnActiveRules
      <3>1. Act \notin st.lockMap
        BY <1>13, <2>4 DEF Locked, Hash
      <3>2. /\ IsFiniteSet(st.lockMap \cup {Act})
            /\ Cardinality(st.lockMap \cup {Act}) = Cardinality(st.lockMap) + 1
        BY <1>0, <3>1, FS_AddElement
      <3> QED
        BY <1>0, <2>1, <2>2, <2>3, <2>4, <3>2
    <2>5. CASE Rule \notin LockOnActiveRules
      BY <1>0, <2>1, <2>2, <2>3, <2>5
    <2> QED
      BY <2>4, <2>5
  <1>14. CASE SkipLooping
    <2>1. AtElement /\ ~Locked /\ Mark /\ frames' = NextElement
      BY <1>14 DEF SkipLooping
    <2>2. Cardinality(st'.lockMap) >= Cardinality(st.lockMap)
      BY <1>0, <1>13, <2>1
    <2> QED
      BY <1>11, <1>13, <2>1, <2>2
  <1>15. CASE EnterThen
    <2>1. AtElement /\ ~Locked /\ Mark
      BY <1>15 DEF EnterThen
    <2> DEFINE fr == [Top EXCEPT !.pc = "then"]
    <2>2. fr \in Frames /\ FrameOK(fr)
      BY <1>13, <2>1, TopOK, FrameSteps
    <2>3. frames' = SetTop(fr)
      BY <1>15 DEF EnterThen
    <2>4. Len(frames') = Len(frames) /\ Len(frames) \in Nat
      BY <1>0, <1>13, <2>1, <2>2, <2>3, SetTopOK, LenProperties
    <2>5. Rules = LockOnActiveRules
            => Len(frames') <= Cardinality(st'.lockMap)
      <3>1. Rule \in Rules
        BY <1>13, <2>1, TopOK
      <3>2. Rules = LockOnActiveRules
              => Cardinality(st'.lockMap) = Cardinality(st.lockMap) + 1
        BY <1>0, <1>13, <2>1, <3>1
      <3> QED
        BY <1>0, <2>4, <3>2 DEF DepthInv, RecursionBounded
    <2> QED
      BY <1>13, <2>1, <2>4, <2>5 DEF DepthInv, RecursionBounded
  <1>16. CASE ThenEnd
    <2>1. frames # <<>> /\ Top.pc = "then" /\ frames' = NextElement /\ st' = st
      BY <1>16 DEF ThenEnd, AtThenEnd, Running
    <2> QED
      BY <1>0, <1>11, <2>1
  <1>17. CASE Reevaluate
    <2>1. frames # <<>> /\ Top.pc = "then" /\ Engine /\ calls # <<>>
      BY <1>17, EmptySeq DEF Reevaluate, AtThenEnd, Running, Engine, TypeInv, TypeOK
    <2>2. CASE Abort
      BY <2>1, <2>2, AbortDepth
    <2>3. CASE ~Abort
      <3>1. st'.lockMap = st.lockMap /\ frames' = Append(SetTop(Cleaned), NewFrame)
        BY <1>0, <1>17, <2>3 DEF Reevaluate, Storages
      <3>2. Cleaned \in Frames /\ FrameOK(Cleaned)
        <4>1. Top \in Frames /\ Top.k <= NumRules
          BY <2>1, TopOK DEF FrameOK
        <4> QED
          BY <4>1, FrameSteps DEF Cleaned
      <3>3. SetTop(Cleaned) \in Seq(Frames) /\ Len(SetTop(Cleaned)) = Len(frames)
        BY <1>0, <2>1, <3>2, SetTopOK
      <3>4. /\ Len(frames') = Len(frames) + 1
            /\ frames'[Len(frames) + 1] = NewFrame
            /\ Len(frames) \in Nat
        BY <1>0, <3>1, <3>3, NewFrameOK, AppendProperties, LenProperties
      <3>5. Top'.pc = "eval"
        BY <3>4 DEF Top, Last, NewFrame
      <3> QED
        BY <1>0, <2>1, <3>1, <3>4, <3>5 DEF DepthInv, RecursionBounded
    <2> QED
      BY <2>2, <2>3
  <1>18. CASE ReturnFrame
    <2> DEFINE below == Front(frames)
    <2>1. frames # <<>> /\ st' = st
      BY <1>18 DEF ReturnFrame, Running, OnlyFrames
    <2>2. below \in Seq(Frames) /\ Len(below) = Len(frames) - 1 /\ Len(frames) \in Nat
      BY <1>0, <2>1, FrontLast
    <2>3. CASE below = <<>>
      BY <1>0, <1>18, <2>1, <2>3, NoFramesDepth DEF ReturnFrame
    <2>4. CASE below # <<>>
      <3>1. /\ Len(below) \in 1..Len(below)
            /\ below[Len(below)] \in Frames
        BY <2>2, <2>4, FrontLast
      <3> DEFINE fr == NextRule(below[Len(below)])
      <3>2. fr \in Frames
        BY <3>1, FrameSteps
      <3>3. fr.pc = "eval"
        BY <3>1 DEF NextRule, Frames
      <3>4. frames' = [below EXCEPT ![Len(below)] = fr]
        BY <1>18, <2>4 DEF ReturnFrame
      <3>5. Len(frames') = Len(below) /\ frames'[Len(below)] = fr
        BY <2>2, <3>1, <3>2, <3>4, ExceptSeq
      <3>6. Top'.pc = "eval"
        BY <3>3, <3>5 DEF Top, Last
      <3> QED
        BY <1>0, <2>1, <2>2, <3>5, <3>6 DEF DepthInv, RecursionBounded
    <2> QED
      BY <2>3, <2>4
  <1>19. CASE Finish
    <2>1. frames' = <<>>
          /\ st'.lockMap = {a \in st.lockMap : a[2] \notin Range(lockList[a[1]])}
      BY <1>0, <1>19 DEF Finish, Unlock, ClearMarks, Storages
    <2>2. st'.lockMap = {}
      BY <2>1 DEF SafeInv, ListInv
    <2> QED
      BY <2>1, <2>2, FS_EmptySet, NoFramesDepth
  <1> QED
    BY <1>2, <1>3, <1>4, <1>5, <1>6, <1>7, <1>8, <1>9, <1>10, <1>12, <1>14,
       <1>15, <1>16, <1>17, <1>18, <1>19
    DEF Next, Step

(* If all rules are lock_on_active, the nested activations of rulesExec    *)
(* are at most one more than the tuples that have been marked.             *)
THEOREM DepthCorrect == Spec => []RecursionBounded
  <1>1. Init => DepthInv
    <2> SUFFICES ASSUME Init PROVE DepthInv
      OBVIOUS
    <2>1. st.lockMap = {} /\ frames = <<>> /\ Len(frames) = 0
      BY EmptySeq DEF Init, EmptyStorage
    <2> QED
      BY <2>1, FS_EmptySet DEF DepthInv, RecursionBounded
  <1>2. TypeInv /\ SafeInv /\ DepthInv /\ [Next]_vars => DepthInv'
    BY NextDepth
  <1>3. DepthInv => RecursionBounded
    BY DEF DepthInv
  <1> QED
    BY <1>1, <1>2, <1>3, SafeCorrect, PTL DEF Spec
-----------------------------------------------------------------------------
(* Matches, salience and the fixpoint, for then blocks that call update    *)
(* for what they change.  What a rule has to do depends on the contents,   *)
(* and these change under the engine while a then block runs: the          *)
(* invariant speaks of the contents the innermost frame has seen, which    *)
(* are the present ones whenever the frame looks at its list.  Frames      *)
(* further out have given their lists up and need no invariant: when the   *)
(* inner frame returns, no rule at all has anything left to do.            *)

(* An activation was executed or is held back, as Done says.               *)
Settled(a) ==
    \/ a \in ran
    \/ a[1] \in LockOnActiveRules /\ a \in st.lockMap
    \/ a[1] \in NoLoopRules /\ a = st.noLoop

(* Done, of any contents.                                                  *)
SettledFor(r, v) ==
    \A n \in DOMAIN Matches(r, st.facts, v) :
        Settled(<<r, Matches(r, st.facts, v)[n]>>)

Before(k, v) == \A m \in 1..NumRules : m < k => SettledFor(order[m], v)

AtList(fr) ==
    /\ fr.list = Matches(order[fr.k], st.facts, fr.seen)
    /\ Before(fr.k, fr.seen)
    /\ \A n \in DOMAIN fr.list : n < fr.i => Settled(<<order[fr.k], fr.list[n]>>)

WorkOK(fr) ==
    \/ fr.pc = "eval" /\ Before(fr.k, st.val)
    \/ fr.pc = "loop" /\ AtList(fr) /\ fr.seen = st.val
    \/ fr.pc = "then" /\ AtList(fr)

FixInv ==
    Disciplined /\ engineAt # 0 =>
        /\ engineAt # Len(calls) => frames # <<>> /\ Top.pc = "then"
        /\ frames = <<>> => Before(NumRules + 1, st.val)
        /\ frames # <<>> => WorkOK(Top)

(* What settles activations only grows.                                    *)
Growing ==
    /\ order' = order
    /\ st'.facts = st.facts
    /\ st'.noLoop = st.noLoop
    /\ st.lockMap \subseteq st'.lockMap
    /\ ran \subseteq ran'

(* Then what is settled stays so, for the same contents.                   *)
LEMMA SettledStays ==
    ASSUME Growing
    PROVE  /\ \A a : Settled(a) => Settled(a)'
           /\ \A k, v : Before(k, v) => Before(k, v)'
           /\ \A fr : AtList(fr) => AtList(fr)'
  <1>1. \A a : Settled(a) => Settled(a)'
    BY DEF Growing, Settled
  <1>2. \A r, v : SettledFor(r, v) => SettledFor(r, v)'
    BY <1>1 DEF Growing, SettledFor
  <1>3. ASSUME NEW k, NEW v, Before(k, v)
        PROVE  Before(k, v)'
    <2> SUFFICES ASSUME NEW m \in 1..NumRules, m < k
                 PROVE  SettledFor(order[m], v)'
      BY DEF Before
    <2>1. SettledFor(order[m], v)
      BY <1>3 DEF Before
    <2>2. PICK r : r = order[m]
      OBVIOUS
    <2>3. SettledFor(r, v)'
      BY <1>2, <2>1, <2>2
    <2> QED
      BY <2>2, <2>3 DEF Growing
  <1>4. ASSUME NEW fr, AtList(fr)
        PROVE  AtList(fr)'
    <2>1. Before(fr.k, fr.seen)'
      BY <1>3, <1>4 DEF AtList
    <2>2. fr.list = Matches(order'[fr.k], st'.facts, fr.seen)
      BY <1>4 DEF AtList, Growing
    <2>3. PICK r : r = order[fr.k]
      OBVIOUS
    <2>4. \A n \in DOMAIN fr.list : n < fr.i => Settled(<<r, fr.list[n]>>)'
      BY <1>1, <1>4, <2>3 DEF AtList
    <2> QED
      BY <2>1, <2>2, <2>3, <2>4 DEF AtList, Growing
  <1> QED
    BY <1>1, <1>3, <1>4

(* A frame in a then block does not mind what happens to the contents.     *)
LEMMA ThenStays ==
    ASSUME TypeInv, FixInv, UNCHANGED <<engineAt, frames>>,
           engineAt # 0 => frames # <<>> /\ Top.pc = "then" /\ Growing
    PROVE  FixInv'
  <1> SUFFICES ASSUME Disciplined, engineAt # 0
               PROVE  FixInv'
    BY DEF FixInv
  <1>1. PICK fr : fr = Top
    OBVIOUS
  <1>2. Top' = fr
    BY <1>1 DEF Top
  <1>3. fr.pc = "then" /\ AtList(fr)
    BY <1>1 DEF FixInv, WorkOK
  <1>4. AtList(fr)'
    BY <1>3, SettledStays
  <1>5. WorkOK(fr)'
    BY <1>3, <1>4 DEF WorkOK
  <1> QED
    BY <1>1, <1>2, <1>3, <1>5 DEF FixInv

(* While the engine runs, user code runs in a then block or in a message   *)
(* sent from one.                                                          *)
LEMMA UserInThen ==
    ASSUME FixInv, Disciplined, UserCode, engineAt # 0
    PROVE  frames # <<>> /\ Top.pc = "then"
  BY DEF FixInv, UserCode, Engine

(* A failing message ends the engine or returns to its then block.         *)
LEMMA AbortFix ==
    ASSUME TypeInv, SafeInv, FixInv, calls # <<>>, Abort
    PROVE  FixInv'
  <1>1. CASE Engine
    BY <1>1 DEF Abort, FixInv
  <1>2. CASE ~Engine
    <2>1. UNCHANGED <<engineAt, frames, ran, order>> /\ st' = Last(calls)
      BY <1>2 DEF Abort
    <2>2. ASSUME engineAt # 0
          PROVE  Growing
      <3>1. st.lock
        BY <2>2 DEF SafeInv, LockInv, LockMatchesEngine
      <3> QED
        BY <1>2, <2>1, <3>1, SavedStorage DEF Growing
    <2>3. CASE Disciplined
      <3>1. engineAt # 0 => frames # <<>> /\ Top.pc = "then"
        BY <1>2, <2>3 DEF FixInv, Engine
      <3> QED
        BY <2>1, <2>2, <3>1, ThenStays
    <2>4. CASE ~Disciplined
      BY <2>4 DEF FixInv
    <2> QED
      BY <2>3, <2>4
  <1> QED
    BY <1>1, <1>2

(* User code settles nothing and unsettles nothing.                        *)
LEMMA UserFix ==
    ASSUME TypeInv, SafeInv, FixInv,
           \/ Begin \/ Reenter \/ Return \/ Fail
           \/ \E f \in Facts, v \in Vals : WriteFact(f, v)
           \/ \E f \in Facts : FactInsert(f) \/ FactDelete(f)
           \/ Update
    PROVE  FixInv'
  <1>0. /\ st \in Storages
        /\ st.lock <=> engineAt # 0
        /\ calls \in Seq(Storages)
        /\ engineAt \in 0..Len(calls)
    BY DEF TypeInv, TypeOK, SafeInv, LockInv, LockMatchesEngine
  <1> SUFFICES ASSUME Disciplined PROVE FixInv'
    BY DEF FixInv
  <1>1. ASSUME UserCode, UNCHANGED <<engineAt, frames, ran, order>>,
               engineAt # 0 => /\ st'.facts = st.facts
                               /\ st'.lockMap = st.lockMap
                               /\ st'.noLoop = st.noLoop
        PROVE  FixInv'
    <2>1. engineAt # 0 => frames # <<>> /\ Top.pc = "then"
      BY <1>1, UserInThen
    <2>2. engineAt # 0 => Growing
      BY <1>1 DEF Growing
    <2> QED
      BY <1>1, <2>1, <2>2, ThenStays
  <1>2. CASE Begin
    <2>1. engineAt' = 0
      BY <1>0, <1>2, EmptySeq DEF Begin
    <2> QED
      BY <2>1 DEF FixInv
  <1>3. CASE Reenter \/ Return
    BY <1>1, <1>3 DEF Reenter, Return
  <1>4. CASE Fail
    BY <1>4, AbortFix DEF Fail
  <1>5. ASSUME NEW f \in Facts, NEW v \in Vals, WriteFact(f, v)
        PROVE  FixInv'
    <2>1. /\ st'.facts = st.facts /\ st'.lockMap = st.lockMap
          /\ st'.noLoop = st.noLoop
      BY <1>0, <1>5 DEF WriteFact, Storages
    <2> QED
      BY <1>1, <1>5, <2>1 DEF WriteFact, OnlyStorage
  <1>6. ASSUME NEW f \in Facts, FactInsert(f)
        PROVE  FixInv'
    <2>1. CASE ~NoRuleEngineLock
      BY <1>6, <2>1, AbortFix DEF FactInsert, UserCode
    <2>2. CASE NoRuleEngineLock
      BY <1>0, <1>1, <1>6, <2>2 DEF FactInsert, NoRuleEngineLock, OnlyStorage
    <2> QED
      BY <2>1, <2>2
  <1>7. ASSUME NEW f \in Facts, FactDelete(f)
        PROVE  FixInv'
    <2>1. CASE ~NoRuleEngineLock \/ ~Listed(f)
      BY <1>7, <2>1, AbortFix DEF FactDelete, UserCode
    <2>2. CASE NoRuleEngineLock /\ Listed(f)
      BY <1>0, <1>1, <1>7, <2>2 DEF FactDelete, NoRuleEngineLock, OnlyStorage
    <2> QED
      BY <2>1, <2>2
  <1>8. CASE Update
    <2>1. CASE ~st.lock
      BY <1>8, <2>1, AbortFix DEF Update, UserCode
    <2>2. CASE st.lock
      <3>1. /\ st'.facts = st.facts /\ st'.lockMap = st.lockMap
            /\ st'.noLoop = st.noLoop
        BY <1>0, <1>8, <2>2 DEF Update, Storages
      <3> QED
        BY <1>1, <1>8, <2>2, <3>1 DEF Update, OnlyStorage
    <2> QED
      BY <2>1, <2>2
  <1> QED
    BY <1>2, <1>3, <1>4, <1>5, <1>6, <1>7, <1>8

(* The engine's own message goes on with another innermost frame.          *)
LEMMA SetTopFix ==
    ASSUME TypeInv, Engine, frames # <<>>, UNCHANGED <<calls, engineAt>>,
           NEW fr \in Frames, FrameOK(fr), frames' = SetTop(fr), WorkOK(fr)'
    PROVE  FixInv'
  <1>1. /\ Len(frames') = Len(frames)
        /\ Len(frames) \in Nat \ {0}
        /\ frames'[Len(frames)] = fr
    BY SetTopOK, FrontLast, ExceptSeq DEF TypeInv, TypeOK, SetTop
  <1>2. Top' = fr /\ frames' # <<>>
    BY <1>1, EmptySeq DEF Top, Last
  <1> QED
    BY <1>2 DEF FixInv, Engine

(* The fields of the frames the steps of rulesExec make.                   *)
LEMMA FrameFields ==
    ASSUME NEW fr \in Frames
    PROVE  /\ NextRule(fr).pc = "eval" /\ NextRule(fr).k = fr.k + 1
           /\ \A l, v :
                LET g == [fr EXCEPT !.list = l, !.i = 1, !.pc = "loop", !.seen = v]
                IN /\ g.k = fr.k /\ g.list = l /\ g.i = 1
                   /\ g.pc = "loop" /\ g.seen = v
           /\ LET g == [fr EXCEPT !.i = @ + 1, !.pc = "loop"]
              IN /\ g.k = fr.k /\ g.list = fr.list /\ g.i = fr.i + 1
                 /\ g.pc = "loop" /\ g.seen = fr.seen
           /\ LET g == [fr EXCEPT !.pc = "then"]
              IN /\ g.k = fr.k /\ g.list = fr.list /\ g.i = fr.i
                 /\ g.pc = "then" /\ g.seen = fr.seen
  BY DEF NextRule, Frames

(* An element that is settled for the contents the list was made from may  *)
(* be passed.                                                              *)
LEMMA PassElement ==
    ASSUME TypeInv, FixInv, Disciplined, Running, Top.pc \in {"loop", "then"},
           Top.i <= Len(Top.list), Top.seen = st.val, st'.val = st.val,
           Growing, UNCHANGED <<calls, engineAt>>,
           frames' = NextElement, NEW a, a = Act, Settled(a)'
    PROVE  FixInv'
  <1> DEFINE fr == [Top EXCEPT !.i = @ + 1, !.pc = "loop"]
  <1>0. /\ frames # <<>> /\ Engine /\ Top \in Frames /\ Top.k <= NumRules
        /\ Top.k \in Nat \ {0} /\ Top.i \in Nat \ {0} /\ Top.list \in Seq(FactTuples)
    BY TopOK DEF Running, FrameOK
  <1>1. PICK t : t = Top
    OBVIOUS
  <1>2. AtList(t)
    BY <1>0, <1>1 DEF FixInv, WorkOK, Engine
  <1>3. AtList(t)' /\ t.seen = st'.val
    BY <1>1, <1>2, SettledStays
  <1>4. PICK g : g = fr
    OBVIOUS
  <1>5. /\ g \in Frames /\ FrameOK(g) /\ g.k = t.k /\ g.list = t.list
        /\ g.i = t.i + 1 /\ g.pc = "loop" /\ g.seen = t.seen
    <2>1. fr \in Frames /\ FrameOK(fr)
      BY <1>0, FrameSteps
    <2>2. /\ fr.k = Top.k /\ fr.list = Top.list /\ fr.i = Top.i + 1
          /\ fr.pc = "loop" /\ fr.seen = Top.seen
      BY <1>0, FrameFields
    <2> QED
      BY <1>1, <1>4, <2>1, <2>2
  <1>6. Settled(<<order[t.k], t.list[t.i]>>)'
    <2>1. a = <<order[t.k], t.list[t.i]>>
      BY <1>1 DEF Act, Rule, Tuple
    <2> QED
      BY <2>1 DEF Growing
  <1>7. \A n \in DOMAIN t.list : n < t.i + 1 => n < t.i \/ n = t.i
    BY <1>0, <1>1, LenProperties
  <1>8. AtList(g)'
    BY <1>3, <1>5, <1>6, <1>7 DEF AtList
  <1>9. WorkOK(g)'
    BY <1>3, <1>5, <1>8 DEF WorkOK
  <1> QED
    BY <1>0, <1>4, <1>5, <1>9, SetTopFix DEF NextElement

(* fireAllRules and the steps of rulesExec keep the invariant.             *)
LEMMA RulesFix ==
    ASSUME TypeInv, SafeInv, FixInv, FireAllRules \/ Step
    PROVE  FixInv'
  <1> SUFFICES ASSUME Disciplined PROVE FixInv'
    BY DEF FixInv
  <1>0. /\ st \in Storages
        /\ frames \in Seq(Frames)
        /\ calls \in Seq(Storages)
        /\ NumRules \in Nat
        /\ st.lock <=> engineAt # 0
    BY ConstantsAssumption DEF TypeInv, TypeOK, SafeInv, LockInv, LockMatchesEngine
  <1>1. ASSUME frames # <<>>, Engine
        PROVE  /\ WorkOK(Top) /\ Top \in Frames /\ Top.k \in Nat \ {0}
               /\ Top.i \in Nat \ {0} /\ Top.list \in Seq(FactTuples)
               /\ Top.pc # "eval" => Top.k <= NumRules
               /\ Top.pc = "then" => Top.i <= Len(Top.list)
    BY <1>1, TopOK DEF FixInv, Engine, FrameOK
  <1>2. CASE FireAllRules
    <2>1. CASE st.lock
      BY <1>2, <2>1, AbortFix DEF FireAllRules, UserCode
    <2>2. CASE ~st.lock
      <3>1. frames' = <<NewFrame>> /\ engineAt' = Len(calls) /\ calls' = calls
        BY <1>2, <2>2 DEF FireAllRules
      <3>2. PICK g : g = NewFrame
        OBVIOUS
      <3>3. g.pc = "eval" /\ g.k = 1
        BY <3>2 DEF NewFrame
      <3>4. Top' = g /\ frames' # <<>>
        BY <3>1, <3>2 DEF Top, Last
      <3>5. WorkOK(g)'
        BY <3>3 DEF WorkOK, Before
      <3> QED
        BY <3>1, <3>4, <3>5 DEF FixInv
    <2> QED
      BY <2>1, <2>2
  <1>3. CASE EvalRule
    <2>1. /\ frames # <<>> /\ Engine /\ Top.pc = "eval" /\ Top.k <= NumRules
          /\ UNCHANGED <<st, calls, engineAt, order, ran>>
      BY <1>3 DEF EvalRule, Running, OnlyFrames
    <2>2. Matches(Rule, st.facts, st.val) \in Seq(FactTuples) /\ st.val \in Contents
      BY <1>0, <2>1, TopOK, StorageFields, MatchesAssumption
    <2> DEFINE fr == [Top EXCEPT !.list = Matches(Rule, st.facts, st.val),
                                 !.i = 1, !.pc = "loop", !.seen = st.val]
    <2>3. fr \in Frames /\ FrameOK(fr)
      BY <1>1, <2>1, <2>2, FrameSteps
    <2>4. /\ fr.k = Top.k /\ fr.list = Matches(Rule, st.facts, st.val)
          /\ fr.i = 1 /\ fr.pc = "loop" /\ fr.seen = st.val
      BY <1>1, <2>1, FrameFields
    <2>5. frames' = SetTop(fr)
      BY <1>3 DEF EvalRule
    <2>6. PICK g : g = fr
      OBVIOUS
    <2> HIDE DEF fr
    <2>7. DOMAIN g.list = 1..Len(g.list) /\ Len(g.list) \in Nat
      BY <2>2, <2>4, <2>6, LenProperties
    <2>8. Before(g.k, g.seen)
      BY <1>1, <2>1, <2>4, <2>6 DEF WorkOK
    <2>9. AtList(g)
      BY <2>4, <2>6, <2>7, <2>8 DEF AtList, Rule
    <2>10. Growing
      BY <2>1 DEF Growing
    <2>11. AtList(g)' /\ g.seen = st'.val
      BY <2>1, <2>4, <2>6, <2>9, <2>10, SettledStays
    <2>12. WorkOK(g)'
      BY <2>4, <2>6, <2>11 DEF WorkOK
    <2> QED
      BY <2>1, <2>3, <2>5, <2>6, <2>12, SetTopFix
  <1>4. CASE EndList
    <2>1. /\ frames # <<>> /\ Engine /\ Top.pc = "loop" /\ Top.i > Len(Top.list)
          /\ UNCHANGED <<st, calls, engineAt, order, ran>>
          /\ frames' = SetTop(NextRule(Top))
      BY <1>4 DEF EndList, Running, OnlyFrames
    <2>2. PICK g : g = NextRule(Top)
      OBVIOUS
    <2>3. g \in Frames /\ FrameOK(g) /\ g.pc = "eval" /\ g.k = Top.k + 1
      BY <1>1, <2>1, <2>2, FrameSteps, FrameFields
    <2>4. AtList(Top) /\ Top.seen = st.val
      BY <1>1, <2>1 DEF WorkOK
    <2>5. SettledFor(order[Top.k], st.val)
      <3>1. \A n \in DOMAIN Top.list : n < Top.i
        BY <1>1, <2>1, LenProperties
      <3> QED
        BY <2>4, <3>1 DEF AtList, SettledFor
    <2>6. Before(g.k, st.val)
      <3>1. \A m \in 1..NumRules : m < Top.k + 1 => m < Top.k \/ m = Top.k
        BY <1>0, <1>1, <2>1
      <3> QED
        BY <2>3, <2>4, <2>5, <3>1 DEF AtList, Before
    <2>7. PICK v : v = st.val
      OBVIOUS
    <2>8. Growing
      BY <2>1 DEF Growing
    <2>9. Before(g.k, v)' /\ v = st'.val
      BY <2>1, <2>6, <2>7, <2>8, SettledStays
    <2>10. Before(g.k, st.val)'
      BY <2>9
    <2>11. WorkOK(g)'
      BY <2>3, <2>10 DEF WorkOK
    <2> QED
      BY <2>1, <2>2, <2>3, <2>11, SetTopFix
  <1>5. ASSUME AtElement
        PROVE  /\ frames # <<>> /\ Engine /\ Running /\ Top.pc = "loop"
               /\ Top.i <= Len(Top.list) /\ Top.k <= NumRules
               /\ AtList(Top) /\ Top.seen = st.val
               /\ Act[1] = Rule /\ Hash = Act
    BY <1>1, <1>5 DEF AtElement, Running, WorkOK, Act, Hash
  <1>6. CASE SkipLocked
    <2>1. /\ AtElement /\ Locked /\ frames' = NextElement
          /\ UNCHANGED <<calls, engineAt, order, ran>>
      BY <1>6 DEF SkipLocked
    <2>2. /\ st'.facts = st.facts /\ st'.lockMap = st.lockMap
          /\ st'.noLoop = st.noLoop /\ st'.val = st.val
      BY <1>0, <1>6 DEF SkipLocked, Storages
    <2>3. PICK a : a = Act
      OBVIOUS
    <2>4. Settled(a)
      BY <1>5, <2>1, <2>3 DEF Locked, Settled
    <2>5. Growing
      BY <2>1, <2>2 DEF Growing
    <2>6. Settled(a)'
      BY <2>4, <2>5, SettledStays
    <2> QED
      BY <1>5, <2>1, <2>2, <2>3, <2>5, <2>6, PassElement
  <1>7. ASSUME AtElement, Mark, UNCHANGED <<order, ran>>
        PROVE  Growing /\ st'.val = st.val
    BY <1>5, <1>7, MarkFields DEF Growing
  <1>8. CASE SkipLooping
    <2>1. /\ AtElement /\ Looping /\ Mark /\ frames' = NextElement
          /\ UNCHANGED <<calls, engineAt, order, ran>>
      BY <1>8 DEF SkipLooping
    <2>2. Growing /\ st'.val = st.val
      BY <1>7, <2>1
    <2>3. PICK a : a = Act
      OBVIOUS
    <2>4. Settled(a)
      BY <1>5, <2>1, <2>3 DEF Looping, Settled
    <2>5. Settled(a)'
      BY <2>2, <2>4, SettledStays
    <2> QED
      BY <1>5, <2>1, <2>2, <2>3, <2>5, PassElement
  <1>9. CASE EnterThen
    <2>1. /\ AtElement /\ Mark
          /\ UNCHANGED <<calls, engineAt, order, ran>>
      BY <1>9 DEF EnterThen
    <2> DEFINE fr == [Top EXCEPT !.pc = "then"]
    <2>2. fr \in Frames /\ FrameOK(fr)
      BY <1>1, <1>5, <2>1, FrameSteps
    <2>3. /\ fr.k = Top.k /\ fr.list = Top.list /\ fr.i = Top.i
          /\ fr.pc = "then" /\ fr.seen = Top.seen
      BY <1>1, <1>5, <2>1, FrameFields
    <2>4. frames' = SetTop(fr)
      BY <1>9 DEF EnterThen
    <2>5. PICK g : g = fr
      OBVIOUS
    <2> HIDE DEF fr
    <2>6. AtList(g)
      BY <1>5, <2>1, <2>3, <2>5 DEF AtList
    <2>7. AtList(g)'
      BY <1>7, <2>1, <2>6, SettledStays
    <2>8. WorkOK(g)'
      BY <2>3, <2>5, <2>7 DEF WorkOK
    <2> QED
      BY <1>5, <2>1, <2>2, <2>4, <2>5, <2>8, SetTopFix
  <1>10. CASE ThenEnd
    <2>1. /\ Running /\ frames # <<>> /\ Engine /\ Top.pc = "then"
          /\ MayEnd /\ ~st.reeval /\ Executed /\ frames' = NextElement
          /\ UNCHANGED <<st, calls, engineAt, order>>
      BY <1>10 DEF ThenEnd, AtThenEnd, Running, NeedReevaluation
    <2>2. Top.seen = st.val
      BY <2>1 DEF MayEnd
    <2>3. ran' = ran \cup {Act}
      BY <2>1, <2>2 DEF Executed
    <2>4. PICK a : a = Act
      OBVIOUS
    <2>5. Growing
      BY <2>1, <2>3 DEF Growing
    <2>6. Settled(a)'
      BY <2>3, <2>4 DEF Settled
    <2> QED
      BY <1>1, <2>1, <2>2, <2>4, <2>5, <2>6, PassElement
  <1>11. CASE Reevaluate
    <2>1. Running /\ frames # <<>> /\ Top.pc = "then" /\ Engine /\ calls # <<>>
      BY <1>0, <1>11, EmptySeq DEF Reevaluate, AtThenEnd, Running, Engine
    <2>2. CASE Abort
      BY <2>1, <2>2, AbortFix
    <2>3. CASE ~Abort
      <3>1. /\ frames' = Append(SetTop(Cleaned), NewFrame)
            /\ UNCHANGED <<calls, engineAt>>
        BY <1>11, <2>3 DEF Reevaluate
      <3>2. Cleaned \in Frames /\ FrameOK(Cleaned)
        BY <1>1, <2>1, FrameSteps DEF Cleaned
      <3>3. SetTop(Cleaned) \in Seq(Frames) /\ Len(SetTop(Cleaned)) = Len(frames)
        BY <1>0, <2>1, <3>2, SetTopOK DEF TypeInv
      <3>4. /\ Len(frames') = Len(frames) + 1
            /\ frames'[Len(frames) + 1] = NewFrame
            /\ Len(frames) \in Nat
        BY <1>0, <3>1, <3>3, NewFrameOK, AppendProperties, LenProperties
      <3>5. PICK g : g = NewFrame
        OBVIOUS
      <3>6. Top' = g /\ frames' # <<>>
        BY <3>4, <3>5, EmptySeq DEF Top, Last
      <3>7. g.pc = "eval" /\ g.k = 1
        BY <3>5 DEF NewFrame
      <3>8. WorkOK(g)'
        BY <3>7 DEF WorkOK, Before
      <3> QED
        BY <2>1, <3>1, <3>6, <3>8 DEF FixInv, Engine
    <2> QED
      BY <2>2, <2>3
  <1>12. CASE ReturnFrame
    <2> DEFINE below == Front(frames)
    <2>1. /\ frames # <<>> /\ Engine /\ Top.pc = "eval" /\ Top.k > NumRules
          /\ UNCHANGED <<st, calls, engineAt, order, ran>>
      BY <1>12 DEF ReturnFrame, Running, OnlyFrames
    <2>2. Before(Top.k, st.val)
      BY <1>1, <2>1 DEF WorkOK
    <2>3. \A m \in 1..NumRules : SettledFor(order[m], st.val)
      BY <1>0, <1>1, <2>1, <2>2 DEF Before
    <2>4. PICK v : v = st.val
      OBVIOUS
    <2>5. \A k : Before(k, v)
      BY <2>3, <2>4 DEF Before
    <2>6. Growing
      BY <2>1 DEF Growing
    <2>7. \A k : Before(k, v)'
      BY <2>5, <2>6, SettledStays
    <2>8. v = st'.val
      BY <2>1, <2>4
    <2>9. CASE below = <<>>
      <3>1. frames' = <<>>
        BY <1>12, <2>9 DEF ReturnFrame
      <3>2. Before(NumRules + 1, st.val)'
        BY <2>7, <2>8
      <3> QED
        BY <2>1, <3>1, <3>2 DEF FixInv, Engine
    <2>10. CASE below # <<>>
      <3>1. /\ below \in Seq(Frames)
            /\ Len(below) \in 1..Len(below)
            /\ below[Len(below)] \in Frames
        BY <1>0, <2>1, <2>10, FrontLast
      <3>2. PICK g : g = NextRule(below[Len(below)])
        OBVIOUS
      <3>3. g \in Frames /\ g.pc = "eval"
        BY <3>1, <3>2, FrameSteps, FrameFields
      <3>4. frames' = [below EXCEPT ![Len(below)] = g]
        BY <1>12, <2>10, <3>2 DEF ReturnFrame
      <3>5. Len(frames') = Len(below) /\ frames'[Len(below)] = g
        BY <3>1, <3>3, <3>4, ExceptSeq
      <3>6. Top' = g /\ frames' # <<>>
        BY <3>1, <3>5, EmptySeq DEF Top, Last
      <3>7. Before(g.k, st.val)'
        BY <2>7, <2>8
      <3>8. WorkOK(g)'
        BY <3>3, <3>7 DEF WorkOK
      <3> QED
        BY <2>1, <3>6, <3>8 DEF FixInv, Engine
    <2> QED
      BY <2>9, <2>10
  <1>13. CASE Finish
    BY <1>13 DEF Finish, FixInv
  <1> QED
    BY <1>2, <1>3, <1>4, <1>6, <1>8, <1>9, <1>10, <1>11, <1>12, <1>13 DEF Step

(* Every step keeps the invariant.                                         *)
LEMMA NextFix ==
    TypeInv /\ SafeInv /\ FixInv /\ [Next]_vars => FixInv'
  <1>1. ASSUME FixInv, UNCHANGED vars
        PROVE  FixInv'
    <2>1. UNCHANGED <<st, calls, engineAt, frames>> /\ Growing
      BY <1>1 DEF vars, Growing
    <2>2. PICK fr, v : fr = Top /\ v = st.val
      OBVIOUS
    <2>3. Top' = fr /\ st'.val = v
      BY <2>1, <2>2 DEF Top
    <2>4. Before(NumRules + 1, st.val) => Before(NumRules + 1, st.val)'
      BY <2>1, <2>2, <2>3, SettledStays
    <2>5. WorkOK(fr) => WorkOK(fr)'
      <3>1. Before(fr.k, v) => Before(fr.k, v)'
        BY <2>1, SettledStays
      <3>2. AtList(fr) => AtList(fr)'
        BY <2>1, SettledStays
      <3> QED
        BY <2>2, <2>3, <3>1, <3>2 DEF WorkOK
    <2> QED
      BY <1>1, <2>1, <2>2, <2>3, <2>4, <2>5 DEF FixInv
  <1> QED
    BY <1>1, UserFix, RulesFix DEF Next

(* The rules keep the order of salience they were compiled in.             *)
LEMMA OrderKept == Spec => [](order \in RuleOrders)
  <1>1. Init => order \in RuleOrders
    BY DEF Init
  <1>2. order \in RuleOrders /\ [Next]_vars => (order \in RuleOrders)'
    <2>1. [Next]_vars => order' = order
      BY DEF Next, vars, Begin, Reenter, Return, Fail, Abort, WriteFact, FactInsert,
             FactDelete, OnlyStorage, Update, FireAllRules, Step, EvalRule, EndList,
             OnlyFrames, SkipLocked, SkipLooping, EnterThen, ThenEnd, Reevaluate,
             ReturnFrame, Finish
    <2> QED
      BY <2>1 DEF RuleOrders
  <1> QED
    BY <1>1, <1>2, PTL DEF Spec

(* The invariant holds throughout.                                         *)
THEOREM FixCorrect ==
    Spec => [](TypeInv /\ SafeInv /\ FixInv /\ order \in RuleOrders)
  <1>1. Init => FixInv
    BY DEF Init, FixInv
  <1> QED
    BY <1>1, NextFix, SafeCorrect, OrderKept, PTL DEF Spec

(* If then blocks call update for what they change, a rule never acts on a *)
(* match computed from contents that have changed since, also when a then  *)
(* block sends messages that come back to the contract, write facts and    *)
(* succeed or fail (rulesExec, ContractCompiler::appendRules).             *)
THEOREM MatchesFresh == Spec => []NoStaleMatch
  <1>1. TypeInv /\ FixInv => NoStaleMatch
    BY DEF FixInv, WorkOK, AtList, NoStaleMatch, Running, Engine, Rule
  <1> QED
    BY <1>1, FixCorrect, PTL

(* For the present contents, what is settled is done.                      *)
LEMMA SettledIsDone ==
    ASSUME NEW r, SettledFor(r, st.val)
    PROVE  Done(r)
  BY DEF SettledFor, Settled, Done

(* When a rule is about to act, the rules of higher salience have nothing  *)
(* left to do, for any order std::sort leaves equal saliences in.          *)
THEOREM SalienceRespected == Spec => []HigherSalienceFirst
  <1>1. ASSUME TypeInv, FixInv, order \in RuleOrders,
               Disciplined, Running, Top.pc = "loop",
               NEW r \in Rules, Salience[r] > Salience[Rule]
        PROVE  Done(r)
    <2>1. /\ frames # <<>> /\ Top.k \in Nat \ {0} /\ Top.k <= NumRules
          /\ NumRules \in Nat /\ Rule \in Rules /\ Salience \in [Rules -> Nat]
      BY <1>1, TopOK, ConstantsAssumption DEF Running, FrameOK
    <2>2. Before(Top.k, st.val)
      BY <1>1, <2>1 DEF FixInv, WorkOK, AtList, Running, Engine
    <2>3. PICK m \in 1..NumRules : order[m] = r
      BY <1>1 DEF RuleOrders
    <2>4. Top.k < m => Salience[order[Top.k]] >= Salience[order[m]]
      BY <1>1, <2>1 DEF RuleOrders
    <2>5. m < Top.k
      BY <1>1, <2>1, <2>3, <2>4 DEF Rule
    <2> QED
      BY <2>2, <2>3, <2>5, SettledIsDone DEF Before
  <1>2. TypeInv /\ SafeInv /\ FixInv /\ order \in RuleOrders => HigherSalienceFirst
    BY <1>1 DEF HigherSalienceFirst
  <1> QED
    BY <1>2, FixCorrect, PTL

(* fireAllRules ends in a fixpoint: each match of each rule was executed   *)
(* on the present contents or is held back by an attribute of the rule.    *)
THEOREM EndsInFixpoint == Spec => []FixpointAtEnd
  <1>1. ASSUME FixInv, order \in RuleOrders, Disciplined, Engine, frames = <<>>,
               NEW r \in Rules
        PROVE  Done(r)
    <2>1. Before(NumRules + 1, st.val)
      BY <1>1 DEF FixInv, Engine
    <2>2. PICK m \in 1..NumRules : order[m] = r
      BY <1>1 DEF RuleOrders
    <2>3. m < NumRules + 1
      BY ConstantsAssumption
    <2> QED
      BY <2>1, <2>2, <2>3, SettledIsDone DEF Before
  <1>2. TypeInv /\ SafeInv /\ FixInv /\ order \in RuleOrders => FixpointAtEnd
    BY <1>1 DEF FixpointAtEnd
  <1> QED
    BY <1>2, FixCorrect, PTL
=============================================================================
