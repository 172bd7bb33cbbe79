-------------------------- MODULE FactStore_proofs --------------------------
(***************************************************************************)
(* Proofs about FactStore, for any types, structs, layout and bounds that  *)
(* satisfy LayoutAssumption: the lists stay well formed, a known handle    *)
(* keeps factDelete out of the state variables, and the layout implements  *)
(* the bags of WorkingMemory.                                              *)
(***************************************************************************)
EXTENDS FactStore, FiniteSetTheorems, WellFoundedInduction, TLAPS

-----------------------------------------------------------------------------
(* The layout.                                                             *)

(* A word of a list belongs to no other area of storage.                   *)
LEMMA ListArea ==
    ASSUME NEW k \in Keys, NEW n \in 0..MaxList
    PROVE  /\ Base[k] \in Nat
           /\ Base[k] + n \in Addr
           /\ Base[k] + n \in Nat
           /\ Base[k] + n \notin UserSlots
           /\ Base[k] + n \notin 0..MaxSearch
           /\ \A f \in Facts : Base[k] + n # IdSlot[f]
           /\ \A j \in Keys, m \in 0..MaxList :
                Base[k] + n = Base[j] + m => k = j /\ n = m
  BY LayoutAssumption

(* The word of a list that holds its length.                               *)
LEMMA LengthArea ==
    ASSUME NEW k \in Keys
    PROVE  /\ Base[k] \in Addr
           /\ Base[k] \in Nat
           /\ Base[k] # 0
           /\ Base[k] \notin UserSlots
           /\ Base[k] \notin 0..MaxSearch
           /\ \A f \in Facts : Base[k] # IdSlot[f]
           /\ \A j \in Keys : Base[k] = Base[j] => k = j
           /\ \A j \in Keys, m \in 1..MaxList : Base[k] # Base[j] + m
  <1>1. 0 \in 0..MaxList /\ 1..MaxList \subseteq 0..MaxList /\ 0 \in 0..MaxSearch
    BY LayoutAssumption
  <1>2. Base \in [Keys -> Addr] /\ Addr \subseteq Nat
    BY LayoutAssumption
  <1>3. \A j \in Keys : Base[j] \in Nat /\ Base[j] + 0 = Base[j]
    <2>1. \A j \in Keys : Base[j] \in Nat
      BY <1>2
    <2>2. \A n \in Nat : n + 0 = n
      OBVIOUS
    <2> QED
      BY <2>1, <2>2
  <1>4. \A j \in Keys, m \in 0..MaxList : Base[k] = Base[j] + m => k = j /\ m = 0
    BY <1>1, <1>3, ListArea
  <1>5. /\ Base[k] \in Addr
        /\ Base[k] \notin UserSlots
        /\ Base[k] \notin 0..MaxSearch
        /\ \A f \in Facts : Base[k] # IdSlot[f]
    BY <1>1, <1>3, ListArea
  <1>6. \A j \in Keys : Base[k] = Base[j] => k = j
    BY <1>1, <1>3, <1>4
  <1>7. \A j \in Keys, m \in 1..MaxList : Base[k] # Base[j] + m
    BY <1>1, <1>4
  <1> QED
    BY <1>1, <1>3, <1>5, <1>6, <1>7

(* An entry of the map from fact ids to lists.                             *)
LEMMA EntryArea ==
    ASSUME NEW f \in Facts
    PROVE  /\ IdSlot[f] \in Addr
           /\ IdSlot[f] \in Nat
           /\ IdSlot[f] \notin UserSlots
           /\ IdSlot[f] \notin 0..MaxSearch
           /\ \A g \in Facts : IdSlot[f] = IdSlot[g] => f = g
  BY LayoutAssumption

(* The list a fact is put into is the list of a key with its type.         *)
LEMMA KeyOfFact ==
    ASSUME NEW f \in Facts, NEW form \in Forms
    PROVE  KeyOf(f, form) \in Keys /\ KeyOf(f, form)[1] = TypeOf[f]
  BY LayoutAssumption DEF KeyOf, Keys

(* The linear search ends at the first hit.                                *)
LEMMA FirstIsLeast ==
    ASSUME NEW S \in SUBSET Nat, S # {}
    PROVE  First(S) \in S /\ \A j \in S : First(S) <= j
  <1>1. PICK i \in S : \A j \in S : ~ (<<j, i>> \in OpToRel(<, Nat))
    BY WFMin, NatLessThanWellFounded, Zenon
  <1>2. \A j \in S : ~ (j < i)
    BY <1>1, Zenon DEF OpToRel
  <1>3. \A j \in S : i <= j
    BY <1>2
  <1> QED
    BY <1>3 DEF First

-----------------------------------------------------------------------------
(* The inductive invariant: ListsWellFormed, and every word is a number.   *)
StoreInv == slots \in [Addr -> Nat] /\ ListsWellFormed

(* What factInsert does to storage, word by word.                          *)
LEMMA InsertEffect ==
    ASSUME StoreInv, NEW f \in Facts, NEW form \in Forms, FactInsert(f, form)
    PROVE  LET k == KeyOf(f, form)
               L == slots[Base[k]]
           IN /\ k \in Keys
              /\ k[1] = TypeOf[f]
              /\ L \in 0..MaxList - 1
              /\ slots' = [a \in Addr |->
                    IF a = Base[k] + (L + 1) THEN f
                    ELSE IF a = Base[k] THEN L + 1
                    ELSE IF a = IdSlot[f] THEN Base[k]
                    ELSE slots[a]]
  <1> DEFINE k == KeyOf(f, form)
             L == slots[Base[k]]
  <1>1. k \in Keys /\ k[1] = TypeOf[f]
    BY KeyOfFact
  <1>2. L \in 0..MaxList /\ L < MaxList /\ L \in Nat
    BY <1>1, LayoutAssumption DEF StoreInv, ListsWellFormed, FactInsert
  <1>3. L + 1 \in 0..MaxList /\ L \in 0..MaxList - 1
    BY <1>2, LayoutAssumption
  <1>4. /\ Base[k] \in Addr
        /\ Base[k] \in Nat
        /\ Base[k] # IdSlot[f]
        /\ IdSlot[f] \in Addr
    BY <1>1, LengthArea, EntryArea
  <1>5. Base[k] + (L + 1) \in Addr /\ Base[k] + (L + 1) # IdSlot[f]
    BY <1>1, <1>3, ListArea
  <1>6. Base[k] + L + 1 = Base[k] + (L + 1) /\ Base[k] + (L + 1) # Base[k]
    BY <1>2, <1>4
  <1>7. slots \in [Addr -> Nat]
    BY DEF StoreInv
  <1>8. Link(slots, f, Base[k]) = [a \in Addr |-> IF a = IdSlot[f] THEN Base[k] ELSE slots[a]]
    BY <1>4, <1>7 DEF Link
  <1>9. slots' = Push(Link(slots, f, Base[k]), Base[k], f)
    BY DEF FactInsert
  <1>10. Link(slots, f, Base[k])[Base[k]] = L
    BY <1>4, <1>8
  <1>11. slots' = [a \in Addr |->
                    IF a = Base[k] + (L + 1) THEN f
                    ELSE IF a = Base[k] THEN L + 1
                    ELSE IF a = IdSlot[f] THEN Base[k]
                    ELSE slots[a]]
    BY <1>4, <1>5, <1>6, <1>8, <1>9, <1>10 DEF Push
  <1> QED
    BY <1>1, <1>3, <1>11

(* The first hit is within the bounds of the search and of the list.       *)
LEMMA HitsBounds ==
    ASSUME StoreInv, NEW list \in Addr, NEW f \in Facts, Hits(list, f) # {}
    PROVE  LET h == First(Hits(list, f))
           IN /\ h \in Nat
              /\ h < MaxSearch
              /\ h < slots[list]
              /\ Item(list, h) = f
  <1> DEFINE h == First(Hits(list, f))
  <1>1. Hits(list, f) \in SUBSET Nat
    BY LayoutAssumption DEF Hits
  <1>2. h \in Hits(list, f)
    BY <1>1, FirstIsLeast
  <1>3. h \in 0..MaxSearch - 1 /\ h < Read(list) /\ Item(list, h) = f
    BY <1>2 DEF Hits
  <1> QED
    BY <1>3, LayoutAssumption DEF Read

(* What factDelete does to storage for a handle that leads to a list.      *)
LEMMA DeleteEffect ==
    ASSUME StoreInv, NEW f \in Facts, FactDelete(f), slots[IdSlot[f]] # 0
    PROVE  \E k \in Keys, p \in 1..MaxList :
            LET L == slots[Base[k]]
            IN /\ slots[IdSlot[f]] = Base[k]
               /\ L \in 1..MaxList
               /\ p <= L
               /\ slots[Base[k] + p] = f
               /\ slots' = [a \in Addr |->
                    IF a = Base[k] THEN L - 1
                    ELSE IF a = Base[k] + p THEN slots[Base[k] + L]
                    ELSE slots[a]]
  <1>1. PICK form \in Forms : slots[IdSlot[f]] = Base[KeyOf(f, form)]
    BY DEF StoreInv, ListsWellFormed
  <1> DEFINE k == KeyOf(f, form)
             L == slots[Base[k]]
             h == First(Hits(Base[k], f))
             p == h + 1
  <1>2. k \in Keys
    BY KeyOfFact
  <1>3. Base[k] \in Addr /\ Base[k] \in Nat
    BY <1>2, LengthArea
  <1>4. Hits(Base[k], f) # {} /\ slots' = Remove(slots, Base[k], f)
    BY <1>1 DEF FactDelete
  <1>5. h \in Nat /\ h < L /\ Item(Base[k], h) = f
    BY <1>3, <1>4, HitsBounds
  <1>6. L \in 0..MaxList /\ slots \in [Addr -> Nat]
    BY <1>2 DEF StoreInv, ListsWellFormed
  <1>7. L \in Nat /\ L \in 1..MaxList /\ p \in 1..MaxList /\ p <= L
    BY <1>5, <1>6, LayoutAssumption
  <1>8. Base[k] + p \in Addr /\ Base[k] + L \in Addr
    <2>1. p \in 0..MaxList /\ L \in 0..MaxList
      BY <1>7
    <2> QED
      BY <2>1, <1>2, ListArea
  <1>9. Base[k] + 1 + h = Base[k] + p /\ Base[k] + 1 + (L - 1) = Base[k] + L /\ Base[k] + p # Base[k]
    BY <1>3, <1>5, <1>7
  <1>10. slots[Base[k] + p] = f
    BY <1>5, <1>8, <1>9 DEF Item, Read
  <1>11. Item(Base[k], L - 1) = slots[Base[k] + L]
    BY <1>8, <1>9 DEF Item, Read
  <1>12. slots' = [slots EXCEPT ![Base[k] + p] = slots[Base[k] + L], ![Base[k]] = @ - 1]
    BY <1>4, <1>9, <1>11 DEF Remove
  <1>13. slots' = [a \in Addr |->
                    IF a = Base[k] THEN L - 1
                    ELSE IF a = Base[k] + p THEN slots[Base[k] + L]
                    ELSE slots[a]]
    BY <1>3, <1>6, <1>8, <1>9, <1>12
  <1> HIDE DEF k, p
  <1> QED
    BY <1>1, <1>2, <1>7, <1>10, <1>13 DEF k

(* What factDelete does for an unknown handle: it works on slot 0 and the  *)
(* slots that follow.                                                      *)
LEMMA StrayDeleteEffect ==
    ASSUME StoreInv, NEW f \in Facts, FactDelete(f), slots[IdSlot[f]] = 0
    PROVE  /\ slots' \in [Addr -> Nat]
           /\ \A a \in Addr \ (0..MaxSearch) : slots'[a] = slots[a]
  <1> DEFINE h == First(Hits(0, f))
  <1>1. 0 \in Addr /\ 0 \in 0..MaxSearch
    BY LayoutAssumption
  <1>2. Hits(0, f) # {} /\ slots' = Remove(slots, 0, f)
    BY DEF FactDelete
  <1>3. h \in Nat /\ h < MaxSearch /\ h < slots[0]
    BY <1>1, <1>2, HitsBounds
  <1>4. 0 + 1 + h \in 0..MaxSearch
    BY <1>3, LayoutAssumption
  <1>5. slots \in [Addr -> Nat]
    BY DEF StoreInv
  <1>6. slots[0] - 1 \in Nat /\ Item(0, slots[0] - 1) \in Nat
    BY <1>1, <1>3, <1>5 DEF Item, Read
  <1>7. slots' = [slots EXCEPT ![0 + 1 + h] = Item(0, slots[0] - 1), ![0] = @ - 1]
    BY <1>2 DEF Remove
  <1>8. 0 + 1 + h # 0
    BY <1>3
  <1> QED
    BY <1>1, <1>4, <1>5, <1>6, <1>7, <1>8

(* The shapes of list and map that ListsWellFormed asks for.               *)
ListOK(k) ==
    /\ slots[Base[k]] \in 0..MaxList
    /\ \A n \in 1..slots[Base[k]] : slots[Base[k] + n] \in {f \in Facts : TypeOf[f] = k[1]}

EntryOK(f) == slots[IdSlot[f]] \in {0} \cup {Base[KeyOf(f, form)] : form \in Forms}

(* ListsWellFormed, one list and one entry at a time.                      *)
LEMMA WellFormedByParts ==
    ListsWellFormed <=> (\A k \in Keys : ListOK(k)) /\ (\A f \in Facts : EntryOK(f))
  BY DEF ListsWellFormed, ListOK, EntryOK

(* A step that leaves the words of a list alone leaves it well formed.     *)
LEMMA ListUntouched ==
    ASSUME NEW k \in Keys, ListOK(k),
           \A n \in 0..MaxList : slots'[Base[k] + n] = slots[Base[k] + n]
    PROVE  ListOK(k)'
  <1>1. slots'[Base[k]] = slots[Base[k]]
    <2>1. 0 \in 0..MaxList /\ Base[k] + 0 = Base[k]
      BY LengthArea, LayoutAssumption
    <2> QED
      BY <2>1
  <1>2. \A n \in 1..slots[Base[k]] : n \in 0..MaxList
    BY LayoutAssumption DEF ListOK
  <1> QED
    BY <1>1, <1>2 DEF ListOK

(* factInsert keeps the invariant.                                         *)
LEMMA InsertKeeps ==
    ASSUME StoreInv, NEW f \in Facts, NEW form \in Forms, FactInsert(f, form)
    PROVE  StoreInv'
  <1> DEFINE k == KeyOf(f, form)
             L == slots[Base[k]]
  <1>1. /\ k \in Keys
        /\ k[1] = TypeOf[f]
        /\ L \in 0..MaxList - 1
        /\ slots' = [a \in Addr |->
                    IF a = Base[k] + (L + 1) THEN f
                    ELSE IF a = Base[k] THEN L + 1
                    ELSE IF a = IdSlot[f] THEN Base[k]
                    ELSE slots[a]]
    BY InsertEffect
  <1> HIDE DEF k
  <1>2. slots \in [Addr -> Nat] /\ \A j \in Keys : ListOK(j)
    BY WellFormedByParts DEF StoreInv
  <1>3. \A g \in Facts : EntryOK(g)
    BY WellFormedByParts DEF StoreInv
  <1>4. L + 1 \in 0..MaxList /\ L \in Nat /\ L + 1 # 0
    BY <1>1, LayoutAssumption
  <1>5. slots' \in [Addr -> Nat]
    BY <1>1, <1>2, <1>4, LengthArea, LayoutAssumption DEF UserSlots
  <1>6. ASSUME NEW j \in Keys PROVE ListOK(j)'
    <2>1. CASE j # k
      <3>1. ASSUME NEW n \in 0..MaxList
            PROVE  slots'[Base[j] + n] = slots[Base[j] + n]
        <4>1. /\ Base[j] + n \in Addr
              /\ Base[j] + n # IdSlot[f]
              /\ Base[j] + n # Base[k] + (L + 1)
          BY <1>1, <1>4, <2>1, ListArea
        <4>2. Base[j] + n # Base[k]
          <5>1. 0 \in 0..MaxList /\ Base[k] + 0 = Base[k]
            BY <1>1, LengthArea, LayoutAssumption
          <5> QED
            BY <1>1, <2>1, <5>1, ListArea
        <4> QED
          BY <1>1, <4>1, <4>2
      <3> QED
        BY <1>2, <3>1, ListUntouched
    <2>2. CASE j = k
      <3>1. slots'[Base[k]] = L + 1
        <4>1. Base[k] \in Addr /\ Base[k] \in Nat
          BY <1>1, LengthArea
        <4> QED
          BY <1>1, <1>4, <4>1
      <3>2. ASSUME NEW n \in 1..L + 1
            PROVE  slots'[Base[k] + n] \in {g \in Facts : TypeOf[g] = k[1]}
        <4>1. n \in 0..MaxList /\ n \in 1..MaxList
          BY <1>1, LayoutAssumption
        <4>2. Base[k] + n \in Addr /\ Base[k] + n # IdSlot[f] /\ Base[k] + n # Base[k]
          BY <1>1, <4>1, ListArea, LengthArea
        <4>3. CASE n = L + 1
          BY <1>1, <4>2, <4>3
        <4>4. CASE n # L + 1
          <5>1. n \in 1..L
            BY <1>4, <4>4
          <5>2. Base[k] + n # Base[k] + (L + 1)
            BY <1>1, <1>4, <4>4, <4>1, ListArea
          <5>3. slots'[Base[k] + n] = slots[Base[k] + n]
            BY <1>1, <4>2, <5>2
          <5> QED
            BY <1>1, <1>2, <5>1, <5>3 DEF ListOK
        <4> QED
          BY <4>3, <4>4
      <3> QED
        BY <1>4, <2>2, <3>1, <3>2 DEF ListOK
    <2> QED
      BY <2>1, <2>2
  <1>7. ASSUME NEW g \in Facts PROVE EntryOK(g)'
    <2>1. IdSlot[g] \in Addr /\ IdSlot[g] # Base[k] /\ IdSlot[g] # Base[k] + (L + 1)
      BY <1>1, <1>4, EntryArea, ListArea, LengthArea
    <2>2. CASE g = f
      <3>1. slots'[IdSlot[g]] = Base[KeyOf(f, form)]
        BY <1>1, <2>1, <2>2 DEF k
      <3> QED
        BY <2>2, <3>1 DEF EntryOK
    <2>3. CASE g # f
      <3>1. slots'[IdSlot[g]] = slots[IdSlot[g]]
        BY <1>1, <2>1, <2>3, EntryArea
      <3> QED
        BY <1>3, <3>1 DEF EntryOK
    <2> QED
      BY <2>2, <2>3
  <1>8. ListsWellFormed'
    BY <1>6, <1>7 DEF ListsWellFormed, ListOK, EntryOK
  <1> QED
    BY <1>5, <1>8 DEF StoreInv

(* A step outside lists and map keeps the invariant: factDelete for an     *)
(* unknown handle and the writes of the contract are such steps.           *)
AreasUntouched ==
    /\ slots' \in [Addr -> Nat]
    /\ \A k \in Keys, n \in 0..MaxList : slots'[Base[k] + n] = slots[Base[k] + n]
    /\ \A k \in Keys : slots'[Base[k]] = slots[Base[k]]
    /\ \A f \in Facts : slots'[IdSlot[f]] = slots[IdSlot[f]]

(* Such a step keeps the invariant.                                        *)
LEMMA UntouchedKeeps ==
    ASSUME StoreInv, AreasUntouched
    PROVE  StoreInv'
  <1>1. \A k \in Keys : ListOK(k)'
    BY ListUntouched, WellFormedByParts DEF StoreInv, AreasUntouched
  <1>2. \A f \in Facts : EntryOK(f)'
    BY WellFormedByParts DEF StoreInv, AreasUntouched, EntryOK
  <1>3. ListsWellFormed'
    BY <1>1, <1>2 DEF ListsWellFormed, ListOK, EntryOK
  <1> QED
    BY <1>3 DEF StoreInv, AreasUntouched

(* factDelete for an unknown handle ends before it reaches a list.         *)
LEMMA StrayDeleteOutside ==
    ASSUME StoreInv, NEW f \in Facts, FactDelete(f), slots[IdSlot[f]] = 0
    PROVE  AreasUntouched
  <1>1. /\ slots' \in [Addr -> Nat]
        /\ \A a \in Addr \ (0..MaxSearch) : slots'[a] = slots[a]
    BY StrayDeleteEffect
  <1>2. \A k \in Keys, n \in 0..MaxList : slots'[Base[k] + n] = slots[Base[k] + n]
    BY <1>1, ListArea
  <1>3. \A k \in Keys : slots'[Base[k]] = slots[Base[k]]
    BY <1>1, LengthArea
  <1>4. \A g \in Facts : slots'[IdSlot[g]] = slots[IdSlot[g]]
    BY <1>1, EntryArea
  <1> QED
    BY <1>1, <1>2, <1>3, <1>4 DEF AreasUntouched

(* The contract writes its own variables only.                             *)
LEMMA UserWriteOutside ==
    ASSUME StoreInv, NEW a \in UserSlots, NEW v \in UserVals, UserWrite(a, v)
    PROVE  AreasUntouched
  <1>1. slots \in [Addr -> Nat] /\ a \in Addr /\ v \in Nat
    BY LayoutAssumption DEF StoreInv
  <1>2. slots' \in [Addr -> Nat] /\ \A b \in Addr \ UserSlots : slots'[b] = slots[b]
    BY <1>1 DEF UserWrite
  <1>3. \A k \in Keys, n \in 0..MaxList : slots'[Base[k] + n] = slots[Base[k] + n]
    BY <1>2, ListArea
  <1>4. \A k \in Keys : slots'[Base[k]] = slots[Base[k]]
    BY <1>2, LengthArea
  <1>5. \A g \in Facts : slots'[IdSlot[g]] = slots[IdSlot[g]]
    BY <1>2, EntryArea
  <1> QED
    BY <1>2, <1>3, <1>4, <1>5 DEF AreasUntouched

(* factDelete for a handle that leads to a list keeps the invariant.       *)
LEMMA DeleteKeeps ==
    ASSUME StoreInv, NEW f \in Facts, FactDelete(f), slots[IdSlot[f]] # 0
    PROVE  StoreInv'
  <1>1. PICK k \in Keys, p \in 1..MaxList :
            LET L == slots[Base[k]]
            IN /\ slots[IdSlot[f]] = Base[k]
               /\ L \in 1..MaxList
               /\ p <= L
               /\ slots[Base[k] + p] = f
               /\ slots' = [a \in Addr |->
                    IF a = Base[k] THEN L - 1
                    ELSE IF a = Base[k] + p THEN slots[Base[k] + L]
                    ELSE slots[a]]
    BY DeleteEffect
  <1> DEFINE L == slots[Base[k]]
  <1>2. slots \in [Addr -> Nat] /\ \A j \in Keys : ListOK(j)
    BY WellFormedByParts DEF StoreInv
  <1>3. \A g \in Facts : EntryOK(g)
    BY WellFormedByParts DEF StoreInv
  <1>4. L \in Nat /\ L - 1 \in Nat /\ L \in 0..MaxList /\ p \in 0..MaxList /\ p \in Nat
    BY <1>1, LayoutAssumption
  <1>5. slots' \in [Addr -> Nat]
    BY <1>1, <1>2, <1>4, ListArea
  <1>6. ASSUME NEW j \in Keys PROVE ListOK(j)'
    <2>1. CASE j # k
      <3>1. ASSUME NEW n \in 0..MaxList
            PROVE  slots'[Base[j] + n] = slots[Base[j] + n]
        <4>1. Base[j] + n \in Addr /\ Base[j] + n # Base[k] + p
          BY <1>4, <2>1, ListArea
        <4>2. Base[j] + n # Base[k]
          <5>1. 0 \in 0..MaxList /\ Base[k] + 0 = Base[k]
            BY LengthArea, LayoutAssumption
          <5> QED
            BY <2>1, <5>1, ListArea
        <4> QED
          BY <1>1, <4>1, <4>2
      <3> QED
        BY <1>2, <3>1, ListUntouched
    <2>2. CASE j = k
      <3>1. slots'[Base[k]] = L - 1
        BY <1>1, LengthArea
      <3>2. ASSUME NEW n \in 1..L - 1
            PROVE  slots'[Base[k] + n] \in {g \in Facts : TypeOf[g] = k[1]}
        <4>1. n \in 1..L /\ L \in 1..L /\ n \in 0..MaxList /\ n \in 1..MaxList
          BY <1>1, <1>4, LayoutAssumption
        <4>2. Base[k] + n \in Addr /\ Base[k] + n # Base[k]
          BY <4>1, ListArea, LengthArea
        <4>3. slots'[Base[k] + n] \in {slots[Base[k] + n], slots[Base[k] + L]}
          BY <1>1, <4>2
        <4> QED
          BY <1>2, <4>1, <4>3 DEF ListOK
      <3>3. L - 1 \in 0..MaxList
        BY <1>4, LayoutAssumption
      <3> QED
        BY <2>2, <3>1, <3>2, <3>3 DEF ListOK
    <2> QED
      BY <2>1, <2>2
  <1>7. ASSUME NEW g \in Facts PROVE EntryOK(g)'
    <2>1. IdSlot[g] \in Addr /\ IdSlot[g] # Base[k] /\ IdSlot[g] # Base[k] + p
      BY <1>4, EntryArea, ListArea, LengthArea
    <2>2. slots'[IdSlot[g]] = slots[IdSlot[g]]
      BY <1>1, <2>1
    <2> QED
      BY <1>3, <2>2 DEF EntryOK
  <1>8. ListsWellFormed'
    BY <1>6, <1>7 DEF ListsWellFormed, ListOK, EntryOK
  <1> QED
    BY <1>5, <1>8 DEF StoreInv

(* The invariant holds in every state.                                     *)
LEMMA StoreInvHolds == Spec => []StoreInv
  <1>1. Init => StoreInv
    <2> SUFFICES ASSUME Init PROVE StoreInv
      OBVIOUS
    <2>1. slots = [a \in Addr |-> 0] /\ slots \in [Addr -> Nat]
      BY DEF Init
    <2>2. \A k \in Keys : ListOK(k)
      BY <2>1, LengthArea, LayoutAssumption DEF ListOK
    <2>3. \A f \in Facts : EntryOK(f)
      BY <2>1, EntryArea DEF EntryOK
    <2> QED
      BY <2>1, <2>2, <2>3, WellFormedByParts DEF StoreInv
  <1>2. StoreInv /\ [Next]_slots => StoreInv'
    <2> SUFFICES ASSUME StoreInv, [Next]_slots PROVE StoreInv'
      OBVIOUS
    <2>1. ASSUME NEW f \in Facts, NEW form \in Forms, FactInsert(f, form)
          PROVE  StoreInv'
      BY <2>1, InsertKeeps
    <2>2. ASSUME NEW f \in Facts, FactDelete(f)
          PROVE  StoreInv'
      BY <2>2, DeleteKeeps, StrayDeleteOutside, UntouchedKeeps
    <2>3. ASSUME NEW a \in UserSlots, NEW v \in UserVals, UserWrite(a, v)
          PROVE  StoreInv'
      BY <2>3, UserWriteOutside, UntouchedKeeps
    <2>4. CASE UNCHANGED slots
      BY <2>4 DEF StoreInv, ListsWellFormed
    <2> QED
      BY <2>1, <2>2, <2>3, <2>4 DEF Next
  <1> QED
    BY <1>1, <1>2, PTL DEF Spec

(* Every list stays within its area and lists only structs of its type,    *)
(* and every entry of the map is empty or leads to a list of its type,     *)
(* whatever the contract writes and deletes.                               *)
THEOREM ListsCorrect == Spec => []ListsWellFormed
  <1>1. StoreInv => ListsWellFormed
    BY DEF StoreInv
  <1> QED
    BY <1>1, StoreInvHolds, PTL

(* factDelete touches no state variable when its handle was inserted.      *)
THEOREM HandlesKeepOut == Spec => KnownHandleKeepsOut
  <1> DEFINE Keeps == \A f \in Facts :
                FactDelete(f) /\ slots[IdSlot[f]] # 0
                    => \A a \in UserSlots : slots'[a] = slots[a]
  <1>1. ASSUME StoreInv, NEW f \in Facts, FactDelete(f), slots[IdSlot[f]] # 0, NEW a \in UserSlots
        PROVE  slots'[a] = slots[a]
    <2>1. PICK k \in Keys, p \in 1..MaxList :
            slots' = [b \in Addr |->
                    IF b = Base[k] THEN slots[Base[k]] - 1
                    ELSE IF b = Base[k] + p THEN slots[Base[k] + slots[Base[k]]]
                    ELSE slots[b]]
      BY <1>1, DeleteEffect
    <2>2. p \in 0..MaxList
      BY LayoutAssumption
    <2>3. a \in Addr /\ a # Base[k] /\ a # Base[k] + p
      BY <2>2, ListArea, LengthArea, LayoutAssumption
    <2> QED
      BY <2>1, <2>3
  <1>2. StoreInv /\ [Next]_slots => [Keeps]_slots
    BY <1>1
  <1> QED
    BY <1>2, StoreInvHolds, PTL DEF Spec, KnownHandleKeepsOut

-----------------------------------------------------------------------------
(* The layout implements bags.                                             *)

(* The places of a list that hold a fact.                                  *)
Places(k, f) == {n \in 1..slots[Base[k]] : slots[Base[k] + n] = f}

(* The places of a fact are counted.                                       *)
LEMMA PlacesFinite ==
    ASSUME StoreInv, NEW k \in Keys, NEW f \in Facts
    PROVE  /\ Places(k, f) \subseteq 1..slots[Base[k]]
           /\ IsFiniteSet(Places(k, f))
           /\ Count(k, f) = Cardinality(Places(k, f))
           /\ Count(k, f) \in Nat
  <1>1. slots[Base[k]] \in Nat
    BY LayoutAssumption DEF StoreInv, ListsWellFormed
  <1>2. IsFiniteSet(1..slots[Base[k]])
    BY <1>1, FS_Interval
  <1>3. Places(k, f) \in SUBSET (1..slots[Base[k]])
    BY DEF Places
  <1>4. IsFiniteSet(Places(k, f))
    BY <1>2, <1>3, FS_Subset
  <1> QED
    BY <1>3, <1>4, FS_CardinalityType DEF Count, Places

(* The address of a list tells its key.                                    *)
LEMMA KeyOfAddress ==
    /\ \A k \in Keys : KeyAt(Base[k]) = k
    /\ KeyAt(0) = NoKey
  <1>1. ASSUME NEW k \in Keys
        PROVE  KeyAt(Base[k]) = k
    <2>1. \A j \in Keys : Base[j] = Base[k] <=> j = k
      BY LengthArea
    <2> QED
      BY <2>1 DEF KeyAt, ListAddrs
  <1>2. KeyAt(0) = NoKey
    BY LengthArea DEF KeyAt, ListAddrs
  <1> QED
    BY <1>1, <1>2

(* NoKey is no key.                                                        *)
LEMMA KeysAreKeys == \A k \in Keys : k # NoKey
  BY DEF Keys, NoKey

(* Two words that agree before and after a step lead to the same home.     *)
LEMMA SameHome ==
    ASSUME NEW f \in Facts, slots'[IdSlot[f]] = slots[IdSlot[f]]
    PROVE  Homes'[f] = Homes[f]
  BY DEF Homes

(* A list whose words a step leaves alone holds the same facts after it.   *)
LEMMA SameCount ==
    ASSUME StoreInv, NEW k \in Keys, NEW f \in Facts,
           slots'[Base[k]] = slots[Base[k]],
           \A n \in 1..MaxList : slots'[Base[k] + n] = slots[Base[k] + n]
    PROVE  Count(k, f)' = Count(k, f)
  <1>1. \A n \in 1..slots[Base[k]] : n \in 1..MaxList
    BY LayoutAssumption DEF StoreInv, ListsWellFormed
  <1>2. {n \in 1..slots'[Base[k]] : slots'[Base[k] + n] = f} = {n \in 1..slots[Base[k]] : slots[Base[k] + n] = f}
    BY <1>1
  <1> QED
    BY <1>2 DEF Count

(* Steps outside lists and map are stuttering steps of the bags.           *)
LEMMA OutsideStutters ==
    ASSUME StoreInv, AreasUntouched
    PROVE  Contents' = Contents /\ Homes' = Homes
  <1>1. 1..MaxList \subseteq 0..MaxList
    BY LayoutAssumption
  <1>2. \A k \in Keys, f \in Facts : Count(k, f)' = Count(k, f)
    BY <1>1, SameCount DEF AreasUntouched
  <1>3. \A f \in Facts : Homes'[f] = Homes[f]
    BY SameHome DEF AreasUntouched
  <1> QED
    BY <1>2, <1>3 DEF Contents, Homes

(* factInsert is Insert: its fact is in the list once more.                *)
LEMMA InsertRefines ==
    ASSUME StoreInv, NEW f \in Facts, NEW form \in Forms, FactInsert(f, form)
    PROVE  Bags!Insert(KeyOf(f, form), f)
  <1> DEFINE k == KeyOf(f, form)
             L == slots[Base[k]]
  <1>1. /\ k \in Keys
        /\ L \in 0..MaxList - 1
        /\ slots' = [a \in Addr |->
                    IF a = Base[k] + (L + 1) THEN f
                    ELSE IF a = Base[k] THEN L + 1
                    ELSE IF a = IdSlot[f] THEN Base[k]
                    ELSE slots[a]]
    BY InsertEffect
  <1> HIDE DEF k
  <1>2. L \in Nat /\ L + 1 \in 0..MaxList /\ L + 1 \in 1..MaxList
    BY <1>1, LayoutAssumption
  <1>3. slots'[Base[k]] = L + 1
    <2>1. Base[k] \in Addr /\ Base[k] # Base[k] + (L + 1)
      BY <1>1, <1>2, LengthArea
    <2> QED
      BY <1>1, <2>1
  <1>4. slots'[Base[k] + (L + 1)] = f
    BY <1>1, <1>2, ListArea
  <1>5. ASSUME NEW j \in Keys, NEW n \in 0..MaxList, j # k \/ n \in 1..L
        PROVE  slots'[Base[j] + n] = slots[Base[j] + n]
    <2>1. Base[j] + n \in Addr /\ Base[j] + n # IdSlot[f]
      BY ListArea
    <2>2. Base[j] + n # Base[k] + (L + 1)
      BY <1>1, <1>2, <1>5, ListArea
    <2>3. Base[j] + n # Base[k]
      <3>1. 0 \in 0..MaxList /\ Base[k] + 0 = Base[k]
        BY <1>1, LengthArea, LayoutAssumption
      <3> QED
        BY <1>1, <1>5, <3>1, ListArea
    <2> QED
      BY <1>1, <2>1, <2>2, <2>3
  <1>6. ASSUME NEW j \in Keys, NEW g \in Facts, j # k
        PROVE  Count(j, g)' = Count(j, g)
    <2>1. \A n \in 1..MaxList : slots'[Base[j] + n] = slots[Base[j] + n]
      BY <1>5, <1>6, LayoutAssumption
    <2>2. slots'[Base[j]] = slots[Base[j]]
      <3>1. 0 \in 0..MaxList /\ Base[j] + 0 = Base[j]
        BY LengthArea, LayoutAssumption
      <3> QED
        BY <1>5, <1>6, <3>1
    <2> QED
      BY <2>1, <2>2, SameCount
  <1>7. ASSUME NEW g \in Facts
        PROVE  Count(k, g)' = IF g = f THEN Count(k, g) + 1 ELSE Count(k, g)
    <2> DEFINE S == Places(k, g)
    <2>1. S \subseteq 1..L /\ IsFiniteSet(S) /\ Count(k, g) = Cardinality(S)
      BY <1>1, PlacesFinite
    <2>2. L + 1 \notin S
      BY <1>2, <2>1
    <2>3. \A n \in 1..L : n \in 0..MaxList /\ slots'[Base[k] + n] = slots[Base[k] + n]
      <3> SUFFICES ASSUME NEW n \in 1..L
                   PROVE  n \in 0..MaxList /\ slots'[Base[k] + n] = slots[Base[k] + n]
        OBVIOUS
      <3>1. n \in 0..MaxList
        BY <1>2, LayoutAssumption
      <3> QED
        BY <1>1, <1>5, <3>1
    <2>4. \A n \in 1..L + 1 : n \in 1..L \/ n = L + 1
      BY <1>2
    <2>5. 1..L \subseteq 1..L + 1 /\ L + 1 \in 1..L + 1
      BY <1>2
    <2>6. Count(k, g)' = Cardinality({n \in 1..L + 1 : slots'[Base[k] + n] = g})
      BY <1>3 DEF Count
    <2>7. CASE g = f
      <3>1. {n \in 1..L + 1 : slots'[Base[k] + n] = g} = S \cup {L + 1}
        BY <1>4, <2>3, <2>4, <2>5, <2>7 DEF Places
      <3>2. Cardinality(S \cup {L + 1}) = Cardinality(S) + 1
        BY <2>1, <2>2, FS_AddElement
      <3> QED
        BY <2>1, <2>6, <2>7, <3>1, <3>2
    <2>8. CASE g # f
      <3>1. {n \in 1..L + 1 : slots'[Base[k] + n] = g} = S
        BY <1>4, <2>3, <2>4, <2>5, <2>8 DEF Places
      <3> QED
        BY <2>1, <2>6, <2>8, <3>1
    <2> QED
      BY <2>7, <2>8
  <1>8. Contents' = [Contents EXCEPT ![k][f] = @ + 1]
    BY <1>1, <1>6, <1>7 DEF Contents
  <1>9. Homes' = [Homes EXCEPT ![f] = k]
    <2>1. slots'[IdSlot[f]] = Base[k]
      BY <1>1, <1>2, EntryArea, ListArea, LengthArea
    <2>2. Homes'[f] = k
      BY <1>1, <2>1, KeyOfAddress DEF Homes
    <2>3. ASSUME NEW g \in Facts, g # f
          PROVE  Homes'[g] = Homes[g]
      <3>1. slots'[IdSlot[g]] = slots[IdSlot[g]]
        BY <1>1, <1>2, <2>3, EntryArea, ListArea, LengthArea
      <3> QED
        BY <3>1, SameHome
    <2> QED
      BY <2>2, <2>3 DEF Homes
  <1> QED
    BY <1>8, <1>9 DEF Bags!Insert, k

(* factDelete with a handle that leads to a list is Delete: the last item  *)
(* fills the hole, so exactly one occurrence of the fact is gone.          *)
LEMMA DeleteRefines ==
    ASSUME StoreInv, NEW f \in Facts, FactDelete(f), slots[IdSlot[f]] # 0
    PROVE  Bags!Delete(f)
  <1>1. PICK k \in Keys, p \in 1..MaxList :
            LET L == slots[Base[k]]
            IN /\ slots[IdSlot[f]] = Base[k]
               /\ L \in 1..MaxList
               /\ p <= L
               /\ slots[Base[k] + p] = f
               /\ slots' = [a \in Addr |->
                    IF a = Base[k] THEN L - 1
                    ELSE IF a = Base[k] + p THEN slots[Base[k] + L]
                    ELSE slots[a]]
    BY DeleteEffect
  <1> DEFINE L == slots[Base[k]]
  <1>2. /\ L \in Nat
        /\ p \in 1..L
        /\ p \in 0..MaxList
        /\ 1..L \subseteq 0..MaxList
        /\ 1..MaxList \subseteq 0..MaxList
    BY <1>1, LayoutAssumption
  <1>3. slots'[Base[k]] = L - 1
    BY <1>1, LengthArea
  <1>4. slots'[Base[k] + p] = slots[Base[k] + L]
    <2>1. Base[k] + p \in Addr /\ Base[k] + p # Base[k]
      BY <1>2, ListArea, LengthArea
    <2> QED
      BY <1>1, <2>1
  <1>5. ASSUME NEW j \in Keys, NEW n \in 1..MaxList, j # k \/ n # p
        PROVE  slots'[Base[j] + n] = slots[Base[j] + n]
    <2>1. n \in 0..MaxList
      BY <1>2
    <2>2. Base[j] + n \in Addr /\ Base[j] + n # Base[k] + p /\ Base[j] + n # Base[k]
      BY <1>2, <1>5, <2>1, ListArea, LengthArea
    <2> QED
      BY <1>1, <2>2
  <1>6. ASSUME NEW j \in Keys, NEW g \in Facts, j # k
        PROVE  Count(j, g)' = Count(j, g)
    <2>1. \A n \in 1..MaxList : slots'[Base[j] + n] = slots[Base[j] + n]
      BY <1>5, <1>6
    <2>2. slots'[Base[j]] = slots[Base[j]]
      <3>1. Base[j] \in Addr /\ Base[j] # Base[k] /\ Base[j] # Base[k] + p
        BY <1>6, LengthArea
      <3> QED
        BY <1>1, <3>1
    <2> QED
      BY <2>1, <2>2, SameCount
  <1>7. ASSUME NEW g \in Facts
        PROVE  Count(k, g)' = IF g = f THEN Count(k, g) - 1 ELSE Count(k, g)
    <2> DEFINE S == Places(k, g)
               T == {n \in 1..L - 1 : slots'[Base[k] + n] = g}
    <2>1. IsFiniteSet(S) /\ Count(k, g) = Cardinality(S) /\ Count(k, g)' = Cardinality(T)
      BY <1>3, PlacesFinite DEF Count
    <2>2. \A n \in 1..L : n \in S <=> slots[Base[k] + n] = g
      BY DEF Places
    <2>3. S \subseteq 1..L
      BY DEF Places
    <2>4. \A n \in 1..L - 1 : n \in T <=> IF n = p THEN slots[Base[k] + L] = g ELSE slots[Base[k] + n] = g
      <3> SUFFICES ASSUME NEW n \in 1..L - 1
                   PROVE  slots'[Base[k] + n] = IF n = p THEN slots[Base[k] + L] ELSE slots[Base[k] + n]
        OBVIOUS
      <3>1. n \in 1..MaxList
        BY <1>1, <1>2, LayoutAssumption
      <3> QED
        BY <1>4, <1>5, <3>1
    <2>5. T \subseteq 1..L - 1
      OBVIOUS
    <2>6. p \in S <=> g = f
      BY <1>1, <1>2, <2>2
    <2>7. L \in 1..L /\ (L \in S <=> slots[Base[k] + L] = g)
      BY <1>1, <1>2, <2>2
    <2>8. \A n \in 1..L : n \in 1..L - 1 <=> n # L
      BY <1>2
    <2>9. 1..L - 1 \subseteq 1..L
      BY <1>2
    <2> HIDE DEF S, T
    <2>10. CASE g = f /\ L \in S
      <3>1. T = S \ {L}
        <4>1. \A n \in 1..L - 1 : n \in T <=> n \in S
          BY <2>2, <2>4, <2>6, <2>7, <2>9, <2>10
        <4> QED
          BY <4>1, <2>3, <2>5, <2>7, <2>8, <2>9
      <3>2. Cardinality(S \ {L}) = Cardinality(S) - 1
        BY <2>1, <2>10, FS_RemoveElement
      <3> QED
        BY <2>1, <2>10, <3>1, <3>2
    <2>11. CASE g = f /\ L \notin S
      <3>1. p # L /\ p \in 1..L - 1
        BY <1>2, <2>6, <2>11
      <3>2. T = S \ {p}
        <4>1. \A n \in 1..L - 1 : n \in T <=> n \in S /\ n # p
          BY <2>2, <2>4, <2>7, <2>9, <2>11
        <4> QED
          BY <4>1, <2>3, <2>5, <2>8, <2>9, <2>11
      <3>3. Cardinality(S \ {p}) = Cardinality(S) - 1
        BY <2>1, <2>6, <2>11, FS_RemoveElement
      <3> QED
        BY <2>1, <2>11, <3>2, <3>3
    <2>12. CASE g # f /\ L \in S
      <3>1. p # L /\ p \notin S /\ p \in 1..L - 1
        BY <1>2, <2>6, <2>12
      <3>2. T = (S \ {L}) \cup {p}
        <4>1. \A n \in 1..L - 1 : n \in T <=> n \in S \/ n = p
          BY <2>2, <2>4, <2>7, <2>9, <2>12
        <4> QED
          BY <3>1, <4>1, <2>3, <2>5, <2>8, <2>9
      <3>3. IsFiniteSet(S \ {L}) /\ Cardinality(S \ {L}) = Cardinality(S) - 1
        BY <2>1, <2>12, FS_RemoveElement
      <3>4. Cardinality((S \ {L}) \cup {p}) = Cardinality(S \ {L}) + 1
        BY <3>1, <3>3, FS_AddElement
      <3>5. Cardinality(S) \in Nat
        BY <2>1, FS_CardinalityType
      <3> QED
        BY <2>1, <2>12, <3>2, <3>3, <3>4, <3>5
    <2>13. CASE g # f /\ L \notin S
      <3>1. T = S
        <4>1. \A n \in 1..L - 1 : n \in T <=> n \in S
          BY <2>2, <2>4, <2>6, <2>7, <2>9, <2>13
        <4> QED
          BY <4>1, <2>3, <2>5, <2>8, <2>9, <2>13
      <3> QED
        BY <2>1, <2>13, <3>1
    <2> QED
      BY <2>10, <2>11, <2>12, <2>13
  <1>8. Contents' = [Contents EXCEPT ![k][f] = @ - 1]
    BY <1>6, <1>7 DEF Contents
  <1>9. Homes' = Homes
    <2>1. ASSUME NEW g \in Facts
          PROVE  Homes'[g] = Homes[g]
      <3>1. slots'[IdSlot[g]] = slots[IdSlot[g]]
        BY <1>1, <1>2, EntryArea, ListArea, LengthArea
      <3> QED
        BY <3>1, SameHome
    <2> QED
      BY <2>1 DEF Homes
  <1>10. Homes[f] = k /\ k # NoKey
    BY <1>1, KeyOfAddress, KeysAreKeys DEF Homes
  <1>11. Contents[k][f] > 0
    <2>1. p \in Places(k, f)
      BY <1>1, <1>2 DEF Places
    <2>2. Count(k, f) # 0 /\ Count(k, f) \in Nat
      BY <2>1, PlacesFinite, FS_EmptySet
    <2> QED
      BY <2>2 DEF Contents
  <1> QED
    BY <1>8, <1>9, <1>10, <1>11 DEF Bags!Delete

(* The lists in storage implement the bags of facts: the layout loses and  *)
(* duplicates nothing, and other lists, handles and state variables have   *)
(* no part in it.                                                          *)
THEOREM StoreImplementsBags == Spec => ImplementsBags
  <1>1. Init => Bags!Init
    <2> SUFFICES ASSUME Init PROVE Bags!Init
      OBVIOUS
    <2>1. slots = [a \in Addr |-> 0]
      BY DEF Init
    <2>2. ASSUME NEW k \in Keys, NEW f \in Facts
          PROVE  Count(k, f) = 0
      <3>1. slots[Base[k]] = 0 /\ 1..0 = {}
        BY <2>1, LengthArea
      <3>2. {n \in 1..slots[Base[k]] : slots[Base[k] + n] = f} = {}
        BY <3>1
      <3> QED
        BY <3>2, FS_EmptySet DEF Count
    <2>3. ASSUME NEW f \in Facts
          PROVE  KeyAt(slots[IdSlot[f]]) = NoKey
      BY <2>1, EntryArea, KeyOfAddress
    <2> QED
      BY <2>2, <2>3 DEF Bags!Init, Contents, Homes
  <1>2. StoreInv /\ [Next]_slots => [Bags!Next]_<<Contents, Homes>>
    <2> SUFFICES ASSUME StoreInv, [Next]_slots
                 PROVE  Bags!Next \/ (Contents' = Contents /\ Homes' = Homes)
      OBVIOUS
    <2>1. ASSUME NEW f \in Facts, NEW form \in Forms, FactInsert(f, form)
          PROVE  Bags!Next
      BY <2>1, InsertRefines, KeyOfFact DEF Bags!Next
    <2>2. ASSUME NEW f \in Facts, FactDelete(f), slots[IdSlot[f]] # 0
          PROVE  Bags!Next
      BY <2>2, DeleteRefines DEF Bags!Next
    <2>3. ASSUME NEW f \in Facts, FactDelete(f), slots[IdSlot[f]] = 0
          PROVE  Contents' = Contents /\ Homes' = Homes
      BY <2>3, StrayDeleteOutside, OutsideStutters
    <2>4. ASSUME NEW a \in UserSlots, NEW v \in UserVals, UserWrite(a, v)
          PROVE  Contents' = Contents /\ Homes' = Homes
      BY <2>4, UserWriteOutside, OutsideStutters
    <2>5. CASE UNCHANGED slots
      BY <2>5 DEF Contents, Count, Homes
    <2> QED
      BY <2>1, <2>2, <2>3, <2>4, <2>5 DEF Next
  <1> QED
    BY <1>1, <1>2, StoreInvHolds, PTL DEF Spec, ImplementsBags, Bags!Spec

=============================================================================
