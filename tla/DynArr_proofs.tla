---------------------------- MODULE DynArr_proofs ----------------------------
(***************************************************************************)
(* Proofs about DynArr, for any size of elements and of memory and         *)
(* whatever the surrounding code encodes beyond the free memory pointer:   *)
(* until something is pushed to a stray array, the arrays keep apart from  *)
(* each other and from the memory of the surrounding code, and those that  *)
(* began empty or were cleared implement the independent sequences of      *)
(* SeqStore.                                                               *)
(***************************************************************************)
EXTENDS DynArr, SequenceTheorems, TLAPS

-----------------------------------------------------------------------------
(* Sizes.                                                                  *)

(* Elements take up memory one after the other.                            *)
LEMMA Sizes ==
    /\ \A n \in Nat : n * ElementSize \in Nat
    /\ \A m, n \in Nat : m <= n => m * ElementSize <= n * ElementSize
    /\ \A m, n \in Nat : m < n => m * ElementSize + ElementSize <= n * ElementSize
    /\ \A n \in Nat : (n + 1) * ElementSize = n * ElementSize + ElementSize
    /\ 0 * ElementSize = 0
  <1>1. ElementSize \in Nat /\ ElementSize >= 1
    BY DynArrAssumption
  <1>2. \A n \in Nat : n * ElementSize \in Nat
    BY <1>1
  <1>3. \A n \in Nat : (n + 1) * ElementSize = n * ElementSize + ElementSize
    BY <1>1
  <1>4. \A d, m \in Nat : (m + d) * ElementSize = m * ElementSize + d * ElementSize
    BY <1>1
  <1>5. ASSUME NEW m \in Nat, NEW n \in Nat, m <= n
        PROVE  m * ElementSize <= n * ElementSize
    <2>1. n - m \in Nat /\ m + (n - m) = n
      BY <1>5
    <2>2. n * ElementSize = m * ElementSize + (n - m) * ElementSize
      BY <2>1, <1>4
    <2> QED
      BY <1>2, <2>1, <2>2
  <1>6. ASSUME NEW m \in Nat, NEW n \in Nat, m < n
        PROVE  m * ElementSize + ElementSize <= n * ElementSize
    <2>1. m + 1 \in Nat /\ m + 1 <= n
      BY <1>6
    <2> QED
      BY <1>3, <1>5, <2>1
  <1>7. 0 * ElementSize = 0
    BY <1>1
  <1> QED
    BY <1>2, <1>3, <1>5, <1>6, <1>7

-----------------------------------------------------------------------------
(* The inductive invariant.  Nothing is said about memory beyond the free  *)
(* memory pointer: what alloc finds there decides whether the array is     *)
(* stray.                                                                  *)

MemTypes ==
    /\ mem \in [Addrs -> Nat]
    /\ free \in 1..MemSize
    /\ \A r \in arrays : r \in Nat \ {0} /\ r + 2 < free
    /\ \A a \in owned : a \in Nat /\ a < free
    /\ stray \subseteq arrays

(* The parts of ArraysApart, one array or one pair at a time.              *)
ArrayOK(r) ==
    /\ r \notin stray => GetLen(mem, r) <= GetCap(mem, r)
    /\ Header(r) \cup Data(r) \subseteq 0..free - 1
    /\ Header(r) \cap Data(r) = {}
    /\ (Header(r) \cup Data(r)) \cap owned = {}

PairOK(r, q) ==
    /\ Header(r) \cap Header(q) = {}
    /\ Header(r) \cap Data(q) = {}
    /\ Data(r) \cap Data(q) = {}

Apart ==
    /\ \A r \in arrays : ArrayOK(r)
    /\ \A r, q \in arrays : r # q => PairOK(r, q)

MemInv == MemTypes /\ Apart

(* The words of a header are words of memory and hold numbers.             *)
LEMMA HeaderWords ==
    ASSUME MemTypes, NEW r \in arrays
    PROVE  /\ r \in Nat /\ r \in Addrs /\ r + 1 \in Addrs /\ r + 2 \in Addrs
           /\ DataPtr(mem, r) \in Nat
           /\ GetLen(mem, r) \in Nat
           /\ GetCap(mem, r) \in Nat
           /\ GetCap(mem, r) * ElementSize \in Nat
           /\ Header(r) = {r, r + 1, r + 2}
  <1>1. MemSize \in Nat
    BY DynArrAssumption
  <1>2. r \in Nat /\ r \in Addrs /\ r + 1 \in Addrs /\ r + 2 \in Addrs
    BY <1>1 DEF MemTypes, Addrs
  <1>3. /\ DataPtr(mem, r) \in Nat
        /\ GetLen(mem, r) \in Nat
        /\ GetCap(mem, r) \in Nat
    BY <1>2 DEF MemTypes, DataPtr, GetLen, GetCap
  <1>4. Header(r) = {r, r + 1, r + 2}
    BY <1>2 DEF Header
  <1> QED
    BY <1>2, <1>3, <1>4, Sizes

(* The parts make up ArraysApart.                                          *)
LEMMA ApartByParts ==
    Apart => ArraysApart
  BY DEF ArraysApart, Apart, ArrayOK, PairOK

(* A step that leaves a header alone leaves its data where it is.          *)
LEMMA HeaderSame ==
    ASSUME MemTypes, NEW q \in arrays, \A a \in Header(q) : mem'[a] = mem[a],
           q \in stray <=> q \in stray'
    PROVE  /\ DataPtr(mem', q) = DataPtr(mem, q)
           /\ GetLen(mem', q) = GetLen(mem, q)
           /\ GetCap(mem', q) = GetCap(mem, q)
           /\ Data(q)' = Data(q)
  <1>1. q \in Header(q) /\ q + 1 \in Header(q) /\ q + 2 \in Header(q)
    BY HeaderWords
  <1> QED
    BY <1>1 DEF DataPtr, GetLen, GetCap, Data

-----------------------------------------------------------------------------
(* What a push does to memory, word by word.                               *)

(* The words of an element.                                                *)
LEMMA ItemWords ==
    ASSUME NEW item \in Items
    PROVE  \A j \in 1..ElementSize : item[j] \in Nat
  BY DynArrAssumption

(* While there is room the element goes behind the last one, inside the    *)
(* data of its array.                                                      *)
LEMMA PushInPlace ==
    ASSUME MemInv, NEW r \in arrays, r \notin stray, NEW item \in Items,
           GetLen(mem, r) # GetCap(mem, r), mem' = Place(mem, r, item)
    PROVE  LET at == DataPtr(mem, r) + GetLen(mem, r) * ElementSize
           IN /\ at \in Nat
              /\ at..at + ElementSize - 1 \subseteq Data(r)
              /\ GetLen(mem, r) < GetCap(mem, r)
              /\ mem' \in [Addrs -> Nat]
              /\ mem'[r + 1] = GetLen(mem, r) + 1
              /\ \A a \in Addrs : a # r + 1 /\ a \notin at..at + ElementSize - 1 => mem'[a] = mem[a]
              /\ \A j \in 1..ElementSize : mem'[at + j - 1] = item[j]
  <1> DEFINE len == GetLen(mem, r)
             cap == GetCap(mem, r)
             ptr == DataPtr(mem, r)
             at == ptr + len * ElementSize
  <1>1. MemTypes /\ ArrayOK(r)
    BY DEF MemInv, Apart
  <1>2. /\ r \in Nat /\ r + 1 \in Addrs
        /\ ptr \in Nat /\ len \in Nat /\ cap \in Nat
        /\ Header(r) = {r, r + 1, r + 2}
    BY <1>1, HeaderWords
  <1>3. len < cap
    BY <1>1, <1>2 DEF ArrayOK
  <1>4. /\ len * ElementSize \in Nat
        /\ cap * ElementSize \in Nat
        /\ len * ElementSize + ElementSize <= cap * ElementSize
    BY <1>2, <1>3, Sizes
  <1>5. ElementSize \in Nat /\ ElementSize >= 1 /\ MemSize \in Nat
    BY DynArrAssumption
  <1>6. Data(r) = ptr..ptr + cap * ElementSize - 1
    BY DEF Data
  <1>7. Data(r) \subseteq 0..free - 1 /\ r + 1 \notin Data(r)
    BY <1>1, <1>2 DEF ArrayOK
  <1> HIDE DEF len, cap, ptr
  <1>8. at \in Nat /\ at..at + ElementSize - 1 \subseteq Data(r)
    BY <1>2, <1>4, <1>5, <1>6
  <1>9. free \in Nat /\ free <= MemSize
    BY <1>1, <1>5 DEF MemTypes
  <1>10. Data(r) \subseteq Addrs
    BY <1>5, <1>7, <1>9 DEF Addrs
  <1>11. mem' = [a \in Addrs |->
                    IF a \in at..at + ElementSize - 1 THEN item[a - at + 1]
                    ELSE IF a = r + 1 THEN len + 1
                    ELSE mem[a]]
    BY DEF Place, ItemAddr, at, len, ptr
  <1>12. \A a \in at..at + ElementSize - 1 : a - at + 1 \in 1..ElementSize
    BY <1>5, <1>8
  <1>13. mem' \in [Addrs -> Nat]
    BY <1>1, <1>2, <1>11, <1>12, ItemWords DEF MemTypes
  <1>14. ASSUME NEW j \in 1..ElementSize
         PROVE  mem'[at + j - 1] = item[j]
    <2>1. at + j - 1 \in at..at + ElementSize - 1 /\ (at + j - 1) - at + 1 = j
      BY <1>5, <1>8
    <2>2. at + j - 1 \in Addrs /\ at + j - 1 # r + 1
      BY <2>1, <1>7, <1>8, <1>10
    <2> QED
      BY <1>11, <2>1, <2>2
  <1>15. mem'[r + 1] = len + 1
    BY <1>2, <1>7, <1>8, <1>11
  <1>16. \A a \in Addrs : a # r + 1 /\ a \notin at..at + ElementSize - 1 => mem'[a] = mem[a]
    BY <1>11
  <1> QED
    BY <1>3, <1>8, <1>13, <1>14, <1>15, <1>16 DEF at, len, cap, ptr

(* A full array moves to the free memory pointer: its elements go with it  *)
(* in their order, and the memory below changes in its header only.        *)
LEMMA PushMoves ==
    ASSUME MemInv, NEW r \in arrays, r \notin stray, NEW item \in Items,
           GetLen(mem, r) = GetCap(mem, r),
           free + Room(mem, r) <= MemSize,
           mem' = Place(ReAlloc(mem, r), r, item)
    PROVE  LET len == GetLen(mem, r)
           IN /\ Room(mem, r) \in Nat
              /\ NewCap(mem, r) \in Nat
              /\ len + 1 <= NewCap(mem, r)
              /\ mem' \in [Addrs -> Nat]
              /\ mem'[r] = free
              /\ mem'[r + 1] = len + 1
              /\ mem'[r + 2] = NewCap(mem, r)
              /\ \A a \in Addrs : a < free /\ a \notin Header(r) => mem'[a] = mem[a]
              /\ \A a \in Addrs : a >= free + Room(mem, r) => mem'[a] = mem[a]
              /\ \A i \in 0..len * ElementSize - 1 :
                    mem'[free + i] = mem[DataPtr(mem, r) + i]
              /\ \A j \in 1..ElementSize : mem'[free + len * ElementSize + j - 1] = item[j]
  <1> DEFINE len == GetLen(mem, r)
             ptr == DataPtr(mem, r)
             cap == NewCap(mem, r)
             size == len * ElementSize
             at == free + size
             m1 == [mem EXCEPT ![r] = free, ![r + 2] = cap]
             m2 == ReAlloc(mem, r)
  <1>1. MemTypes /\ ArrayOK(r)
    BY DEF MemInv, Apart
  <1>2. /\ r \in Nat /\ r \in Addrs /\ r + 1 \in Addrs /\ r + 2 \in Addrs
        /\ ptr \in Nat /\ len \in Nat /\ GetCap(mem, r) \in Nat
        /\ Header(r) = {r, r + 1, r + 2}
    BY <1>1, HeaderWords
  <1>3. cap \in Nat /\ len + 1 <= cap
    BY <1>2 DEF NewCap
  <1>4. ElementSize \in Nat /\ ElementSize >= 1 /\ MemSize \in Nat
    BY DynArrAssumption
  <1>5. /\ size \in Nat
        /\ Room(mem, r) \in Nat
        /\ size + ElementSize <= Room(mem, r)
    BY <1>2, <1>3, Sizes DEF Room
  <1>6. free \in Nat /\ free <= MemSize /\ r + 2 < free /\ mem \in [Addrs -> Nat]
    BY <1>1, <1>4 DEF MemTypes
  <1>7. \A i \in 0..size - 1 : ptr + i \in Data(r)
    BY <1>2, <1>5 DEF Data
  <1>8. Data(r) \subseteq 0..free - 1 /\ Header(r) \cap Data(r) = {}
    BY <1>1 DEF ArrayOK
  <1>9. \A i \in 0..size - 1 : ptr + i \in Addrs /\ ptr + i \notin Header(r)
    BY <1>4, <1>6, <1>7, <1>8 DEF Addrs
  <1>10. m2 = [a \in Addrs |-> IF a \in free..free + size - 1 THEN m1[ptr + (a - free)] ELSE m1[a]]
    BY DEF ReAlloc, Copy
  <1> HIDE DEF len, ptr, cap, size, m2
  <1>11. /\ m1 \in [Addrs -> Nat]
         /\ m1[r] = free
         /\ m1[r + 1] = mem[r + 1]
         /\ m1[r + 2] = cap
         /\ \A a \in Addrs : a \notin Header(r) => m1[a] = mem[a]
    BY <1>2, <1>3, <1>6
  <1> HIDE DEF m1
  <1>12. \A a \in free..free + size - 1 : a - free \in 0..size - 1
    BY <1>5, <1>6
  <1>13. m2 \in [Addrs -> Nat]
    <2>1. \A a \in free..free + size - 1 : m1[ptr + (a - free)] \in Nat
      BY <1>9, <1>11, <1>12
    <2> QED
      BY <1>10, <1>11, <2>1
  <1>14. \A a \in Addrs : a \notin free..free + size - 1 => m2[a] = m1[a]
    BY <1>10
  <1>15. m2[r] = free /\ m2[r + 1] = len /\ m2[r + 2] = cap
    <2>1. r \notin free..free + size - 1 /\ r + 1 \notin free..free + size - 1 /\ r + 2 \notin free..free + size - 1
      BY <1>2, <1>5, <1>6
    <2> QED
      BY <1>2, <1>11, <1>14, <2>1 DEF len, GetLen
  <1>16. mem' = [a \in Addrs |->
                    IF a \in at..at + ElementSize - 1 THEN item[a - at + 1]
                    ELSE IF a = r + 1 THEN len + 1
                    ELSE m2[a]]
    BY <1>15 DEF Place, ItemAddr, at, m2, size, DataPtr, GetLen
  <1>17. \A a \in at..at + ElementSize - 1 : a - at + 1 \in 1..ElementSize
    BY <1>4, <1>5, <1>6
  <1>18. mem' \in [Addrs -> Nat]
    BY <1>2, <1>13, <1>16, <1>17, ItemWords
  <1>19. \A a \in Addrs : a < free => a \notin free..free + size - 1 /\ a \notin at..at + ElementSize - 1
    BY <1>4, <1>5, <1>6 DEF Addrs
  <1>20. mem'[r] = free /\ mem'[r + 1] = len + 1 /\ mem'[r + 2] = cap
    <2>1. r < free /\ r + 1 < free /\ r + 2 < free /\ r # r + 1 /\ r + 2 # r + 1
      BY <1>2, <1>6
    <2> QED
      BY <1>2, <1>15, <1>16, <1>19, <2>1
  <1>21. \A a \in Addrs : a < free /\ a \notin Header(r) => mem'[a] = mem[a]
    BY <1>2, <1>11, <1>14, <1>16, <1>19
  <1>22. ASSUME NEW a \in Addrs, a >= free + Room(mem, r)
         PROVE  mem'[a] = mem[a]
    <2>1. a \in Nat /\ a >= free + size + ElementSize
      BY <1>4, <1>5, <1>6, <1>22 DEF Addrs
    <2>2. a \notin free..free + size - 1 /\ a \notin at..at + ElementSize - 1 /\ a \notin Header(r)
      BY <1>2, <1>4, <1>5, <1>6, <2>1
    <2> QED
      BY <1>2, <1>11, <1>14, <1>16, <2>2
  <1>23. ASSUME NEW i \in 0..size - 1
         PROVE  mem'[free + i] = mem[ptr + i]
    <2>1. /\ free + i \in free..free + size - 1
          /\ free + i \notin at..at + ElementSize - 1
          /\ free + i # r + 1
          /\ (free + i) - free = i
          /\ free + i \in Addrs
      BY <1>2, <1>4, <1>5, <1>6 DEF Addrs
    <2>2. mem'[free + i] = m2[free + i]
      BY <1>16, <2>1
    <2>3. m2[free + i] = m1[ptr + i]
      BY <1>10, <2>1
    <2> QED
      BY <1>9, <1>11, <2>2, <2>3
  <1>24. ASSUME NEW j \in 1..ElementSize
         PROVE  mem'[at + j - 1] = item[j]
    <2>1. /\ at + j - 1 \in at..at + ElementSize - 1
          /\ (at + j - 1) - at + 1 = j
          /\ at + j - 1 # r + 1
          /\ at + j - 1 \in Addrs
      BY <1>2, <1>4, <1>5, <1>6 DEF Addrs
    <2> QED
      BY <1>16, <2>1
  <1> QED
    BY <1>3, <1>5, <1>18, <1>20, <1>21, <1>22, <1>23, <1>24 DEF at, len, cap, ptr, size

-----------------------------------------------------------------------------
(* Every step keeps the invariant.                                         *)

(* What MemInv says about one array and about two.                         *)
LEMMA InvParts ==
    ASSUME MemInv
    PROVE  /\ MemTypes
           /\ \A r \in arrays : ArrayOK(r)
           /\ \A r, q \in arrays : r # q => PairOK(r, q) /\ PairOK(q, r)
  BY DEF MemInv, Apart

(* The same after a step.                                                  *)
LEMMA ApartByPartsNext ==
    (\A r \in arrays' : ArrayOK(r)') /\ (\A r, q \in arrays' : r # q => PairOK(r, q)') => Apart'
  BY DEF Apart

(* alloc: the new header lies behind everything else, and when it is not   *)
(* empty the array is stray and owns no data.                              *)
LEMMA AllocKeeps ==
    ASSUME MemInv, Alloc
    PROVE  MemInv'
  <1>1. MemTypes
    BY InvParts
  <1>2. /\ free \in Nat /\ free >= 1 /\ free + 3 <= MemSize /\ MemSize \in Nat
        /\ mem' = mem /\ free' = free + 3 /\ arrays' = arrays \cup {free} /\ owned' = owned
    BY <1>1, DynArrAssumption DEF MemTypes, Alloc
  <1>3. MemTypes'
    BY <1>1, <1>2 DEF MemTypes, Alloc
  <1>4. PICK new : new = free
    OBVIOUS
  <1>5. new \notin arrays /\ \A q \in arrays : q \in stray <=> q \in stray'
    BY <1>1, <1>2, <1>4 DEF MemTypes, Alloc
  <1>6. mem[new] \in Nat
    BY <1>1, <1>2, <1>4 DEF MemTypes, Addrs
  <1>7. Data(new)' = {} /\ (new \notin stray' => GetLen(mem', new) = 0 /\ GetCap(mem', new) = 0)
    <2>1. CASE Empty(mem, new)
      <3>1. GetLen(mem', new) = 0 /\ GetCap(mem', new) = 0 /\ new \notin stray'
        BY <1>1, <1>2, <1>4, <1>5, <2>1 DEF Empty, GetLen, GetCap, MemTypes, Alloc
      <3> QED
        BY <1>2, <1>6, <3>1, Sizes DEF Data, DataPtr
    <2>2. CASE ~Empty(mem, new)
      BY <1>4, <2>2 DEF Alloc, Data
    <2> QED
      BY <2>1, <2>2
  <1>8. Header(new) = new..new + 2
    BY DEF Header
  <1>9. ASSUME NEW q \in arrays
        PROVE  /\ GetLen(mem', q) = GetLen(mem, q)
               /\ GetCap(mem', q) = GetCap(mem, q)
               /\ Data(q)' = Data(q)
               /\ q \in stray <=> q \in stray'
    BY <1>2, <1>5 DEF GetLen, GetCap, Data, DataPtr
  <1>10. ASSUME NEW r \in arrays' PROVE ArrayOK(r)'
    <2>1. CASE r \in arrays
      <3>1. ArrayOK(r)
        BY <2>1, InvParts
      <3> QED
        BY <1>2, <1>9, <2>1, <3>1 DEF ArrayOK, Header
    <2>2. CASE r = new
      <3>1. \A a \in owned : a \in Nat /\ a < free
        BY <1>1 DEF MemTypes
      <3>2. Header(new) \cap owned = {} /\ Header(new) \subseteq 0..free' - 1
        BY <1>2, <1>4, <1>8, <3>1 DEF Header
      <3> QED
        BY <1>2, <1>7, <2>2, <3>2 DEF ArrayOK, Header
    <2> QED
      BY <1>2, <1>4, <2>1, <2>2
  <1>11. ASSUME NEW r \in arrays', NEW q \in arrays', r # q
         PROVE  PairOK(r, q)'
    <2>1. CASE r \in arrays /\ q \in arrays
      <3>1. PairOK(r, q)
        BY <1>11, <2>1, InvParts
      <3> QED
        BY <1>9, <2>1, <3>1 DEF PairOK, Header
    <2>2. CASE r \in arrays /\ q = new
      <3>1. ArrayOK(r)
        BY <2>2, InvParts
      <3>2. Header(r) \cap Header(new) = {}
        BY <1>2, <1>4, <1>8, <3>1 DEF ArrayOK
      <3> QED
        BY <1>7, <2>2, <3>2 DEF PairOK, Header
    <2>3. CASE r = new /\ q \in arrays
      <3>1. ArrayOK(q)
        BY <2>3, InvParts
      <3>2. Header(new) \cap Header(q) = {} /\ Header(new) \cap Data(q) = {}
        BY <1>2, <1>4, <1>8, <3>1 DEF ArrayOK
      <3> QED
        BY <1>7, <1>9, <2>3, <3>2 DEF PairOK, Header
    <2> QED
      BY <1>2, <1>4, <1>11, <2>1, <2>2, <2>3
  <1>12. Apart'
    BY <1>10, <1>11, ApartByPartsNext
  <1> QED
    BY <1>3, <1>12 DEF MemInv

(* A step that touches the header of one array only, and leaves no array   *)
(* but this one with other data, keeps the others as they are.             *)
LEMMA OneArrayKeeps ==
    ASSUME MemInv, NEW r \in arrays,
           arrays' = arrays, owned' = owned, free' \in Nat, free' >= free,
           \A q \in arrays : q # r => (q \in stray <=> q \in stray'),
           \A q \in arrays : q # r => \A a \in Header(q) : mem'[a] = mem[a],
           ArrayOK(r)',
           \A q \in arrays : q # r => Header(q) \cap Data(r)' = {},
           \A q \in arrays : q # r => Data(r)' \cap Data(q) = {}
    PROVE  Apart'
  <1>1. MemTypes
    BY InvParts
  <1>2. free \in Nat
    BY <1>1, DynArrAssumption DEF MemTypes
  <1>3. ASSUME NEW q \in arrays, q # r
        PROVE  /\ GetLen(mem', q) = GetLen(mem, q)
               /\ GetCap(mem', q) = GetCap(mem, q)
               /\ Data(q)' = Data(q)
    BY <1>1, <1>3, HeaderSame
  <1>4. ASSUME NEW q \in arrays PROVE ArrayOK(q)'
    <2>1. CASE q # r
      <3>1. ArrayOK(q)
        BY InvParts
      <3>2. 0..free - 1 \subseteq 0..free' - 1
        <4>1. \A x, y \in Nat : x <= y => 0..x - 1 \subseteq 0..y - 1
          OBVIOUS
        <4> QED
          BY <1>2, <4>1
      <3> QED
        BY <1>3, <2>1, <3>1, <3>2 DEF ArrayOK, Header
    <2> QED
      BY <2>1
  <1>5. ASSUME NEW p \in arrays, NEW q \in arrays, p # q
        PROVE  PairOK(p, q)'
    <2>1. PairOK(p, q) /\ PairOK(q, p)
      BY <1>5, InvParts
    <2>2. CASE p # r /\ q # r
      BY <1>3, <2>1, <2>2 DEF PairOK, Header
    <2>3. CASE p = r
      BY <1>3, <1>5, <2>1, <2>3 DEF PairOK, Header
    <2>4. CASE q = r
      BY <1>3, <1>5, <2>1, <2>4 DEF PairOK, Header
    <2> QED
      BY <2>2, <2>3, <2>4
  <1> QED
    BY <1>4, <1>5, ApartByPartsNext

(* clearArray changes a length only.                                       *)
LEMMA ClearKeeps ==
    ASSUME MemInv, NEW r \in arrays, ClearArray(r)
    PROVE  MemInv'
  <1>1. MemTypes /\ ArrayOK(r)
    BY InvParts
  <1>2. r \in Nat /\ r \in Addrs /\ r + 1 \in Addrs /\ r + 2 \in Addrs /\ Header(r) = {r, r + 1, r + 2}
    BY <1>1, HeaderWords
  <1>3. free' = free /\ arrays' = arrays /\ owned' = owned /\ free \in Nat /\ r + 2 < free
    BY <1>1, DynArrAssumption DEF ClearArray, MemTypes
  <1>4. /\ mem' \in [Addrs -> Nat]
        /\ mem'[r] = 0 /\ mem'[r + 1] = 0 /\ mem'[r + 2] = 0
        /\ \A a \in Addrs : a \notin Header(r) => mem'[a] = mem[a]
    BY <1>1, <1>2 DEF ClearArray, MemTypes
  <1>5. stray' = stray \ {r}
    BY DEF ClearArray
  <1>6. MemTypes'
    BY <1>1, <1>3, <1>4, <1>5 DEF MemTypes
  <1>7. Data(r)' = {} /\ GetLen(mem', r) = 0 /\ GetCap(mem', r) = 0
    BY <1>4, Sizes DEF Data, DataPtr, GetLen, GetCap
  <1>8. ArrayOK(r)'
    BY <1>1, <1>3, <1>7 DEF ArrayOK, Header
  <1>9. ASSUME NEW q \in arrays, q # r, NEW a \in Header(q)
        PROVE  mem'[a] = mem[a]
    <2>1. PairOK(q, r)
      BY <1>9, InvParts
    <2>2. a \in Addrs
      BY <1>1, <1>9, HeaderWords
    <2> QED
      BY <1>4, <1>9, <2>1, <2>2 DEF PairOK
  <1>10. Apart'
    BY <1>3, <1>5, <1>7, <1>8, <1>9, OneArrayKeeps
  <1> QED
    BY <1>6, <1>10 DEF MemInv

(* A push where there is room.                                             *)
LEMMA PushInPlaceKeeps ==
    ASSUME MemInv, NEW r \in arrays, r \notin stray, NEW item \in Items,
           GetLen(mem, r) # GetCap(mem, r), mem' = Place(mem, r, item),
           UNCHANGED <<free, arrays, owned, stray>>
    PROVE  MemInv'
  <1> DEFINE at == DataPtr(mem, r) + GetLen(mem, r) * ElementSize
  <1>1. MemTypes /\ ArrayOK(r)
    BY InvParts
  <1>2. r \in Nat /\ r + 1 \in Addrs /\ Header(r) = {r, r + 1, r + 2} /\ r + 2 < free /\ free \in Nat
    BY <1>1, HeaderWords, DynArrAssumption DEF MemTypes
  <1>3. /\ at..at + ElementSize - 1 \subseteq Data(r)
        /\ GetLen(mem, r) < GetCap(mem, r)
        /\ mem' \in [Addrs -> Nat]
        /\ mem'[r + 1] = GetLen(mem, r) + 1
        /\ \A a \in Addrs : a # r + 1 /\ a \notin at..at + ElementSize - 1 => mem'[a] = mem[a]
    BY PushInPlace
  <1> HIDE DEF at
  <1>4. \A a \in Addrs : a # r + 1 /\ a \notin Data(r) => mem'[a] = mem[a]
    BY <1>3
  <1>5. Data(r) \subseteq 0..free - 1 /\ Header(r) \cap Data(r) = {}
    BY <1>1 DEF ArrayOK
  <1>6. MemTypes'
    BY <1>1, <1>3 DEF MemTypes
  <1>8. mem'[r] = mem[r] /\ mem'[r + 2] = mem[r + 2]
    <2>1. r \in Addrs /\ r + 2 \in Addrs /\ r # r + 1 /\ r + 2 # r + 1
      BY <1>1, <1>2, HeaderWords
    <2> QED
      BY <1>2, <1>4, <1>5, <2>1
  <1>9. Data(r)' = Data(r) /\ GetCap(mem', r) = GetCap(mem, r) /\ GetLen(mem', r) = GetLen(mem, r) + 1
    BY <1>3, <1>8 DEF Data, DataPtr, GetCap, GetLen
  <1>10. GetLen(mem, r) + 1 <= GetCap(mem, r)
    BY <1>1, <1>3, HeaderWords
  <1>11. ArrayOK(r)'
    BY <1>1, <1>9, <1>10 DEF ArrayOK, Header
  <1>12. ASSUME NEW q \in arrays, q # r
         PROVE  /\ \A a \in Header(q) : mem'[a] = mem[a]
                /\ Header(q) \cap Data(r)' = {}
                /\ Data(r)' \cap Data(q) = {}
    <2>1. PairOK(q, r) /\ PairOK(r, q)
      BY <1>12, InvParts
    <2>2. \A a \in Header(q) : a \in Addrs
      BY <1>1, HeaderWords
    <2>3. \A a \in Header(q) : a # r + 1 /\ a \notin Data(r)
      BY <1>2, <2>1 DEF PairOK
    <2> QED
      BY <1>4, <1>9, <2>1, <2>2, <2>3 DEF PairOK
  <1>13. Apart'
    BY <1>2, <1>11, <1>12, OneArrayKeeps
  <1> QED
    BY <1>6, <1>13 DEF MemInv

(* A push that moves the array.                                            *)
LEMMA PushMovesKeeps ==
    ASSUME MemInv, NEW r \in arrays, r \notin stray, NEW item \in Items,
           GetLen(mem, r) = GetCap(mem, r),
           free + Room(mem, r) <= MemSize,
           free' = free + Room(mem, r),
           mem' = Place(ReAlloc(mem, r), r, item),
           UNCHANGED <<arrays, owned, stray>>
    PROVE  MemInv'
  <1>1. MemTypes /\ ArrayOK(r)
    BY InvParts
  <1>2. /\ r \in Nat /\ Header(r) = {r, r + 1, r + 2} /\ r + 2 < free
        /\ free \in Nat /\ free >= 1 /\ MemSize \in Nat
    BY <1>1, HeaderWords, DynArrAssumption DEF MemTypes
  <1>3. /\ Room(mem, r) \in Nat
        /\ NewCap(mem, r) \in Nat
        /\ GetLen(mem, r) + 1 <= NewCap(mem, r)
        /\ mem' \in [Addrs -> Nat]
        /\ mem'[r] = free
        /\ mem'[r + 1] = GetLen(mem, r) + 1
        /\ mem'[r + 2] = NewCap(mem, r)
        /\ \A a \in Addrs : a < free /\ a \notin Header(r) => mem'[a] = mem[a]
        /\ \A a \in Addrs : a >= free + Room(mem, r) => mem'[a] = mem[a]
    BY PushMoves
  <1>4. free' \in Nat /\ free' >= free /\ free' \in 1..MemSize
    BY <1>2, <1>3
  <1>5. MemTypes'
    <2>1. \A n \in Nat : n < free => n < free'
      BY <1>2, <1>4
    <2>2. \A q \in arrays : q \in Nat \ {0} /\ q + 2 < free'
      BY <1>1, <2>1 DEF MemTypes
    <2>3. \A a \in owned : a \in Nat /\ a < free'
      BY <1>1, <2>1 DEF MemTypes
    <2> QED
      BY <1>1, <1>3, <1>4, <2>2, <2>3 DEF MemTypes
  <1>7. Data(r)' = free..free' - 1 /\ GetLen(mem', r) <= GetCap(mem', r)
    <2>1. GetLen(mem', r) = GetLen(mem, r) + 1 /\ GetCap(mem', r) = NewCap(mem, r)
      BY <1>3 DEF GetCap, GetLen
    <2>2. mem'[r + 2] * ElementSize = Room(mem, r)
      BY <1>3 DEF Room
    <2>3. Data(r)' = mem'[r]..mem'[r] + mem'[r + 2] * ElementSize - 1
      BY DEF Data, DataPtr, GetCap
    <2>4. Data(r)' = free..free + Room(mem, r) - 1
      BY <1>3, <2>2, <2>3
    <2>5. free + Room(mem, r) - 1 = free' - 1
      BY <1>2, <1>3
    <2> QED
      BY <1>3, <2>1, <2>4, <2>5
  <1>8. \A a \in Data(r)' : a \in Nat /\ a >= free /\ a < free'
    BY <1>2, <1>4, <1>7
  <1>9. ArrayOK(r)'
    <2>1. Header(r) \subseteq 0..free - 1 /\ Header(r) \cap owned = {}
      BY <1>1 DEF ArrayOK
    <2>2. \A a \in owned : a \in Nat /\ a < free
      BY <1>1 DEF MemTypes
    <2>3. Header(r) \cup Data(r)' \subseteq 0..free' - 1
      BY <1>2, <1>4, <1>8, <2>1
    <2>4. Header(r) \cap Data(r)' = {} /\ Data(r)' \cap owned = {}
      BY <1>2, <1>8, <2>1, <2>2
    <2> QED
      BY <1>7, <2>1, <2>3, <2>4 DEF ArrayOK, Header
  <1>10. ASSUME NEW q \in arrays, q # r
         PROVE  /\ \A a \in Header(q) : mem'[a] = mem[a]
                /\ Header(q) \cap Data(r)' = {}
                /\ Data(r)' \cap Data(q) = {}
    <2>1. PairOK(q, r) /\ ArrayOK(q)
      BY <1>10, InvParts
    <2>2. \A a \in Header(q) : a \in Addrs
      BY <1>1, HeaderWords
    <2>3. \A a \in Header(q) \cup Data(q) : a \in Nat /\ a < free
      BY <1>2, <2>1 DEF ArrayOK
    <2>4. \A a \in Header(q) : a \notin Header(r)
      BY <2>1 DEF PairOK
    <2> QED
      BY <1>2, <1>3, <1>8, <2>2, <2>3, <2>4
  <1>11. Apart'
    BY <1>4, <1>9, <1>10, OneArrayKeeps
  <1> QED
    BY <1>5, <1>11 DEF MemInv

(* The surrounding code allocates a word.                                  *)
LEMMA MemAllocKeeps ==
    ASSUME MemInv, MemAlloc
    PROVE  MemInv'
  <1>1. MemTypes
    BY InvParts
  <1>2. /\ free \in Nat /\ free >= 1 /\ free < MemSize /\ MemSize \in Nat
        /\ free' = free + 1 /\ owned' = owned \cup {free} /\ mem' = mem /\ arrays' = arrays /\ stray' = stray
    BY <1>1, DynArrAssumption DEF MemAlloc, MemTypes
  <1>3. MemTypes'
    BY <1>1, <1>2 DEF MemTypes
  <1>5. ASSUME NEW r \in arrays PROVE Data(r)' = Data(r)
    BY <1>2 DEF Data, DataPtr, GetCap
  <1>6. ASSUME NEW r \in arrays PROVE ArrayOK(r)'
    <2>1. ArrayOK(r)
      BY InvParts
    <2>2. Header(r) \cup Data(r) \subseteq 0..free' - 1 /\ free \notin Header(r) \cup Data(r)
      BY <1>2, <2>1 DEF ArrayOK
    <2> QED
      BY <1>2, <1>5, <2>1, <2>2 DEF ArrayOK, Header
  <1>7. ASSUME NEW r \in arrays, NEW q \in arrays, r # q
        PROVE  PairOK(r, q)'
    <2>1. PairOK(r, q)
      BY <1>7, InvParts
    <2> QED
      BY <1>5, <2>1 DEF PairOK, Header
  <1>8. Apart'
    BY <1>2, <1>6, <1>7, ApartByPartsNext
  <1> QED
    BY <1>3, <1>8 DEF MemInv

(* A step that writes only words of the surrounding code and words beyond  *)
(* the free memory pointer leaves the arrays alone.                        *)
LEMMA OutsideKeeps ==
    ASSUME MemInv, UNCHANGED <<free, arrays, owned, stray>>, mem' \in [Addrs -> Nat],
           \A b \in Addrs : b < free /\ b \notin owned => mem'[b] = mem[b]
    PROVE  MemInv' /\ \A r \in arrays : \A b \in Header(r) \cup Data(r) : mem'[b] = mem[b]
  <1>1. MemTypes
    BY InvParts
  <1>2. MemTypes'
    BY <1>1 DEF MemTypes
  <1>3. free \in Nat /\ free <= MemSize /\ MemSize \in Nat
    BY <1>1, DynArrAssumption DEF MemTypes
  <1>4. ASSUME NEW r \in arrays, NEW b \in Header(r) \cup Data(r)
        PROVE  mem'[b] = mem[b]
    <2>1. b \in 0..free - 1 /\ b \notin owned
      BY <1>4, InvParts DEF ArrayOK
    <2> QED
      BY <1>3, <2>1 DEF Addrs
  <1>5. ASSUME NEW r \in arrays
        PROVE  /\ GetLen(mem', r) = GetLen(mem, r)
               /\ GetCap(mem', r) = GetCap(mem, r)
               /\ Data(r)' = Data(r)
    BY <1>1, <1>4, HeaderSame
  <1>6. ASSUME NEW r \in arrays PROVE ArrayOK(r)'
    <2>1. ArrayOK(r)
      BY InvParts
    <2> QED
      BY <1>5, <2>1 DEF ArrayOK, Header
  <1>7. ASSUME NEW r \in arrays, NEW q \in arrays, r # q
        PROVE  PairOK(r, q)'
    <2>1. PairOK(r, q)
      BY <1>7, InvParts
    <2> QED
      BY <1>5, <2>1 DEF PairOK, Header
  <1>8. Apart'
    BY <1>6, <1>7, ApartByPartsNext
  <1> QED
    BY <1>2, <1>4, <1>8 DEF MemInv

(* The surrounding code writes a word of its own.                          *)
LEMMA MemWriteKeeps ==
    ASSUME MemInv, NEW a \in owned, NEW w \in Words, MemWrite(a, w)
    PROVE  MemInv' /\ \A r \in arrays : \A b \in Header(r) \cup Data(r) : mem'[b] = mem[b]
  <1>1. mem \in [Addrs -> Nat] /\ w \in Nat
    BY InvParts, DynArrAssumption DEF MemTypes
  <1>2. mem' = [mem EXCEPT ![a] = w] /\ UNCHANGED <<free, arrays, owned, stray>>
    BY DEF MemWrite
  <1>3. mem' \in [Addrs -> Nat] /\ \A b \in Addrs : b # a => mem'[b] = mem[b]
    BY <1>1, <1>2
  <1> QED
    BY <1>2, <1>3, OutsideKeeps

(* The surrounding code encodes data beyond the free memory pointer.       *)
LEMMA EncodeKeeps ==
    ASSUME MemInv, NEW n \in 1..ScratchSize, NEW data \in [1..n -> Words], Encode(n, data)
    PROVE  MemInv' /\ \A r \in arrays : \A b \in Header(r) \cup Data(r) : mem'[b] = mem[b]
  <1>1. mem \in [Addrs -> Nat] /\ free \in Nat /\ n \in Nat
    BY InvParts, DynArrAssumption DEF MemTypes
  <1>2. /\ mem' = [a \in Addrs |-> IF a \in free..free + n - 1 THEN data[a - free + 1] ELSE mem[a]]
        /\ UNCHANGED <<free, arrays, owned, stray>>
    BY DEF Encode
  <1>3. \A a \in free..free + n - 1 : data[a - free + 1] \in Nat
    <2>1. \A a \in free..free + n - 1 : a - free + 1 \in 1..n
      BY <1>1
    <2> QED
      BY <2>1, DynArrAssumption
  <1>4. mem' \in [Addrs -> Nat]
    BY <1>1, <1>2, <1>3
  <1>5. \A b \in Addrs : b < free => mem'[b] = mem[b]
    BY <1>1, <1>2, DynArrAssumption DEF Addrs
  <1> QED
    BY <1>2, <1>4, <1>5, OutsideKeeps

(* The invariant holds until something is pushed to a stray array.         *)
LEMMA MemInvHolds ==
    MemSpec => [](spoilt \/ MemInv)
  <1>1. MemInit => MemInv
    BY DynArrAssumption DEF MemInit, MemInv, MemTypes, Apart, Addrs
  <1>2. (spoilt \/ MemInv) /\ [MemNext]_memVars => (spoilt \/ MemInv)'
    <2> SUFFICES ASSUME spoilt \/ MemInv, [MemNext]_memVars, ~spoilt' PROVE MemInv'
      OBVIOUS
    <2>1. CASE UNCHANGED memVars
      BY <2>1 DEF memVars, MemInv, MemTypes, Apart, ArrayOK, PairOK, Data, DataPtr, GetLen, GetCap, Header
    <2> SUFFICES ASSUME MemNext, MemInv PROVE MemInv'
      BY <2>1 DEF MemNext
    <2>2. CASE Alloc
      BY <2>2, AllocKeeps
    <2>3. ASSUME NEW r \in arrays, ClearArray(r) PROVE MemInv'
      BY <2>3, ClearKeeps
    <2>4. ASSUME NEW r \in arrays, NEW item \in Items, PushItem(r, item) PROVE MemInv'
      <3>1. r \notin stray
        BY <2>4 DEF PushItem
      <3> QED
        BY <2>4, <3>1, PushInPlaceKeeps, PushMovesKeeps DEF PushItem
    <2>5. CASE MemAlloc
      BY <2>5, MemAllocKeeps
    <2>6. ASSUME NEW a \in owned, NEW w \in Words, MemWrite(a, w) PROVE MemInv'
      BY <2>6, MemWriteKeeps
    <2>7. ASSUME NEW n \in 1..ScratchSize, NEW data \in [1..n -> Words], Encode(n, data) PROVE MemInv'
      BY <2>7, EncodeKeeps
    <2> QED
      BY <2>2, <2>3, <2>4, <2>5, <2>6, <2>7 DEF MemNext
  <1> QED
    BY <1>1, <1>2, PTL DEF MemSpec

(* Whatever the surrounding code encodes beyond the free memory pointer,   *)
(* until something is pushed to a stray array headers and data of all      *)
(* arrays and the memory of the surrounding code stay apart, below the     *)
(* free memory pointer, and no array that began empty or was cleared       *)
(* outgrows its capacity.                                                  *)
THEOREM ArraysKeepApart == MemSpec => []ArraysApart
  <1>1. spoilt \/ MemInv => ArraysApart
    BY ApartByParts DEF MemInv, ArraysApart
  <1> QED
    BY <1>1, MemInvHolds, PTL

-----------------------------------------------------------------------------
(* The arrays implement sequences.                                         *)

(* The address of a word of an element, and where it lies.                 *)
Word(m, r, n, j) == DataPtr(m, r) + ((n - 1) * ElementSize + (j - 1))

ElementSet == [1..ElementSize -> Nat]

(* The arrays that are sequences.                                          *)
Tidy == arrays \ stray

(* The words of the elements lie in the data of their array.               *)
LEMMA WordInData ==
    ASSUME MemInv, NEW r \in Tidy, NEW n \in 1..GetLen(mem, r), NEW j \in 1..ElementSize
    PROVE  /\ (n - 1) * ElementSize + (j - 1) \in 0..GetLen(mem, r) * ElementSize - 1
           /\ Word(mem, r, n, j) \in Data(r)
           /\ Word(mem, r, n, j) \in Addrs
           /\ mem[Word(mem, r, n, j)] \in Nat
  <1> DEFINE len == GetLen(mem, r)
             cap == GetCap(mem, r)
             ptr == DataPtr(mem, r)
             off == (n - 1) * ElementSize
  <1>1. MemTypes /\ ArrayOK(r) /\ r \in arrays /\ r \notin stray
    BY InvParts DEF Tidy
  <1>2. ptr \in Nat /\ len \in Nat /\ cap \in Nat /\ len <= cap
    BY <1>1, HeaderWords DEF ArrayOK
  <1>3. Data(r) = ptr..ptr + cap * ElementSize - 1 /\ Data(r) \subseteq 0..free - 1
    BY <1>1 DEF Data, ArrayOK
  <1>4. ElementSize \in Nat /\ ElementSize >= 1 /\ MemSize \in Nat
    BY DynArrAssumption
  <1> HIDE DEF len, cap, ptr
  <1>5. n - 1 \in Nat /\ n - 1 < len
    BY <1>2 DEF len
  <1>6. /\ off \in Nat
        /\ len * ElementSize \in Nat
        /\ cap * ElementSize \in Nat
        /\ off + ElementSize <= len * ElementSize
        /\ len * ElementSize <= cap * ElementSize
    BY <1>2, <1>5, Sizes
  <1> HIDE DEF off
  <1>7. off + (j - 1) \in 0..len * ElementSize - 1
    BY <1>4, <1>6
  <1>8. ptr + (off + (j - 1)) \in Data(r)
    BY <1>2, <1>3, <1>6, <1>7
  <1>9. free \in Nat /\ free <= MemSize /\ mem \in [Addrs -> Nat]
    BY <1>1, <1>4 DEF MemTypes
  <1>10. ptr + (off + (j - 1)) \in Addrs
    BY <1>3, <1>4, <1>8, <1>9 DEF Addrs
  <1> QED
    BY <1>7, <1>8, <1>9, <1>10 DEF Word, len, ptr, off

(* The elements of an array, read word by word.                            *)
ElementsRead(r) ==
    /\ Elements(r) \in Seq(ElementSet)
    /\ Len(Elements(r)) = GetLen(mem, r)
    /\ \A n \in 1..GetLen(mem, r) :
        Elements(r)[n] = [j \in 1..ElementSize |-> mem[Word(mem, r, n, j)]]

AllRead == \A r \in Tidy : ElementsRead(r)

(* The elements that forEachDo visits are read from these words.           *)
LEMMA ElementsAre ==
    ASSUME MemInv, NEW r \in Tidy
    PROVE  ElementsRead(r)
  <1>1. GetLen(mem, r) \in Nat /\ DataPtr(mem, r) \in Nat
    BY HeaderWords, InvParts DEF Tidy
  <1>2. ASSUME NEW n \in 1..GetLen(mem, r), NEW j \in 1..ElementSize
        PROVE  DataPtr(mem, r) + (n - 1) * ElementSize + j - 1 = Word(mem, r, n, j)
    <2>1. (n - 1) * ElementSize \in Nat
      <3>1. n - 1 \in Nat
        BY <1>1
      <3> QED
        BY <3>1, Sizes
    <2>2. j \in Nat
      BY DynArrAssumption
    <2> QED
      BY <1>1, <2>1, <2>2 DEF Word
  <1>3. Elements(r) = [n \in 1..GetLen(mem, r) |-> [j \in 1..ElementSize |-> mem[Word(mem, r, n, j)]]]
    BY <1>2 DEF Elements
  <1>4. \A n \in 1..GetLen(mem, r) : [j \in 1..ElementSize |-> mem[Word(mem, r, n, j)]] \in ElementSet
    BY WordInData DEF ElementSet
  <1>5. Elements(r) \in [1..GetLen(mem, r) -> ElementSet]
    BY <1>3, <1>4
  <1>6. Elements(r) \in Seq(ElementSet)
    BY <1>1, <1>5, SeqDef
  <1>7. Len(Elements(r)) = GetLen(mem, r)
    BY <1>1, <1>5, <1>6, LenProperties
  <1> QED
    BY <1>3, <1>6, <1>7 DEF ElementsRead

(* The same after a step.                                                  *)
LEMMA ElementsAreNext == MemInv' => AllRead'
  <1>1. MemInv => AllRead
    BY ElementsAre DEF AllRead
  <1> QED
    BY <1>1, PTL

(* An array is read as before when its words are as before.                *)
LEMMA ElementsSame ==
    ASSUME MemInv, MemInv', NEW r \in Tidy, r \in Tidy',
           \A a \in Header(r) \cup Data(r) : mem'[a] = mem[a]
    PROVE  Elements(r)' = Elements(r)
  <1>1. DataPtr(mem', r) = DataPtr(mem, r) /\ GetLen(mem', r) = GetLen(mem, r)
    BY HeaderSame, InvParts DEF Tidy
  <1>2. ElementsRead(r) /\ ElementsRead(r)'
    BY ElementsAre, ElementsAreNext DEF AllRead
  <1>3. \A n \in 1..GetLen(mem, r), j \in 1..ElementSize :
            mem'[Word(mem', r, n, j)] = mem[Word(mem, r, n, j)]
    BY <1>1, WordInData DEF Word
  <1>4. ASSUME NEW n \in 1..GetLen(mem, r)
        PROVE  Elements(r)'[n] = Elements(r)[n]
    <2>1. Elements(r)'[n] = [j \in 1..ElementSize |-> mem'[Word(mem', r, n, j)]]
      BY <1>1, <1>2 DEF ElementsRead
    <2>2. Elements(r)[n] = [j \in 1..ElementSize |-> mem[Word(mem, r, n, j)]]
      BY <1>2 DEF ElementsRead
    <2> QED
      BY <1>3, <2>1, <2>2
  <1> QED
    BY <1>1, <1>2, <1>4, SeqEqual DEF ElementsRead

(* An array is read with one more element when its words are the old ones, *)
(* wherever they lie now, followed by those of the element.                *)
LEMMA ElementsGrow ==
    ASSUME MemInv, MemInv', NEW r \in Tidy, r \in Tidy', NEW item \in Items,
           GetLen(mem', r) = GetLen(mem, r) + 1,
           \A n \in 1..GetLen(mem, r), j \in 1..ElementSize :
                mem'[Word(mem', r, n, j)] = mem[Word(mem, r, n, j)],
           \A j \in 1..ElementSize : mem'[Word(mem', r, GetLen(mem, r) + 1, j)] = item[j]
    PROVE  Elements(r)' = Append(Elements(r), item)
  <1> DEFINE len == GetLen(mem, r)
             old == Elements(r)
             new == Elements(r)'
  <1>1. len \in Nat
    BY HeaderWords, InvParts DEF Tidy
  <1>2. item \in ElementSet /\ item = [j \in 1..ElementSize |-> item[j]]
    BY DynArrAssumption DEF ElementSet
  <1>3. ElementsRead(r) /\ ElementsRead(r)'
    BY ElementsAre, ElementsAreNext DEF AllRead
  <1>4. old \in Seq(ElementSet) /\ Len(old) = len
    BY <1>3 DEF ElementsRead
  <1>5. new \in Seq(ElementSet) /\ Len(new) = len + 1
    BY <1>3 DEF ElementsRead
  <1>6. \A n \in 1..len : new[n] = old[n]
    <2> SUFFICES ASSUME NEW n \in 1..len PROVE new[n] = old[n]
      OBVIOUS
    <2>1. n \in 1..len + 1
      BY <1>1
    <2>2. new[n] = [j \in 1..ElementSize |-> mem'[Word(mem', r, n, j)]]
      BY <1>3, <2>1 DEF ElementsRead
    <2>3. old[n] = [j \in 1..ElementSize |-> mem[Word(mem, r, n, j)]]
      BY <1>3 DEF ElementsRead
    <2> QED
      BY <2>2, <2>3
  <1>7. new[len + 1] = item
    <2>1. len + 1 \in 1..len + 1
      BY <1>1
    <2>2. new[len + 1] = [j \in 1..ElementSize |-> mem'[Word(mem', r, len + 1, j)]]
      BY <1>3, <2>1 DEF ElementsRead
    <2> QED
      BY <1>2, <2>2
  <1> HIDE DEF len, old, new
  <1>8. /\ Append(old, item) \in Seq(ElementSet)
        /\ Len(Append(old, item)) = len + 1
        /\ \A n \in 1..len : Append(old, item)[n] = old[n]
        /\ Append(old, item)[len + 1] = item
    BY <1>2, <1>4, AppendProperties
  <1>9. \A n \in 1..len + 1 : n \in 1..len \/ n = len + 1
    BY <1>1
  <1>10. \A n \in 1..len + 1 : new[n] = Append(old, item)[n]
    BY <1>6, <1>7, <1>8, <1>9
  <1>11. new = Append(old, item)
    BY <1>5, <1>8, <1>10, SeqEqual
  <1> QED
    BY <1>11 DEF new, old

(* The other arrays are read as before when one of them is at work.        *)
LEMMA OthersSame ==
    ASSUME MemInv, MemInv', NEW r \in arrays, Tidy \subseteq Tidy' \cup {r},
           \A q \in Tidy : q # r => \A a \in Header(q) \cup Data(q) : mem'[a] = mem[a]
    PROVE  \A q \in Tidy : q # r => Elements(q)' = Elements(q)
  BY ElementsSame

(* An array of length zero is the empty sequence.                          *)
LEMMA EmptyRead ==
    ASSUME MemInv', NEW r \in Tidy', GetLen(mem', r) = 0
    PROVE  Elements(r)' = <<>>
  <1>1. ElementsRead(r)'
    BY ElementsAreNext DEF AllRead
  <1>2. Elements(r)' \in Seq(ElementSet) /\ Len(Elements(r)') = 0
    BY <1>1 DEF ElementsRead
  <1> QED
    BY <1>2, EmptySeq

(* A sequence more, and the others as before, is New.                      *)
LEMMA NewList ==
    ASSUME NEW r \in Addrs, r \notin Tidy, Tidy' = Tidy \cup {r}, Elements(r)' = <<>>,
           \A q \in Tidy : Elements(q)' = Elements(q)
    PROVE  Sequence!Next
  <1>1. DOMAIN Lists = Tidy
    BY DEF Lists, Tidy
  <1>2. Lists' = [q \in DOMAIN Lists \cup {r} |-> IF q = r THEN <<>> ELSE Lists[q]]
    BY <1>1 DEF Lists, Tidy
  <1> QED
    BY <1>1, <1>2 DEF Sequence!Next, Sequence!New

(* alloc is New when the header happens to be empty, and otherwise changes *)
(* no sequence.                                                            *)
LEMMA AllocRefines ==
    ASSUME MemInv, MemInv', Alloc
    PROVE  Sequence!Next \/ Lists' = Lists
  <1>1. MemTypes
    BY InvParts
  <1>2. /\ free \in Nat /\ free + 3 <= MemSize /\ MemSize \in Nat
        /\ mem' = mem /\ arrays' = arrays \cup {free}
    BY <1>1, DynArrAssumption DEF MemTypes, Alloc
  <1>3. free \in Addrs /\ free \notin arrays /\ free \notin stray
    BY <1>1, <1>2 DEF MemTypes, Addrs
  <1>4. \A q \in Tidy : Elements(q)' = Elements(q)
    BY <1>2 DEF Elements, DataPtr, GetLen
  <1>5. CASE Empty(mem, free)
    <2>1. stray' = stray
      BY <1>5 DEF Alloc
    <2>2. Tidy' = Tidy \cup {free} /\ free \notin Tidy
      BY <1>2, <1>3, <2>1 DEF Tidy
    <2>3. PICK new \in Addrs : new = free
      BY <1>3
    <2>4. GetLen(mem', new) = 0 /\ new \in Tidy'
      BY <1>2, <1>5, <2>2, <2>3 DEF Empty, GetLen
    <2>5. Elements(new)' = <<>>
      BY <2>4, EmptyRead
    <2> QED
      BY <1>4, <2>2, <2>3, <2>5, NewList
  <1>6. CASE ~Empty(mem, free)
    <2>1. stray' = stray \cup {free}
      BY <1>6 DEF Alloc
    <2>2. arrays' \ stray' = arrays \ stray
      BY <1>2, <1>3, <2>1
    <2> QED
      BY <1>4, <2>2 DEF Lists, Tidy
  <1> QED
    BY <1>5, <1>6

(* clearArray is Clear; of a stray array it is New.                        *)
LEMMA ClearRefines ==
    ASSUME MemInv, MemInv', NEW r \in arrays, ClearArray(r)
    PROVE  Sequence!Next
  <1>1. MemTypes
    BY InvParts
  <1>2. r \in Nat /\ r \in Addrs /\ r + 1 \in Addrs /\ r + 2 \in Addrs /\ Header(r) = {r, r + 1, r + 2}
    BY <1>1, HeaderWords
  <1>3. /\ arrays' = arrays
        /\ stray' = stray \ {r}
        /\ mem'[r + 1] = 0
        /\ \A a \in Addrs : a \notin Header(r) => mem'[a] = mem[a]
    BY <1>1, <1>2 DEF ClearArray, MemTypes
  <1>4. Tidy' = Tidy \cup {r}
    BY <1>3 DEF Tidy
  <1>5. Elements(r)' = <<>>
    BY <1>3, <1>4, EmptyRead DEF GetLen
  <1>6. ASSUME NEW q \in Tidy, q # r, NEW a \in Header(q) \cup Data(q)
        PROVE  mem'[a] = mem[a]
    <2>1. PairOK(q, r) /\ PairOK(r, q) /\ ArrayOK(q)
      BY <1>6, InvParts DEF Tidy
    <2>2. a \in Addrs
      BY <1>1, <1>6, <2>1, DynArrAssumption DEF ArrayOK, MemTypes, Addrs
    <2> QED
      BY <1>3, <1>6, <2>1, <2>2 DEF PairOK
  <1>7. \A q \in Tidy : q # r => Elements(q)' = Elements(q)
    BY <1>4, <1>6, OthersSame
  <1>8. CASE r \in Tidy
    <2>1. r \in DOMAIN Lists /\ Tidy' = Tidy
      BY <1>4, <1>8 DEF Lists, Tidy
    <2>2. Lists' = [Lists EXCEPT ![r] = <<>>]
      BY <1>5, <1>7, <2>1 DEF Lists, Tidy
    <2> QED
      BY <2>1, <2>2 DEF Sequence!Next, Sequence!Clear
  <1>9. CASE r \notin Tidy
    BY <1>2, <1>4, <1>5, <1>7, <1>9, NewList
  <1> QED
    BY <1>8, <1>9

(* pushItem is Push, whether or not the array moves.                       *)
LEMMA PushRefines ==
    ASSUME MemInv, MemInv', NEW r \in Tidy, NEW item \in Items, PushItem(r, item)
    PROVE  Sequence!Next
  <1> DEFINE len == GetLen(mem, r)
             ptr == DataPtr(mem, r)
             size == len * ElementSize
  <1>1. MemTypes /\ ArrayOK(r) /\ r \in arrays /\ r \notin stray
    BY InvParts DEF Tidy
  <1>2. /\ r \in Nat /\ r \in Addrs /\ r + 1 \in Addrs /\ r + 2 \in Addrs
        /\ ptr \in Nat /\ len \in Nat
        /\ Header(r) = {r, r + 1, r + 2} /\ Header(r) \cap Data(r) = {}
    BY <1>1, HeaderWords DEF ArrayOK
  <1>3. size \in Nat /\ ElementSize \in Nat /\ free \in Nat
    BY <1>1, <1>2, Sizes, DynArrAssumption DEF MemTypes
  <1>4. Tidy' = Tidy
    BY DEF PushItem, Tidy
  <1>5. ASSUME NEW q \in Tidy, q # r, NEW a \in Header(q) \cup Data(q)
        PROVE  /\ a \in Addrs /\ a < free
               /\ a \notin Header(r) /\ a \notin Data(r)
    <2>1. PairOK(q, r) /\ PairOK(r, q) /\ ArrayOK(q)
      BY <1>1, <1>5, InvParts DEF Tidy
    <2>2. a \in Addrs /\ a < free
      <3>1. a \in 0..free - 1
        BY <1>5, <2>1 DEF ArrayOK
      <3>2. free <= MemSize /\ MemSize \in Nat
        BY <1>1, DynArrAssumption DEF MemTypes
      <3> QED
        BY <1>3, <3>1, <3>2 DEF Addrs
    <2> QED
      BY <1>5, <2>1, <2>2 DEF PairOK
  <1>6. SUFFICES /\ Elements(r)' = Append(Elements(r), item)
                 /\ \A q \in Tidy : q # r => Elements(q)' = Elements(q)
    <2>1. Lists' = [Lists EXCEPT ![r] = Append(@, item)]
      BY <1>4, <1>6 DEF Lists, Tidy
    <2>2. r \in DOMAIN Lists
      BY DEF Lists, Tidy
    <2> QED
      BY <2>1, <2>2 DEF Sequence!Next, Sequence!Push
  <1>7. CASE GetLen(mem, r) # GetCap(mem, r)
    <2> DEFINE at == ptr + size
    <2>1. mem' = Place(mem, r, item)
      BY <1>7 DEF PushItem
    <2>2. /\ at \in Nat
          /\ at..at + ElementSize - 1 \subseteq Data(r)
          /\ mem'[r + 1] = len + 1
          /\ \A a \in Addrs : a # r + 1 /\ a \notin at..at + ElementSize - 1 => mem'[a] = mem[a]
          /\ \A j \in 1..ElementSize : mem'[at + j - 1] = item[j]
      BY <1>1, <1>7, <2>1, PushInPlace
    <2>3. DataPtr(mem', r) = ptr /\ GetLen(mem', r) = len + 1
      <3>1. r # r + 1 /\ r \notin at..at + ElementSize - 1
        BY <1>2, <2>2
      <3> QED
        BY <1>2, <2>2, <3>1 DEF DataPtr, GetLen
    <2>4. ASSUME NEW n \in 1..len, NEW j \in 1..ElementSize
          PROVE  mem'[Word(mem', r, n, j)] = mem[Word(mem, r, n, j)]
      <3>1. /\ (n - 1) * ElementSize + (j - 1) \in 0..size - 1
            /\ Word(mem, r, n, j) \in Data(r)
            /\ Word(mem, r, n, j) \in Addrs
        BY WordInData
      <3>2. Word(mem', r, n, j) = Word(mem, r, n, j)
        BY <2>3 DEF Word
      <3>3. Word(mem, r, n, j) < at
        BY <1>2, <1>3, <3>1 DEF Word
      <3>4. Word(mem, r, n, j) # r + 1 /\ Word(mem, r, n, j) \notin at..at + ElementSize - 1
        BY <1>2, <1>3, <2>2, <3>1, <3>3
      <3> QED
        BY <2>2, <3>1, <3>2, <3>4
    <2>5. ASSUME NEW j \in 1..ElementSize
          PROVE  mem'[Word(mem', r, len + 1, j)] = item[j]
      <3>1. Word(mem', r, len + 1, j) = at + j - 1
        <4>1. ((len + 1) - 1) * ElementSize = size
          BY <1>2
        <4> QED
          BY <1>2, <1>3, <2>3, <4>1 DEF Word
      <3> QED
        BY <2>2, <3>1
    <2>6. Elements(r)' = Append(Elements(r), item)
      BY <1>4, <2>3, <2>4, <2>5, ElementsGrow
    <2>7. \A q \in Tidy : q # r => \A a \in Header(q) \cup Data(q) : mem'[a] = mem[a]
      BY <1>2, <1>5, <2>2
    <2>8. \A q \in Tidy : q # r => Elements(q)' = Elements(q)
      BY <1>1, <1>4, <2>7, OthersSame
    <2> QED
      BY <2>6, <2>8
  <1>8. CASE GetLen(mem, r) = GetCap(mem, r)
    <2>1. free + Room(mem, r) <= MemSize /\ mem' = Place(ReAlloc(mem, r), r, item)
      BY <1>8 DEF PushItem
    <2>2. /\ mem'[r] = free
          /\ mem'[r + 1] = len + 1
          /\ \A a \in Addrs : a < free /\ a \notin Header(r) => mem'[a] = mem[a]
          /\ \A i \in 0..size - 1 : mem'[free + i] = mem[ptr + i]
          /\ \A j \in 1..ElementSize : mem'[free + size + j - 1] = item[j]
      BY <1>1, <1>8, <2>1, PushMoves
    <2>3. DataPtr(mem', r) = free /\ GetLen(mem', r) = len + 1
      BY <2>2 DEF DataPtr, GetLen
    <2>4. ASSUME NEW n \in 1..len, NEW j \in 1..ElementSize
          PROVE  mem'[Word(mem', r, n, j)] = mem[Word(mem, r, n, j)]
      <3>1. (n - 1) * ElementSize + (j - 1) \in 0..size - 1
        BY WordInData
      <3> QED
        BY <2>2, <2>3, <3>1 DEF Word
    <2>5. ASSUME NEW j \in 1..ElementSize
          PROVE  mem'[Word(mem', r, len + 1, j)] = item[j]
      <3>1. Word(mem', r, len + 1, j) = free + size + j - 1
        <4>1. ((len + 1) - 1) * ElementSize = size
          BY <1>2
        <4> QED
          BY <1>2, <1>3, <2>3, <4>1 DEF Word
      <3> QED
        BY <2>2, <3>1
    <2>6. Elements(r)' = Append(Elements(r), item)
      BY <1>4, <2>3, <2>4, <2>5, ElementsGrow
    <2>7. \A q \in Tidy : q # r => \A a \in Header(q) \cup Data(q) : mem'[a] = mem[a]
      BY <1>5, <2>2
    <2>8. \A q \in Tidy : q # r => Elements(q)' = Elements(q)
      BY <1>1, <1>4, <2>7, OthersSame
    <2> QED
      BY <2>6, <2>8
  <1> QED
    BY <1>7, <1>8

(* Whatever the surrounding code encodes beyond the free memory pointer,   *)
(* the arrays that began empty or were cleared are independent sequences:  *)
(* clearArray and pushItem work on the sequence they are given, wherever   *)
(* its elements are moved to, a stray array becomes one when it is         *)
(* cleared, and the surrounding code changes none, until something is      *)
(* pushed to a stray array.                                                *)
THEOREM ArraysImplementSequences == MemSpec => ImplementsSequences
  <1>1. MemInit => Sequence!Init
    <2> SUFFICES ASSUME MemInit PROVE Lists = <<>>
      BY DEF Sequence!Init
    <2>1. arrays \ stray = {}
      BY DEF MemInit
    <2> QED
      BY <2>1 DEF Lists
  <1>2. (spoilt \/ MemInv) /\ (spoilt \/ MemInv)' /\ [MemNext]_memVars => [~spoilt' => Sequence!Next]_Lists
    <2> SUFFICES ASSUME spoilt \/ MemInv, ~spoilt' => MemInv', ~spoilt', [MemNext]_memVars
                 PROVE  Sequence!Next \/ Lists' = Lists
      OBVIOUS
    <2>1. CASE UNCHANGED memVars
      BY <2>1 DEF memVars, Lists, Elements, DataPtr, GetLen
    <2> SUFFICES ASSUME MemNext, MemInv, MemInv' PROVE Sequence!Next \/ Lists' = Lists
      BY <2>1 DEF MemNext
    <2>2. CASE Alloc
      BY <2>2, AllocRefines
    <2>3. ASSUME NEW r \in arrays, ClearArray(r) PROVE Sequence!Next
      BY <2>3, ClearRefines
    <2>4. ASSUME NEW r \in arrays, NEW item \in Items, PushItem(r, item) PROVE Sequence!Next
      <3>1. r \in Tidy
        BY <2>4 DEF PushItem, Tidy
      <3> QED
        BY <2>4, <3>1, PushRefines
    <2>5. CASE MemAlloc
      BY <2>5 DEF MemAlloc, Lists, Elements, DataPtr, GetLen
    <2>6. ASSUME UNCHANGED <<arrays, stray>>, \A r \in arrays : \A b \in Header(r) \cup Data(r) : mem'[b] = mem[b]
          PROVE  Lists' = Lists
      <3>1. \A r \in Tidy : Elements(r)' = Elements(r)
        BY <2>6, ElementsSame DEF Tidy
      <3> QED
        BY <2>6, <3>1 DEF Lists, Tidy
    <2>7. ASSUME NEW a \in owned, NEW w \in Words, MemWrite(a, w) PROVE Lists' = Lists
      BY <2>6, <2>7, MemWriteKeeps DEF MemWrite
    <2>8. ASSUME NEW n \in 1..ScratchSize, NEW data \in [1..n -> Words], Encode(n, data) PROVE Lists' = Lists
      BY <2>6, <2>8, EncodeKeeps DEF Encode
    <2> QED
      BY <2>2, <2>3, <2>4, <2>5, <2>7, <2>8 DEF MemNext
  <1> QED
    BY <1>1, <1>2, MemInvHolds, PTL DEF MemSpec, ImplementsSequences

=============================================================================
