------------------------------- MODULE DynArr -------------------------------
(***************************************************************************)
(* The dynamic arrays in EVM memory that hold the lists of the rule        *)
(* network (DynArrUtils), over CompilerUtils::allocateMemory.  Memory is   *)
(* counted in words of 32 bytes.  An array is three words, data pointer,   *)
(* length and capacity; its data moves to a larger piece of memory when    *)
(* length and capacity meet.  Between these operations the surrounding     *)
(* code allocates memory of its own, writes what it owns, and encodes data *)
(* beyond the free memory pointer without moving the pointer, as the code  *)
(* for events, calls and hashes does.  Memory never shrinks and is never   *)
(* cleared, so the header of a new array may show what was encoded there:  *)
(* such an array is stray until it is cleared, and a push to it may write  *)
(* anywhere.  popItem, which no code uses, is left out.                    *)
(***************************************************************************)
EXTENDS Naturals, Sequences, FiniteSets

CONSTANTS
    ElementSize,    \* words of an element
    Items,          \* elements
    Words,          \* words the surrounding code writes
    MemSize,        \* bound: words of memory, for the gas they cost
    MaxOwned,       \* bound: words the surrounding code allocates
    ScratchSize,    \* bound: words of an encoding
    MaxEncodings    \* bound: encodings beyond the free memory pointer

ASSUME DynArrAssumption ==
    /\ ElementSize \in Nat \ {0}
    /\ Items \subseteq [1..ElementSize -> Nat]
    /\ Words \subseteq Nat
    /\ MemSize \in Nat \ {0}
    /\ MaxOwned \in Nat
    /\ ScratchSize \in Nat
    /\ MaxEncodings \in Nat

Addrs == 0..MemSize - 1

VARIABLES
    mem,    \* the words of memory
    free,   \* the free memory pointer
    arrays, \* addresses of the arrays allocated so far
    owned,  \* words the surrounding code has allocated
    encodings,  \* number of encodings so far
    stray,  \* history: arrays whose header was not empty when allocated,
            \* and that were not cleared since
    spoilt  \* history: something was pushed to a stray array

memVars == <<mem, free, arrays, owned, encodings, stray, spoilt>>

(* Word 0 stands for the memory below the first free word, in which the    *)
(* free memory pointer itself lies.                                        *)
MemInit ==
    /\ mem = [a \in Addrs |-> 0]
    /\ free = 1
    /\ arrays = {}
    /\ owned = {}
    /\ encodings = 0
    /\ stray = {}
    /\ spoilt = FALSE

-----------------------------------------------------------------------------
DataPtr(m, r) == m[r]
GetLen(m, r) == m[r + 1]
GetCap(m, r) == m[r + 2]

Empty(m, r) == GetLen(m, r) = 0 /\ GetCap(m, r) = 0

(* alloc takes three words and writes none of them.                        *)
Alloc ==
    /\ free + 3 <= MemSize
    /\ free' = free + 3
    /\ arrays' = arrays \cup {free}
    /\ stray' = IF Empty(mem, free) THEN stray ELSE stray \cup {free}
    /\ UNCHANGED <<mem, owned, encodings, spoilt>>

ClearArray(r) ==
    /\ mem' = [mem EXCEPT ![r] = 0, ![r + 1] = 0, ![r + 2] = 0]
    /\ stray' = stray \ {r}
    /\ UNCHANGED <<free, arrays, owned, encodings, spoilt>>

Copy(m, target, source, size) ==
    [a \in Addrs |-> IF a \in target..target + size - 1
                       THEN m[source + (a - target)] ELSE m[a]]

NewCap(m, r) == (GetCap(m, r) + 1) * 2

(* Mutant: the old elements stay behind.                                   *)
MutReAlloc(m, r) == [m EXCEPT ![r] = free, ![r + 2] = NewCap(m, r)]

(* reAlloc: the new piece begins at the free memory pointer.               *)
ReAlloc(m, r) ==
    Copy([m EXCEPT ![r] = free, ![r + 2] = NewCap(m, r)],
         free, DataPtr(m, r), GetLen(m, r) * ElementSize)

(* Mutant: room for as many words as the array has elements.               *)
MutRoom(m, r) == NewCap(m, r)

Room(m, r) == NewCap(m, r) * ElementSize

(* The words of the elements in place; beyond MemSize the gas runs out.    *)
InReach(m, r) ==
    GetLen(m, r) > 0 => DataPtr(m, r) + GetLen(m, r) * ElementSize <= MemSize

(* Where the next element goes.                                            *)
ItemAddr(m, r) == DataPtr(m, r) + GetLen(m, r) * ElementSize

(* The length is stored before the element.                                *)
Place(m, r, item) ==
    LET at == ItemAddr(m, r)
    IN [a \in Addrs |->
          IF a \in at..at + ElementSize - 1 THEN item[a - at + 1]
          ELSE IF a = r + 1 THEN GetLen(m, r) + 1
          ELSE m[a]]

PushItem(r, item) ==
    /\ \/ /\ GetLen(mem, r) = GetCap(mem, r)
          /\ InReach(mem, r)
          /\ free + Room(mem, r) <= MemSize
          /\ free' = free + Room(mem, r)
          /\ mem' = Place(ReAlloc(mem, r), r, item)
       \/ /\ GetLen(mem, r) # GetCap(mem, r)
          /\ ItemAddr(mem, r) + ElementSize <= MemSize
          /\ mem' = Place(mem, r, item)
          /\ UNCHANGED free
    /\ spoilt' = (r \in stray)
    /\ UNCHANGED <<arrays, owned, encodings, stray>>

-----------------------------------------------------------------------------
(* The surrounding code.                                                   *)

MemAlloc ==
    /\ free < MemSize
    /\ Cardinality(owned) < MaxOwned
    /\ free' = free + 1
    /\ owned' = owned \cup {free}
    /\ UNCHANGED <<mem, arrays, encodings, stray, spoilt>>

MemWrite(a, w) ==
    /\ mem' = [mem EXCEPT ![a] = w]
    /\ UNCHANGED <<free, arrays, owned, encodings, stray, spoilt>>

(* Data of an event, a call or a hash, beyond the free memory pointer.     *)
Encode(n, data) ==
    /\ encodings < MaxEncodings
    /\ free + n <= MemSize
    /\ mem' = [a \in Addrs |-> IF a \in free..free + n - 1 THEN data[a - free + 1] ELSE mem[a]]
    /\ encodings' = encodings + 1
    /\ UNCHANGED <<free, arrays, owned, stray, spoilt>>

(* The model ends when something was pushed to a stray array: any word of  *)
(* memory, the free memory pointer too, may be another then.               *)
MemNext ==
    /\ ~spoilt
    /\ \/ Alloc
       \/ \E r \in arrays :
            ClearArray(r) \/ \E item \in Items : PushItem(r, item)
       \/ MemAlloc
       \/ \E a \in owned, w \in Words : MemWrite(a, w)
       \/ \E n \in 1..ScratchSize : \E data \in [1..n -> Words] : Encode(n, data)

MemSpec == MemInit /\ [][MemNext]_memVars

-----------------------------------------------------------------------------
(* Properties.                                                             *)

Header(r) == r..r + 2

(* The data an array owns; a stray one owns none.                          *)
Data(r) ==
    IF r \in stray THEN {}
    ELSE DataPtr(mem, r)..DataPtr(mem, r) + GetCap(mem, r) * ElementSize - 1

(* Until something is pushed to a stray array, every array keeps to        *)
(* itself: headers and data of all arrays and the words of the surrounding *)
(* code are apart, below the free memory pointer, whatever that code left  *)
(* beyond it, and no array that began empty or was cleared is longer than  *)
(* its capacity.                                                           *)
ArraysApart ==
    ~spoilt => \A r \in arrays :
        /\ r \notin stray => GetLen(mem, r) <= GetCap(mem, r)
        /\ Header(r) \cup Data(r) \subseteq 0..free - 1
        /\ \A q \in arrays : Header(r) \cap Data(q) = {}
        /\ \A q \in arrays \ {r} :
            /\ Header(r) \cap Header(q) = {}
            /\ Data(r) \cap Data(q) = {}
        /\ (Header(r) \cup Data(r)) \cap owned = {}

(* The elements forEachDo visits, in its order.                            *)
Elements(r) ==
    [n \in 1..GetLen(mem, r) |->
        [j \in 1..ElementSize |->
            mem[DataPtr(mem, r) + (n - 1) * ElementSize + j - 1]]]

Lists == [r \in arrays \ stray |-> Elements(r)]

Sequence == INSTANCE SeqStore WITH Refs <- Addrs, seqs <- Lists

(* The arrays that began empty or were cleared are independent sequences,  *)
(* whatever the surrounding code writes beyond the free memory pointer: a  *)
(* push appends to one of them and moves it if need be, clearing a stray   *)
(* array makes it one of them, and nothing else changes any, until         *)
(* something is pushed to a stray array.                                   *)
ImplementsSequences ==
    Sequence!Init /\ [][~spoilt' => Sequence!Next]_Lists

(* What the class comment promises: an array that is pushed to gets more   *)
(* memory before its elements outgrow its capacity.  pushItem compares     *)
(* length and capacity for equality only, and alloc sets neither, so a     *)
(* stray array with more length than capacity never gets any.              *)
GrowsInTime ==
    [][\A r \in arrays, item \in Items :
        PushItem(r, item) => GetLen(mem', r) <= GetCap(mem', r)]_memVars
=============================================================================
