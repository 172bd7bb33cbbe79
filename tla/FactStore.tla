------------------------------ MODULE FactStore ------------------------------
(***************************************************************************)
(* Working memory as factInsert and factDelete lay it out in contract      *)
(* storage (RuleEngineCompiler::appendFactInsert, appendFactDelete and the *)
(* storage array helpers).  A list is its length, at the list's address,   *)
(* followed by its items; a second map leads from a fact id, the address   *)
(* of the struct, to the address of its list.  The contract's own state    *)
(* variables live in the slots below NumUserSlots.                         *)
(*                                                                         *)
(* The address of a list is the hash of a type identifier.  The identifier *)
(* of a storage pointer ends in "_ptr" and that of a reference does not;   *)
(* appendFactInsert appends "_ptr" to either, so a list is known by the    *)
(* type and by the way its facts were named: <<type, "ref">> is the list   *)
(* the type nodes of the rules read, <<type, "ptr">> another one.          *)
(***************************************************************************)
EXTENDS Naturals, FiniteSets

CONSTANTS
    Types,          \* struct types
    Facts,          \* addresses of structs, the fact ids
    TypeOf,         \* the type of each of them
    NumUserSlots,   \* slots of the contract's state variables
    UserVals,       \* what the contract stores in them
    Base,           \* address of the list of each key
    IdSlot,         \* address of the map entry of each fact id
    Addr,           \* all addresses
    MaxList,        \* bound: items of a list
    MaxSearch       \* bound: items a search passes before the gas is used up

Forms == {"ref", "ptr"}
Keys == Types \X Forms
UserSlots == 0..NumUserSlots - 1
NoKey == <<>>

(* The areas do not overlap: no hash collides.  An unknown fact id leads a *)
(* search to slot 0, and no hash is so small that the search reaches it.   *)
ASSUME LayoutAssumption ==
    /\ TypeOf \in [Facts -> Types]
    /\ NumUserSlots \in Nat \ {0}
    /\ MaxList \in Nat
    /\ MaxSearch \in Nat
    /\ Facts \subseteq UserSlots
    /\ UserVals \subseteq Nat
    /\ Addr \subseteq Nat
    /\ UserSlots \subseteq Addr
    /\ 0..MaxSearch \subseteq Addr
    /\ Base \in [Keys -> Addr]
    /\ IdSlot \in [Facts -> Addr]
    /\ \A k \in Keys, n \in 0..MaxList :
        /\ Base[k] + n \in Addr \ (UserSlots \cup 0..MaxSearch)
        /\ \A f \in Facts : Base[k] + n # IdSlot[f]
        /\ \A j \in Keys, m \in 0..MaxList :
            Base[k] + n = Base[j] + m => k = j /\ n = m
    /\ \A f \in Facts : IdSlot[f] \notin UserSlots \cup 0..MaxSearch
    /\ \A f, g \in Facts : IdSlot[f] = IdSlot[g] => f = g

VARIABLE slots      \* contract storage

Init == slots = [a \in Addr |-> 0]

-----------------------------------------------------------------------------
Read(a) == IF a \in Addr THEN slots[a] ELSE 0

(* appendAccessIndexStorage: items start one slot after the length.        *)
Item(list, i) == Read(list + 1 + i)

KeyOf(f, form) == <<TypeOf[f], form>>

(* Mutant: the item overwrites the last one.                               *)
MutPush(s, list, item) ==
    [s EXCEPT ![list] = @ + 1, ![list + s[list]] = item]

(* appendPushItemToStorageArray                                            *)
Push(s, list, item) ==
    [s EXCEPT ![list] = @ + 1, ![list + s[list] + 1] = item]

(* Mutant: the words of the SSTORE are swapped, the entry leads to the fact. *)
MutLink(s, f, list) == [s EXCEPT ![IdSlot[f]] = f]

Link(s, f, list) == [s EXCEPT ![IdSlot[f]] = list]

FactInsert(f, form) ==
    LET list == Base[KeyOf(f, form)]
    IN /\ slots[list] < MaxList
       /\ slots' = Push(Link(slots, f, list), list, f)

(* Positions where the linear search of a list meets the item.             *)
Hits(list, item) ==
    {i \in 0..MaxSearch - 1 : i < Read(list) /\ Item(list, i) = item}

First(S) == CHOOSE i \in S : \A j \in S : i <= j

(* Mutant: the hole is not filled.                                         *)
MutRemove(s, list, item) == [s EXCEPT ![list] = @ - 1]

(* appendDeleteItemInStorageArray: the last item moves into the hole.      *)
Remove(s, list, item) ==
    [s EXCEPT ![list + 1 + First(Hits(list, item))] = Item(list, s[list] - 1),
              ![list] = @ - 1]

(* Without a hit the code runs into INVALID, or out of gas, and the message *)
(* has no effect.                                                          *)
FactDelete(f) ==
    LET list == slots[IdSlot[f]]
    IN /\ Hits(list, f) # {}
       /\ slots' = Remove(slots, list, f)

(* The contract writes its own state variables.                            *)
UserWrite(a, v) == slots' = [slots EXCEPT ![a] = v]

Next ==
    \/ \E f \in Facts, form \in Forms : FactInsert(f, form)
    \/ \E f \in Facts : FactDelete(f)
    \/ \E a \in UserSlots, v \in UserVals : UserWrite(a, v)

Spec == Init /\ [][Next]_slots

-----------------------------------------------------------------------------
(* Properties.                                                             *)

Count(k, f) == Cardinality({n \in 1..slots[Base[k]] : slots[Base[k] + n] = f})

ListAddrs == {Base[k] : k \in Keys}

(* Every list is within its area and lists only structs of its type, and   *)
(* every map entry is empty or leads to a list of the type of its fact.    *)
ListsWellFormed ==
    /\ \A k \in Keys :
        /\ slots[Base[k]] \in 0..MaxList
        /\ \A n \in 1..slots[Base[k]] :
            slots[Base[k] + n] \in {f \in Facts : TypeOf[f] = k[1]}
    /\ \A f \in Facts :
        slots[IdSlot[f]] \in {0} \cup {Base[KeyOf(f, form)] : form \in Forms}

(* What the lists hold, and the list an entry of the map leads to.         *)
Contents == [k \in Keys |-> [f \in Facts |-> Count(k, f)]]

KeyAt(list) ==
    IF list \in ListAddrs THEN CHOOSE k \in Keys : Base[k] = list ELSE NoKey

Homes == [f \in Facts |-> KeyAt(slots[IdSlot[f]])]

Bags == INSTANCE WorkingMemory WITH bag <- Contents, home <- Homes

(* The layout implements bags of facts: factInsert adds one occurrence and *)
(* factDelete takes away exactly one, whichever place it had, and leaves   *)
(* all other lists and handles alone.                                      *)
ImplementsBags == Bags!Spec

(* A factDelete for a handle that was inserted at some time never touches  *)
(* the state variables of the contract.                                    *)
KnownHandleKeepsOut ==
    [][\A f \in Facts :
        FactDelete(f) /\ slots[IdSlot[f]] # 0
            => \A a \in UserSlots : slots'[a] = slots[a]]_slots

=============================================================================
