---------------------------- MODULE MCRuleMemory ----------------------------
(***************************************************************************)
(* The memories of a contract: working memory in storage, the dynamic      *)
(* arrays of the rule engine in EVM memory, and the state variables with   *)
(* the calls they are passed to.  No operation touches two of them, so one *)
(* is at work and the others rest.  The element of a dynamic array has two *)
(* words, which differ from each other and from what the code around it    *)
(* writes, and memory is large enough for an array that moves twice.       *)
(*                                                                         *)
(* FactStore with slot 0 for a number the contract keeps, structs at slots *)
(* 1, 2 and 3, and the other areas above them.                             *)
(*                                                                         *)
(* ContractCalls with words of four bytes of sixteen values, for contracts *)
(* with byte arrays, packed and nested arrays, structs and mappings.       *)
(***************************************************************************)
EXTENDS FactStore, DynArr, ContractCalls

CONSTANTS P, Q

MCTypeOf == [f \in Facts |-> IF f = 3 THEN Q ELSE P]

MCBase ==
    [k \in Keys |-> 10 + (IF k[1] = P THEN 0 ELSE 20)
                       + (IF k[2] = "ref" THEN 0 ELSE 10)]

MCIdSlot == [f \in Facts |-> 50 + f]

MCAddr == 0..3 \cup 10..13 \cup 20..23 \cup 30..33 \cup 40..43 \cup 50..53

(* one value beside zero for every type: all bits set, or -2 *)
MCSamples(t) ==
    CASE t.k = "int" -> {Power[W] - 2}
      [] t.k = "fixed" -> {Power[W] - Power[W - t.n]}
      [] t.k = "bool" -> {1}
      [] OTHER -> {Power[t.n] - 1}

(* The contracts.  Packed arrays get lengths that fill their slots: with others what NothingLeft says *)
(* does not hold.                                                                                     *)
Call(args, params) == [args |-> args, params |-> params]
Contract(types, lengths, copies, memoryCopies, calls, damage) ==
    [types |-> types, lengths |-> lengths, copies |-> copies, memoryCopies |-> memoryCopies, calls |-> calls, damage |-> damage]
Uint1 == UintType(1)
Int3 == IntType(3)
List(t) == ArrayType(t, Dynamic)
Pair(t) == {<<t, t>>}
Four1 == ArrayType(Uint1, 4)
Two2 == ArrayType(UintType(2), 2)
Named == StructType(<<Uint1, ByteArrayType>>)
TwoBytes == <<ByteArrayType, ByteArrayType>>
BetweenWords == <<Uint1, ByteArrayType, Uint1>>
Nested == <<List(List(Int3)), List(Int3), BoolType>>
Structs == <<Named, List(Named), BoolType>>
Small == <<FixedBytesType(2), IntType(1)>>

BytesContract == Contract(TwoBytes, {0, 3, 5}, Pair(ByteArrayType), Pair(ByteArrayType), {Call(<<1, 2>>, TwoBytes)}, {})
WordsContract == Contract(BetweenWords, {0, 2, 3, 4, 5}, {}, {}, {Call(<<1, 2, 3>>, BetweenWords)}, {})
StaticContract == Contract(<<Uint1, Four1, Two2>>, {0}, {<<Four1, Four1>>}, {<<Four1, Four1>>}, {Call(<<1, 2, 3>>, <<UintType(2), Four1, Two2>>)}, {})
NestedContract == Contract(Nested, {0, 1, 2}, Pair(Nested[1]) \cup Pair(Nested[2]), Pair(Nested[1]) \cup Pair(Nested[2]), {Call(<<1, 2, 3>>, Nested)}, {})
StructContract == Contract(Structs, {0, 1}, Pair(Named), Pair(Named), {Call(<<1, 2, 3>>, Structs)}, {})
MappingContract == Contract(<<List(MappingType), List(MappingType)>> \o Small, {0, 1, 2}, Pair(List(MappingType)), {},
                            {Call(<<3, 4>>, Small), Call(<<4, 3>>, <<IntType(2), FixedBytesType(3)>>)}, {})
DamagedBytes == Contract(<<ByteArrayType, Uint1>>, {0, 3, 5}, {}, {}, {Call(<<1, 2>>, <<ByteArrayType, Uint1>>)}, {0, 4, 5, 8, 65528, 65535})
DamagedLists == Contract(<<List(UintType(2)), Two2>>, {0, 2}, {}, {}, {Call(<<1, 2>>, <<List(UintType(2)), Two2>>)}, {0, 1, 4, 8, 16384, 65528, 65535})
Idle == Contract(<<BoolType>>, {}, {}, {}, {}, {})
MCContracts == {Idle, BytesContract, WordsContract, StaticContract, NestedContract, StructContract, MappingContract, DamagedBytes, DamagedLists}

(* the contract of tail_left: a list of which two elements fill a slot, and lengths that do not *)
TailContracts == {Contract(<<List(UintType(2))>>, {0, 1, 2}, {}, {}, {}, {})}

VARIABLE part       \* the memory at work

MCItems == {<<4, 5>>}

BothInit ==
    /\ part \in {"storage", "memory", "contract"}
    /\ Init /\ MemInit /\ StorageInit
    /\ part = "contract" <=> contract # Idle

BothNext ==
    /\ UNCHANGED part
    /\ \/ part = "storage" /\ Next /\ UNCHANGED <<memVars, storageVars>>
       \/ part = "memory" /\ MemNext /\ UNCHANGED <<slots, storageVars>>
       \/ part = "contract" /\ StorageNext /\ UNCHANGED <<slots, memVars>>

BothSpec == BothInit /\ [][BothNext]_<<part, slots, memVars, storageVars>>
=============================================================================
