----------------------------- MODULE ArrayUtils -----------------------------
(***************************************************************************)
(* The code emitted for state variables: LValue.cpp (StorageItem,          *)
(* StorageByteArrayElement, StorageArrayLength) and ArrayUtils.cpp.  Every *)
(* operator gives the storage after the code it stands for; storage keeps  *)
(* the slots that are not zero.                                            *)
(*                                                                         *)
(* The code emitted for values that go to memory: copyArrayToMemory of     *)
(* ArrayUtils, and convertType and storeInMemoryDynamic of CompilerUtils.  *)
(* A step gives the bytes of memory and where it got to.                   *)
(***************************************************************************)
EXTENDS Eager, FiniteSets, TLC

(***************************************************************************)
(* The types the code generator lays out (Types.h), the words and the byte *)
(* memory it works on, and the conversions of CompilerUtils.  A word has   *)
(* WordBytes bytes of ByteValues values each; 32, 31 and 16 in the code    *)
(* are WordBytes, WordBytes - 1 and WordBytes \div 2 here.  A type has a   *)
(* kind k, a number n, of bytes or of elements, and component types s.     *)
(***************************************************************************)

CONSTANTS WordBytes, ByteValues

ASSUME WordsAssumption ==
    /\ WordBytes \in Nat /\ WordBytes >= 2 /\ WordBytes % 2 = 0
    /\ ByteValues \in Nat /\ 4 * WordBytes <= ByteValues

W == WordBytes
Power[n \in 0 .. W] == IF n = 0 THEN 1 ELSE ByteValues * Power[n - 1]

Dynamic == -1
UintType(n) == [k |-> "uint", n |-> n, s |-> << >>]
IntType(n) == [k |-> "int", n |-> n, s |-> << >>]
FixedBytesType(n) == [k |-> "fixed", n |-> n, s |-> << >>]
BoolType == [k |-> "bool", n |-> 1, s |-> << >>]
ArrayType(base, length) == [k |-> "array", n |-> length, s |-> <<base>>]
ByteArrayType == [k |-> "bytes", n |-> Dynamic, s |-> <<FixedBytesType(1)>>]
StructType(members) == [k |-> "struct", n |-> 0, s |-> members]
MappingType == [k |-> "mapping", n |-> 0, s |-> << >>]
Uint256 == UintType(W)

isValueType(t) == t.k \in {"uint", "int", "fixed", "bool"}
isArrayType(t) == t.k \in {"array", "bytes"}
isByteArray(t) == t.k = "bytes"
isDynamicallySized(t) == isArrayType(t) /\ t.n = Dynamic
baseType(t) == t.s[1]

Ceil(n, d) == (n + d - 1) \div d
Larger(a, b) == IF a > b THEN a ELSE b
SumOver(F(_), s) == Through(LAMBDA n, x : n + F(x), 0, s)

storageBytes(t) == IF isValueType(t) THEN t.n ELSE W

RECURSIVE storageSize(_)
(* StorageOffsets::computeOffsets: the slots and byte offsets of the members, and how many slots *)
computeOffsets(types) ==
    With(Through(LAMBDA o, t :
                     With(IF o.byte + storageBytes(t) > W THEN <<o.slot + 1, 0>> ELSE <<o.slot, o.byte>>, LAMBDA p :
                         IF storageSize(t) = 1 /\ p[2] + storageBytes(t) <= W
                         THEN [slot |-> p[1], byte |-> p[2] + storageBytes(t), at |-> Append(o.at, p)]
                         ELSE [slot |-> p[1] + storageSize(t), byte |-> 0, at |-> Append(o.at, p)]),
                 [slot |-> 0, byte |-> 0, at |-> << >>], types),
         LAMBDA o : [at |-> o.at, size |-> IF o.byte > 0 THEN o.slot + 1 ELSE o.slot])
storageSize(t) ==
    CASE t.k = "struct" -> Larger(1, computeOffsets(t.s).size)
      [] isArrayType(t) /\ t.n # Dynamic ->
            Larger(1, IF storageBytes(baseType(t)) < W THEN Ceil(t.n, W \div storageBytes(baseType(t)))
                      ELSE t.n * storageSize(baseType(t)))
      [] OTHER -> 1
memberOffset(t, i) == computeOffsets(t.s).at[i]

RECURSIVE isDynamicallyEncoded(_), calldataEncodedSize(_)
isDynamicallyEncoded(t) ==
    CASE isArrayType(t) -> isDynamicallySized(t) \/ isDynamicallyEncoded(baseType(t))
      [] t.k = "struct" -> \E i \in DOMAIN t.s : isDynamicallyEncoded(t.s[i])
      [] OTHER -> FALSE
(* padded; 0 for what cannot be encoded *)
calldataEncodedSize(t) ==
    CASE isArrayType(t) -> IF isDynamicallySized(t) THEN W ELSE Ceil(t.n * calldataEncodedSize(baseType(t)), W) * W
      [] t.k = "struct" ->
            IF \E i \in DOMAIN t.s : calldataEncodedSize(t.s[i]) = 0 THEN 0 ELSE SumOver(calldataEncodedSize, t.s)
      [] t.k = "mapping" -> 0
      [] OTHER -> W
memoryHeadSize(t) == W
memberMemoryOffset(t, i) == W * Cardinality({j \in 1 .. i - 1 : t.s[j].k # "mapping"})
memorySize(t) == IF t.k = "struct" THEN W * Cardinality({j \in DOMAIN t.s : t.s[j].k # "mapping"}) ELSE W * t.n

-----------------------------------------------------------------------------
(* Words: values lie right-aligned, fixed bytes left-aligned.              *)
Low(x, n) == x % Power[n]
ClearLow(x, n) == x - (x % Power[n])
High(x, n) == ClearLow(x, W - n)
SignExtend(x, n) ==
    IF Low(x, n) >= Power[n] \div 2 THEN Low(x, n) + Power[W] - Power[n] ELSE Low(x, n)
ByteOf(x, i) == (x \div Power[W - 1 - i]) % ByteValues

cleanHigherOrderBits(x, t) == IF t.n = W THEN x ELSE IF t.k = "int" THEN SignExtend(x, t.n) ELSE Low(x, t.n)
(* convertType between value types *)
convertValue(x, from, to, cleanup, chop) ==
    CASE from.k = "fixed" /\ to.k = "fixed" ->
            IF to.n > from.n \/ cleanup THEN High(x, IF from.n < to.n THEN from.n ELSE to.n) ELSE x
      [] from.k = "fixed" /\ to.k # "fixed" ->
            With(x \div Power[W - from.n], LAMBDA y : IF to.n < from.n /\ cleanup THEN cleanHigherOrderBits(y, to) ELSE y)
      [] from.k # "fixed" /\ to.k = "fixed" ->
            With(IF to.n > from.n THEN cleanHigherOrderBits(x, from) ELSE x, LAMBDA y : (y * Power[W - to.n]) % Power[W])
      [] from.k = "bool" -> IF cleanup THEN IF x = 0 THEN 0 ELSE 1 ELSE x
      [] OTHER ->
            With(IF to.n > from.n THEN cleanHigherOrderBits(x, from)
                 ELSE IF cleanup THEN cleanHigherOrderBits(x, to) ELSE x,
                 LAMBDA y : IF chop /\ to.k = "int" /\ from.n < W THEN Low(y, from.n) ELSE y)

-----------------------------------------------------------------------------
(* Memory: a byte for every address, zero where nothing was stored.        *)
MByte(mem, a) == IF a \in DOMAIN mem THEN mem[a] ELSE 0
MLoad(mem, a) == Through(LAMBDA x, i : x * ByteValues + MByte(mem, a + i - 1), 0, [i \in 1 .. W |-> i])
MStore(mem, a, x) == [i \in a .. a + W - 1 |-> ByteOf(x, i - a)] @@ mem

-----------------------------------------------------------------------------
(* keccak256(slot): areas no program can fill meet nowhere *)
computeHashStatic(slot) == 100 * (slot + 1)

SLoad(sto, slot) == IF slot \in DOMAIN sto THEN sto[slot] ELSE 0
SStore(sto, slot, x) ==
    IF x = 0 THEN [k \in DOMAIN sto \ {slot} |-> sto[k]] @@ << >> ELSE (slot :> x) @@ sto

-----------------------------------------------------------------------------
(* One value *)
retrieveValue(sto, t, slot, offset) ==
    With(SLoad(sto, slot), LAMBDA word :
        CASE t.n = W -> word
          [] t.n # W /\ t.k = "fixed" -> ((word \div Power[offset]) * Power[W - t.n]) % Power[W]
          [] t.n # W /\ t.k = "int" -> SignExtend(word \div Power[offset], t.n)
          [] OTHER -> Low(word \div Power[offset], t.n))

(* the bytes from offset on cleared *)
Cleared(word, offset, n) == word - Low(word \div Power[offset], n) * Power[offset]

storeWord(sto, t, slot, offset, x, from) ==
    IF t.n = W THEN SStore(sto, slot, convertValue(x, from, t, TRUE, FALSE))
    ELSE SStore(sto, slot, Cleared(SLoad(sto, slot), offset, t.n)
             + Power[offset] * (IF t.k = "fixed" THEN x \div Power[W - t.n] ELSE convertValue(x, from, t, TRUE, TRUE)))

byteSetTo(sto, slot, i, x) ==
    SStore(sto, slot, Cleared(SLoad(sto, slot), W - 1 - i, 1) + Power[W - 1 - i] * (x \div Power[W - 1]))
byteRetrieve(sto, slot, i) == ByteOf(SLoad(sto, slot), i) * Power[W - 1]

-----------------------------------------------------------------------------
(* Lengths and places *)
retrieveLength(sto, t, slot) ==
    IF ~isDynamicallySized(t) THEN t.n
    ELSE With(SLoad(sto, slot), LAMBDA x :
             IF isByteArray(t) THEN (IF x % 2 = 0 THEN Low(x, 1) ELSE x) \div 2 ELSE x)

convertLengthToSize(t, length) ==
    CASE storageSize(baseType(t)) > 1 -> length * storageSize(baseType(t))
      [] storageBytes(baseType(t)) <= W \div 2 -> Ceil(length, W \div storageBytes(baseType(t)))
      [] OTHER -> length

DataArea(t, slot) == IF isDynamicallySized(t) THEN computeHashStatic(slot) ELSE slot

(* accessIndex without the bounds check *)
accessIndex(sto, t, slot, i) ==
    CASE isByteArray(t) /\ SLoad(sto, slot) % 2 = 0 -> <<slot, i>>
      [] storageBytes(baseType(t)) <= W \div 2 /\ ~(isByteArray(t) /\ SLoad(sto, slot) % 2 = 0) ->
            With(W \div storageBytes(baseType(t)), LAMBDA items :
                <<DataArea(t, slot) + (i \div items), (i % items) * storageBytes(baseType(t))>>)
      [] OTHER -> <<DataArea(t, slot) + i * storageSize(baseType(t)), 0>>

(* incrementByteOffset: the place of the next packed element *)
incrementByteOffset(p, n) ==
    With((p[2] + n + n - 1) \div W, LAMBDA x : <<p[1] + x, (1 - x) * (p[2] + n)>>)

-----------------------------------------------------------------------------
(* Clearing *)
RECURSIVE setToZero(_, _, _, _), clearStorageLoop(_, _, _, _)

clearStorageLoop(sto, t, end, pos) ==
    IF t.k = "mapping" \/ pos >= end THEN sto
    ELSE With(setToZero(sto, t, pos, 0), LAMBDA s : clearStorageLoop(s, t, end, pos + storageSize(t)))

ClearedAs(t) == IF storageBytes(baseType(t)) < W THEN Uint256 ELSE baseType(t)

clearDynamicArray(sto, t, slot) ==
    With(retrieveLength(sto, t, slot), LAMBDA length :
    With(SStore(sto, slot, 0), LAMBDA s :
        IF isByteArray(t) /\ length <= W - 1 THEN s
        ELSE clearStorageLoop(s, ClearedAs(t), computeHashStatic(slot) + convertLengthToSize(t, length), computeHashStatic(slot))))

clearArray(sto, t, slot) ==
    CASE isDynamicallySized(t) -> clearDynamicArray(sto, t, slot)
      [] ~isDynamicallySized(t) /\ (t.n = 0 \/ baseType(t).k = "mapping") -> sto
      [] OTHER -> clearStorageLoop(sto, ClearedAs(t), slot + convertLengthToSize(t, t.n), slot)

setToZero(sto, t, slot, offset) ==
    CASE isArrayType(t) -> clearArray(sto, t, slot)
      [] t.k = "struct" ->
            With(computeOffsets(t.s).at, LAMBDA at :
                Through(LAMBDA s, i : IF t.s[i].k = "mapping" THEN s ELSE setToZero(s, t.s[i], slot + at[i][1], at[i][2]),
                        sto, [i \in DOMAIN t.s |-> i]))
      [] OTHER -> IF t.n = W THEN SStore(sto, slot, 0) ELSE SStore(sto, slot, Cleared(SLoad(sto, slot), offset, t.n))

-----------------------------------------------------------------------------
(* Length *)
Short(word, length) == ClearLow(word, W - length) + 2 * length

resizeByteArray(sto, t, slot, new) ==
    With(retrieveLength(sto, t, slot), LAMBDA old :
    With(computeHashStatic(slot), LAMBDA data :
        CASE old <= W - 1 /\ new <= W - 1 -> SStore(sto, slot, Short(SLoad(sto, slot), new))
          [] old <= W - 1 /\ new > W - 1 -> SStore(SStore(sto, data, ClearLow(SLoad(sto, slot), 1)), slot, 2 * new + 1)
          [] old > W - 1 /\ new <= W - 1 ->
                SStore(clearStorageLoop(sto, Uint256, data + convertLengthToSize(t, old), data),
                       slot, Short(SLoad(sto, data), new))
          [] OTHER -> clearStorageLoop(SStore(sto, slot, 2 * new + 1), Uint256,
                          data + convertLengthToSize(t, old), data + convertLengthToSize(t, new))))

resizeDynamicArray(sto, t, slot, new) ==
    IF isByteArray(t) THEN resizeByteArray(sto, t, slot, new)
    ELSE With(retrieveLength(sto, t, slot), LAMBDA old :
         With(SStore(sto, slot, new), LAMBDA s :
             IF old <= new THEN s
             ELSE clearStorageLoop(s, ClearedAs(t), computeHashStatic(slot) + convertLengthToSize(t, old),
                                   computeHashStatic(slot) + convertLengthToSize(t, new))))

(* mutant: the byte array moves out of its slot one byte late *)
MutIncrementDynamicArraySize(sto, t, slot) ==
    With(SLoad(sto, slot), LAMBDA x :
        <<SStore(sto, slot, IF isByteArray(t) THEN x + 2 ELSE x + 1), (IF ~isByteArray(t) THEN x ELSE IF x % 2 = 0 THEN (x % (2 * W)) \div 2 ELSE x \div 2) + 1>>)
(* the storage and the new length *)
incrementDynamicArraySize(sto, t, slot) ==
    With(SLoad(sto, slot), LAMBDA x :
        CASE ~isByteArray(t) -> <<SStore(sto, slot, x + 1), x + 1>>
          [] isByteArray(t) /\ x % (2 * W) = 2 * (W - 1) ->
                <<SStore(SStore(sto, computeHashStatic(slot), ClearLow(x, 1)), slot, 2 * W + 1), W>>
          [] OTHER -> <<SStore(sto, slot, x + 2), (IF x % 2 = 0 THEN x % (2 * W) ELSE x) \div 2 + 1>>)

(* mutant: only the length changes *)
MutPopByte(sto, slot) ==
    With(SLoad(sto, slot), LAMBDA x :
        IF x = 2 * W + 1 THEN SStore(sto, slot, ClearLow(SLoad(sto, computeHashStatic(slot)), 1) + 2 * (W - 1)) ELSE SStore(sto, slot, x - 2))
popByte(sto, slot) ==
    With(SLoad(sto, slot), LAMBDA x :
    With(IF x % 2 = 0 THEN (x \div 2) % W ELSE x \div 2, LAMBDA length :
    With(computeHashStatic(slot), LAMBDA data :
        CASE x % 2 = 0 -> SStore(sto, slot, ClearLow(x, IF length > 0 THEN W + 1 - length ELSE 0) + 2 * (length - 1))
          [] x % 2 = 1 /\ length = W ->
                SStore(SStore(sto, data, 0), slot, ClearLow(SLoad(sto, data), 1) + 2 * (W - 1))
          [] OTHER ->
                With(data + ((length - 1) \div W), LAMBDA last :
                    SStore(SStore(sto, last, ClearLow(SLoad(sto, last), W - ((length - 1) % W))), slot, x - 2)))))

(* of an array that is not empty *)
popStorageArrayElement(sto, t, slot) ==
    IF isByteArray(t) THEN popByte(sto, slot)
    ELSE With(retrieveLength(sto, t, slot) - 1, LAMBDA length :
         With(accessIndex(sto, t, slot, length), LAMBDA p :
             SStore(setToZero(sto, baseType(t), p[1], p[2]), slot, length)))

-----------------------------------------------------------------------------
(* Copying.  A source is a place: in storage a slot, in memory or calldata *)
(* an address in the bytes mem, with the length if calldata has it on the  *)
(* stack.                                                                  *)
StorageRef(slot) == [loc |-> "storage", ref |-> slot, mem |-> << >>, length |-> 0]
MemoryRef(mem, a) == [loc |-> "memory", ref |-> a, mem |-> mem, length |-> 0]
CalldataRef(mem, a, length) == [loc |-> "calldata", ref |-> a, mem |-> mem, length |-> length]

SourceLength(sto, from, src) ==
    CASE src.loc = "storage" -> retrieveLength(sto, from, src.ref)
      [] src.loc # "storage" /\ ~isDynamicallySized(from) -> from.n
      [] src.loc = "memory" /\ isDynamicallySized(from) -> MLoad(src.mem, src.ref)
      [] OTHER -> src.length
SourceData(from, src) ==
    CASE src.loc = "storage" -> DataArea(from, src.ref)
      [] src.loc = "memory" /\ isDynamicallySized(from) -> src.ref + W
      [] OTHER -> src.ref
SourceStep(base, src) ==
    CASE src.loc = "storage" -> storageSize(base)
      [] src.loc = "memory" -> memoryHeadSize(base)
      [] OTHER -> calldataEncodedSize(base)
SourceSize(from, src, length) ==
    CASE src.loc = "storage" -> convertLengthToSize(from, length)
      [] src.loc # "storage" /\ isByteArray(from) -> length
      [] OTHER -> length * SourceStep(baseType(from), src)
(* loadFromMemoryDynamic, padded: what calldata holds is cleaned *)
LoadWord(base, src, a) ==
    With(MLoad(src.mem, a), LAMBDA x : IF src.loc = "calldata" THEN convertValue(x, base, base, TRUE, FALSE) ELSE x)

CopiedAs(t) == IF isByteArray(t) THEN Uint256 ELSE baseType(t)
Packed(t) == storageBytes(t) <= W \div 2
Next2(p, t, packed, step) == IF packed THEN incrementByteOffset(p, storageBytes(t)) ELSE <<p[1] + step, p[2]>>

RECURSIVE storeValue(_, _, _, _, _), copyLoop(_, _, _, _, _, _), cleanupLoop(_, _, _)

(* copyCleanupLoop: what is left of the slot reached is cleared *)
cleanupLoop(sto, t, p) ==
    IF p[2] = 0 THEN <<sto, p[1]>>
    ELSE With(setToZero(sto, t, p[1], p[2]), LAMBDA s : cleanupLoop(s, t, incrementByteOffset(p, storageBytes(t))))

(* one element from the place p to the place q *)
copyElement(sto, to, from, src, p, q) ==
    CASE ~isValueType(from) ->
            storeValue(sto, to, q, from, [src EXCEPT !.ref = IF src.loc = "memory" THEN MLoad(src.mem, p[1]) ELSE p[1]])
      [] isValueType(from) /\ src.loc = "storage" -> storeValue(sto, to, q, from, retrieveValue(sto, from, p[1], p[2]))
      [] OTHER -> storeValue(sto, to, q, from, LoadWord(from, src, p[1]))

copyLoop(sto, to, from, src, at, end) ==
    LET direct == src.loc = "storage" /\ isValueType(from) /\ from = to
        packedSource == ~direct /\ src.loc = "storage" /\ Packed(from)
        packedTarget == ~direct /\ Packed(to)
        p == at[1]
        q == at[2]
    IN  IF p[1] >= end THEN IF packedTarget THEN cleanupLoop(sto, to, q) ELSE <<sto, q[1]>>
        ELSE With(IF direct THEN SStore(sto, q[1], SLoad(sto, p[1])) ELSE copyElement(sto, to, from, src, p, q), LAMBDA s :
                 copyLoop(s, to, from, src,
                          <<Next2(p, from, packedSource, SourceStep(from, src)), Next2(q, to, packedTarget, storageSize(to))>>, end))

(* a byte array with its length in the same slot *)
shortByteArray(sto, slot, src, length, data) ==
    SStore(sto, slot, IF src.loc = "storage" THEN SLoad(sto, src.ref)
                      ELSE ClearLow(LoadWord(Uint256, src, data), 1) + 2 * length)

copyArrayToStorage(sto, to, slot, from, src) ==
    With(SourceLength(sto, from, src), LAMBDA length :
    With(SourceData(from, src), LAMBDA data :
    With(DataArea(to, slot) + convertLengthToSize(to, retrieveLength(sto, to, slot)), LAMBDA end :
    With(CASE ~isDynamicallySized(to) -> sto
           [] isDynamicallySized(to) /\ ~isByteArray(to) -> SStore(sto, slot, length)
           [] OTHER -> IF length <= W - 1 THEN shortByteArray(sto, slot, src, length, data)
                       ELSE SStore(sto, slot, 2 * length + 1), LAMBDA s :
        IF baseType(from).k = "mapping" THEN s
        ELSE With(IF length = 0 \/ (isByteArray(to) /\ length <= W - 1) THEN <<s, DataArea(to, slot)>>
                  ELSE copyLoop(s, CopiedAs(to), CopiedAs(from), src, <<<<data, 0>>, <<DataArea(to, slot), 0>>>>,
                                data + SourceSize(from, src, length)), LAMBDA r :
                 clearStorageLoop(r[1], CopiedAs(to), end, r[2]))))))

(* StorageItem::storeValue at the place q: a word, or what a source holds *)
storeValue(sto, t, q, from, x) ==
    CASE isValueType(t) -> storeWord(sto, t, q[1], q[2], x, from)
      [] isArrayType(t) -> copyArrayToStorage(sto, t, q[1], from, x)
      [] OTHER ->
            Through(LAMBDA s, i :
                        IF t.s[i].k = "mapping" THEN s
                        ELSE copyElement(s, t.s[i], t.s[i], x,
                                         IF x.loc = "storage" THEN <<x.ref + memberOffset(t, i)[1], memberOffset(t, i)[2]>>
                                         ELSE <<x.ref + memberMemoryOffset(t, i), 0>>,
                                         <<q[1] + memberOffset(t, i)[1], memberOffset(t, i)[2]>>),
                    sto, [i \in DOMAIN t.s |-> i])

-----------------------------------------------------------------------------
(* Values that go to memory *)
RoundUp(n) == Ceil(n, W) * W

(* storeInMemoryDynamic of a value, padded *)
storeInMemoryDynamic(mem, t, a, x) == MStore(mem, a, convertValue(x, t, t, TRUE, FALSE))

(* memoryCopy32: whole words, the last one past the end *)
memoryCopy32(mem, target, source, size) ==
    Through(LAMBDA m, i : MStore(m, target + (i - 1) * W, MLoad(m, source + (i - 1) * W)), mem, [i \in 1 .. Ceil(size, W) |-> i])

(* bytes after the end of the last word cleared *)
ClearTail(mem, end) ==
    With(end % W, LAMBDA r : MStore(mem, end - r, High(MLoad(mem, end - r), r)))

RECURSIVE copyArrayToMemory(_, _, _, _, _), storageLoop(_, _, _, _, _, _)

(* the loop over the slots of a source in storage, entered with an element to copy *)
storageLoop(mem, sto, base, p, at, end) ==
    With(IF isValueType(base)
         THEN <<storeInMemoryDynamic(mem, base, at, retrieveValue(sto, base, p[1], p[2])), at + W>>
         ELSE copyArrayToMemory(mem, sto, base, StorageRef(p[1]), at), LAMBDA r :
        IF r[2] < end THEN storageLoop(r[1], sto, base, Next2(p, base, Packed(base), storageSize(base)), r[2], end) ELSE r)

fromStorage(mem, sto, t, slot, target, length) ==
    CASE length = 0 -> <<mem, target>>
      [] length > 0 /\ isByteArray(t) /\ length <= W - 1 -> <<MStore(mem, target, ClearLow(SLoad(sto, slot), 1)), target + W>>
      [] length > W - 1 /\ isByteArray(t) ->
            <<Through(LAMBDA m, i : MStore(m, target + (i - 1) * W, SLoad(sto, DataArea(t, slot) + i - 1)),
                      mem, [i \in 1 .. Ceil(length, W) |-> i]), target + RoundUp(length)>>
      [] OTHER -> storageLoop(mem, sto, baseType(t), <<DataArea(t, slot), 0>>, target, target + length * calldataEncodedSize(baseType(t)))

(* the values of an array in memory are pointers when they are not words *)
fromMemory(mem, sto, t, src, target, length) ==
    CASE ~isValueType(baseType(t)) ->
            Through(LAMBDA r, i : copyArrayToMemory(r[1], sto, baseType(t), MemoryRef(r[1], MLoad(r[1], SourceData(t, src) + (i - 1) * W)), r[2]),
                    <<mem, target>>, [i \in 1 .. length |-> i])
      [] isValueType(baseType(t)) /\ isByteArray(t) ->
            With(memoryCopy32(mem, target, SourceData(t, src), length), LAMBDA m :
                <<IF length % W = 0 THEN m ELSE ClearTail(m, target + length), target + RoundUp(length)>>)
      [] OTHER -> <<memoryCopy32(mem, target, SourceData(t, src), length * W), target + length * W>>

fromCalldata(mem, t, src, target, length) ==
    With(IF isByteArray(t) THEN length ELSE length * calldataEncodedSize(baseType(t)), LAMBDA size :
        <<MStore([a \in target .. target + size - 1 |-> MByte(src.mem, src.ref + a - target)] @@ mem, target + size, 0),
          target + RoundUp(size)>>)

(* copyArrayToMemory, padding to words *)
copyArrayToMemory(mem, sto, t, src, target) ==
    With(SourceLength(sto, t, src), LAMBDA length :
        CASE src.loc = "storage" -> fromStorage(mem, sto, t, src.ref, target, length)
          [] src.loc = "memory" -> fromMemory(mem, sto, t, src, target, length)
          [] OTHER -> fromCalldata(mem, t, src, target, length))

-----------------------------------------------------------------------------
(* Memory in use and the pointer to free memory; ref is what was made.     *)
allocateMemory(h, size) == [h EXCEPT !.free = @ + size, !.ref = h.free]

RECURSIVE convertType(_, _, _, _)

(* convertType to memory: an element that is not a word becomes a pointer to a copy of it *)
convertElement(h, sto, t, src, a) ==
    IF isValueType(t)
    THEN [h EXCEPT !.mem = storeInMemoryDynamic(@, t, a,
             IF src.loc = "storage" THEN retrieveValue(sto, t, src.ref, src.length) ELSE LoadWord(t, src, src.ref))]
    ELSE With(convertType(h, sto, t, src), LAMBDA r : [r EXCEPT !.mem = MStore(@, a, r.ref)])

(* the place of element i; its byte offset in storage stands in length *)
ElementRef(sto, t, src, i) ==
    IF src.loc = "storage"
    THEN With(accessIndex(sto, t, src.ref, i), LAMBDA p : [src EXCEPT !.ref = p[1], !.length = p[2]])
    ELSE [src EXCEPT !.ref = @ + i * calldataEncodedSize(baseType(t))]

convertArray(h, sto, t, src) ==
    With(SourceLength(sto, t, src), LAMBDA length :
    With(IF isDynamicallySized(t) THEN W ELSE 0, LAMBDA head :
    With(allocateMemory(h, head + (IF isByteArray(t) THEN RoundUp(length) ELSE length * W)), LAMBDA r :
    With([r EXCEPT !.mem = IF head = W THEN MStore(@, r.ref, length) ELSE @], LAMBDA s :
        IF isValueType(baseType(t)) THEN [s EXCEPT !.mem = copyArrayToMemory(@, sto, t, src, s.ref + head)[1]]
        ELSE [Through(LAMBDA q, i : convertElement(q, sto, baseType(t), ElementRef(sto, t, src, i - 1), s.ref + head + (i - 1) * W),
                      s, [i \in 1 .. length |-> i]) EXCEPT !.ref = s.ref]))))

convertStruct(h, sto, t, src) ==
    With(allocateMemory(h, memorySize(t)), LAMBDA s :
        [Through(LAMBDA q, i :
                     IF t.s[i].k = "mapping" THEN q
                     ELSE convertElement(q, sto, t.s[i], [src EXCEPT !.ref = @ + memberOffset(t, i)[1], !.length = memberOffset(t, i)[2]],
                                         s.ref + memberMemoryOffset(t, i)),
                 s, [i \in DOMAIN t.s |-> i]) EXCEPT !.ref = s.ref])

convertType(h, sto, t, src) ==
    CASE src.loc = "memory" -> [h EXCEPT !.ref = src.ref]
      [] src.loc # "memory" /\ isArrayType(t) -> convertArray(h, sto, t, src)
      [] OTHER -> convertStruct(h, sto, t, src)
=============================================================================
