------------------------------ MODULE AbiCoding ------------------------------
(***************************************************************************)
(* Arguments of calls: the encoder and decoder that CompilerUtils emits    *)
(* (encodeToMemory, abiDecode), and the Yul functions that ABIFunctions    *)
(* writes for ABIEncoderV2.  An argument is a word or a source (see        *)
(* StorageArrays); encoding gives the memory and its end, decoding a heap  *)
(* h of bytes, free memory, result and whether the code got there (a       *)
(* revert ends it).                                                        *)
(***************************************************************************)
EXTENDS ArrayUtils

(* 0xffffffffffffffff and 0x100000000: far below the number of words, above any memory in use *)
MaxOffset == Power[W \div 2] - 1
MaxLength == Power[W \div 2]

Add(a, b) == (a + b) % Power[W]
Sub(a, b) == (a + Power[W] - b) % Power[W]
Mul(a, b) == (a * b) % Power[W]
Signed(x) == IF x >= Power[W] \div 2 THEN x - Power[W] ELSE x
shiftRight(x, bytes) == x \div Power[bytes]

cleanupFunction(x, t) ==
    CASE t.k = "bool" -> IF x = 0 THEN 0 ELSE 1
      [] t.k = "fixed" -> High(x, t.n)
      [] OTHER -> cleanHigherOrderBits(x, t)

RECURSIVE conversionFunction(_, _, _)
conversionFunction(x, from, to) ==
    CASE from.k = "fixed" /\ to.k # "fixed" -> conversionFunction(x \div Power[W - from.n], UintType(from.n), to)
      [] from.k # "fixed" /\ to.k = "fixed" -> Mul(cleanupFunction(x, from), Power[W - to.n])
      [] from.k = "bool" \/ (from.k = "fixed" /\ to.k = "fixed") -> cleanupFunction(x, from)
      [] OTHER -> cleanupFunction(x, IF to.n > from.n THEN from ELSE to)

headSizeOf(t) == IF isDynamicallyEncoded(t) THEN W ELSE calldataEncodedSize(t)
headSize(types) == SumOver(headSizeOf, types)
(* where the head of component i starts *)
headPos(types, i) == headSize(SubSeq(types, 1, i - 1))
Indices(s) == [i \in DOMAIN s |-> i]
Upto(n) == [i \in 1 .. n |-> i]

-----------------------------------------------------------------------------
(* Encoding with ABIEncoderV2 *)
RECURSIVE abiEncodingFunction(_, _, _, _, _)

arrayLengthFunction(mem, sto, t, src) ==
    CASE ~isDynamicallySized(t) -> t.n
      [] isDynamicallySized(t) /\ src.loc = "memory" -> MLoad(mem, src.ref)
      [] OTHER -> retrieveLength(sto, t, src.ref)
(* mutant: the length of an array in memory is taken for its first element *)
MutArrayDataAreaFunction(t, src) == IF src.loc = "memory" THEN src.ref ELSE DataArea(t, src.ref)
arrayDataAreaFunction(t, src) ==
    CASE src.loc = "memory" -> IF isDynamicallySized(t) THEN src.ref + W ELSE src.ref
      [] OTHER -> DataArea(t, src.ref)
nextArrayElement(p, src) == IF src.loc = "memory" THEN p + W ELSE p + 1

copyMemoryToMemory(mem, src, dst, length) ==
    With(memoryCopy32(mem, dst, src, length), LAMBDA m : IF length % W = 0 THEN m ELSE MStore(m, dst + length, 0))
copyCalldataToMemory(mem, in, src, dst, length) ==
    MStore([a \in dst .. dst + length - 1 |-> MByte(in, src + a - dst)] @@ mem, dst + length, 0)

(* what is found at p: a word, or the place of a component *)
Found(mem, sto, t, src, p) ==
    CASE src.loc = "memory" -> IF isValueType(t) THEN MLoad(mem, p) ELSE [src EXCEPT !.ref = MLoad(mem, p)]
      [] OTHER -> IF isValueType(t) THEN SLoad(sto, p) ELSE [src EXCEPT !.ref = p]

(* the offset of a tail goes to pos, the tail itself to where the last one ended *)
EncodeTail(r, sto, t, x, pos, start) ==
    abiEncodingFunction(MStore(r.mem, pos, r.end - start), sto, t, x, r.end)

abiEncodingFunctionSimpleArray(mem, sto, t, src, pos) ==
    With(arrayLengthFunction(mem, sto, t, src), LAMBDA length :
    With(IF isDynamicallySized(t) THEN [mem |-> MStore(mem, pos, length), end |-> pos + W] ELSE [mem |-> mem, end |-> pos], LAMBDA s :
        IF isDynamicallyEncoded(baseType(t))
        THEN Through(LAMBDA r, i :
                         With(EncodeTail(r, sto, baseType(t), Found(r.mem, sto, baseType(t), src, r.p), s.end + (i - 1) * W, s.end), LAMBDA e :
                             [mem |-> e.mem, end |-> e.end, p |-> nextArrayElement(r.p, src)]),
                     [mem |-> s.mem, end |-> s.end + length * W, p |-> arrayDataAreaFunction(t, src)], Upto(length))
        ELSE Through(LAMBDA r, i :
                         [mem |-> abiEncodingFunction(r.mem, sto, baseType(t), Found(r.mem, sto, baseType(t), src, r.p), r.end).mem,
                          end |-> r.end + calldataEncodedSize(baseType(t)), p |-> nextArrayElement(r.p, src)],
                     [mem |-> s.mem, end |-> s.end, p |-> arrayDataAreaFunction(t, src)], Upto(length))))

abiEncodingFunctionMemoryByteArray(mem, t, src, pos) ==
    With(MLoad(mem, src.ref), LAMBDA length :
        [mem |-> copyMemoryToMemory(MStore(mem, pos, length), src.ref + W, pos + W, length), end |-> pos + W + RoundUp(length)])

abiEncodingFunctionCalldataArray(mem, src, pos) ==
    [mem |-> copyCalldataToMemory(MStore(mem, pos, src.length), src.mem, src.ref, pos + W, src.length),
     end |-> pos + W + RoundUp(src.length)]

(* several items in a slot; whole slots are written, the last one beyond the end *)
CompactBytes(mem, sto, t, src, pos) ==
    With(SLoad(sto, src.ref), LAMBDA slotValue :
        IF slotValue % 2 = 0
        THEN [mem |-> MStore(MStore(mem, pos, (slotValue \div 2) % (ByteValues \div 2)), pos + W, ClearLow(slotValue, 1)), end |-> pos + 2 * W]
        ELSE With(slotValue \div 2, LAMBDA length :
                 [mem |-> Through(LAMBDA m, i : MStore(m, pos + i * W, SLoad(sto, DataArea(t, src.ref) + i - 1)),
                                  MStore(mem, pos, length), Upto(Ceil(length, W))),
                  end |-> pos + W + RoundUp(length)]))
CompactItems(mem, sto, t, src, pos) ==
    With(arrayLengthFunction(mem, sto, t, src), LAMBDA length :
    With(IF isDynamicallySized(t) THEN pos + W ELSE pos, LAMBDA start :
    With(W \div storageBytes(baseType(t)), LAMBDA items :
        [mem |-> Through(LAMBDA m, i :
                             abiEncodingFunction(m, sto, baseType(t),
                                 shiftRight(SLoad(sto, DataArea(t, src.ref) + ((i - 1) \div items)), ((i - 1) % items) * storageBytes(baseType(t))),
                                 start + (i - 1) * W).mem,
                         IF isDynamicallySized(t) THEN MStore(mem, pos, length) ELSE mem, Upto(Ceil(length, items) * items)),
         end |-> start + length * W])))
abiEncodingFunctionCompactStorageArray(mem, sto, t, src, pos) ==
    IF isByteArray(t) THEN CompactBytes(mem, sto, t, src, pos) ELSE CompactItems(mem, sto, t, src, pos)

(* a member that is a word is shifted out of its slot *)
Member(mem, sto, t, src, i) ==
    IF src.loc = "memory" THEN Found(mem, sto, t.s[i], src, src.ref + memberMemoryOffset(t, i))
    ELSE With(memberOffset(t, i), LAMBDA o :
             IF isValueType(t.s[i]) THEN shiftRight(SLoad(sto, src.ref + o[1]), o[2]) ELSE [src EXCEPT !.ref = @ + o[1]])
Outside(t) == SelectSeq(t.s, LAMBDA u : u.k # "mapping")
abiEncodingFunctionStruct(mem, sto, t, src, pos) ==
    Through(LAMBDA r, i :
                CASE t.s[i].k = "mapping" -> r
                  [] isDynamicallyEncoded(t.s[i]) ->
                        With(EncodeTail(r, sto, t.s[i], Member(r.mem, sto, t, src, i), r.pos, pos), LAMBDA e :
                            [mem |-> e.mem, end |-> e.end, pos |-> r.pos + W])
                  [] OTHER ->
                        [r EXCEPT !.mem = abiEncodingFunction(r.mem, sto, t.s[i], Member(r.mem, sto, t, src, i), r.pos).mem,
                                  !.pos = r.pos + calldataEncodedSize(t.s[i])],
            [mem |-> mem, end |-> pos + headSize(Outside(t)), pos |-> pos], Indices(t.s))

abiEncodingFunction(mem, sto, t, src, pos) ==
    CASE isValueType(t) -> [mem |-> MStore(mem, pos, cleanupFunction(src, t)), end |-> pos + W]
      [] t.k = "struct" -> abiEncodingFunctionStruct(mem, sto, t, src, pos)
      [] OTHER ->
            CASE src.loc = "calldata" -> abiEncodingFunctionCalldataArray(mem, src, pos)
              [] ~isByteArray(t) /\ (src.loc = "memory" \/ (src.loc = "storage" /\ storageBytes(baseType(t)) > W \div 2)) ->
                    abiEncodingFunctionSimpleArray(mem, sto, t, src, pos)
              [] src.loc = "memory" /\ isByteArray(t) -> abiEncodingFunctionMemoryByteArray(mem, t, src, pos)
              [] OTHER -> abiEncodingFunctionCompactStorageArray(mem, sto, t, src, pos)

(* arguments of types given, of which the words are converted to the types of the parameters *)
tupleEncoder(mem, sto, given, types, args, start) ==
    Through(LAMBDA r, i :
                With(IF isValueType(types[i]) /\ given[i] # types[i] THEN conversionFunction(args[i], given[i], types[i]) ELSE args[i], LAMBDA x :
                    IF isDynamicallyEncoded(types[i]) THEN EncodeTail(r, sto, types[i], x, start + headPos(types, i), start)
                    ELSE [r EXCEPT !.mem = abiEncodingFunction(r.mem, sto, types[i], x, start + headPos(types, i)).mem]),
            [mem |-> mem, end |-> start + headSize(types)], Indices(types))

-----------------------------------------------------------------------------
(* Encoding without it: heads, then the contents of the arrays             *)
retrieveArg(t, src, mem) == IF src.loc = "memory" THEN [src EXCEPT !.mem = mem] ELSE src
encodeToMemory(mem, sto, given, types, args, start) ==
    With(Through(LAMBDA r, i :
                     CASE isDynamicallySized(types[i]) -> [r EXCEPT !.end = @ + W, !.heads = Append(@, r.end)]
                       [] isValueType(types[i]) ->
                            [r EXCEPT !.mem = storeInMemoryDynamic(@, types[i], r.end, convertValue(args[i], given[i], types[i], TRUE, FALSE)),
                                      !.end = @ + W, !.heads = Append(@, 0)]
                       [] OTHER ->
                            With(copyArrayToMemory(r.mem, sto, types[i], retrieveArg(types[i], args[i], r.mem), r.end), LAMBDA c :
                                [mem |-> c[1], end |-> c[2], heads |-> Append(r.heads, 0)]),
                 [mem |-> mem, end |-> start, heads |-> << >>], Indices(types)), LAMBDA h :
    Through(LAMBDA r, i :
                IF ~isDynamicallySized(types[i]) THEN r
                ELSE With(MStore(r.mem, h.heads[i], r.end - start), LAMBDA m :
                     With(MStore(m, r.end, SourceLength(sto, types[i], retrieveArg(types[i], args[i], m))), LAMBDA n :
                     With(copyArrayToMemory(n, sto, types[i], retrieveArg(types[i], args[i], n), r.end + W), LAMBDA c :
                         [mem |-> c[1], end |-> c[2]]))),
            [mem |-> h.mem, end |-> h.end], Indices(types)))

-----------------------------------------------------------------------------
(* Decoding.  The input in is calldata, or "memory" and then in h itself.  *)
Reverted(h) == [h EXCEPT !.ok = FALSE]
Holding(h, x) == [h EXCEPT !.ref = x]
LoadFrom(h, in, a) == MLoad(IF in.loc = "calldata" THEN in.mem ELSE h.mem, a)

allocationFunction(h, size) ==
    With(Add(h.free, size), LAMBDA new :
        IF new > MaxOffset \/ new < h.free THEN Reverted(h) ELSE [h EXCEPT !.free = new, !.ref = h.free])
arrayAllocate(h, t, length) ==
    IF length > MaxOffset THEN Reverted(h)
    ELSE allocationFunction(h, (IF isByteArray(t) THEN RoundUp(length) ELSE length * W) + (IF isDynamicallySized(t) THEN W ELSE 0))

RECURSIVE abiDecodingFunction(_, _, _, _, _)

(* a component goes to where its pointer or word belongs *)
DecodeInto(h, in, t, offset, end, a) ==
    With(abiDecodingFunction(h, in, t, offset, end), LAMBDA r : IF r.ok THEN [r EXCEPT !.mem = MStore(@, a, r.ref)] ELSE r)

abiDecodingFunctionValueType(h, in, t, offset) == Holding(h, cleanupFunction(LoadFrom(h, in, offset), t))

(* mutant: nothing is checked *)
MutElementsInside(t, src, length, end) == TRUE
ElementsInside(t, src, length, end) ==
    isDynamicallyEncoded(baseType(t)) \/ Add(src, Mul(length, calldataEncodedSize(baseType(t)))) <= end
abiDecodingFunctionArray(h, in, t, offset, end) ==
    IF Signed(Add(offset, W - 1)) >= Signed(end) THEN Reverted(h)
    ELSE With(IF isDynamicallySized(t) THEN LoadFrom(h, in, offset) ELSE t.n, LAMBDA length :
         With(arrayAllocate(h, t, length), LAMBDA a :
         With(IF isDynamicallySized(t) THEN W ELSE 0, LAMBDA head :
         With(offset + head, LAMBDA src :
             IF ~a.ok \/ ~ElementsInside(t, src, length, end) THEN Reverted(h)
             ELSE With(Through(LAMBDA r, i :
                                   IF ~r.ok THEN r
                                   ELSE With(IF isDynamicallyEncoded(baseType(t)) THEN Add(src, LoadFrom(r, in, src + (i - 1) * W))
                                             ELSE src + (i - 1) * calldataEncodedSize(baseType(t)), LAMBDA elementPos :
                                            DecodeInto(r, in, baseType(t), elementPos, end, a.ref + head + (i - 1) * W)),
                               [a EXCEPT !.mem = IF head = W THEN MStore(@, a.ref, length) ELSE @], Upto(length)), LAMBDA r :
                      Holding(r, a.ref))))))

abiDecodingFunctionByteArray(h, in, t, offset, end) ==
    IF Signed(Add(offset, W - 1)) >= Signed(end) THEN Reverted(h)
    ELSE With(LoadFrom(h, in, offset), LAMBDA length :
         With(arrayAllocate(h, t, length), LAMBDA a :
             IF ~a.ok \/ Add(offset + W, length) > end THEN Reverted(h)
             ELSE With(MStore(a.mem, a.ref, length), LAMBDA m :
                      [a EXCEPT !.mem = IF in.loc = "calldata" THEN copyCalldataToMemory(m, in.mem, offset + W, a.ref + W, length)
                                        ELSE copyMemoryToMemory(m, offset + W, a.ref + W, length)])))

(* the place of a component whose head is at pos *)
ComponentAt(h, in, t, start, pos) == IF isDynamicallyEncoded(t) THEN LoadFrom(h, in, start + pos) ELSE pos
abiDecodingFunctionStruct(h, in, t, start, end) ==
    IF Signed(Sub(end, start)) < headSize(t.s) THEN Reverted(h)
    ELSE With(allocationFunction(h, memorySize(t)), LAMBDA a :
         With(Through(LAMBDA r, i :
                          With(IF r.ok THEN ComponentAt(r, in, t.s[i], start, headPos(t.s, i)) ELSE 0, LAMBDA offset :
                              IF ~r.ok \/ offset > MaxOffset THEN Reverted(r)
                              ELSE DecodeInto(r, in, t.s[i], Add(start, offset), end, a.ref + memberMemoryOffset(t, i))),
                      a, Indices(t.s)), LAMBDA r : IF r.ok THEN Holding(r, a.ref) ELSE r))

abiDecodingFunction(h, in, t, offset, end) ==
    CASE isValueType(t) -> abiDecodingFunctionValueType(h, in, t, offset)
      [] isByteArray(t) -> abiDecodingFunctionByteArray(h, in, t, offset, end)
      [] t.k = "array" -> abiDecodingFunctionArray(h, in, t, offset, end)
      [] OTHER -> abiDecodingFunctionStruct(h, in, t, offset, end)

(* the values decoded stand in out *)
tupleDecoder(h, in, types, start, end) ==
    IF Signed(Sub(end, start)) < headSize(types) THEN Reverted(h)
    ELSE Through(LAMBDA r, i :
                     With(IF r.ok THEN ComponentAt(r, in, types[i], start, headPos(types, i)) ELSE 0, LAMBDA offset :
                         IF ~r.ok \/ offset > MaxOffset THEN Reverted(r)
                         ELSE With(abiDecodingFunction(r, in, types[i], Add(start, offset), end), LAMBDA d : [d EXCEPT !.out = Append(@, d.ref)])),
                 h, Indices(types))

(* Without ABIEncoderV2 an array stays where it is when the input is in memory, and is copied from calldata. *)
ItemSize(t) == IF isByteArray(t) THEN 1 ELSE calldataEncodedSize(baseType(t))
decodeDynamicArray(r, in, t, base, end) ==
    With(LoadFrom(r, in, r.pos), LAMBDA offset :
    With(Add(offset, base), LAMBDA ptr :
    With(LoadFrom(r, in, ptr), LAMBDA length :
        IF \/ offset > MaxLength
           \/ Add(ptr, W) > end
           \/ length > MaxLength
           \/ Add(ptr + W, Mul(length, ItemSize(t))) > end
        THEN Reverted(r)
        ELSE IF in.loc = "memory" THEN [r EXCEPT !.out = Append(@, ptr), !.pos = @ + W]
        ELSE With(convertType(r, << >>, t, CalldataRef(in.mem, ptr + W, length)), LAMBDA d : [d EXCEPT !.out = Append(@, d.ref), !.pos = @ + W]))))
decodeStaticArray(r, in, t) ==
    With(IF in.loc = "memory" THEN Holding(r, r.pos) ELSE convertType(r, << >>, t, CalldataRef(in.mem, r.pos, 0)), LAMBDA d :
        [d EXCEPT !.out = Append(@, d.ref), !.pos = @ + calldataEncodedSize(t)])
decodeValue(r, in, t) ==
    With(LoadFrom(r, in, r.pos), LAMBDA x :
        [r EXCEPT !.out = Append(@, IF in.loc = "calldata" THEN convertValue(x, t, t, TRUE, FALSE) ELSE x), !.pos = @ + W])
abiDecode(h, in, types, start, length) ==
    IF length < SumOver(calldataEncodedSize, types) THEN Reverted(h)
    ELSE Through(LAMBDA r, i :
                     CASE ~r.ok -> r
                       [] r.ok /\ isDynamicallySized(types[i]) -> decodeDynamicArray(r, in, types[i], start, start + length)
                       [] r.ok /\ isArrayType(types[i]) /\ ~isDynamicallySized(types[i]) -> decodeStaticArray(r, in, types[i])
                       [] OTHER -> decodeValue(r, in, types[i]),
                 [h EXCEPT !.pos = start], Indices(types))
==============================================================================
