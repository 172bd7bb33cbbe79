---------------------------- MODULE ContractCalls ----------------------------
(***************************************************************************)
(* Calls with the state variables of ContractStorage as arguments, in      *)
(* every state they reach: how the arguments are encoded from storage and  *)
(* from a copy in memory, by both encoders, and what the called function   *)
(* finds when it decodes them.  A call has the variables args and the      *)
(* types params of the parameters.                                         *)
(***************************************************************************)
EXTENDS ContractStorage, AbiCoding

-----------------------------------------------------------------------------
(* The encoding of docs/abi-spec.rst, as words: heads, and the tails that  *)
(* dynamic components have, their offsets counted from the first head.     *)
RECURSIVE Encoded(_, _)
EncodedTuple(types, v) ==
    With(Through(LAMBDA r, i :
                     With(Encoded(types[i], v[i]), LAMBDA e :
                         IF isDynamicallyEncoded(types[i])
                         THEN [head |-> Append(r.head, headSize(types) + W * Len(r.tail)), tail |-> r.tail \o e]
                         ELSE [r EXCEPT !.head = @ \o e]),
                 [head |-> << >>, tail |-> << >>], Indices(types)), LAMBDA r : r.head \o r.tail)
PackedWord(v, j) == Through(LAMBDA x, i : x + (IF j * W + i <= Len(v) THEN v[j * W + i] \div Power[i - 1] ELSE 0), 0, Upto(W))
Encoded(t, v) ==
    CASE isValueType(t) -> <<v>>
      [] t.k = "struct" -> EncodedTuple(t.s, v)
      [] isByteArray(t) -> <<Len(v)>> \o [j \in 1 .. Ceil(Len(v), W) |-> PackedWord(v, j - 1)]
      [] OTHER -> (IF isDynamicallySized(t) THEN <<Len(v)>> ELSE << >>) \o EncodedTuple([i \in DOMAIN v |-> baseType(t)], v)

RECURSIVE MemoryValue(_, _, _)
(* what a program finds in memory at x *)
MemoryValue(mem, t, x) ==
    CASE isValueType(t) -> x
      [] isByteArray(t) -> [i \in 1 .. MLoad(mem, x) |-> MByte(mem, x + W + i - 1) * Power[W - 1]]
      [] t.k = "struct" -> [i \in DOMAIN t.s |-> MemoryValue(mem, t.s[i], MLoad(mem, x + memberMemoryOffset(t, i)))]
      [] OTHER -> With(IF isDynamicallySized(t) THEN <<MLoad(mem, x), x + W>> ELSE <<t.n, x>>, LAMBDA a :
                      [i \in 1 .. a[1] |-> MemoryValue(mem, baseType(t), MLoad(mem, a[2] + (i - 1) * W))])

WordsAt(r, start) == [i \in 1 .. (r.end - start) \div W |-> MLoad(r.mem, start + (i - 1) * W)]
BytesAt(words, start) == [a \in start .. start + W * Len(words) - 1 |-> ByteOf(words[1 + ((a - start) \div W)], (a - start) % W)]

-----------------------------------------------------------------------------
Heap(mem, free) == [mem |-> mem, free |-> free, ref |-> 0, ok |-> TRUE, out |-> << >>, pos |-> 0]
Given(call) == [i \in DOMAIN call.args |-> contract.types[call.args[i]]]
Arguments(call) == [i \in DOMAIN call.args |-> vals[call.args[i]]]

(* a variable as it stands on the stack: its value, or its slot *)
InStorage(x) ==
    With(computeOffsets(contract.types).at[x], LAMBDA p :
        IF isValueType(contract.types[x]) THEN retrieveValue(sto, contract.types[x], p[1], p[2]) ELSE StorageRef(p[1]))
StorageArguments(call) == [i \in DOMAIN call.args |-> InStorage(call.args[i])]
(* the same with copies in memory *)
MemoryArguments(call) ==
    Through(LAMBDA h, i :
                IF isValueType(Given(call)[i]) THEN [h EXCEPT !.out = Append(@, InStorage(call.args[i]))]
                ELSE With(convertType(h, sto, Given(call)[i], InStorage(call.args[i])), LAMBDA r :
                         [r EXCEPT !.out = Append(@, MemoryRef(<< >>, r.ref))]),
            Heap(<< >>, 3 * W), Indices(call.args))

(* the types known without ABIEncoderV2: words, and arrays of them *)
OldTypes(types) == \A i \in DOMAIN types : isValueType(types[i]) \/ (isArrayType(types[i]) /\ isValueType(baseType(types[i])))

Arrived(types, r) == [i \in DOMAIN r.out |-> MemoryValue(r.mem, types[i], r.out[i])]
InCalldata(bytes) == [loc |-> "calldata", mem |-> bytes]
AlreadyInMemory == [loc |-> "memory", mem |-> << >>]
(* the decodings of the bytes from 0 to end: old and new, from calldata and from memory *)
Decodings(types, bytes, end, free) ==
    <<tupleDecoder(Heap(<< >>, 3 * W), InCalldata(bytes), types, 0, end), tupleDecoder(Heap(bytes, free), AlreadyInMemory, types, 0, end)>>
    \o (IF ~OldTypes(types) THEN << >>
        ELSE <<abiDecode(Heap(<< >>, 3 * W), InCalldata(bytes), types, 0, end), abiDecode(Heap(bytes, free), AlreadyInMemory, types, 0, end)>>)

-----------------------------------------------------------------------------
RECURSIVE HasEmptyBytes(_, _)
HasEmptyBytes(t, v) ==
    IF isByteArray(t) THEN v = << >>
    ELSE ~isValueType(t) /\ t.k # "mapping" /\ \E i \in DOMAIN v : HasEmptyBytes(ComponentType(t, i), v[i])

(* The words of the arguments: new and old, from a copy in memory and from storage. *)
Encodings(call) ==
    With(MemoryArguments(call), LAMBDA h :
    With(StorageArguments(call), LAMBDA args :
        <<WordsAt(tupleEncoder(<< >>, sto, Given(call), call.params, args, 0), 0),
          WordsAt(tupleEncoder(h.mem, sto, Given(call), call.params, h.out, h.free), h.free)>>
        \o (IF ~OldTypes(call.params) THEN << >>
            ELSE <<WordsAt(encodeToMemory(<< >>, sto, Given(call), call.params, args, 0), 0),
                   WordsAt(encodeToMemory(h.mem, sto, Given(call), call.params, h.out, h.free), h.free)>>)))

(* Arguments arrive.  Whatever the state of the variables, and wherever they are encoded from, the     *)
(* called function decodes the values that were passed.  The encoding is the one of the specification, *)
(* except that ABIEncoderV2 adds a word to empty byte arrays it finds in storage.                      *)
CallsArrive ==
    \A call \in contract.calls :
        With(EncodedTuple(call.params, Arguments(call)), LAMBDA words :
        With(Encodings(call), LAMBDA es :
            \A k \in DOMAIN es :
                /\ (k = 1 /\ HasEmptyBytes(StructType(call.params), Arguments(call))) \/ es[k] = words
                /\ With(Decodings(call.params, BytesAt(es[k], 0), W * Len(es[k]), W * Len(es[k])), LAMBDA rs :
                       \A i \in DOMAIN rs : rs[i].ok /\ Arrived(call.params, rs[i]) = Arguments(call))))

(* Decoders stay inside their input.  An encoding with one word replaced, or cut short, is rejected or *)
(* decoded without a look at what lies behind its end.                                                 *)
Behind(bytes, end, x) == [a \in 0 .. end - 1 |-> bytes[a]] @@ [a \in end .. end + 4 * W - 1 |-> x]
Seen(types, rs) == [i \in DOMAIN rs |-> IF rs[i].ok THEN Arrived(types, rs[i]) ELSE << >>]
DecodersStayInside ==
    \A call \in contract.calls :
        With(EncodedTuple(call.params, Arguments(call)), LAMBDA words :
            \A k \in DOMAIN words, x \in contract.damage, cut \in {0, 1, W} :
                With(BytesAt([words EXCEPT ![k] = x], 0), LAMBDA bytes :
                With(W * Len(words) - cut, LAMBDA end :
                    Seen(call.params, Decodings(call.params, Behind(bytes, end, 0), end, end + 4 * W))
                    = Seen(call.params, Decodings(call.params, Behind(bytes, end, ByteValues - 1), end, end + 4 * W)))))
==============================================================================
