--------------------------- MODULE ContractStorage ---------------------------
(***************************************************************************)
(* The state variables of a contract under the statements that change      *)
(* them: assignment, delete, push, pop and a new length, of a variable or  *)
(* of anything inside it.  Beside the storage vals keeps the values a      *)
(* reader of the contract has in mind.  A path is the variable and the     *)
(* indices or members that lead into it.                                   *)
(***************************************************************************)
EXTENDS ArrayUtils, FiniteSetsExt

CONSTANTS
    Contracts,      \* the contracts: types of the variables, the lengths arrays may take, the copies
    Samples(_)      \* the words of a type that are assigned

VARIABLES
    contract,
    sto,
    vals

storageVars == <<contract, sto, vals>>

-----------------------------------------------------------------------------
(* Values: a word, or a sequence of values *)
RECURSIVE Zero(_), At(_, _), Put(_, _, _), PathsIn(_, _), Fitted(_, _)
Zero(t) ==
    CASE isValueType(t) -> 0
      [] t.k = "mapping" -> << >>
      [] isArrayType(t) -> [i \in 1 .. (IF t.n = Dynamic THEN 0 ELSE t.n) |-> Zero(baseType(t))]
      [] OTHER -> [i \in DOMAIN t.s |-> Zero(t.s[i])]
At(v, path) == IF path = << >> THEN v ELSE At(v[Head(path)], Tail(path))
Put(v, path, x) == IF path = << >> THEN x ELSE [v EXCEPT ![Head(path)] = Put(v[Head(path)], Tail(path), x)]
(* a value as one of type t: a shorter array is filled up *)
Fitted(t, v) ==
    IF ~isArrayType(t) THEN v
    ELSE [i \in 1 .. (IF t.n = Dynamic THEN Len(v) ELSE t.n) |->
             IF i <= Len(v) THEN Fitted(baseType(t), v[i]) ELSE Zero(baseType(t))]
ComponentType(t, i) == IF t.k = "struct" THEN t.s[i] ELSE baseType(t)
PathsIn(t, v) ==
    {<< >>} \cup
    (IF isValueType(t) \/ t.k = "mapping" THEN {}
     ELSE UNION {{<<i>> \o p : p \in PathsIn(ComponentType(t, i), v[i])} : i \in DOMAIN v})
Variables == DOMAIN contract.types
Paths == UNION {{<<x>> \o p : p \in PathsIn(contract.types[x], vals[x])} : x \in Variables}

RECURSIVE TypeAt(_, _)
TypeAt(t, path) == IF path = << >> THEN t ELSE TypeAt(ComponentType(t, Head(path)), Tail(path))
PathType(path) == TypeAt(contract.types[path[1]], Tail(path))
ValueOf(path) == At(vals, path)
ValuePaths == {path \in Paths : isValueType(PathType(path))}
DynamicPaths == {path \in Paths : isDynamicallySized(PathType(path))}
CopiedPaths == {path \in Paths : ~isValueType(PathType(path)) /\ PathType(path).k # "mapping"}
InBytes(path) == Len(path) > 1 /\ isByteArray(PathType(SubSeq(path, 1, Len(path) - 1)))

-----------------------------------------------------------------------------
(* The place the code computes for a path, all indices being in range *)
RECURSIVE Located(_, _, _)
Located(t, p, path) ==
    CASE path = << >> -> p
      [] path # << >> /\ t.k = "struct" ->
            With(memberOffset(t, Head(path)), LAMBDA o : Located(t.s[Head(path)], <<p[1] + o[1], o[2]>>, Tail(path)))
      [] OTHER -> Located(baseType(t), accessIndex(sto, t, p[1], Head(path) - 1), Tail(path))
PlaceOf(path) == Located(contract.types[path[1]], computeOffsets(contract.types).at[path[1]], Tail(path))

Do(storage, path, v) == sto' = storage /\ vals' = Put(vals, path, v) /\ UNCHANGED contract

(* x = word *)
AssignValue ==
    \E path \in ValuePaths : \E x \in Samples(PathType(path)), p \in {PlaceOf(path)} :
        Do(IF InBytes(path) THEN byteSetTo(sto, p[1], p[2], x) ELSE storeWord(sto, PathType(path), p[1], p[2], x, PathType(path)),
           path, x)

(* delete x *)
Delete ==
    \E path \in ValuePaths \cup CopiedPaths : \E p \in {PlaceOf(path)} :
        Do(IF InBytes(path) THEN byteSetTo(sto, p[1], p[2], 0) ELSE setToZero(sto, PathType(path), p[1], p[2]),
           path, Zero(PathType(path)))

(* x.length = n *)
Resize ==
    \E path \in DynamicPaths : \E n \in contract.lengths :
        Do(resizeDynamicArray(sto, PathType(path), PlaceOf(path)[1], n), path,
           [i \in 1 .. n |-> IF i <= Len(ValueOf(path)) THEN ValueOf(path)[i] ELSE Zero(baseType(PathType(path)))])

Longest == CHOOSE n \in contract.lengths : \A m \in contract.lengths : m <= n

(* x.push(word), or of what another place holds *)
Pushed(path, r, from, x) ==
    With(accessIndex(r[1], PathType(path), PlaceOf(path)[1], r[2] - 1), LAMBDA p :
        IF isByteArray(PathType(path)) THEN byteSetTo(r[1], p[1], p[2], x)
        ELSE storeValue(r[1], baseType(PathType(path)), p, from, x))
PushValue ==
    \E path \in DynamicPaths :
        /\ isValueType(baseType(PathType(path)))
        /\ Len(ValueOf(path)) < Longest
        /\ \E x \in Samples(baseType(PathType(path))) :
               Do(Pushed(path, incrementDynamicArraySize(sto, PathType(path), PlaceOf(path)[1]), baseType(PathType(path)), x),
                  path, Append(ValueOf(path), x))
PushCopy ==
    \E path \in DynamicPaths, other \in CopiedPaths :
        /\ PathType(other) = baseType(PathType(path))
        /\ Len(ValueOf(path)) < Longest
        /\ Do(Pushed(path, incrementDynamicArraySize(sto, PathType(path), PlaceOf(path)[1]), PathType(other), StorageRef(PlaceOf(other)[1])),
              path, Append(ValueOf(path), ValueOf(other)))

(* x.pop(), of an empty array invalid() *)
Pop ==
    \E path \in DynamicPaths :
        /\ Len(ValueOf(path)) > 0
        /\ Do(popStorageArrayElement(sto, PathType(path), PlaceOf(path)[1]), path,
              SubSeq(ValueOf(path), 1, Len(ValueOf(path)) - 1))

(* x = y, in storage, or by way of a copy in memory *)
CopyStorage ==
    \E path, other \in CopiedPaths :
        /\ <<PathType(path), PathType(other)>> \in contract.copies
        /\ Do(storeValue(sto, PathType(path), PlaceOf(path), PathType(other), StorageRef(PlaceOf(other)[1])),
              path, Fitted(PathType(path), ValueOf(other)))
InMemory(path) ==
    With(convertType([mem |-> << >>, free |-> 3 * W, ref |-> 0], sto, PathType(path), StorageRef(PlaceOf(path)[1])), LAMBDA h :
        MemoryRef(h.mem, h.ref))
CopyMemory ==
    \E path, other \in CopiedPaths :
        /\ <<PathType(path), PathType(other)>> \in contract.memoryCopies
        /\ Do(storeValue(sto, PathType(path), PlaceOf(path), PathType(other), InMemory(other)),
              path, Fitted(PathType(path), ValueOf(other)))

StorageInit ==
    /\ contract \in Contracts
    /\ sto = << >>
    /\ vals = [x \in DOMAIN contract.types |-> Zero(contract.types[x])]

StorageNext == AssignValue \/ Delete \/ Resize \/ PushValue \/ PushCopy \/ Pop \/ CopyStorage \/ CopyMemory

StorageSpec == StorageInit /\ [][StorageNext]_storageVars

-----------------------------------------------------------------------------
(* Properties *)
RECURSIVE ReadValue(_, _), PiecesOf(_, _, _)
(* What the program reads: lengths by retrieveLength, elements by accessIndex and retrieveValue. *)
ReadValue(t, p) ==
    CASE isValueType(t) -> retrieveValue(sto, t, p[1], p[2])
      [] t.k = "mapping" -> << >>
      [] t.k = "struct" -> [i \in DOMAIN t.s |-> ReadValue(t.s[i], <<p[1] + memberOffset(t, i)[1], memberOffset(t, i)[2]>>)]
      [] OTHER -> [i \in 1 .. retrieveLength(sto, t, p[1]) |->
                      With(accessIndex(sto, t, p[1], i - 1), LAMBDA q :
                          IF isByteArray(t) THEN byteRetrieve(sto, q[1], q[2]) ELSE ReadValue(baseType(t), q))]

(* Every variable, element and member has the value that was assigned to it last: no statement reaches *)
(* a neighbour in the same slot, an element beyond the new end or another variable.                    *)
ReadsAgree == \A x \in Variables : ReadValue(contract.types[x], computeOffsets(contract.types).at[x]) = vals[x]

(* The layout of docs/miscellaneous.rst: what a value puts into which slot at which byte offset. *)
Piece(slot, offset, x) == IF x = 0 THEN {} ELSE {<<slot, x * Power[offset]>>}
Aligned(t, x) == IF t.k = "fixed" THEN x \div Power[W - t.n] ELSE Low(x, t.n)
PiecesOf(t, p, v) ==
    CASE isValueType(t) -> Piece(p[1], p[2], Aligned(t, v))
      [] t.k = "mapping" -> {}
      [] t.k = "struct" ->
            UNION {PiecesOf(t.s[i], <<p[1] + memberOffset(t, i)[1], memberOffset(t, i)[2]>>, v[i]) : i \in DOMAIN v}
      [] isByteArray(t) ->
            With(IF Len(v) < W THEN p[1] ELSE computeHashStatic(p[1]), LAMBDA data :
                UNION {Piece(data + ((i - 1) \div W), W - 1 - ((i - 1) % W), Aligned(baseType(t), v[i])) : i \in DOMAIN v})
            \cup Piece(p[1], 0, IF Len(v) < W THEN 2 * Len(v) ELSE 2 * Len(v) + 1)
      [] OTHER ->
            With(W \div storageBytes(baseType(t)), LAMBDA items :
                UNION {PiecesOf(baseType(t), IF Packed(baseType(t))
                                             THEN <<DataArea(t, p[1]) + ((i - 1) \div items), ((i - 1) % items) * storageBytes(baseType(t))>>
                                             ELSE <<DataArea(t, p[1]) + (i - 1) * storageSize(baseType(t)), 0>>, v[i]) : i \in DOMAIN v})
            \cup (IF isDynamicallySized(t) THEN Piece(p[1], 0, Len(v)) ELSE {})

(* Nothing is left behind: storage holds the values, and zero everywhere else.  What a shrinking array *)
(* leaves in a slot would come back when it grows again.                                               *)
NothingLeft ==
    With(UNION {PiecesOf(contract.types[x], computeOffsets(contract.types).at[x], vals[x]) : x \in Variables}, LAMBDA pieces :
        /\ DOMAIN sto = {c[1] : c \in pieces}
        /\ \A slot \in DOMAIN sto : sto[slot] = MapThenSumSet(LAMBDA c : c[2], {c \in pieces : c[1] = slot}))
==============================================================================
