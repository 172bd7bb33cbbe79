------------------------- MODULE AssemblyOptimiser --------------------------
(***************************************************************************)
(* optimiseInternal: the passes over whole assemblies and, on the blocks   *)
(* of runtime codes that the passes leave alone, the common subexpression  *)
(* eliminator and the constant optimiser.                                  *)
(*                                                                         *)
(* A block is put together from fragments and may end in an item that      *)
(* breaks the analysis.  Its items go to the eliminator and to the gas     *)
(* meter, and the block is replaced by the code the eliminator generates.  *)
(*                                                                         *)
(* The EVM runs a block on a stack, storage and memory of bytes.  Memory   *)
(* beyond MemLimit costs more gas than there is: such runs say nothing.    *)
(***************************************************************************)
EXTENDS EvmAssembly, KnownState

(***************************************************************************)
(* GasMeter.cpp: an upper bound of the gas of a straight piece of code,    *)
(* from what is known of its arguments.  A meter is a known state, the gas *)
(* so far (bounded or not) and the end of the largest memory access.       *)
(* Prices are those of Byzantium (GasCosts).  Calls and creations, whose   *)
(* costs are unbounded, are left out.                                      *)
(*                                                                         *)
(* ConstantOptimiser.cpp: a constant is pushed as it is, copied from the   *)
(* data of the code, or computed, whichever costs least.  32 bytes, 8 bits *)
(* and the limits 0x100 and 0x10000 are scaled to WordBytes, ByteBits and  *)
(* one and two bytes.  params: isCreation, runs, multiplicity.             *)
(***************************************************************************)
Meter == [k |-> EmptyState, gas |-> 0, bounded |-> TRUE, largest |-> 0]
Plus(m, n) == IF m.bounded THEN [m EXCEPT !.gas = @ + n] ELSE m
Unbounded(m) == [m EXCEPT !.bounded = FALSE]

sstoreSetGas == 20000
sstoreResetGas == 5000
sloadGas == 200
balanceGas == 400
expGas == 10
expByteGas == 50
keccak256Gas == 30
keccak256WordGas == 6
copyGas == 3
logGas == 375
logTopicGas == 375
logDataGas == 8
(* memoryGas and quadCoeffDiv *)
memGas(end) == With((end + WordBytes - 1) \div WordBytes, LAMBDA size : 3 * size + ((size * size) \div 512))

(* runGas: the price tiers of the instructions *)
BaseTier == {"address", "caller", "origin", "coinbase", "callvalue", "pop", "gas", "msize"}
LowTier == {"mul", "div", "sdiv", "mod", "smod", "signextend"}
runGas(n) == CASE n \in BaseTier -> 2
               [] n \in LowTier -> 5
               [] n \in {"addmod", "mulmod", "jump"} -> 8
               [] n = "jumpi" -> 10
               [] n \in {"stop", "return"} -> 0
               [] OTHER -> 3

(* relativeStackElement makes the element known: the state changes *)
Element(m, offset) == With(relativeStackElement(m.k, offset), LAMBDA e : [m |-> [m EXCEPT !.k = e.k], id |-> e.id])
SumTo(m, a, b) == With(find(m.k.c, "add", <<a, b>>), LAMBDA f : [m |-> [m EXCEPT !.k.c = f.c], id |-> f.id])

wordGas(m, price, id) ==
    IF ~IsConstant(m.k.c, id) THEN Unbounded(m)
    ELSE Plus(m, price * ((knownConstant(m.k.c, id) + WordBytes - 1) \div WordBytes))
MutMemoryTo(m, id) == IF IsConstant(m.k.c, id) THEN Plus(m, 0) ELSE Unbounded(m)
memoryTo(m, id) ==
    IF ~IsConstant(m.k.c, id) THEN Unbounded(m)
    ELSE With(knownConstant(m.k.c, id), LAMBDA end :
         IF end < m.largest THEN m ELSE [Plus(m, memGas(end) - memGas(m.largest)) EXCEPT !.largest = end])
memoryGas(m, posOffset, posSize) ==
    With(Element(m, posSize), LAMBDA size :
        IF knownZero(size.m.k.c, size.id) THEN size.m
        ELSE With(Element(size.m, posOffset), LAMBDA start : With(SumTo(start.m, start.id, size.id), LAMBDA s : memoryTo(s.m, s.id))))
accessGas(m, length) ==
    With(Element(m, 0), LAMBDA start :
    With(findConstant(start.m.k.c, length), LAMBDA n :
    With(SumTo([start.m EXCEPT !.k.c = n.c], start.id, n.id), LAMBDA s : memoryTo(s.m, s.id))))

storeGas(m) ==
    With(Element(m, 0), LAMBDA slot :
    With(Element(slot.m, -1), LAMBDA value :
        IF knownZero(value.m.k.c, value.id) THEN Plus(value.m, sstoreResetGas)
        ELSE IF slot.id \notin DOMAIN m.k.sto THEN Plus(value.m, sstoreSetGas)
        ELSE With(knownNonZero(value.m.k.c, m.k.sto[slot.id]), LAMBDA r :
                  Plus([value.m EXCEPT !.k.c = r.c], IF r.yes THEN sstoreResetGas ELSE sstoreSetGas))))
(* Bytes of an exponent *)
BytesOf(v) == Cardinality({i \in 0 .. WordBytes - 1 : v >= 2 ^ (ByteBits * i)})
powerGas(m) ==
    With(Element(m, -1), LAMBDA e :
        Plus(e.m, expGas + expByteGas * IF IsConstant(e.m.k.c, e.id) THEN BytesOf(knownConstant(e.m.k.c, e.id)) ELSE WordBytes))
sizedGas(m, price, posSize, word) == With(Element(m, posSize), LAMBDA e : wordGas(Plus(e.m, price), word, e.id))
dataGas(m) ==
    With(Element(m, -1), LAMBDA e :
        IF IsConstant(e.m.k.c, e.id) THEN Plus(e.m, logDataGas * knownConstant(e.m.k.c, e.id)) ELSE Unbounded(e.m))

OperationGas(m, n) ==
    CASE n = "sstore" -> storeGas(m)
      [] n = "sload" -> Plus(m, sloadGas)
      [] n = "return" -> memoryGas(Plus(m, runGas(n)), 0, -1)
      [] n \in {"mload", "mstore"} -> accessGas(Plus(m, runGas(n)), WordBytes)
      [] n = "mstore8" -> accessGas(Plus(m, runGas(n)), 1)
      [] n = "keccak256" -> sizedGas(memoryGas(m, 0, -1), keccak256Gas, -1, keccak256WordGas)
      [] n \in {"calldatacopy", "codecopy"} -> sizedGas(memoryGas(m, 0, -2), runGas(n), -2, copyGas)
      [] n = "log1" -> dataGas(memoryGas(Plus(m, logGas + logTopicGas), 0, -1))
      [] n = "exp" -> powerGas(m)
      [] n = "balance" -> Plus(m, balanceGas)
      [] OTHER -> Plus(m, runGas(n))
estimateMax(m, it) ==
    With(CASE it.t = "tag" -> Plus(m, 1)
           [] it.t \in {"push", "pushtag"} -> Plus(m, runGas("push"))
           [] it.t = "op" -> OperationGas(m, it.n), LAMBDA r : [r EXCEPT !.k = feedItem(@, it)])

-----------------------------------------------------------------------------
(* The constant optimiser *)
CONSTANT MaxSteps   \* 10000 in the code: how many decompositions are tried

Data(v) == Item("pushdata", "", v)
Pow(n) == 2 ^ n

(* eth::bytesRequired, with addresses of 3 bytes *)
itemBytes(it) == IF it.t = "op" THEN 1 ELSE IF it.t = "pushdata" THEN 4 ELSE 1 + Max({1, BytesOf(it.v)})
bytesRequired(its) == Through(LAMBDA n, it : n + itemBytes(it), 0, its)
simpleRunGas(its) ==
    Through(LAMBDA n, it : n + IF it.t = "push" THEN runGas("push") ELSE IF it.t # "op" THEN 0
                               ELSE IF it.n = "exp" THEN expGas ELSE runGas(it.n), 0, its)
combineGas(params, run, repeated, unique) == params.runs * run + params.multiplicity * repeated + unique
(* GasMeter::dataGas *)
bytesGas(params, bytes) ==
    Through(LAMBDA n, b : n + IF ~params.isCreation THEN 200 ELSE IF b # 0 THEN 68 ELSE 4, 0, bytes)
perByte(params) == IF params.isCreation THEN 68 ELSE 200
toCompactBigEndian(v) == SubSeq(Bytes(v), WordBytes + 1 - Max({1, BytesOf(v)}), WordBytes)

literalGas(params, v) == combineGas(params, runGas("push"), perByte(params) + bytesGas(params, toCompactBigEndian(v)), 0)

copyRoutine(v) ==
    <<Const(0), Dup(1), Ins("mload"), Const(WordBytes), Data(v), Dup(4), Ins("codecopy"), Dup(2), Ins("mload"), Swap(2), Ins("mstore")>>
copyCost(params, v) ==
    combineGas(params, simpleRunGas(copyRoutine(v)) + copyGas, bytesRequired(copyRoutine(v)) * perByte(params), bytesGas(params, Bytes(v)))

computeCost(params, its) ==
    With(Cardinality({i \in DOMAIN its : its[i] = Ins("exp")}), LAMBDA exps :
        combineGas(params, simpleRunGas(its) + exps * (expGas + expByteGas), bytesRequired(its) * perByte(params), 0))

(* v as upper * 2^bits + lower, when one byte and the bit above it are 011..1 or 100..0 there and
   lower is small; << >> when bits is no such place *)
Decompose(v, bits) ==
    LET gap == (v \div Pow(bits - ByteBits)) % Pow(ByteBits + 1)
        low == v % Pow(bits)
        negative == Pow(bits) - low < low
        lower == IF negative THEN low - Pow(bits) ELSE low
        upper == (v \div Pow(bits)) + IF negative THEN 1 ELSE 0
    IN IF gap \notin {Pow(ByteBits) - 1, Pow(ByteBits)} \/ upper = 0 \/ Abs(lower) >= Pow(bits - ByteBits) THEN << >>
       ELSE <<[upper |-> upper, lower |-> lower]>>

(* findRepresentation: a routine and the steps that are left *)
Combined(d, bits, low, up) ==
    low \o <<Const(bits), Const(2), Ins("exp")>> \o (IF d.upper = 1 THEN << >> ELSE up \o <<Ins("mul")>>)
        \o (IF d.lower > 0 THEN <<Ins("add")>> ELSE IF d.lower < 0 THEN <<Ins("sub")>> ELSE << >>)
RECURSIVE findRepresentation(_, _, _)
findRepresentation(params, v, steps) ==
    IF v < Pow(2 * ByteBits) THEN [r |-> <<Const(v)>>, steps |-> steps]
    ELSE IF BytesOf(AllOnes - v) < BytesOf(v)
    THEN With(findRepresentation(params, AllOnes - v, steps), LAMBDA x : [x EXCEPT !.r = Append(@, Ins("not"))])
    ELSE Through(LAMBDA best, bits :
             IF best.steps = 0 \/ Decompose(v, bits) = << >> THEN best
             ELSE With(Decompose(v, bits)[1], LAMBDA d :
                  With(IF d.lower = 0 THEN [r |-> << >>, steps |-> best.steps]
                       ELSE findRepresentation(params, Abs(d.lower), best.steps), LAMBDA low :
                  With(IF d.upper = 1 THEN [r |-> << >>, steps |-> low.steps]
                       ELSE findRepresentation(params, d.upper, low.steps), LAMBDA up :
                  With(Combined(d, bits, low.r, up.r), LAMBDA new :
                       [r |-> IF computeCost(params, new) < computeCost(params, best.r) THEN new ELSE best.r,
                        steps |-> IF up.steps > 0 THEN up.steps - 1 ELSE 0])))),
             [r |-> <<Const(v)>>, steps |-> steps], [i \in 1 .. WordBits - 1 - ByteBits |-> WordBits - i])

(* The routines for the places at which v can be taken apart *)
Considered(v) ==
    LET cheap == [isCreation |-> FALSE, runs |-> 1, multiplicity |-> 1]
        part(n) == IF n = 0 THEN << >> ELSE findRepresentation(cheap, n, MaxSteps).r
    IN UNION {{Combined(d, bits, part(Abs(d.lower)), part(d.upper)) : d \in ToSet(Decompose(v, bits))} : bits \in ByteBits + 1 .. WordBits - 1}

(* optimiseConstants: the replacement of a constant, << >> when it stays *)
ReplacementFor(params, v) ==
    IF v < Pow(ByteBits) THEN << >>
    ELSE With(findRepresentation(params, v, MaxSteps).r, LAMBDA computed :
         With(literalGas(params, v), LAMBDA literal :
         With(copyCost(params, v), LAMBDA copy :
         With(computeCost(params, computed), LAMBDA compute :
              IF copy < literal /\ copy < compute THEN copyRoutine(v)
              ELSE IF compute < literal /\ compute <= copy THEN computed ELSE << >>))))
Multiplicity(its, v) == Cardinality({i \in DOMAIN its : its[i] = Const(v)})
optimiseConstants(isCreation, runs, its) ==
    FlattenSeq([i \in DOMAIN its |->
        IF its[i].t # "push" THEN <<its[i]>>
        ELSE With(ReplacementFor([isCreation |-> isCreation, runs |-> runs, multiplicity |-> Multiplicity(its, its[i].v)], its[i].v),
                  LAMBDA r : IF r = << >> THEN <<its[i]>> ELSE r)])

-----------------------------------------------------------------------------
(* The blocks *)

CONSTANTS Fragments,      \* sequences of items
          Breaks,         \* << >> and sequences of one item that ends the block
          BlockInputs,    \* stacks, the topmost element last
          MaxFragments,   \* bound on the fragments of a block
          MemLimit,       \* the size of memory that can be paid for
          Constants       \* numbers that a block pushes

VARIABLES block,   \* the items fed so far
          parts,   \* how many fragments they are
          known,   \* the state of the eliminator
          meter,   \* the gas meter
          out      \* << >> or <<the result of getOptimizedItems>>

blockVars == <<block, parts, known, meter, out>>

BlockInit == block = << >> /\ parts = 0 /\ known = EmptyState /\ meter = Meter /\ out = << >>

Metered(m, its) == Through(LAMBDA x, it : estimateMax(x, it), m, its)

(* feedItems *)
FeedItems ==
    /\ out = << >> /\ parts < MaxFragments
    /\ \E f \in Fragments :
        /\ block' = block \o f
        /\ known' = Feed(known, f)
        /\ meter' = Metered(meter, f)
    /\ parts' = parts + 1
    /\ UNCHANGED out

(* The end of feedItems, and getOptimizedItems *)
OptimiseBlock ==
    /\ out = << >> /\ parts > 0
    /\ \E b \in Breaks :
        /\ block' = block \o b
        /\ meter' = Metered(meter, b)
        /\ out' = <<getOptimizedItems(known, b)>>
    /\ UNCHANGED <<parts, known>>

(* optimiseConstants, on a block that pushes a constant once or twice *)
Once(v) == <<Const(v)>>
Twice(v) == <<Const(v), Const(v), Ins("add")>>
Replaced(b, its) == block' = b /\ out' = <<[err |-> "", items |-> its]>>
OptimiseConstants ==
    /\ out = << >> /\ parts = 0
    /\ \E v \in Constants, isCreation \in BOOLEAN, runs \in {1, 200} :
       \E b \in {Once(v), Twice(v)} : Replaced(b, optimiseConstants(isCreation, runs, b))
    /\ UNCHANGED <<parts, known, meter>>
(* Routines that are considered and not taken: on words as short as here, copying never pays and
   computing seldom does *)
ConsiderConstant ==
    /\ out = << >> /\ parts = 0
    /\ \E v \in Constants : \E r \in {copyRoutine(v)} \cup Considered(v) : Replaced(Once(v), r)
    /\ UNCHANGED <<parts, known, meter>>

BlockNext == FeedItems \/ OptimiseBlock \/ OptimiseConstants \/ ConsiderConstant

(***************************************************************************)
(* The EVM                                                                 *)
(***************************************************************************)
Running == [st |-> << >>, sto |-> << >>, mem |-> [i \in 0 .. MemLimit - 1 |-> (3 * i + (i \div 4)) % 2 ^ ByteBits],
            end |-> 0, gas |-> 0, halt |-> << >>, paid |-> TRUE]
(* A slot that was not written holds something else than its neighbours, sometimes 0 *)
Slot(m, s) == IF s \in DOMAIN m.sto THEN m.sto[s] ELSE s % 3
Top(m, i) == m.st[Len(m.st) + 1 - i]
Taken(m, n) == SubSeq(m.st, 1, Len(m.st) - n)
Spend(m, n) == [m EXCEPT !.gas = @ + n]
(* Memory grows to the end of an access of some length *)
Grow(m, start, length) ==
    IF length = 0 THEN m
    ELSE IF start + length > MemLimit THEN [m EXCEPT !.paid = FALSE]
    ELSE IF start + length <= m.end THEN m
    ELSE [m EXCEPT !.end = start + length, !.gas = @ + memGas(start + length) - memGas(m.end)]
Read(m, start, length) == [i \in 1 .. length |-> m.mem[start + i - 1]]
OfBytes(bytes) == Through(LAMBDA w, b : w * 2 ^ ByteBits + b, 0, bytes)
Write(m, start, bytes) == [m EXCEPT !.mem = [i \in DOMAIN @ |-> IF i - start + 1 \in DOMAIN bytes THEN bytes[i - start + 1] ELSE @[i]]]
Result_(m, n, v) == [m EXCEPT !.st = Append(Taken(m, n), v)]
Gone(m, n) == [m EXCEPT !.st = Taken(m, n)]
WordsOf(n) == (n + WordBytes - 1) \div WordBytes

(* What an instruction does, with a and b its first two operands *)
Instruct(m, n, a, b) ==
    CASE n = "pop" -> Gone(Spend(m, 2), 1)
      [] n = "sload" -> Result_(Spend(m, 200), 1, Slot(m, a))
      [] n = "sstore" -> Gone([Spend(m, IF Slot(m, a) = 0 /\ b # 0 THEN 20000 ELSE 5000) EXCEPT !.sto = (a :> b) @@ @], 2)
      [] n = "mload" -> With(Grow(Spend(m, 3), a, WordBytes), LAMBDA g : IF g.paid THEN Result_(g, 1, OfBytes(Read(g, a, WordBytes))) ELSE g)
      [] n = "mstore" -> With(Grow(Spend(m, 3), a, WordBytes), LAMBDA g : IF g.paid THEN Gone(Write(g, a, Bytes(b)), 2) ELSE g)
      [] n = "mstore8" -> With(Grow(Spend(m, 3), a, 1), LAMBDA g : IF g.paid THEN Gone(Write(g, a, <<b % 2 ^ ByteBits>>), 2) ELSE g)
      [] n = "keccak256" -> With(Grow(Spend(m, 30 + 6 * WordsOf(b)), a, b), LAMBDA g :
                                 IF g.paid THEN Result_(g, 2, keccak256(Read(g, a, b))) ELSE g)
      [] n = "codecopy" -> With(Grow(Spend(m, 3 + 3 * WordsOf(Top(m, 3))), a, Top(m, 3)), LAMBDA g : IF g.paid THEN Gone(Write(g, a, Bytes(b)), 3) ELSE g)
      [] n = "exp" -> Result_(Spend(m, 10 + 50 * BytesOf(b)), 2, Value(n, <<a, b>>))
      [] n = "balance" -> Result_(Spend(m, 400), 1, Wrap(5 * a + 1))
      [] n = "log1" -> With(Grow(Spend(m, 750 + 8 * b), a, b), LAMBDA g : IF g.paid THEN [Gone(g, 3) EXCEPT !.halt = <<"log", Top(g, 3), Read(g, a, b)>>] ELSE g)
      [] n = "stop" -> [m EXCEPT !.halt = <<"return", << >>>>]
      [] n = "return" -> With(Grow(m, a, b), LAMBDA g : IF g.paid THEN [g EXCEPT !.halt = <<"return", Read(g, a, b)>>] ELSE g)
      [] n = "jump" -> [Gone(Spend(m, 8), 1) EXCEPT !.halt = <<"jump", a>>]
      [] n = "jumpi" -> With(Gone(Spend(m, 10), 2), LAMBDA g : IF b # 0 THEN [g EXCEPT !.halt = <<"jump", a>>] ELSE g)
      [] OTHER -> Result_(Spend(m, runGas(n)), args(n), Value(n, [i \in 1 .. args(n) |-> Top(m, i)]))
Executed1(m, it) ==
    IF ~m.paid THEN m
    ELSE CASE it.t = "tag" -> Spend(m, 1)
           [] it.t \in {"push", "pushtag", "pushdata"} -> Result_(Spend(m, 3), 0, it.v)
           [] it.n = "dup" -> Result_(Spend(m, 3), 0, Top(m, it.v))
           [] it.n = "swap" -> [Spend(m, 3) EXCEPT !.st[Len(m.st)] = Top(m, it.v + 1), !.st[Len(m.st) - it.v] = Top(m, 1)]
           [] OTHER -> Instruct(m, it.n, IF args(it.n) > 0 THEN Top(m, 1) ELSE 0, IF args(it.n) > 1 THEN Top(m, 2) ELSE 0)
Execute(its, stack) == Through(LAMBDA m, it : Executed1(m, it), [Running EXCEPT !.st = stack], its)

(* The slots whose contents differ from those at the beginning *)
Contents(m) == {<<s, m.sto[s]>> : s \in {x \in DOMAIN m.sto : m.sto[x] # x % 3}}
(* What the rest of the program can observe: nothing of the machine but the data once it returns *)
Observed(m) ==
    IF m.halt # << >> /\ m.halt[1] = "return" THEN <<Contents(m), m.halt>> ELSE <<Contents(m), m.halt, m.st, m.mem>>

(***************************************************************************)
(* Properties                                                              *)
(***************************************************************************)
(* The generator fails in the two ways optimiseInternal catches only: no assertion on the positions of
   the classes, the arguments of an operation, the order of loads and stores or the final height fails. *)
GeneratorSound == out # << >> => out[1].err \in {"", "deep", "unavailable"}

(* The code that replaces a block leaves the same stack, storage and memory as the block, and leaves
   it in the same way, for every input: no value is used after what it was read from has changed, and a
   constant that is computed or copied from the code is the constant. *)
BlockKept ==
    /\ GeneratorSound
    /\ out # << >> /\ out[1].err = "" =>
        \A s \in BlockInputs :
            With(Execute(block, s), LAMBDA m : m.paid => Observed(Execute(out[1].items, s)) = Observed(m))

(* The estimate is an upper bound of the gas the block uses, whatever the input. *)
EstimateCovers ==
    meter.bounded /\ parts > 0 => \A s \in BlockInputs : With(Execute(block, s), LAMBDA m : m.paid => m.gas <= meter.gas)

-----------------------------------------------------------------------------

(* The blocks are those of the one program without runtime items. *)
InBlocks == prog.sub = << >>

OptimiserInit == AsmInit /\ BlockInit
OptimiserNext ==
    \/ ~InBlocks /\ AsmNext /\ UNCHANGED blockVars
    \/ InBlocks /\ full /\ BlockNext /\ UNCHANGED asmVars

OptimiserSpec == OptimiserInit /\ [][OptimiserNext]_<<asmVars, blockVars>>
=============================================================================
