----------------------------- MODULE EvmAssembly -----------------------------
(***************************************************************************)
(* eth::Assembly (libevmasm): the items of a contract's creation code,     *)
(* "main", and of its runtime code, the sub assembly "sub"; the passes of  *)
(* optimiseInternal over them, the sub assembly first; and assemble, which *)
(* gives tags their places in the bytecode.  The creation code may push    *)
(* tags of the runtime code (pointers to internal functions), so that what *)
(* the passes do to the tags of one assembly concerns the other.           *)
(*                                                                         *)
(* The passes over the blocks of the items, the common subexpression       *)
(* eliminator and the constant optimiser, are in BlockOptimiser.  A word   *)
(* has two bits here; the value 3 stands for every constant whose lower 32 *)
(* bits are ones, wide enough for any tag.                                 *)
(***************************************************************************)
EXTENDS Integers, Sequences, FiniteSets, SequencesExt

CONSTANTS
    Programs,   \* pairs of item sequences: [main, sub]
    Inputs,     \* the stacks code is entered with, top last
    ByteValues, \* values of a byte: 256
    SizeBytes,  \* bytes reserved for a size: 4
    Fuel        \* bound: steps of an execution

ASSUME AssemblyAssumption ==
    /\ ByteValues \in Nat \ {0, 1}
    /\ SizeBytes \in Nat
    /\ Fuel \in Nat

VARIABLES
    prog,       \* the items before optimisation
    full,       \* settings.runDeduplicate
    items,      \* m_items of each assembly
    at,         \* the assembly in work, then "assemble", then "done" or "failed"
    pass,       \* the next pass over it
    changed,    \* count > 0
    replaced,   \* tagReplacements of the sub assembly
    code        \* the sizes and positions assemble has found

asmVars == <<prog, full, items, at, pass, changed, replaced, code>>

-----------------------------------------------------------------------------
(* Items.                                                                  *)

Own == "own"                            \* sub id -1
Instr(name) == <<"op", name>>
Push(v) == <<"push", v>>
PushTag(sub, tag) == <<"pushtag", sub, tag>>
Tag(tag) == <<"tag", tag>>
PushSub == <<"pushsub">>
PushSubSize == <<"subsize">>
Self == <<"pushtag", Own, -4>>          \* the virtual tag of the deduplicator

IsOp(item, names) == item[1] = "op" /\ item[2] \in names
IsTag(item) == item[1] = "tag"

(* instructionInfo: arguments, and whether one value comes back without    *)
(* side effects.                                                           *)
Args(name) ==
    CASE name \in {"CALLER", "STOP", "INVALID"} -> 0
      [] name \in {"POP", "NOT", "SLOAD", "JUMP", "DUP1"} -> 1
      [] name \in {"ADD", "AND", "LT", "GT", "JUMPI", "SSTORE", "SWAP1"} -> 2
      [] name = "ADDMOD" -> 3
PlainOps == {"CALLER", "NOT", "SLOAD", "ADD", "AND", "LT", "GT", "ADDMOD"}
CommutativeOps == {"ADD", "AND"}

(* altersControlFlow, without JUMPI. *)
EndingOps == {"JUMP", "STOP", "INVALID"}

(* dev::bytesRequired of a number. *)
Digits(n) == CHOOSE k \in 0..n : n < ByteValues^k /\ (k = 0 \/ n >= ByteValues^(k - 1))
AtLeastOne(k) == IF k = 0 THEN 1 ELSE k

(* AssemblyItem::bytesRequired *)
BytesRequired(item, addressLength) ==
    CASE item[1] \in {"op", "tag"} -> 1
      [] item[1] = "push" -> 1 + AtLeastOne(Digits(item[2]))
      [] item[1] \in {"pushtag", "pushsub"} -> 1 + addressLength
      [] item[1] = "subsize" -> 1 + SizeBytes

TotalBytes(s, addressLength) ==
    FoldLeft(LAMBDA n, item : n + BytesRequired(item, addressLength), 0, s)

-----------------------------------------------------------------------------
(* JumpdestRemover                                                         *)

ReferencedTags(s, sub) ==
    {s[i][3] : i \in {j \in DOMAIN s : s[j][1] = "pushtag" /\ s[j][2] = sub}}

RemoveTags(s, outside) ==
    SelectSeq(s, LAMBDA item : IsTag(item) => item[2] \in ReferencedTags(s, Own) \cup outside)

-----------------------------------------------------------------------------
(* PeepholeOptimiser.  A method looks at the items from position i on and  *)
(* answers how many it takes and what it puts in their place; one that     *)
(* takes none does not apply.                                              *)

Skip == [takes |-> 0, puts |-> <<>>]
Window(s, i, n) == i + n - 1 <= Len(s)
When(applies, n, puts) == IF applies THEN [takes |-> n, puts |-> puts] ELSE Skip

PushPop(s, i) ==
    When(/\ Window(s, i, 2) /\ s[i + 1] = Instr("POP")
         /\ s[i][1] \in {"push", "pushtag", "pushsub", "subsize"} \/ s[i] = Instr("DUP1"),
         2, <<>>)

OpPop(s, i) ==
    IF Window(s, i, 2) /\ s[i + 1] = Instr("POP") /\ IsOp(s[i], PlainOps)
    THEN When(TRUE, 2, [n \in 1..Args(s[i][2]) |-> Instr("POP")]) ELSE Skip

DoublePush(s, i) ==
    IF Window(s, i, 2) /\ s[i][1] = "push" /\ s[i + 1] = s[i]
    THEN When(TRUE, 2, <<s[i], Instr("DUP1")>>) ELSE Skip

DoubleSwap(s, i) ==
    When(Window(s, i, 2) /\ s[i] = Instr("SWAP1") /\ s[i + 1] = s[i], 2, <<>>)

CommutativeSwap(s, i) ==
    IF Window(s, i, 2) /\ s[i] = Instr("SWAP1") /\ IsOp(s[i + 1], CommutativeOps)
    THEN When(TRUE, 2, <<s[i + 1]>>) ELSE Skip

SwapComparison(s, i) ==
    IF Window(s, i, 2) /\ s[i] = Instr("SWAP1") /\ IsOp(s[i + 1], {"LT", "GT"})
    THEN When(TRUE, 2, <<Instr(IF s[i + 1][2] = "LT" THEN "GT" ELSE "LT")>>) ELSE Skip

JumpToNext(s, i) ==
    IF /\ Window(s, i, 3) /\ IsOp(s[i + 1], {"JUMP", "JUMPI"})
       /\ IsTag(s[i + 2]) /\ s[i] = PushTag(Own, s[i + 2][2])
    THEN When(TRUE, 3, IF s[i + 1] = Instr("JUMPI") THEN <<Instr("POP"), s[i + 2]>> ELSE <<s[i + 2]>>)
    ELSE Skip

(* Everything from an end of the control flow to the next tag. *)
UnreachableCode(s, i) ==
    LET tags == {j \in i + 1..Len(s) : IsTag(s[j])}
        next == CHOOSE j \in tags \cup {Len(s) + 1} : \A k \in tags \cup {Len(s) + 1} : j <= k
    IN  IF IsOp(s[i], EndingOps) /\ next > i + 1
        THEN When(TRUE, next - i, <<s[i]>>) ELSE Skip

TagConjunctions(s, i) ==
    IF Window(s, i, 3) /\ s[i][1] = "pushtag" /\ s[i + 1] = Push(3) /\ s[i + 2] = Instr("AND")
    THEN When(TRUE, 3, <<s[i]>>) ELSE Skip

TruthyAnd(s, i) ==
    When(Window(s, i, 3) /\ s[i] = Push(0) /\ s[i + 1] = Instr("NOT") /\ s[i + 2] = Instr("AND"), 3, <<>>)

Identity(s, i) == When(TRUE, 1, <<s[i]>>)

Methods(s, i) ==
    <<PushPop(s, i), OpPop(s, i), DoublePush(s, i), DoubleSwap(s, i), CommutativeSwap(s, i),
      SwapComparison(s, i), JumpToNext(s, i), UnreachableCode(s, i), TagConjunctions(s, i),
      TruthyAnd(s, i), Identity(s, i)>>

(* applyMethods: the first that applies. *)
Apply(s, o) ==
    IF o.i > Len(s) THEN o
    ELSE LET all == Methods(s, o.i)
             m == all[SelectInSeq(all, LAMBDA x : x.takes > 0)]
         IN  [i |-> o.i + m.takes, out |-> o.out \o m.puts]

Scan(s) == FoldLeft(LAMBDA o, item : Apply(s, o), [i |-> 1, out |-> <<>>], s).out

NumberOfPops(s) == Cardinality({i \in DOMAIN s : s[i] = Instr("POP")})

(* Mutant: a result of the same length is always taken over.               *)
MutBetter(new, old) == Len(new) <= Len(old)

(* Whether the result of a scan is taken over. *)
Better(new, old) ==
    \/ Len(new) < Len(old)
    \/ /\ Len(new) = Len(old)
       /\ TotalBytes(new, 3) < TotalBytes(old, 3) \/ NumberOfPops(new) > NumberOfPops(old)

-----------------------------------------------------------------------------
(* BlockDeduplicator                                                       *)

(* Mutant: the last item of a block is not compared.                       *)
MutBlock(s, i) ==
    LET rest == SelectSeq(SubSeq(s, i + 1, Len(s)), LAMBDA item : ~IsTag(item))
        end == SelectInSeq(rest, LAMBDA item : IsOp(item, EndingOps))
        block == IF end = 0 THEN rest ELSE SubSeq(rest, 1, end - 1)
    IN  [n \in DOMAIN block |-> IF block[n] = PushTag(Own, s[i][2]) THEN Self ELSE block[n]]

(* BlockIterator: what is executed from the tag at i on until the control  *)
(* flow ends, without tags, the tag's own name replaced.                   *)
Block(s, i) ==
    LET rest == SelectSeq(SubSeq(s, i + 1, Len(s)), LAMBDA item : ~IsTag(item))
        end == SelectInSeq(rest, LAMBDA item : IsOp(item, EndingOps))
        block == IF end = 0 THEN rest ELSE SubSeq(rest, 1, end)
    IN  [n \in DOMAIN block |-> IF block[n] = PushTag(Own, s[i][2]) THEN Self ELSE block[n]]

(* For every tag whose block was met before, the first tag with the block: *)
(* pairs of a tag and the one it is replaced by.                           *)
SameBlocks(s) ==
    LET blocks == {<<i, s[i][2], Block(s, i)>> : i \in {j \in DOMAIN s : IsTag(s[j])}}
        FirstLike(b) == CHOOSE c \in blocks :
                            c[3] = b[3] /\ \A d \in blocks : d[3] = b[3] => c[1] <= d[1]
    IN  {<<b[2], FirstLike(b)[2]>> : b \in {c \in blocks : FirstLike(c) # c}}

HasKey(repl, tag) == \E p \in repl : p[1] = tag
Replacement(repl, tag) == (CHOOSE p \in repl : p[1] = tag)[2]

(* Entries of new win. *)
Override(repl, new) == new \cup {p \in repl : ~HasKey(new, p[1])}

(* applyTagReplacement *)
Replaces(item, repl, sub) ==
    item[1] = "pushtag" /\ item[2] = sub /\ HasKey(repl, item[3])
ReplaceTags(s, repl, sub) ==
    FoldLeft(LAMBDA out, item :
                 Append(out, IF Replaces(item, repl, sub)
                               THEN PushTag(sub, Replacement(repl, item[3])) ELSE item),
             <<>>, s)

(* One turn of the loop of deduplicate; d is [s, repl, turns, done].       *)
DeduplicateOnce(d) ==
    LET repl == Override(d.repl, SameBlocks(d.s))
    IN  IF d.done THEN d
        ELSE IF \E i \in DOMAIN d.s : Replaces(d.s[i], repl, Own)
        THEN [s |-> ReplaceTags(d.s, repl, Own), repl |-> repl, turns |-> d.turns + 1, done |-> FALSE]
        ELSE [d EXCEPT !.repl = repl, !.done = TRUE]

(* Every turn moves a pushed tag to an earlier block: there are no more    *)
(* turns than pairs of an item and a tag.                                  *)
Deduplicate(s) ==
    LET turns == 1 + Len(s) * Cardinality({i \in DOMAIN s : IsTag(s[i])})
    IN  FoldLeft(LAMBDA d, n : DeduplicateOnce(d),
                 [s |-> s, repl |-> {}, turns |-> 0, done |-> FALSE],
                 [n \in 1..turns |-> n])

-----------------------------------------------------------------------------
(* optimiseInternal                                                        *)

Outside == IF at = "sub" THEN ReferencedTags(items.main, "sub") ELSE {}

AsmInit ==
    /\ prog \in Programs
    /\ full \in BOOLEAN
    /\ items = prog
    /\ at = "sub"
    /\ pass = "jumpdest"
    /\ changed = FALSE
    /\ replaced = {}
    /\ code = <<>>

Optimising == at \in {"sub", "main"}

RunJumpdestRemover ==
    /\ Optimising
    /\ pass = "jumpdest"
    /\ items' = [items EXCEPT ![at] = RemoveTags(@, Outside)]
    /\ changed' = (Len(items'[at]) # Len(items[at]))
    /\ pass' = "peephole"
    /\ UNCHANGED <<prog, full, at, replaced, code>>

(* One call of PeepholeOptimiser::optimise; it is called until it fails.   *)
RunPeephole ==
    /\ Optimising
    /\ pass = "peephole"
    /\ LET new == Scan(items[at])
       IN  IF Better(new, items[at])
           THEN items' = [items EXCEPT ![at] = new] /\ changed' = TRUE /\ UNCHANGED pass
           ELSE pass' = "dedup" /\ UNCHANGED <<items, changed>>
    /\ UNCHANGED <<prog, full, at, replaced, code>>

(* The end of a round: another one if something changed; otherwise the     *)
(* replacements of the sub assembly are made in the assembly around it.    *)
EndRound(new, more) ==
    /\ pass' = "jumpdest"
    /\ changed' = FALSE
    /\ at' = IF more THEN at ELSE IF at = "sub" THEN "main" ELSE "assemble"
    /\ items' = IF at = "sub" /\ ~more
                  THEN [new EXCEPT !.main = ReplaceTags(@, replaced', "sub")] ELSE new

(* map::insert: an entry of a round before stays.  What the outermost      *)
(* assembly returns is not used.                                           *)
RunDeduplicate ==
    /\ Optimising
    /\ pass = "dedup"
    /\ LET d == Deduplicate(items[at])
       IN  IF full /\ d.turns > 0
           THEN /\ replaced' = IF at = "sub" THEN Override(d.repl, replaced) ELSE replaced
                /\ EndRound([items EXCEPT ![at] = d.s], TRUE)
           ELSE /\ UNCHANGED replaced
                /\ EndRound(items, changed)
    /\ UNCHANGED <<prog, full, code>>

-----------------------------------------------------------------------------
(* assemble                                                                *)

(* Assembly::bytesRequired: an estimate of the size of the code with the   *)
(* smallest width of tags that is enough for it.                           *)
Estimate(s, tagSize) == 1 + TotalBytes(s, tagSize)

(* Mutant: the width is not adapted to the size.                           *)
MutCodeBytes(s, subTagSize) == Estimate(s, subTagSize)

CodeBytes(s, subTagSize) ==
    LET enough == {w \in subTagSize..subTagSize + Len(s) + 2 : Digits(Estimate(s, w)) <= w}
    IN  Estimate(s, CHOOSE w \in enough : \A v \in enough : w <= v)

(* The bytes an item becomes; w has the widths of tags, of offsets and the *)
(* size of the sub assembly.                                               *)
Emitted(item, w) ==
    CASE item[1] = "pushtag" -> 1 + w.tag
      [] item[1] = "pushsub" -> 1 + w.data
      [] item[1] = "subsize" -> 1 + AtLeastOne(Digits(w.sub))
      [] OTHER -> BytesRequired(item, 0)

PositionOf(s, i, w) ==
    FoldLeft(LAMBDA n, item : n + Emitted(item, w), 0, SubSeq(s, 1, i - 1))

(* Tag 0 is the place of the first item that is no tag: no jump leads      *)
(* there.                                                                  *)
TagPositions(s, w) ==
    [t \in {IF IsTag(s[i]) THEN s[i][2] ELSE 0 : i \in DOMAIN s} |->
        IF t = 0 THEN PositionOf(s, SelectInSeq(s, LAMBDA item : ~IsTag(item)), w)
        ELSE PositionOf(s, SelectInSeq(s, LAMBDA item : item = Tag(t)), w)]

NoSub == [bytes |-> 0, position |-> <<>>, widths |-> <<>>]

AssembleItems(s, sub) ==
    LET tagPositions == {sub.position[t] : t \in DOMAIN sub.position}
        subTagSize == CHOOSE n \in tagPositions \cup {1} : \A m \in tagPositions \cup {1} : m <= n
        estimate == CodeBytes(s, subTagSize)
        w == [tag |-> Digits(estimate), data |-> Digits(estimate + 1 + sub.bytes), sub |-> sub.bytes]
        own == PositionOf(s, Len(s) + 1, w)
    IN  [bytes |-> IF sub = NoSub THEN own
                   ELSE own + 1 + (IF PushSub \in ToSet(s) THEN sub.bytes ELSE 0),
         position |-> TagPositions(s, w), widths |-> w]

(* A tag without position is an AssemblyException.                         *)
Assemble ==
    /\ at = "assemble"
    /\ code' = LET sub == AssembleItems(items.sub, NoSub)
               IN  [sub |-> sub, main |-> AssembleItems(items.main, sub)]
    /\ at' = IF /\ \A a \in {"main", "sub"} : ReferencedTags(items[a], Own) \subseteq DOMAIN code'[a].position
                /\ ReferencedTags(items.main, "sub") \subseteq DOMAIN code'.sub.position
             THEN "done" ELSE "failed"
    /\ UNCHANGED <<prog, full, items, pass, changed, replaced>>

AsmNext == RunJumpdestRemover \/ RunPeephole \/ RunDeduplicate \/ Assemble

AsmSpec == AsmInit /\ [][AsmNext]_asmVars

-----------------------------------------------------------------------------
(* The machine that runs the items, up to what cannot be observed: which   *)
(* tag a value is.  A machine is [pc, stack, trace, status]; trace is what *)
(* was stored.                                                             *)

Num(n) == <<"num", n % 4>>
Junk == <<"junk">>                      \* a number that depends on a tag
IsNum(v) == v[1] = "num"

BitAnd(a, b) == (a % 2) * (b % 2) + 2 * ((a \div 2) * (b \div 2))
Bool(b) == Num(IF b THEN 1 ELSE 0)

(* The value of a pure operation; args has the top of the stack first.     *)
Result(name, args, trace) ==
    CASE name = "CALLER" -> Num(2)
      [] name = "SLOAD" ->
            LET hits == {i \in DOMAIN trace : trace[i][1] = args[1]}
            IN  IF hits = {} THEN Num(0)
                ELSE trace[CHOOSE i \in hits : \A j \in hits : j <= i][2]
      [] name = "AND" /\ args[1] = Num(3) -> args[2]
      [] name = "AND" /\ args[2] = Num(3) -> args[1]
      [] \E i \in DOMAIN args : ~IsNum(args[i]) -> Junk
      [] name = "NOT" -> Num(3 - args[1][2])
      [] name = "ADD" -> Num(args[1][2] + args[2][2])
      [] name = "AND" -> Num(BitAnd(args[1][2], args[2][2]))
      [] name = "LT" -> Bool(args[1][2] < args[2][2])
      [] name = "GT" -> Bool(args[1][2] > args[2][2])
      [] name = "ADDMOD" ->
            IF args[3][2] = 0 THEN Num(0) ELSE Num((args[1][2] + args[2][2]) % args[3][2])

Place(s, tag) == SelectInSeq(s, LAMBDA item : item = Tag(tag))

(* A jump goes to a tag of the assembly or fails. *)
JumpTo(s, m, target) ==
    IF target[1] = "tag" /\ target[2] = Own /\ Place(s, target[3]) # 0
    THEN [m EXCEPT !.pc = Place(s, target[3])]
    ELSE [m EXCEPT !.status = IF target = Junk THEN "junk" ELSE "invalid"]

Operate(s, m, name) ==
    LET n == Args(name)
        args == Reverse(SubSeq(m.stack, Len(m.stack) - n + 1, Len(m.stack)))
        below == SubSeq(m.stack, 1, Len(m.stack) - n)
        next == [m EXCEPT !.pc = @ + 1, !.stack = below]
    IN  CASE n > Len(m.stack) -> [m EXCEPT !.status = "underflow"]
          [] name \in PlainOps -> [next EXCEPT !.stack = Append(@, Result(name, args, m.trace))]
          [] name = "POP" -> next
          [] name = "DUP1" -> [next EXCEPT !.stack = below \o <<args[1], args[1]>>]
          [] name = "SWAP1" -> [next EXCEPT !.stack = below \o args]
          [] name = "SSTORE" -> [next EXCEPT !.trace = Append(@, args)]
          [] name = "STOP" -> [m EXCEPT !.status = "stop"]
          [] name = "INVALID" -> [m EXCEPT !.status = "invalid"]
          [] name = "JUMP" -> JumpTo(s, next, args[1])
          [] name = "JUMPI" -> IF args[2] = Junk THEN [m EXCEPT !.status = "junk"]
                               ELSE IF args[2] = Num(0) THEN next
                               ELSE JumpTo(s, next, args[1])

Exec(s, m) ==
    IF m.status # "run" THEN m
    ELSE IF m.pc > Len(s) THEN [m EXCEPT !.status = "stop"]
    ELSE LET item == s[m.pc]
             push(v) == [m EXCEPT !.pc = @ + 1, !.stack = Append(@, v)]
         IN  CASE item[1] = "op" -> Operate(s, m, item[2])
               [] item[1] = "push" -> push(Num(item[2]))
               [] item[1] = "pushtag" -> push(<<"tag", item[2], item[3]>>)
               [] item[1] = "tag" -> [m EXCEPT !.pc = @ + 1]
               [] OTHER -> push(Junk)

RunFrom(s, pc, input, steps) ==
    FoldLeft(LAMBDA m, i : Exec(s, m),
             [pc |-> pc, stack |-> [i \in DOMAIN input |-> Num(input[i])], trace |-> <<>>, status |-> "run"],
             [i \in 1..steps |-> i])

Anonymous(v) == IF v[1] = "tag" THEN <<"tag">> ELSE v
Seen(m) ==
    [status |-> m.status,
     stack |-> IF m.status = "stop" THEN [i \in DOMAIN m.stack |-> Anonymous(m.stack[i])] ELSE <<>>,
     trace |-> IF m.status = "stop"
                 THEN [i \in DOMAIN m.trace |-> <<Anonymous(m.trace[i][1]), Anonymous(m.trace[i][2])>>]
                 ELSE <<>>]

(* From the given places both do the same, if the first is well behaved    *)
(* and ends in time.                                                       *)
Alike(s1, pc1, s2, pc2) ==
    \A input \in Inputs :
        LET m == RunFrom(s1, pc1, input, Fuel)
        IN  m.status \in {"stop", "invalid"} =>
                Seen(RunFrom(s2, pc2, input, 2 * Fuel)) = Seen(m)

-----------------------------------------------------------------------------
(* Properties.                                                             *)

Placed(s, t) == Cardinality({i \in DOMAIN s : s[i] = Tag(t)}) = 1

(* No pass loses a tag that is still pushed: every tag an assembly pushes  *)
(* for itself is placed once in it, and as long as the sub assembly is in  *)
(* work so is every tag the assembly around it pushes.                     *)
TagsPlaced ==
    /\ \A a \in {"main", "sub"} : \A t \in ReferencedTags(items[a], Own) \ {0} : Placed(items[a], t)
    /\ at = "sub" => \A t \in ReferencedTags(items.main, "sub") : Placed(items.sub, t)

(* Where a tag of the runtime code that the creation code pushes leads to  *)
(* in the end.                                                             *)
EntryKept(t) ==
    LET u == IF HasKey(replaced, t) THEN Replacement(replaced, t) ELSE t
    IN  u \in ReferencedTags(items.main, "sub") =>
            Alike(prog.sub, Place(prog.sub, t), items.sub, Place(items.sub, u))

(* Every pass of the optimiser keeps what the code does: for all stacks it *)
(* is entered with it ends the same way, with the same stack and the same  *)
(* stores, although passes work on each other's results.  A pointer to a   *)
(* function of the runtime code that the creation code makes leads to the  *)
(* code it led to before blocks were unified.                              *)
CodeKept ==
    /\ Optimising /\ items[at] # prog[at] => Alike(prog[at], 1, items[at], 1)
    /\ at = "done" => \A t \in ReferencedTags(prog.main, "sub") : EntryKept(t)

(* assemble, "Tag too large for reserved space.": the position of every    *)
(* tag fits the width of the push that was estimated before the sizes were *)
(* known, also that of a tag of the sub assembly; and so does the offset   *)
(* of the sub assembly, for which nothing is asserted.                     *)
PositionsFit ==
    at = "done" =>
        /\ \A a \in {"main", "sub"} : \A t \in ReferencedTags(items[a], Own) :
               Digits(code[a].position[t]) <= code[a].widths.tag
        /\ \A t \in ReferencedTags(items.main, "sub") :
               Digits(code.sub.position[t]) <= code.main.widths.tag
        /\ PushSub \in ToSet(items.main) =>
               Digits(code.main.bytes - code.sub.bytes) <= code.main.widths.data

(* assemble, "Reference to tag without position.": there is one case in    *)
(* which it stops.  The tags the creation code pushes are read before the  *)
(* rounds over the runtime code and replaced after them, so that a tag     *)
(* that has replaced one of them in one round may be removed in the next.  *)
FailsForReplaced ==
    at = "failed" =>
        \A t \in ReferencedTags(items.main, "sub") :
            Placed(items.sub, t) \/ \E p \in replaced : p[2] = t /\ p[1] \in ReferencedTags(prog.main, "sub")

(* A tag an assembly pushes for itself is placed, and where it fits, and   *)
(* so is a tag of the sub assembly that the assembly around it pushes,     *)
(* unless it has replaced another one and was removed in a later round:    *)
(* for this and nothing else assemble throws.                              *)
TagsFit == TagsPlaced /\ PositionsFit /\ FailsForReplaced

(* Shorter, or with more POPs, or with fewer bytes, or with jumps to       *)
(* earlier places.                                                         *)
Lower(new, old) ==
    LET Places(s) == FoldLeft(LAMBDA n, item : n + IF item[1] = "pushtag" /\ item[2] = Own
                                                     THEN Place(s, item[3]) ELSE 0, 0, s)
        weight(s) == <<Len(s), -NumberOfPops(s), TotalBytes(s, 3), Places(s)>>
    IN  \E k \in 1..4 : /\ weight(new)[k] < weight(old)[k]
                        /\ \A j \in 1..k - 1 : weight(new)[j] = weight(old)[j]

(* No two passes undo each other's work, so that the loops of the          *)
(* optimiser end ("Peephole optimizer seems to be stuck."): a pass that    *)
(* changes the code lowers it in one fixed order, and only such a pass is  *)
(* repeated or followed by another round.                                  *)
PassesLower ==
    [][Optimising /\ at' = at =>
        IF items'[at] # items[at] THEN Lower(items'[at], items[at])
        ELSE pass' # pass /\ (pass = "dedup" => changed)]_asmVars
=============================================================================
