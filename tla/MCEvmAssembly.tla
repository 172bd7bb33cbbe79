---------------------------- MODULE MCEvmAssembly ----------------------------
(***************************************************************************)
(* Short pieces of straight code for the peephole methods, and runtime     *)
(* codes of three blocks that jump to each other, some of them pushed by   *)
(* the creation code as well.  Blocks are put together from fragments that *)
(* read and write storage and memory at places that may be the same; a     *)
(* word has six bytes of two bits there.                                   *)
(***************************************************************************)
EXTENDS AssemblyOptimiser

Deploy(s) == s \o <<PushSubSize, PushSub, Instr("STOP")>>

Simple ==
    {Push(0), Push(3), PushTag("own", 1), Tag(1), Instr("POP"), Instr("DUP1"), Instr("SWAP1"), Instr("ADD"),
     Instr("AND"), Instr("LT"), Instr("NOT"), Instr("CALLER"), Instr("ADDMOD"), Instr("SSTORE"), Instr("SLOAD"),
     Instr("JUMP"), Instr("JUMPI"), Instr("INVALID")}

Straight == {<<a, b, c>> : a \in Simple, b \in Simple, c \in Simple}

Proper(s) ==
    /\ \A t \in ReferencedTags(s, Own) : Placed(s, t)
    /\ Cardinality({i \in DOMAIN s : IsTag(s[i])}) <= 1

StraightPrograms ==
    {[main |-> Deploy(<<>>), sub |-> s] : s \in {x \in Straight : Proper(x)}}

Entries ==
    {<<PushTag(Own, 2), Instr("JUMP")>>,
     <<PushTag(Own, 3), Instr("JUMPI"), PushTag(Own, 2), Instr("JUMP")>>,
     <<PushTag(Own, 2), Instr("JUMPI"), PushTag(Own, 3), PushTag(Own, 1), Instr("JUMP")>>}
Bodies(t) ==
    {<<>>, <<Instr("STOP")>>, <<PushTag(Own, 2), Instr("JUMP")>>, <<PushTag(Own, 3), Instr("JUMP")>>,
     <<PushTag(Own, t), Instr("JUMPI")>>, <<Instr("POP"), Instr("STOP")>>,
     <<PushTag(Own, 3), Instr("JUMPI"), Instr("STOP")>>, <<Instr("JUMP")>>}
Foreign == {<<>>, <<PushTag("sub", 3)>>, <<PushTag("sub", 2), PushTag("sub", 3)>>}

BlockPrograms ==
    {[main |-> Deploy(m),
      sub |-> e \o <<Tag(1)>> \o b1 \o <<Tag(2)>> \o b2 \o <<Tag(3)>> \o b3] :
        m \in Foreign, e \in Entries, b1 \in Bodies(1), b2 \in Bodies(2), b3 \in Bodies(3)}

MCPrograms == {[main |-> Deploy(<<>>), sub |-> <<>>]} \cup StraightPrograms \cup BlockPrograms
MCInputs == {<<0, 1, 2, 0>>, <<1, 3, 0, 1>>}

Fragment ==
    {<<Const(1), Ins("add")>>, <<Ins("sub")>>, <<Swap(1)>>, <<Ins("pop")>>, <<Dup(2)>>, <<Const(2), Dup(2), Ins("exp")>>,
     <<Dup(1), Ins("sload")>>, <<Const(1), Ins("sload")>>, <<Dup(2), Dup(2), Ins("sstore")>>,
     <<Const(2), Const(1), Ins("sstore")>>, <<Const(0), Const(1), Ins("sstore")>>,
     <<Dup(1), Ins("mload")>>, <<Const(0), Ins("mload")>>, <<Dup(2), Dup(2), Ins("mstore")>>,
     <<Const(3), Const(6), Ins("mstore")>>, <<Const(6), Const(0), Ins("keccak256")>>,
     <<Const(12), Dup(2), Ins("keccak256")>>}
Break == {<<>>, <<Ins("jumpi")>>, <<Ins("return")>>}
BlockStacks == {<<7, 8, 9, 3, 2, 1, 0>>, <<9, 8, 1, 1, 6, 6, 6>>, <<2, 6, 4, 0, 0, 12, 1>>, <<5, 1, 0, 2, 0, 1, 1>>}
BlockConstants == UNION {{2^i, 2^i - 1, 2^i + 1, 3 * 2^i, 4095 - 2^i, 5 * 2^i + 3} : i \in 2..9} \cap Word

(* Hashes of six bytes and of five, which both are one word of memory. *)
HashFragment == {<<Const(6), Const(0), Ins("keccak256")>>, <<Const(5), Const(0), Ins("keccak256")>>}
NoPrograms == {[main |-> Deploy(<<>>), sub |-> <<>>]}
==============================================================================
