------------------------ MODULE SimplificationRules -------------------------
(***************************************************************************)
(* The list of rewriting rules both optimisers share (libevmasm/RuleList.h)*)
(* and the matcher with which the Yul optimiser applies it.                *)
(*                                                                         *)
(* An expression, a pattern and the template of a rule's result are nodes  *)
(* of one shape: kind, name, number, arguments.  "lit", "id", "op" and     *)
(* "call" are expressions; "any" and "const" are the placeholders X, Y and *)
(* A, B, C; "fold" is a number computed from constants when the rule is    *)
(* applied, and "iflt" chooses between two templates by comparing two.     *)
(* 256, 160 and the bytes of a word are scaled to WordBits, AddrBits and   *)
(* WordBytes; numbers are u256, that is, modulo 2^WordBits.                *)
(*                                                                         *)
(* The first part is their reference: the value of the EVM's pure          *)
(* instructions on words of WordBits bits made of bytes of ByteBits bits   *)
(* (256 and 8 in the EVM).  Bit patterns are sets of positions, so nothing *)
(* there shares a formula with the code that is checked.                   *)
(***************************************************************************)
EXTENDS Integers, Sequences, FiniteSets, FiniteSetsExt, Bitwise, SequencesExt

CONSTANTS WordBits,  \* the width of a word: 256 in the EVM
          ByteBits,  \* the width of a byte: 8 in the EVM
          AddrBits   \* the width of an address: 160 in the EVM

Modulus == 2 ^ WordBits
Word == 0 .. Modulus - 1
WordBytes == WordBits \div ByteBits
AllOnes == Modulus - 1

Bits == [w \in Word |-> {i \in 0 .. WordBits - 1 : (w \div 2 ^ i) % 2 = 1}]
OfBits(s) == MapThenSumSet(LAMBDA i : 2 ^ i, s \cap (0 .. WordBits - 1))

(* Two's complement: the number a word stands for, and back *)
Signed(w) == IF w >= Modulus \div 2 THEN w - Modulus ELSE w
Wrap(i) == i % Modulus
Sign(i) == IF i < 0 THEN -1 ELSE 1
Abs(i) == Sign(i) * i
Truth(b) == IF b THEN 1 ELSE 0

(* Byte number i of w, the most significant byte being number 0 *)
ByteOf(i, w) ==
    LET low == ByteBits * (WordBytes - 1 - i)
    IN OfBits({b - low : b \in Bits[w] \cap (low .. low + ByteBits - 1)})

(* w with the bit that ends byte number i (counted from the right) copied upwards *)
Extended(i, w) ==
    LET top == i * ByteBits + ByteBits - 1
    IN OfBits({b \in 0 .. WordBits - 1 : (IF b > top THEN top ELSE b) \in Bits[w]})

RECURSIVE Power(_, _)
Power(b, e) == IF e = 0 THEN 1 % Modulus ELSE Wrap(b * Power(b, e - 1))

(* The word an instruction leaves when a is the sequence of its operands, topmost first *)
Value(op, a) ==
    CASE op = "add" -> Wrap(a[1] + a[2])
      [] op = "sub" -> Wrap(a[1] - a[2])
      [] op = "mul" -> Wrap(a[1] * a[2])
      [] op = "div" -> IF a[2] = 0 THEN 0 ELSE a[1] \div a[2]
      [] op = "mod" -> IF a[2] = 0 THEN 0 ELSE a[1] % a[2]
      [] op = "sdiv" -> LET p == Signed(a[1]) q == Signed(a[2])
                        IN IF q = 0 THEN 0 ELSE Wrap(Sign(p) * Sign(q) * (Abs(p) \div Abs(q)))
      [] op = "smod" -> LET p == Signed(a[1]) q == Signed(a[2])
                        IN IF q = 0 THEN 0 ELSE Wrap(Sign(p) * (Abs(p) % Abs(q)))
      [] op = "exp" -> Power(a[1], a[2])
      [] op = "addmod" -> IF a[3] = 0 THEN 0 ELSE (a[1] + a[2]) % a[3]
      [] op = "mulmod" -> IF a[3] = 0 THEN 0 ELSE (a[1] * a[2]) % a[3]
      [] op = "lt" -> Truth(a[1] < a[2])
      [] op = "gt" -> Truth(a[1] > a[2])
      [] op = "slt" -> Truth(Signed(a[1]) < Signed(a[2]))
      [] op = "sgt" -> Truth(Signed(a[1]) > Signed(a[2]))
      [] op = "eq" -> Truth(a[1] = a[2])
      [] op = "iszero" -> Truth(a[1] = 0)
      [] op = "not" -> OfBits((0 .. WordBits - 1) \ Bits[a[1]])
      [] op = "and" -> OfBits(Bits[a[1]] \cap Bits[a[2]])
      [] op = "or" -> OfBits(Bits[a[1]] \cup Bits[a[2]])
      [] op = "xor" -> OfBits((Bits[a[1]] \cup Bits[a[2]]) \ (Bits[a[1]] \cap Bits[a[2]]))
      [] op = "byte" -> IF a[1] >= WordBytes THEN 0 ELSE ByteOf(a[1], a[2])
      [] op = "signextend" -> IF a[1] >= WordBytes THEN a[2] ELSE Extended(a[1], a[2])
      [] op = "shl" -> OfBits({b + a[1] : b \in Bits[a[2]]})
      [] op = "shr" -> OfBits({b - a[1] : b \in Bits[a[2]]})
      [] op = "sar" -> OfBits({b \in 0 .. WordBits - 1 :
                                  (IF b + a[1] > WordBits - 1 THEN WordBits - 1 ELSE b + a[1])
                                      \in Bits[a[2]]})
      [] op \in {"address", "caller", "origin", "coinbase"} -> 2 ^ AddrBits - 1

PureOps == {"add", "sub", "mul", "div", "mod", "sdiv", "smod", "exp", "addmod", "mulmod",
            "lt", "gt", "slt", "sgt", "eq", "iszero", "not", "and", "or", "xor", "byte",
            "signextend", "shl", "shr", "sar", "address", "caller", "origin", "coinbase"}

-----------------------------------------------------------------------------
(* The rules *)
Node(k, n, v, a) == [k |-> k, n |-> n, v |-> v, a |-> a]
Lit(v) == Node("lit", "", v, << >>)
Id(n) == Node("id", n, 0, << >>)
Op(o, a) == Node("op", o, 0, a)
Call(f, a) == Node("call", f, 0, a)

AnyOf(g) == Node("any", g, 0, << >>)
ConstOf(g) == Node("const", g, 0, << >>)
Fold(f, a) == Node("fold", f, 0, a)
IfLess(a, b, t, e) == Node("iflt", "", 0, <<a, b, t, e>>)

Rule(pattern, action, removes) == [p |-> pattern, r |-> action, rem |-> removes]

A == ConstOf("A")
B == ConstOf("B")
C == ConstOf("C")
X == AnyOf("X")
Y == AnyOf("Y")

(* u2s and s2u of libdevcore, on words of WordBits bits *)
Mutu2s(u) == IF u > 2 ^ (WordBits - 1) THEN -(Modulus - u) ELSE u
u2s(u) == IF u >= 2 ^ (WordBits - 1) THEN -(Modulus - u) ELSE u
s2u(s) == IF s < 0 THEN Modulus + s ELSE s

(* C++ division and remainder of big integers: both truncate towards zero *)
divWorkaround(x, y) == (Abs(x) \div Abs(y)) * Sign(x) * Sign(y)
modWorkaround(x, y) == x - y * divWorkaround(x, y)

(* The numbers the actions of the constant rules compute from A.d(), B.d() and C.d() *)
Folded(f, d) ==
    CASE f = "add" -> (d[1] + d[2]) % Modulus
      [] f = "mul" -> (d[1] * d[2]) % Modulus
      [] f = "sub" -> (d[1] - d[2]) % Modulus
      [] f = "div" -> IF d[2] = 0 THEN 0 ELSE divWorkaround(d[1], d[2])
      [] f = "sdiv" -> IF d[2] = 0 THEN 0 ELSE s2u(divWorkaround(u2s(d[1]), u2s(d[2]))) % Modulus
      [] f = "mod" -> IF d[2] = 0 THEN 0 ELSE modWorkaround(d[1], d[2])
      [] f = "smod" -> IF d[2] = 0 THEN 0 ELSE s2u(modWorkaround(u2s(d[1]), u2s(d[2])))
      [] f = "exp" -> IF d[2] = 0 THEN 1 ELSE (d[1] ^ d[2]) % Modulus
      [] f = "not" -> AllOnes - d[1]
      [] f = "lt" -> IF d[1] < d[2] THEN 1 ELSE 0
      [] f = "gt" -> IF d[1] > d[2] THEN 1 ELSE 0
      [] f = "slt" -> IF u2s(d[1]) < u2s(d[2]) THEN 1 ELSE 0
      [] f = "sgt" -> IF u2s(d[1]) > u2s(d[2]) THEN 1 ELSE 0
      [] f = "eq" -> IF d[1] = d[2] THEN 1 ELSE 0
      [] f = "iszero" -> IF d[1] = 0 THEN 1 ELSE 0
      [] f = "and" -> d[1] & d[2]
      [] f = "or" -> d[1] | d[2]
      [] f = "xor" -> d[1] ^^ d[2]
      [] f = "byte" -> IF d[1] >= WordBytes THEN 0
                       ELSE (d[2] \div 2 ^ (ByteBits * (WordBytes - 1 - d[1]))) % 2 ^ ByteBits
      [] f = "addmod" -> IF d[3] = 0 THEN 0 ELSE (d[1] + d[2]) % d[3]
      [] f = "mulmod" -> IF d[3] = 0 THEN 0 ELSE (d[1] * d[2]) % d[3]
      [] f = "signextend" ->
            IF d[1] >= WordBytes - 1 THEN d[2]
            ELSE LET testBit == d[1] * ByteBits + (ByteBits - 1)
                     mask == 2 ^ testBit - 1
                 IN IF (d[2] \div 2 ^ testBit) % 2 = 1 THEN d[2] | (AllOnes - mask) ELSE d[2] & mask
      [] f = "shl" -> IF d[1] > WordBits - 1 THEN 0 ELSE (d[2] * 2 ^ d[1]) % Modulus
      [] f = "shr" -> IF d[1] > WordBits - 1 THEN 0 ELSE d[2] \div 2 ^ d[1]

FoldRule(f, a) == Rule(Op(f, a), Fold(f, a), FALSE)
Folds2 == <<"add", "mul", "sub", "div", "sdiv", "mod", "smod", "exp">>
Folds2b == <<"lt", "gt", "slt", "sgt", "eq">>
Folds2c == <<"and", "or", "xor", "byte">>

(* Arithmetic on constants; the second MULMOD rule is behind the first and never reached *)
ConstantRules ==
    [i \in 1 .. 8 |-> FoldRule(Folds2[i], <<A, B>>)]
    \o <<FoldRule("not", <<A>>)>>
    \o [i \in 1 .. 5 |-> FoldRule(Folds2b[i], <<A, B>>)]
    \o <<FoldRule("iszero", <<A>>)>>
    \o [i \in 1 .. 4 |-> FoldRule(Folds2c[i], <<A, B>>)]
    \o <<FoldRule("addmod", <<A, B, C>>), FoldRule("mulmod", <<A, B, C>>),
         Rule(Op("mulmod", <<A, B, C>>), Fold("mul", <<A, B>>), FALSE),
         FoldRule("signextend", <<A, B>>), FoldRule("shl", <<A, B>>), FoldRule("shr", <<A, B>>)>>

(* An operand that is a known constant *)
Keeps(o, c) == <<Rule(Op(o, <<X, Lit(c)>>), X, FALSE), Rule(Op(o, <<Lit(c), X>>), X, FALSE)>>
Yields(o, c, r) == <<Rule(Op(o, <<X, Lit(c)>>), Lit(r), TRUE), Rule(Op(o, <<Lit(c), X>>), Lit(r), TRUE)>>
Negates(c) == <<Rule(Op("mul", <<X, Lit(c)>>), Op("sub", <<Lit(0), X>>), FALSE),
                Rule(Op("mul", <<Lit(c), X>>), Op("sub", <<Lit(0), X>>), FALSE)>>
NeutralRules ==
    Keeps("add", 0) \o <<Rule(Op("sub", <<X, Lit(0)>>), X, FALSE)>>
    \o Yields("mul", 0, 0) \o Keeps("mul", 1) \o Negates(AllOnes)
    \o Yields("div", 0, 0) \o <<Rule(Op("div", <<X, Lit(1)>>), X, FALSE)>>
    \o Yields("sdiv", 0, 0) \o <<Rule(Op("sdiv", <<X, Lit(1)>>), X, FALSE)>>
    \o Keeps("and", AllOnes) \o Yields("and", 0, 0)
    \o Keeps("or", 0) \o Yields("or", AllOnes, AllOnes)
    \o Keeps("xor", 0) \o Yields("mod", 0, 0)
    \o <<Rule(Op("eq", <<X, Lit(0)>>), Op("iszero", <<X>>), FALSE),
         Rule(Op("eq", <<Lit(0), X>>), Op("iszero", <<X>>), FALSE)>>

(* An expression and itself *)
Same(o, r) == Rule(Op(o, <<X, X>>), r, TRUE)
SelfRules ==
    <<Same("and", X), Same("or", X), Same("xor", Lit(0)), Same("sub", Lit(0)), Same("eq", Lit(1)),
      Same("lt", Lit(0)), Same("slt", Lit(0)), Same("gt", Lit(0)), Same("sgt", Lit(0)), Same("mod", Lit(0))>>

(* Combinations of logical instructions *)
Absorbs(outer, inner, r) ==
    <<Rule(Op(outer, <<X, Op(inner, <<X, Y>>)>>), r, TRUE),
      Rule(Op(outer, <<X, Op(inner, <<Y, X>>)>>), r, TRUE),
      Rule(Op(outer, <<Op(inner, <<X, Y>>), X>>), r, TRUE),
      Rule(Op(outer, <<Op(inner, <<Y, X>>), X>>), r, TRUE)>>
Complements(o, r) == <<Rule(Op(o, <<X, Op("not", <<X>>)>>), Lit(r), TRUE),
                       Rule(Op(o, <<Op("not", <<X>>), X>>), Lit(r), TRUE)>>
LogicRules ==
    <<Rule(Op("not", <<Op("not", <<X>>)>>), X, FALSE)>>
    \o Absorbs("xor", "xor", Y) \o Absorbs("or", "and", X) \o Absorbs("and", "or", X)
    \o Complements("and", 0) \o Complements("or", AllOnes)

PowerRules ==
    [i \in 1 .. WordBits |-> Rule(Op("mod", <<X, Lit(2 ^ (i - 1))>>), Op("and", <<X, Lit(2 ^ (i - 1) - 1)>>), FALSE)]

AddressOps == <<"address", "caller", "origin", "coinbase">>
AddressRules ==
    FlattenSeq([i \in 1 .. 4 |->
        LET o == Op(AddressOps[i], << >>) mask == Lit(2 ^ AddrBits - 1)
        IN <<Rule(Op("and", <<o, mask>>), o, FALSE), Rule(Op("and", <<mask, o>>), o, FALSE)>>])

(* Negations of instructions with a Boolean result *)
BoolOps == <<"eq", "lt", "slt", "gt", "sgt">>
NegationRules ==
    [i \in 1 .. 5 |-> Rule(Op("iszero", <<Op("iszero", <<Op(BoolOps[i], <<X, Y>>)>>)>>), Op(BoolOps[i], <<X, Y>>), FALSE)]
    \o <<Rule(Op("iszero", <<Op("iszero", <<Op("iszero", <<X>>)>>)>>), Op("iszero", <<X>>), FALSE),
         Rule(Op("iszero", <<Op("xor", <<X, Y>>)>>), Op("eq", <<X, Y>>), FALSE)>>

(* Constants move to the outside of associative operations; xa is (X, A) or (A, X) *)
XA == <<<<X, A>>, <<A, X>>>>
AssocOps == <<"add", "mul", "and", "or", "xor">>
AssociativeRules ==
    FlattenSeq([i \in 1 .. 10 |->
        LET o == AssocOps[(i + 1) \div 2]
            in == Op(o, XA[2 - (i % 2)])
        IN <<Rule(Op(o, <<in, B>>), Op(o, <<X, Fold(o, <<A, B>>)>>), FALSE),
             Rule(Op(o, <<in, Y>>), Op(o, <<Op(o, <<X, Y>>), A>>), FALSE),
             Rule(Op(o, <<B, in>>), Op(o, <<X, Fold(o, <<A, B>>)>>), FALSE),
             Rule(Op(o, <<Y, in>>), Op(o, <<Op(o, <<Y, X>>), A>>), FALSE)>>])

(* Constants across sums and differences *)
Minus(p, q) == Fold("sub", <<p, q>>)
Add(p, q) == Op("add", <<p, q>>)
Sub(p, q) == Op("sub", <<p, q>>)
SumRules ==
    FlattenSeq([i \in 1 .. 2 |->
        <<Rule(Sub(Op("add", XA[i]), B), IfLess(A, B, Sub(X, Minus(B, A)), Add(X, Minus(A, B))), FALSE),
          Rule(Sub(B, Op("add", XA[i])), Sub(Minus(B, A), X), FALSE)>>])
    \o <<Rule(Add(Sub(X, A), B), IfLess(B, A, Sub(X, Minus(A, B)), Add(X, Minus(B, A))), FALSE),
         Rule(Add(B, Sub(X, A)), IfLess(B, A, Sub(X, Minus(A, B)), Add(X, Minus(B, A))), FALSE),
         Rule(Sub(Sub(X, A), B), Sub(X, Fold("add", <<A, B>>)), FALSE),
         Rule(Sub(Sub(A, X), B), Sub(Minus(A, B), X), FALSE),
         Rule(Sub(Add(X, A), Y), Add(Sub(X, Y), A), FALSE),
         Rule(Sub(Add(A, X), Y), Add(Sub(X, Y), A), FALSE),
         Rule(Sub(X, Add(Y, A)), Sub(Sub(X, Y), A), FALSE),
         Rule(Sub(X, Add(A, Y)), Sub(Sub(X, Y), A), FALSE)>>

(* simplificationRuleList: the order is the order of the search *)
RuleList ==
    ConstantRules \o NeutralRules \o SelfRules \o LogicRules
    \o PowerRules \o AddressRules \o NegationRules \o AssociativeRules \o SumRules
(* The rules an instruction is looked up in *)
RulesOf == [op \in {RuleList[i].p.n : i \in DOMAIN RuleList} |-> SelectSeq(RuleList, LAMBDA r : r.p.n = op)]

(***************************************************************************)
(* What the list promises, for one rule and one choice of the placeholders *)
(***************************************************************************)
RECURSIVE Meaning(_, _)
Meaning(t, g) ==
    CASE t.k \in {"any", "const"} -> g[t.n]
      [] t.k = "lit" -> t.v
      [] t.k = "op" -> Value(t.n, [i \in DOMAIN t.a |-> Meaning(t.a[i], g)])
      [] t.k = "fold" -> Folded(t.n, [i \in DOMAIN t.a |-> g[t.a[i].n]])
      [] t.k = "iflt" -> IF g[t.a[1].n] < g[t.a[2].n] THEN Meaning(t.a[3], g) ELSE Meaning(t.a[4], g)

(* The placeholders of a template that stand for arbitrary expressions, in the order
   in which they are evaluated: the last argument first *)
RECURSIVE Evaluated(_)
Evaluated(t) ==
    CASE t.k = "any" -> <<t.n>>
      [] t.k = "op" -> FoldRight(LAMBDA e, acc : acc \o Evaluated(e), t.a, << >>)
      [] t.k = "iflt" -> Evaluated(t.a[3])
      [] OTHER -> << >>

RECURSIVE Placeholders(_)
Placeholders(t) == IF t.k \in {"any", "const"} THEN {t.n}
                   ELSE UNION {Placeholders(t.a[i]) : i \in DOMAIN t.a}

(* The first rule for an instruction whose pattern is the same hides the later ones *)
Shadowed(i) == \E j \in 1 .. i - 1 : RuleList[j].p = RuleList[i].p

RuleSound(i) ==
    Shadowed(i) \/ \A g \in [Placeholders(RuleList[i].p) -> Word] :
                      Meaning(RuleList[i].p, g) = Meaning(RuleList[i].r, g)

RuleOrdered(i) ==
    RuleList[i].rem \/ Evaluated(RuleList[i].p) = Evaluated(RuleList[i].r)
=============================================================================
