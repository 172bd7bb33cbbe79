----------------------------- MODULE MCFrontEnd -----------------------------
(* Source units for the front end: trees that need no further parentheses,  *)
(* and their texts with one token dropped, doubled, exchanged or replaced.  *)
EXTENDS FrontEnd

x == Identifier("x")
y == Identifier("y")
one == Literal("Number", "1", "")
uint == ElementaryTypeName("uint", "", "")
bytes == ElementaryTypeName("bytes", "", "")
T == UserDefinedTypeName(<<"T">>)
Variable(type, name, location) == VariableDeclaration(type, name, Nil, "", FALSE, FALSE, FALSE, location)
Parameters(types) == ParameterList([i \in DOMAIN types |-> Variable(types[i], "", "")])
NoParameters == ParameterList(<< >>)
Function(name, body) == FunctionDefinition(name, FALSE, "public", "", "", NoParameters, NoParameters, << >>, Block(body))
Contract(parts) == ContractDefinition("contract", "C", << >>, parts)
Unit(parts) == SourceUnit(<<Contract(parts)>>)
Body(statements) == Unit(<<Function("f", statements)>>)

(* the binding strength of the forms of an expression, as the language documents it: the *)
(* operands of a form bind tighter than it, a left operand also as tight                 *)
Levels == <<{"**"}, {"*", "/", "%"}, {"+", "-"}, {"<<", ">>", ">>>"}, {"&"}, {"^"}, {"|"}, {"<", ">", "<=", ">="}, {"==", "!="},
            {"&&"}, {"||"}>>
BinaryOps == UNION {Levels[i] : i \in DOMAIN Levels}
Level(e) == CASE e.k = "BinaryOperation" -> CHOOSE i \in DOMAIN Levels : e.n[1] \in Levels[i]
              [] e.k = "UnaryOperation" -> IF e.n[2] = "prefix" THEN 0 ELSE -1
              [] e.k \in {"Conditional", "Assignment"} -> 20
              [] OTHER -> -2
Operand(e, level) == Level(e) <= level
Writable(e) ==
    CASE e.k = "BinaryOperation" -> Operand(e.a[1], Level(e)) /\ Operand(e.a[2], Level(e) - 1)
      [] e.k = "UnaryOperation" -> Operand(e.a[1], IF e.n[2] = "prefix" THEN 0 ELSE -2)
      [] e.k \in {"Conditional", "Assignment"} -> Operand(e.a[1], 19)
      [] e.k \in {"MemberAccess", "IndexAccess", "FunctionCall"} -> Operand(e.a[1], -2)
      [] OTHER -> TRUE
Binary1 == {BinaryOperation(x, o, y) : o \in BinaryOps}
Small == {x, one, TupleExpression(<<x>>, FALSE), MemberAccess(x, "y"), IndexAccess(x, y), FunctionCall(x, <<y>>, << >>),
          FunctionCall(x, <<y, one>>, <<"a", "b">>), EniCall(Identifier("eni"), <<x>>, << >>), NewExpression(ArrayTypeName(uint, Nil)),
          TupleExpression(<<x, Nil>>, FALSE), TupleExpression(<<x, y>>, TRUE), Literal("Number", "1", "ether"),
          UnaryOperation("-", x, TRUE), UnaryOperation("++", x, FALSE), UnaryOperation("++", x, TRUE), UnaryOperation("delete", x, TRUE),
          UnaryOperation("factInsert", x, TRUE), Conditional(x, y, one), Assignment(x, "=", y), BinaryOperation(x, "+", y),
          BinaryOperation(x, "**", y), ElementaryTypeNameExpression("uint", "")}
(* one for every level, with and without something after it that a longer expression could take *)
Operands == {x, TupleExpression(<<x>>, FALSE), MemberAccess(x, "y"), FunctionCall(x, <<y>>, << >>), NewExpression(ArrayTypeName(uint, Nil)),
             Literal("Number", "1", "ether"), UnaryOperation("-", x, TRUE), UnaryOperation("++", x, FALSE), UnaryOperation("delete", x, TRUE),
             Conditional(x, y, one), Assignment(x, "=", y), BinaryOperation(x, "+", y), BinaryOperation(x, "**", y)}
Compound(A, B) ==
    {BinaryOperation(a, o, b) : a \in A, b \in B, o \in {"+", "**", "||"}} \cup {Assignment(a, o, b) : a \in A, b \in B, o \in {"=", "+="}}
    \cup {Conditional(a, b, y) : a \in A, b \in B} \cup {Conditional(x, a, b) : a \in A, b \in B}
    \cup {UnaryOperation(o, a, TRUE) : a \in A, o \in {"-", "--", "!"}} \cup {UnaryOperation("--", a, FALSE) : a \in A}
    \cup {MemberAccess(a, "m") : a \in A} \cup {IndexAccess(a, b) : a \in A \ {NewExpression(ArrayTypeName(uint, Nil))}, b \in B}
    \cup {FunctionCall(a, <<b>>, << >>) : a \in A \ {EniCall(Identifier("eni"), <<x>>, << >>)}, b \in B}
    \cup {TupleExpression(<<Nil, a>>, FALSE) : a \in A}
Expressions2 ==
    {e \in {BinaryOperation(a, o, y) : a \in Binary1, o \in BinaryOps} \cup {BinaryOperation(x, o, b) : b \in Binary1, o \in BinaryOps}
           \cup Compound(Small, Operands) : Writable(e)}

TypeNames == {uint, bytes, T, UserDefinedTypeName(<<"T", "U">>), ElementaryTypeName("address", "", "payable"), ElementaryTypeName("bytesM", "4", ""),
              Mapping(uint, T), FunctionTypeName(Parameters(<<uint>>), Parameters(<<T>>), "external", "", "view"),
              FunctionTypeName(NoParameters, NoParameters, "", "", "")}
ArrayTypes == {ArrayTypeName(t, l) : t \in TypeNames, l \in {Nil, one, BinaryOperation(x, "+", one)}}
Declarations ==
    {VariableDeclarationStatement(<<Variable(t, "v", l)>>, i) :
         t \in TypeNames \cup ArrayTypes \cup {ArrayTypeName(t, Nil) : t \in ArrayTypes}, l \in {"", "memory", "storage"}, i \in {Nil, x}}
    \cup {VariableDeclarationStatement(<<a, b>>, x) : a \in {Nil, Variable(uint, "v", "")},
              b \in {Variable(t, "w", l) : t \in TypeNames \cup {ArrayTypeName(T, one)}, l \in {"", "memory"}}}
    \cup {VariableDeclarationStatement(<<Variable(uint, "v", ""), Nil, Variable(uint, "w", "")>>, x),
          VariableDeclarationStatement(<<Variable(Nil, "v", ""), Variable(Nil, "w", "")>>, x), VariableDeclarationStatement(<<Variable(Nil, "v", "")>>, x)}
Loose(s) == s.k \notin {"IfStatement", "WhileStatement", "ForStatement"}
Inner == {ExpressionStatement(x), Block(<< >>), Block(<<ExpressionStatement(x), Break>>), Block(<<FireAllRulesStatement, ExpressionStatement(x)>>), Return(Nil), Return(x), IfStatement(x, Block(<< >>), Nil), FireAllRulesStatement,
          EmitStatement(FunctionCall(x, <<y>>, << >>)), EmitStatement(FunctionCall(MemberAccess(x, "y"), << >>, << >>)), InlineAssembly("code"), Throw, Continue}
Statements2 ==
    {IfStatement(x, s, t) : s \in {s \in Inner : Loose(s)}, t \in Inner} \cup {IfStatement(x, s, Nil) : s \in Inner}
    \cup {WhileStatement(y, s, d) : s \in Inner, d \in BOOLEAN}
    \cup {ForStatement(i, c, l, Block(<< >>)) : i \in {Nil, ExpressionStatement(Assignment(x, "=", y)), VariableDeclarationStatement(<<Variable(T, "v", "")>>, x)},
              c \in {Nil, x}, l \in {Nil, ExpressionStatement(UnaryOperation("++", x, FALSE))}}
    \cup {ForStatement(Nil, Nil, Nil, s) : s \in Inner} \cup Inner

Rule1(base, fields, noLoop, salience) ==
    Rule("r", base, <<FactDeclaration("p", T, fields), FactDeclaration("q", T, << >>)>>, Block(<<ExpressionStatement(UnaryOperation("update", Identifier("p"), TRUE))>>),
         noLoop, ~noLoop, salience)
Members ==
    {Rule1(b, f, n, s) : b \in {"", "base"}, f \in {<< >>, <<FieldExpression(BinaryOperation(x, ">", one))>>, <<FieldExpression(x), FieldExpression(y)>>}, n \in BOOLEAN, s \in {"0", "7"}}
    \cup {StructDefinition("S", <<Variable(t, "m", "")>>) : t \in TypeNames} \cup {EnumDefinition("E", <<EnumValue("a"), EnumValue("b")>>)}
    \cup {VariableDeclaration(t, "v", i, vis, TRUE, FALSE, c, "") : t \in {t \in TypeNames : t.k # "FunctionTypeName"} \cup {ArrayTypeName(T, one)},
              i \in {Nil, x}, vis \in {"", "public"}, c \in BOOLEAN}
    \cup {VariableDeclaration(t, "v", x, "", TRUE, FALSE, FALSE, "") : t \in {t \in TypeNames : t.k = "FunctionTypeName"}}
    \cup {ModifierDefinition("m", p, Block(<<PlaceholderStatement, ExpressionStatement(x)>>)) : p \in {NoParameters, Parameters(<<uint>>)}}
    \cup {EventDefinition("e", ParameterList(<<VariableDeclaration(uint, "v", Nil, "", FALSE, i, FALSE, ""), Variable(T, "", "")>>), a) : i \in BOOLEAN, a \in BOOLEAN}
    \cup {UsingForDirective(T, Nil), UsingForDirective(UserDefinedTypeName(<<"T", "U">>), uint)}
    \cup {FunctionDefinition(n, FALSE, vis, special, mut, p, r, mods, b) : n \in {"", "f"}, vis \in {"", "external"}, special \in {"", "freegas"}, mut \in {"", "payable"},
              p \in {NoParameters, ParameterList(<<Variable(T, "v", "memory"), Variable(uint, "", "")>>)}, r \in {NoParameters, Parameters(<<T>>)},
              mods \in {<< >>, <<ModifierInvocation(Identifier("m"), FALSE, << >>), ModifierInvocation(Identifier("n"), TRUE, <<x>>)>>},
              b \in {Nil, Block(<<ExpressionStatement(x)>>)}}
    \cup {FunctionDefinition("", TRUE, "public", "", "", NoParameters, NoParameters, << >>, Block(<< >>))}
Tops == {SourceUnit(<<PragmaDirective(<<"lity", "v1">>), ImportDirective("a", "", << >>), ImportDirective("a", "b", << >>),
                      ImportDirective("a", "", <<<<"s", "">>, <<"t", "u">>>>), ContractDefinition("interface", "I", << >>, << >>),
                      ContractDefinition("library", "L", << >>, << >>),
                      ContractDefinition("contract", "C", <<InheritanceSpecifier(UserDefinedTypeName(<<"I">>), FALSE, << >>),
                                                            InheritanceSpecifier(UserDefinedTypeName(<<"L", "M">>), TRUE, <<x, y>>)>>, << >>)>>)}

Seed == <<VariableDeclarationStatement(<<Variable(ArrayTypeName(UserDefinedTypeName(<<"T", "U">>), one), "v", "memory")>>, x),
          VariableDeclarationStatement(<<Variable(uint, "v", ""), Nil, Variable(T, "w", "")>>, FunctionCall(x, <<y>>, <<"a">>)),
          ExpressionStatement(Assignment(TupleExpression(<<Nil, IndexAccess(MemberAccess(x, "y"), y), Nil>>, FALSE), "=", Conditional(x, UnaryOperation("-", y, TRUE), one))),
          IfStatement(BinaryOperation(x, "<", y), Return(TupleExpression(<<x, y>>, TRUE)), Block(<<EmitStatement(FunctionCall(x, <<y>>, << >>))>>)),
          ForStatement(ExpressionStatement(Assignment(x, "=", one)), BinaryOperation(x, "<", y), ExpressionStatement(UnaryOperation("++", x, FALSE)),
                       WhileStatement(x, Throw, TRUE)),
          ExpressionStatement(FunctionCall(NewExpression(ArrayTypeName(T, Nil)), <<Literal("Number", "1", "ether")>>, << >>))>>
Splice(ts, i, j, mid) == SubSeq(ts, 1, i - 1) \o mid \o SubSeq(ts, j + 1, Len(ts))
Spare == {Ident("x"), Token("(", ""), Token(")", ""), Token("[", ""), Token("]", ""), Token(",", ""), Token(";", ""), Token(".", ""), Token("=", ""),
          Token("-", ""), Token("{", ""), Token("}", ""), Token("uint", ""), Token(":", "")}
Inserted == {Ident("x"), Token("(", ""), Token("[", ""), Token(",", ""), Token(".", ""), Token(";", "")}
(* the tokens of the body: those between the braces of the function *)
Edited(ts) == 10 .. Len(ts) - 2
EditsOf(ts) == {Splice(ts, i, i, << >>) : i \in Edited(ts)} \cup {Splice(ts, i, i, <<t>>) : i \in Edited(ts), t \in Spare}
               \cup {Splice(ts, i, i, <<ts[i], t>>) : i \in Edited(ts), t \in Inserted}
               \cup {Splice(ts, i, i + 1, <<ts[i + 1], ts[i]>>) : i \in Edited(ts)}
UnitsOf(trees) == {[tree |-> t, tokens |-> Tokens(t), text |-> "", flavour |-> "", library |-> Nil] : t \in trees}
EditUnits == UNION {{[tree |-> Nil, tokens |-> ts, text |-> "", flavour |-> "", library |-> Nil] : ts \in EditsOf(Tokens(Body(<<Seed[k]>>)))} : k \in DOMAIN Seed}
ExpressionUnits == UnitsOf({Body(<<ExpressionStatement(e)>>) : e \in Expressions2})
StatementUnits == UnitsOf({Body(<<s>>) : s \in Declarations \cup Statements2})
MemberUnits == UnitsOf({Unit(<<m>>) : m \in Members} \cup Tops)

(* texts: the spelling of tokens with the same separator between any two *)
SizedTypes == ("intM" :> "int") @@ ("uintM" :> "uint") @@ ("bytesM" :> "bytes") @@ ("fixedMxN" :> "fixed") @@ ("ufixedMxN" :> "ufixed")
Spelling(t) == CASE t.t \in {"Identifier", "Number"} -> t.l
                 [] t.t = "StringLiteral" -> "\"" \o t.l \o "\""
                 [] t.t \in DOMAIN SizedTypes -> SizedTypes[t.t] \o t.l
                 [] OTHER -> t.t
RECURSIVE Spelled(_, _)
Spelled(ts, separator) == IF ts = << >> THEN "" ELSE separator \o Spelling(ts[1]) \o Spelled(Tail(ts), separator)
Separators == {" ", "\n", "\t \n", "/**/", "/* x */", "/***/ ", "/** x */", "/**\n * x\n */ ", "// x\n", "//\n", "/// x\n", " /// x\n /// y\n",
               "/** x\n ** y */", "// x\r", "/// x\r "}
Written(t, ts, ends) == {[tree |-> t, tokens |-> ts, text |-> Spelled(ts, s) \o e, flavour |-> "", library |-> Nil] : s \in Separators, e \in ends}
Words == {Ident("x"), Ident("uint7"), Ident("_1"), Ident("fixed8"), Ident("bytes0"), Ident("ifx"), Token("Number", "1"), Token("Number", "0"),
          Token("Number", "0x1f"), Token("Number", ".5"), Token("Number", "1.5e3"), Token("Number", "1_0"), Token("Number", "2e-1"),
          Token("StringLiteral", "s"), Token("StringLiteral", "/*"), Token("if", ""), Token("uint", ""), Token("uintM", "8"),
          Token("bytesM", "32"), Token("ufixedMxN", "8x3"), Token("fireAllRules", "")}
Marks == {"(", ".", ",", "/=", "*", "=", ">>>=", "--"}
Pairs == {<<a, b>> : a \in Words, b \in {Ident("x"), Token("Number", "1"), Token("StringLiteral", "s"), Token("if", "")}}
         \cup {<<a, Token(o, ""), b>> : a \in {Ident("x"), Token("Number", "1")}, b \in {Ident("x"), Token("(", "")}, o \in Marks}

(* operators without anything between them: the longest spelling is taken; /, * and . are left *)
(* out, which start comments and numbers                                                       *)
Operators == {":", ";", ",", "(", ")", "[", "]", "{", "}", "?", "~", "<", "<=", "<<", "<<=", ">", ">=", ">>", ">>=", ">>>", ">>>=", "=", "==", "=>", "!",
              "!=", "+", "++", "+=", "-", "--", "-=", "%", "%=", "&", "&&", "&=", "|", "||", "|=", "^", "^="}
Alphabet == {"<", ">", "=", "!", "+", "-", "&", "|", "^", "%", "~", ";"}
RECURSIVE Munched(_)
Munched(text) ==
    IF text = "" THEN << >>
    ELSE LET n == CHOOSE n \in 1 .. Len(text) : /\ SubSeq(text, 1, n) \in Operators
                                               /\ \A m \in n + 1 .. Len(text) : SubSeq(text, 1, m) \notin Operators
         IN Key(SubSeq(text, 1, n)) \o Munched(SubSeq(text, n + 1, Len(text)))
(* lines of code and comments in any order *)
Line(code, mark) == [code |-> code, mark |-> mark]
SomeLines == {Line(<< >>, m) : m \in {"", "// x"} \cup DocMarks} \cup {Line(<<Ident("a"), Token("+", "")>>, m) : m \in {"", "///"}}
RECURSIVE LinesText(_)
LinesText(lines) == IF lines = << >> THEN "" ELSE Spelled(lines[1].code, " ") \o lines[1].mark \o "\n" \o LinesText(Tail(lines))
LineUnits == {[tree |-> Nil, tokens |-> Kept(lines, FALSE), text |-> LinesText(lines), flavour |-> "", library |-> Nil] :
                  lines \in {<<l, m, n, o, Line(<<Ident("b")>>, "")>> : l \in SomeLines, m \in SomeLines, n \in SomeLines, o \in SomeLines}}
Runs == {a \o b \o c : a \in Alphabet, b \in Alphabet, c \in Alphabet} \cup {">" \o a \o b \o c : a \in {">", "="}, b \in Alphabet, c \in Alphabet}
TextUnits == UNION {Written(t, Tokens(t), {"", "\n"}) : t \in Tops \cup {Body(<<Seed[k]>>) : k \in DOMAIN Seed} \cup {Unit(<<Rule1("base", <<FieldExpression(x)>>, TRUE, "7")>>)}}
             \cup UNION {Written(Nil, ts, {""}) : ts \in Pairs}
             \cup Written(Nil, <<Ident("x"), Token("uint", "")>>, {"\n", " // x", "/// x", "/// x\n", "/**/", "/*x*/", "/** x */"})
             \cup {[tree |-> Nil, tokens |-> Munched(text), text |-> text, flavour |-> "", library |-> Nil] : text \in Runs}

(* assembly: blocks of each flavour, and their texts with one token dropped, doubled or replaced *)
TypedName(n) == Node("TypedName", <<n, "u">>, << >>)
Plainly(n) == Node("TypedName", <<n, "">>, << >>)
AsmLiteral(kind, value, yul) == Literal(kind, value, IF yul THEN "u" ELSE "")
Typed(n, yul) == IF yul THEN TypedName(n) ELSE Plainly(n)
Call(f, args) == Node("FunctionCall", <<f>>, args)
Instr(f, args) == Node("FunctionalInstruction", <<f>>, args)
AsmExpressions(yul) ==
    {x, AsmLiteral("Number", "1", yul), AsmLiteral("Number", "0x1f", yul), AsmLiteral("StringLiteral", "", yul), AsmLiteral("StringLiteral", "a\"b\\c", yul),
     AsmLiteral("StringLiteral", "\n<11>\t<195><169>", yul), Call("f", << >>), Call("f", <<x, y>>), Call("f", <<Call("g", <<x>>)>>)}
    \cup (IF yul THEN {Literal("true", "true", "bool"), Call("return", <<x>>), Identifier("byte")}
          ELSE {Instr("add", <<x, Instr("mload", <<y>>)>>), Instr("address", << >>), Instr("byte", <<x, y>>), Instr("keccak256", <<x, y>>)})
Let(names, value, yul) == Node("VariableDeclaration", << >>, <<List([i \in DOMAIN names |-> Typed(names[i], yul)]), value>>)
AsmSmall(yul) == {Block(<< >>), Let(<<"a">>, Nil, yul), Node("Assignment", <<"x">>, <<y>>), ExpressionStatement(Call("f", <<x>>))}
AsmFunction(ps, rs, body, yul) ==
    Node("FunctionDefinition", <<"f">>, <<List([i \in DOMAIN ps |-> Typed(ps[i], yul)]), List([i \in DOMAIN rs |-> Typed(rs[i], yul)]), body>>)
AsmStatements(yul) ==
    {Let(ns, v, yul) : ns \in {<<"a">>, <<"a", "b">>}, v \in {Nil} \cup AsmExpressions(yul)}
    \cup {Node("Assignment", ns, <<v>>) : ns \in {<<"x">>, <<"x", "y">>}, v \in AsmExpressions(yul)}
    \cup {Node("If", << >>, <<e, Block(<<s>>)>>) : e \in AsmExpressions(yul), s \in AsmSmall(yul)}
    \cup {Node("Switch", << >>, <<x>> \o cs) : cs \in {<<Node("Case", << >>, <<Nil, Block(<< >>)>>)>>,
              <<Node("Case", << >>, <<AsmLiteral("Number", "1", yul), Block(<< >>)>>)>>,
              <<Node("Case", << >>, <<AsmLiteral("StringLiteral", "s", yul), Block(<< >>)>>), Node("Case", << >>, <<Nil, Block(<<Block(<< >>)>>)>>)>>}}
    \cup {Node("ForLoop", << >>, <<Block(<<s>>), e, Block(<<t>>), Block(<< >>)>>) : e \in {x, Call("f", <<x>>)}, s \in AsmSmall(yul), t \in AsmSmall(yul)}
    \cup {AsmFunction(ps, rs, Block(<<s>>), yul) : ps \in {<< >>, <<"a">>, <<"a", "b">>}, rs \in {<< >>, <<"c">>, <<"c", "d">>}, s \in AsmSmall(yul)}
    \cup AsmSmall(yul)
LooseStatements == {Node("Label", <<"l">>, << >>), Node("StackAssignment", <<"x">>, << >>), Node("Instruction", <<"add">>, << >>), Node("Instruction", <<"dup1">>, << >>),
                    ExpressionStatement(x), ExpressionStatement(Literal("Number", "1", "")), Node("Assignment", <<"x">>, <<Instr("address", << >>)>>), Let(<<"a">>, Nil, FALSE),
                    Let(<<"a">>, x, FALSE), Block(<< >>)}
AsmTrees(flavour) ==
    {Block(<<s>>) : s \in AsmStatements(flavour = "Yul")} \cup {Block(<<s, t>>) : s \in AsmSmall(flavour = "Yul"), t \in AsmSmall(flavour = "Yul")}
    \cup (IF flavour = "Loose" THEN {Block(<<s, t, Block(<< >>)>>) : s \in LooseStatements, t \in LooseStatements} ELSE {})
AsmTokens(t, flavour) == Text!Scan(Asm!Printed(t, flavour = "Yul"))
AsmSeed(yul) == {Block(<<AsmFunction(<<"a", "b">>, <<"c">>, Block(<<Node("Assignment", <<"x", "y">>, <<Call("f", <<x, y>>)>>)>>), yul)>>),
                 Block(<<Node("Switch", << >>, <<x, Node("Case", << >>, <<AsmLiteral("Number", "1", yul), Block(<< >>)>>), Node("Case", << >>, <<Nil, Block(<< >>)>>)>>)>>),
                 Block(<<Node("ForLoop", << >>, <<Block(<<Let(<<"a">>, x, yul)>>), x, Block(<< >>), Block(<<Node("If", << >>, <<Call("f", <<x>>), Block(<< >>)>>)>>)>>)>>)}
AsmSpare == {Ident("x"), Ident("add"), Token("address", ""), Token("Number", "1"), Token("(", ""), Token(")", ""), Token(",", ""),
             Token(":", ""), Token("=", ""), Token("{", ""), Token("case", ""), Token("true", "")}
AsmInserted == {Ident("x"), Token("(", ""), Token(",", ""), Token(":", "")}
AsmEdits(ts) == {Splice(ts, i, i, << >>) : i \in DOMAIN ts} \cup {Splice(ts, i, i, <<t>>) : i \in DOMAIN ts, t \in AsmSpare}
                \cup {Splice(ts, i, i, <<ts[i], t>>) : i \in DOMAIN ts, t \in AsmInserted}
Flavours == {"Loose", "Strict", "Yul"}
AsmUnits == UNION {{[tree |-> t, tokens |-> AsmTokens(t, f), text |-> "", flavour |-> f, library |-> Nil] : t \in AsmTrees(f)} : f \in Flavours}
            \cup UNION {UNION {{[tree |-> Nil, tokens |-> ts, text |-> "", flavour |-> f, library |-> Nil] : ts \in AsmEdits(AsmTokens(t, f))} : t \in AsmSeed(f = "Yul")} : f \in Flavours}

(* functions that return storage pointers c and d *)
c == Identifier("c")
Do(e) == ExpressionStatement(e)
SetC == Do(Assignment(c, "=", x))
Known(f) == Do(FunctionCall(Identifier(f), <<x>>, << >>))
OnlyIf(op) == Do(BinaryOperation(x, op, MemberAccess(TupleExpression(<<Assignment(c, "=", x)>>, FALSE), "m")))
Plainest == {SetC, Return(Nil), Return(TupleExpression(<<x, y>>, FALSE)), Known("revert"), Known("require"), InlineAssembly("c"), OnlyIf("&&"), Do(x),
             Do(Assignment(TupleExpression(<<c, Identifier("d")>>, FALSE), "=", x))}
InLoop == Plainest \cup {Break, Continue}
Inside == {Block(<<a, b>>) : a \in InLoop, b \in {SetC, Do(x), Break, Continue}} \cup {IfStatement(x, Block(<<a>>), b) : a \in InLoop, b \in {Nil, SetC, Continue}}
Loops == {WhileStatement(e, b, d) : e \in {x, c}, b \in Inside, d \in BOOLEAN}
         \cup {ForStatement(Nil, x, l, b) : l \in {Nil, SetC}, b \in Inside}
Flows == Plainest \cup Loops \cup {IfStatement(x, a, b) : a \in Plainest \ {IfStatement(x, x, x)}, b \in Plainest \cup {Nil}}
         \cup {WhileStatement(x, Block(<<WhileStatement(y, Block(<<a>>), d), b>>), d) : a \in {Break, Continue, SetC}, b \in {Break, Continue, SetC}, d \in BOOLEAN}
         \cup {Do(Conditional(x, Assignment(c, "=", x), e)) : e \in {x, Assignment(c, "=", y)}}
Pointers == ParameterList(<<Variable(T, "c", "storage"), Variable(T, "d", "storage"), Variable(uint, "n", "")>>)
Returning(mods, body) == FunctionDefinition("f", FALSE, "internal", "", "", NoParameters, Pointers, mods, Block(body))
Invoked(names) == [i \in DOMAIN names |-> ModifierInvocation(Identifier(names[i]), FALSE, << >>)]
Modifiers == {Block(<<PlaceholderStatement>>), Block(<<IfStatement(x, PlaceholderStatement, Nil)>>), Block(<<PlaceholderStatement, Known("revert")>>),
              Block(<<IfStatement(x, Block(<<Return(Nil)>>), Nil), PlaceholderStatement>>), Block(<<WhileStatement(x, Block(<<PlaceholderStatement>>), FALSE)>>),
              Block(<<WhileStatement(x, Block(<<PlaceholderStatement, Break>>), TRUE), Do(x)>>), Block(<<Known("require"), PlaceholderStatement, PlaceholderStatement>>)}
Modifier(name, body) == ModifierDefinition(name, NoParameters, body)
FlowTrees == {Unit(<<Returning(<< >>, <<s, t>>)>>) : s \in Flows, t \in {Do(x), SetC}}
             \cup {Unit(<<Modifier("m", a), Returning(Invoked(<<"m">>), <<s>>)>>) : a \in Modifiers, s \in Plainest}
             \cup {Unit(<<Modifier("m", a), Modifier("o", b), Returning(Invoked(<<"m", "o">>), <<s>>)>>) : a \in Modifiers, b \in Modifiers, s \in Plainest}
FlowUnits == UnitsOf(FlowTrees)

(* units whose names are resolved, beside a unit they may import *)
Library == SourceUnit(<<ContractDefinition("library", "L", << >>, <<StructDefinition("S", <<Variable(uint, "m", "")>>)>>),
                        ContractDefinition("contract", "K", << >>, <<VariableDeclaration(uint, "z", Nil, "", TRUE, FALSE, FALSE, "")>>)>>)
NamedUnits(trees) == {[tree |-> t, tokens |-> << >>, text |-> "", flavour |-> "", library |-> Library] : t \in trees}
Path(names) == UserDefinedTypeName(names)
State(name, value) == VariableDeclaration(uint, name, value, "", TRUE, FALSE, FALSE, "")
Is(names) == [i \in DOMAIN names |-> InheritanceSpecifier(Path(<<names[i]>>), FALSE, << >>)]
Derived(name, bases, parts) == ContractDefinition("contract", name, Is(bases), parts)
Taking(name, vis, types, body) ==
    FunctionDefinition(name, FALSE, vis, "", "", ParameterList([i \in DOMAIN types |-> Variable(types[i], "", "")]), NoParameters, << >>, Block(body))
Using(names) == Taking("g", "public", << >>, [i \in DOMAIN names |-> Do(Identifier(names[i]))])
bool == ElementaryTypeName("bool", "", "")

(* locals: declarations, blocks and loops of x, with another x around them *)
Declare(name, value) == VariableDeclarationStatement(<<Variable(uint, name, "")>>, value)
Scoped == {Declare("x", Nil), Declare("x", x), Declare("y", x), Do(x), Block(<<Declare("x", x), Do(x)>>), Block(<<Do(x), Declare("x", Nil)>>),
           ForStatement(Declare("x", x), x, Do(UnaryOperation("++", x, FALSE)), Block(<<Do(x)>>)),
           ForStatement(Declare("x", Nil), x, Nil, Block(<<Declare("x", x)>>)), IfStatement(x, Block(<<Declare("x", x), Do(y)>>), Block(<<Do(x)>>)),
           VariableDeclarationStatement(<<Variable(uint, "x", ""), Nil, Variable(uint, "y", "")>>, FunctionCall(Identifier("f"), <<x>>, << >>)),
           WhileStatement(y, Block(<<Do(x), Declare("x", y)>>), FALSE), InlineAssembly("x"), InlineAssembly("x_slot"), InlineAssembly("_slot")}
InFunction(ps, ss) == FunctionDefinition("f", FALSE, "internal", "", "", ParameterList([i \in DOMAIN ps |-> Variable(uint, ps[i], "")]), NoParameters,
                                         <<ModifierInvocation(Identifier("m"), TRUE, <<Identifier("y")>>)>>, Block(ss))
M == ModifierDefinition("m", Parameters(<<uint>>), Block(<<PlaceholderStatement>>))
ScopedTrees == UNION {{SourceUnit(<<Derived("B", << >>, <<State("x", Nil)>>), Derived("C", << >>, <<State("y", Nil), M, InFunction(<<"x">>, ss)>>)>>),
                       SourceUnit(<<Derived("B", << >>, <<State("x", Nil)>>), Derived("C", <<"B">>, <<State("y", Nil), M, InFunction(<< >>, ss)>>)>>),
                       SourceUnit(<<Derived("C", << >>, <<M, InFunction(<<"y">>, ss), State("x", Nil)>>)>>),
                       SourceUnit(<<Derived("C", << >>, <<M, InFunction(<<"y">>, ss)>>)>>)} : ss \in {<<s, t>> : s \in Scoped, t \in {Do(x), Do(y), Declare("x", x), Block(<<Do(x), Declare("x", Nil)>>)}}}

(* four contracts, every list of bases from those before *)
BaseLists(names) == {<< >>} \cup {<<a>> : a \in names} \cup {<<a, b>> : a \in names, b \in names}
Family1(bs, cs, os, own) ==
    SourceUnit(<<Derived("A", << >>, <<Taking("f", "public", <<uint>>, << >>), VariableDeclaration(uint, "x", Nil, own, TRUE, FALSE, FALSE, "")>>),
                 Derived("B", bs, <<Taking("f", "public", <<uint>>, << >>), Using(<<"f">>)>>),
                 Derived("C", cs, <<Taking("f", "internal", <<bool>>, << >>), State("x", Nil)>>),
                 Derived("D", os, <<Using(<<"f", "x", "this", "super", "require">>)>>)>>)
FamilyTrees == {Family1(bs, cs, os, own) : bs \in {<< >>, <<"A">>}, cs \in BaseLists({"A", "B"}), own \in {"", "private"},
                    os \in BaseLists({"A", "B", "C"}) \cup {<<"A", "B", "C">>, <<"C", "B", "A">>, <<"A", "C", "B">>, <<"B", "A", "C">>}}
               \cup {SourceUnit(<<Derived("B", <<"A">>, << >>), Derived("A", << >>, << >>)>>), SourceUnit(<<Derived("A", <<"A">>, << >>)>>),
                     SourceUnit(<<Derived("A", << >>, <<StructDefinition("S", <<Variable(uint, "m", "")>>)>>), ContractDefinition("contract", "B", <<InheritanceSpecifier(Path(<<"A", "S">>), FALSE, << >>)>>, << >>)>>)}

(* two declarations of one name, in a contract or in a contract and its base *)
SomeDeclarations == {State("x", Nil), VariableDeclaration(uint, "x", Nil, "private", TRUE, FALSE, FALSE, ""), Taking("x", "external", << >>, << >>),
                     Taking("x", "public", <<uint>>, << >>), Taking("x", "private", <<bool>>, << >>), EventDefinition("x", NoParameters, FALSE),
                     EventDefinition("x", Parameters(<<uint>>), FALSE), ModifierDefinition("x", NoParameters, Block(<<PlaceholderStatement>>)),
                     StructDefinition("x", <<Variable(uint, "x", "")>>), EnumDefinition("x", <<EnumValue("x")>>),
                     Rule("x", "", <<FactDeclaration("x", Path(<<"T">>), << >>)>>, Block(<< >>), FALSE, FALSE, "0"),
                     FunctionDefinition("", TRUE, "public", "", "", ParameterList(<<Variable(uint, "x", "")>>), NoParameters, << >>, Block(<<Do(x)>>))}
TStruct == StructDefinition("T", <<Variable(uint, "m", "")>>)
DeclarationTrees == UNION {{SourceUnit(<<Derived("C", << >>, <<TStruct, a, b, Using(<<"x">>)>>)>>),
                            SourceUnit(<<Derived("B", << >>, <<TStruct, a>>), Derived("D", <<"B">>, << >>), Derived("C", <<"D">>, <<b, Using(<<"x">>)>>)>>)} :
                              a \in SomeDeclarations, b \in SomeDeclarations}

(* imports and the paths of types *)
SomeImports == {ImportDirective("a", "", << >>), ImportDirective("a", "b", << >>), ImportDirective("a", "", <<<<"L", "">>>>),
                ImportDirective("a", "", <<<<"L", "x">>, <<"K", "">>>>), ImportDirective("a", "", <<<<"J", "">>>>), ImportDirective("a", "", <<<<"K", "msg">>>>)}
SomePaths == {<<"L">>, <<"L", "S">>, <<"b", "L", "S">>, <<"b", "K">>, <<"x", "S">>, <<"T">>, <<"C", "T">>, <<"y">>, <<"msg">>, <<"E">>, <<"D", "T">>, <<"Q", "T">>}
ImportTrees == {SourceUnit(<<i, Derived("Q", << >>, <<TStruct>>),
                             Derived("C", << >>, <<TStruct, EnumDefinition("E", <<EnumValue("y")>>), VariableDeclaration(Path(p), "v", Nil, "", TRUE, FALSE, FALSE, "")>>),
                             Derived("D", <<"C">>, <<Taking("f", "internal", << >>, <<VariableDeclarationStatement(<<Variable(ArrayTypeName(Path(p), Nil), "w", "memory")>>, Nil)>>)>>)>>) :
                    i \in SomeImports, p \in SomePaths}
               \cup {SourceUnit(<<i, Derived("C", <<b>>, <<Using(<<"z">>)>>), d>>) : i \in SomeImports, b \in {"K", "x"}, d \in {Derived("K", << >>, << >>), Derived("J", << >>, << >>)}}

(* patterns and then blocks of rules *)
PatternNames == {"x", "y", "z", "m", "p", "q", "f", "now"}
Patterns == {Identifier(n) : n \in PatternNames}
            \cup {MemberAccess(Identifier("q"), "m"), BinaryOperation(Identifier("m"), "<", x), FunctionCall(Identifier("f"), <<Identifier("m")>>, << >>),
                  FunctionCall(Identifier("h"), <<MemberAccess(Identifier("p"), "m")>>, << >>), IndexAccess(x, Identifier("m")), TupleExpression(<<Identifier("m")>>, FALSE)}
Thens == {Do(Identifier("p")), Do(Identifier("m")), Block(<<Do(Identifier("q")), Do(Identifier("z"))>>), Return(Nil), Declare("x", x), FireAllRulesStatement}
Matching(e, then) == Rule("r", "", <<FactDeclaration("p", Path(<<"T">>), <<FieldExpression(e)>>), FactDeclaration("q", Path(<<"T">>), << >>)>>, Block(<<then>>), FALSE, FALSE, "0")
RuleTrees == {SourceUnit(<<Derived("B", << >>, <<State("z", Nil)>>),
                           Derived("C", <<"B">>, <<TStruct, State("x", Nil), Taking("f", "internal", <<uint>>, << >>), Matching(e, t), Taking("h", "internal", <<uint>>, << >>),
                                                   Taking("h", "internal", <<bool>>, << >>)>>)>>) : e \in Patterns, t \in Thens}

(* data locations: where a variable stands, its type, and the location it is given *)
PlacedTypes == {uint, bytes, ArrayTypeName(uint, Nil), Mapping(uint, uint), Path(<<"T">>), Path(<<"E">>)}
Places(v, kind, vis) ==
    {SourceUnit(<<ContractDefinition(kind, "C", << >>, <<TStruct, EnumDefinition("E", <<EnumValue("e")>>), part>>)>>) : part \in
        {FunctionDefinition("f", FALSE, vis, "", "", ParameterList(<<v>>), NoParameters, << >>, Block(<< >>)),
         FunctionDefinition("f", FALSE, vis, "", "", NoParameters, ParameterList(<<v>>), << >>, Block(<< >>))}}
Elsewhere(v) ==
    {Unit(<<TStruct, EnumDefinition("E", <<EnumValue("e")>>), part>>) : part \in
        {Taking("f", "internal", << >>, <<VariableDeclarationStatement(<<v>>, Nil)>>), ModifierDefinition("m", ParameterList(<<v>>), Block(<<PlaceholderStatement>>)),
         VariableDeclaration(FunctionTypeName(ParameterList(<<v>>), NoParameters, "", "", ""), "w", Nil, "", TRUE, FALSE, FALSE, ""),
         VariableDeclaration(FunctionTypeName(NoParameters, ParameterList(<<v>>), "external", "", ""), "w", Nil, "", TRUE, FALSE, FALSE, "")}}
Unplaced(t) == {Unit(<<TStruct, EnumDefinition("E", <<EnumValue("e")>>), part>>) : part \in
                   {StructDefinition("V", <<Variable(t, "v", "")>>), EventDefinition("V", ParameterList(<<Variable(t, "v", "")>>), FALSE),
                    VariableDeclaration(t, "v", Nil, "", TRUE, FALSE, FALSE, ""), VariableDeclaration(t, "v", one, "", TRUE, FALSE, TRUE, "")}}
PlacedTrees == UNION {UNION {Places(Variable(t, "v", l), k, vis) : k \in {"contract", "library"}, vis \in {"external", "public", "internal"}} \cup Elsewhere(Variable(t, "v", l)) :
                          t \in PlacedTypes, l \in {"", "memory", "storage", "calldata"}} \cup UNION {Unplaced(t) : t \in PlacedTypes}
               \cup {Unit(<<VariableDeclaration(FunctionTypeName(NoParameters, NoParameters, vis, "", mut), "w", Nil, "", TRUE, FALSE, FALSE, "")>>) :
                        vis \in {"", "public", "external"}, mut \in {"", "payable"}}
               \cup {Unit(<<Taking("f", "internal", << >>, <<VariableDeclarationStatement(<<VariableDeclaration(uint, "v", Nil, "", FALSE, FALSE, TRUE, "")>>, one)>>)>>)}
NameUnits == <<NamedUnits(ScopedTrees), NamedUnits(FamilyTrees), NamedUnits(DeclarationTrees), NamedUnits(ImportTrees), NamedUnits(RuleTrees), NamedUnits(PlacedTrees)>>
AllUnits == <<FlowUnits, ExpressionUnits, StatementUnits, MemberUnits, EditUnits, TextUnits, LineUnits, AsmUnits>> \o NameUnits
=============================================================================
