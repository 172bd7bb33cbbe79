----------------------------- MODULE AsmParser ------------------------------
(***************************************************************************)
(* Inline assembly, strict assembly and Yul: the parser, on the states of  *)
(* the parser of the language with the flavour added, and the printer, the *)
(* text of a tree as the scanner will read it.  Indentation is left out.   *)
(***************************************************************************)
EXTENDS ParserBase

Chars == INSTANCE Scanner
RECURSIVE A(_, _, _)

(* some of the instructions: the number of arguments and of results *)
Instructions == ("add" :> <<2, 1>>) @@ ("mload" :> <<1, 1>>) @@ ("mstore" :> <<2, 0>>) @@ ("pop" :> <<1, 0>>) @@ ("address" :> <<0, 1>>)
                @@ ("return" :> <<2, 0>>) @@ ("byte" :> <<2, 1>>) @@ ("stop" :> <<0, 0>>) @@ ("dup1" :> <<1, 2>>) @@ ("swap1" :> <<2, 2>>)
                @@ ("keccak256" :> <<2, 1>>)
StackOnly == {"dup1", "swap1"}
(* currentLiteral: the scanner keeps the word of a keyword too *)
Word(s) == IF Cur(s) # "StringLiteral" /\ Literally(s) = "" THEN Cur(s) ELSE Literally(s)
Top(s) == s.v[Len(s.v)]
Below(s) == [s EXCEPT !.v = SubSeq(@, 1, Len(@) - 1)]

isValidNumberLiteral(l) ==
    \/ \A i \in 1 .. Len(l) : SubSeq(l, i, i) \in Chars!DecimalDigits
    \/ Len(l) > 2 /\ SubSeq(l, 1, 2) = "0x" /\ \A i \in 3 .. Len(l) : SubSeq(l, i, i) \in DOMAIN Chars!HexValues
expectAsmIdentifier(s) ==
    With(s, LAMBDA r :
        CASE r.flavour = "Yul" /\ Cur(r) \in {"return", "byte", "address", "bool"} -> Advance(Push(r, Str(Word(r))))
          [] r.flavour # "Yul" /\ Word(r) \in DOMAIN Instructions -> fatalParserError(r)
          [] OTHER -> expectIdentifierToken(r))
parseTypedName(s) ==
    With(IF s.flavour = "Yul" THEN expectAsmIdentifier(expectToken(expectAsmIdentifier(s), ":")) ELSE Push(expectAsmIdentifier(s), Str("")), LAMBDA r :
        Ret(r, s, Node("TypedName", <<Name(r, s, 1), Name(r, s, 2)>>, << >>)))
(* an instruction, a literal or an identifier *)
parseElementaryOperation(s) ==
    CASE Cur(s) \in {"Identifier", "return", "byte", "address"} ->
           Advance(Push(s, IF s.flavour # "Yul" /\ Word(s) \in DOMAIN Instructions THEN Node("Instruction", <<Word(s)>>, << >>) ELSE Identifier(Word(s))))
      [] Cur(s) = "Number" /\ ~isValidNumberLiteral(Literally(s)) -> fatalParserError(s)
      [] Cur(s) \in {"true", "false"} /\ s.flavour # "Yul" -> fatalParserError(s)
      [] Cur(s) \in {"StringLiteral", "Number", "true", "false"} /\ s.flavour = "Yul" ->
           With(expectAsmIdentifier(expectToken(Advance(s), ":")), LAMBDA r : Ret(r, s, Literal(Cur(s), Word(s), Name(r, s, 1))))
      [] Cur(s) \in {"StringLiteral", "Number"} /\ s.flavour # "Yul" -> Advance(Push(s, Literal(Cur(s), Word(s), "")))
      [] OTHER -> fatalParserError(s)

(* n arguments of an instruction; arguments up to the closing parenthesis *)
InstructionArguments(s, n) ==
    CASE n = 0 -> s
      [] n > 0 /\ Cur(s) = ")" -> fatalParserError(s)
      [] OTHER -> With(A("Expression", s, Nil), LAMBDA r :
                      CASE n = 1 -> r
                        [] n > 1 /\ Cur(r) # "," -> fatalParserError(r)
                        [] OTHER -> A("InstructionArguments", Advance(r), n - 1))
CallArguments(s) ==
    IF Cur(s) = ")" THEN s
    ELSE With(A("Expression", s, Nil), LAMBDA r : IF Cur(r) = ")" THEN r ELSE A("CallArguments", expectToken(r, ","), Nil))
(* the operation parsed before is the last value *)
parseCall(s) ==
    LET op == Top(s)
    IN CASE op.k = "Instruction" /\ op.n[1] \in StackOnly -> fatalParserError(s)
         [] op.k = "Instruction" /\ op.n[1] \notin StackOnly ->
              With(A("InstructionArguments", expectToken(s, "("), Instructions[op.n[1]][1]), LAMBDA r :
                  Ret(expectToken(r, ")"), Below(s), Node("FunctionalInstruction", op.n, Since(r, s))))
         [] op.k = "Identifier" ->
              With(A("CallArguments", expectToken(s, "("), Nil), LAMBDA r : Ret(expectToken(r, ")"), Below(s), Node("FunctionCall", op.n, Since(r, s))))
         [] OTHER -> fatalParserError(s)
parseExpression(s) ==
    With(A("ElementaryOperation", s, Nil), LAMBDA r :
        CASE r.f -> r
          [] ~r.f /\ Top(r).k = "Instruction" /\ (Instructions[Top(r).n[1]][2] # 1 \/ Top(r).n[1] \in StackOnly) -> fatalParserError(r)
          [] ~r.f /\ Top(r).k = "Instruction" /\ Cur(r) # "(" /\ (r.flavour # "Loose" \/ Instructions[Top(r).n[1]][1] > 0) -> fatalParserError(r)
          [] ~r.f /\ Cur(r) = "(" -> A("Call", r, Nil)
          [] OTHER -> IF Top(r).k = "Instruction" THEN Ret(r, s, Node("FunctionalInstruction", Top(r).n, << >>)) ELSE r)

(***************************************************************************)
(* Statements                                                              *)
(***************************************************************************)
parseCase(s) ==
    With(CASE Cur(s) = "default" -> Push(Advance(s), Nil)
           [] Cur(s) = "case" -> With(A("ElementaryOperation", Advance(s), Nil), LAMBDA r : IF ~r.f /\ Top(r).k # "Literal" THEN fatalParserError(r) ELSE r)
           [] OTHER -> fatalParserError(s), LAMBDA r :
    With(A("Block", r, Nil), LAMBDA q : Ret(q, s, Node("Case", << >>, Since(q, s)))))
Cases(s) == IF Cur(s) = "case" THEN A("Cases", A("Case", s, Nil), Nil) ELSE s
parseSwitch(s) ==
    With(A("Cases", A("Expression", Advance(s), Nil), Nil), LAMBDA r :
    With(IF Cur(r) = "default" THEN A("Case", r, Nil) ELSE r, LAMBDA q :
        IF Cur(q) \in {"default", "case"} \/ Len(Since(q, s)) = 1 THEN fatalParserError(q) ELSE Ret(q, s, Node("Switch", << >>, Since(q, s)))))
parseForLoop(s) ==
    With(A("Block", A("Block", A("Expression", A("Block", expectToken(s, "for"), Nil), Nil), Nil), Nil), LAMBDA r :
        Ret(r, s, Node("ForLoop", << >>, Since(r, s))))
TypedNames(s, end) ==
    With(A("TypedName", s, Nil), LAMBDA r : CASE end = "" /\ Cur(r) # "," -> r
                                              [] end # "" /\ Cur(r) = end -> r
                                              [] OTHER -> A("TypedNames", expectToken(r, ","), end))
(* parameters may end with a comma *)
Parameters(s) == IF Cur(s) = ")" THEN s ELSE With(A("TypedName", s, Nil), LAMBDA r : IF Cur(r) = ")" THEN r ELSE A("Parameters", expectToken(r, ","), Nil))
parseVariableDeclaration(s) ==
    With(A("TypedNames", expectToken(s, "let"), ""), LAMBDA r :
    With(IF Cur(r) = ":" THEN A("Expression", expectToken(Advance(r), "="), Nil) ELSE Push(r, Nil), LAMBDA q :
        Ret(q, s, Node("VariableDeclaration", << >>, <<List(Since(r, s)), Val(q, r, 1)>>))))
parseFunctionDefinition(s) ==
    With(expectAsmIdentifier(expectToken(s, "function")), LAMBDA f :
    With(expectToken(A("Parameters", expectToken(f, "("), Nil), ")"), LAMBDA r :
    With(IF Cur(r) = "-" THEN A("TypedNames", expectToken(Advance(r), ">"), "{") ELSE r, LAMBDA q :
    With(A("Block", q, Nil), LAMBDA w :
        Ret(w, s, Node("FunctionDefinition", <<Name(f, s, 1)>>, <<List(Since(r, f)), List(Since(q, r)), Val(w, q, 1)>>))))))
MoreNames(s) ==
    With(A("ElementaryOperation", expectToken(s, ","), Nil), LAMBDA r :
        CASE r.f -> r
          [] ~r.f /\ Top(r).k # "Identifier" -> fatalParserError(r)
          [] OTHER -> IF Cur(r) = "," THEN A("MoreNames", r, Nil) ELSE r)
Assigned(names, value) == Node("Assignment", [i \in DOMAIN names |-> names[i].n[1]], <<value>>)
(* r: behind the elementary operation that starts the statement *)
AfterOperation(s, r) ==
    CASE r.f -> r
      [] ~r.f /\ Cur(r) = "(" -> With(A("Call", r, Nil), LAMBDA q : Ret(q, s, ExpressionStatement(Val(q, s, 1))))
      [] ~r.f /\ Cur(r) \in {",", ":"} /\ Top(r).k # "Identifier" -> fatalParserError(r)
      [] ~r.f /\ Cur(r) = "," /\ Top(r).k = "Identifier" ->
           With(A("MoreNames", r, Nil), LAMBDA q :
           With(A("Expression", expectToken(expectToken(q, ":"), "="), Nil), LAMBDA w : Ret(w, s, Assigned(Since(q, s), Val(w, q, 1)))))
      [] ~r.f /\ Cur(r) = ":" /\ Top(r).k = "Identifier" ->
           With(Advance(r), LAMBDA q :
               CASE Cur(q) = "=" /\ Peek(q) # ":" ->
                      With(A("Expression", Advance(q), Nil), LAMBDA w : Ret(w, s, Assigned(<<Top(r)>>, Val(w, r, 1))))
                 [] ~(Cur(q) = "=" /\ Peek(q) # ":") /\ q.flavour # "Loose" -> fatalParserError(q)
                 [] OTHER -> Ret(q, s, Node("Label", Top(r).n, << >>)))
      [] ~r.f /\ Cur(r) \notin {"(", ",", ":"} /\ r.flavour # "Loose" -> fatalParserError(r)
      [] OTHER -> IF Top(r).k = "Instruction" THEN r ELSE Ret(r, s, ExpressionStatement(Top(r)))
parseStatement(s) ==
    CASE Cur(s) = "let" -> A("VariableDeclaration", s, Nil)
      [] Cur(s) = "function" -> A("FunctionDefinition", s, Nil)
      [] Cur(s) = "{" -> A("Block", s, Nil)
      [] Cur(s) = "if" -> With(A("Block", A("Expression", Advance(s), Nil), Nil), LAMBDA r : Ret(r, s, Node("If", << >>, Since(r, s))))
      [] Cur(s) = "switch" -> parseSwitch(s)
      [] Cur(s) = "for" -> A("ForLoop", s, Nil)
      [] Cur(s) = "=" /\ s.flavour = "Loose" ->
           With(expectToken(Advance(s), ":"), LAMBDA r :
               IF Word(r) \in DOMAIN Instructions THEN fatalParserError(r)
               ELSE With(expectIdentifierToken(r), LAMBDA q : Ret(q, s, Node("StackAssignment", <<Name(q, s, 1)>>, << >>))))
      [] OTHER -> With(A("ElementaryOperation", s, Nil), LAMBDA r : AfterOperation(s, r))
BlockStatements(s) == IF Cur(s) = "}" THEN s ELSE A("BlockStatements", A("Statement", s, Nil), Nil)
parseBlock(s) == With(A("BlockStatements", expectToken(s, "{"), Nil), LAMBDA r : Ret(Advance(r), s, Block(Since(r, s))))

Loops == {"InstructionArguments", "CallArguments", "Cases", "TypedNames", "Parameters", "MoreNames", "BlockStatements"}
AsmDispatch(k, s, x) ==
    CASE k = "Block" -> parseBlock(s)
      [] k = "BlockStatements" -> BlockStatements(s)
      [] k = "Statement" -> parseStatement(s)
      [] k = "Case" -> parseCase(s)
      [] k = "Cases" -> Cases(s)
      [] k = "ForLoop" -> parseForLoop(s)
      [] k = "Expression" -> parseExpression(s)
      [] k = "ElementaryOperation" -> parseElementaryOperation(s)
      [] k = "VariableDeclaration" -> parseVariableDeclaration(s)
      [] k = "FunctionDefinition" -> parseFunctionDefinition(s)
      [] k = "Call" -> parseCall(s)
      [] k = "InstructionArguments" -> InstructionArguments(s, x)
      [] k = "CallArguments" -> CallArguments(s)
      [] k = "TypedName" -> parseTypedName(s)
      [] k = "TypedNames" -> TypedNames(s, x)
      [] k = "Parameters" -> Parameters(s)
      [] k = "MoreNames" -> MoreNames(s)
A(k, state, arg) ==
    With(state, LAMBDA s :
    With(arg, LAMBDA x :
        CASE s.f -> s
          [] ~s.f /\ k \in Loops -> AsmDispatch(k, s, x)
          [] ~s.f /\ k \notin Loops /\ s.d + 1 >= MaxDepth -> fatalParserError(s)
          [] OTHER -> With(AsmDispatch(k, [s EXCEPT !.d = @ + 1], x), LAMBDA r : [r EXCEPT !.d = s.d])))
(* the block, Nil after an error *)
parseAssembly(tokens, flavour) ==
    With(expectToken(A("Block", [flavour |-> flavour] @@ Start(tokens), Nil), "EOS"), LAMBDA r : [tree |-> IF r.f THEN Nil ELSE r.v[1], errors |-> r.e])

-----------------------------------------------------------------------------
(* The printer *)
HexDigit(x) == SubSeq("0123456789abcdef", x + 1, x + 1)
DigitValue == ("0" :> 0) @@ ("1" :> 1) @@ ("2" :> 2) @@ ("3" :> 3) @@ ("4" :> 4) @@ ("5" :> 5) @@ ("6" :> 6) @@ ("7" :> 7) @@ ("8" :> 8) @@ ("9" :> 9)
Escaped == ("\\" :> "\\\\") @@ ("\"" :> "\\\"") @@ ("\f" :> "\\f") @@ ("\n" :> "\\n") @@ ("\r" :> "\\r") @@ ("\t" :> "\\t")
(* a byte that is no character *)
EscapedByte(code) == CASE code = 8 -> "\\b"
                       [] code = 11 -> "\\v"
                       [] OTHER -> "\\x" \o HexDigit(code \div 16) \o HexDigit(code % 16)
(* code: the number read so far of a byte that is no character, -1 outside of one *)
RECURSIVE EscapedFrom(_, _)
EscapedFrom(value, code) ==
    IF value = "" THEN ""
    ELSE LET c == SubSeq(value, 1, 1)
             rest == SubSeq(value, 2, Len(value))
         IN CASE code >= 0 /\ c = ">" -> EscapedByte(code) \o EscapedFrom(rest, -1)
              [] code >= 0 /\ c # ">" -> EscapedFrom(rest, code * 10 + DigitValue[c])
              [] code < 0 /\ c = "<" -> EscapedFrom(rest, 0)
              [] code < 0 /\ c \in DOMAIN Escaped -> Escaped[c] \o EscapedFrom(rest, -1)
              [] OTHER -> c \o EscapedFrom(rest, -1)
appendTypeName(type, yul) == IF yul THEN ":" \o type ELSE ""
formatTypedName(n, yul) == n.n[1] \o appendTypeName(n.n[2], yul)
RECURSIVE Joined(_, _)
Joined(texts, separator) ==
    CASE texts = << >> -> ""
      [] Len(texts) = 1 -> texts[1]
      [] OTHER -> texts[1] \o separator \o Joined(Tail(texts), separator)
formatTypedNames(ns, yul) == Joined([i \in DOMAIN ns |-> formatTypedName(ns[i], yul)], ", ")

RECURSIVE Printed(_, _)
PrintedAll(ns, yul, separator) == Joined([i \in DOMAIN ns |-> Printed(ns[i], yul)], separator)
PrintedExpression(n, yul) ==
    CASE n.k = "Literal" -> (IF n.n[1] = "StringLiteral" THEN "\"" \o EscapedFrom(n.n[2], -1) \o "\"" ELSE n.n[2]) \o appendTypeName(n.n[3], yul)
      [] n.k = "Identifier" -> n.n[1]
      [] n.k \in {"FunctionalInstruction", "FunctionCall"} -> n.n[1] \o "(" \o PrintedAll(n.a, yul, ", ") \o ")"
PrintedStatement(n, yul) ==
    CASE n.k = "Instruction" -> n.n[1]
      [] n.k = "ExpressionStatement" -> Printed(n.a[1], yul)
      [] n.k = "Label" -> n.n[1] \o ":"
      [] n.k = "StackAssignment" -> "=: " \o n.n[1]
      [] n.k = "Assignment" -> Joined(n.n, ", ") \o " := " \o Printed(n.a[1], yul)
      [] n.k = "VariableDeclaration" -> "let " \o formatTypedNames(n.a[1].a, yul) \o (IF n.a[2] = Nil THEN "" ELSE " := " \o Printed(n.a[2], yul))
      [] n.k = "FunctionDefinition" ->
           "function " \o n.n[1] \o "(" \o formatTypedNames(n.a[1].a, yul) \o ")"
           \o (IF n.a[2].a = << >> THEN "" ELSE " -> " \o formatTypedNames(n.a[2].a, yul)) \o "\n" \o Printed(n.a[3], yul)
      [] n.k = "If" -> "if " \o PrintedAll(n.a, yul, "\n")
      [] n.k = "Switch" -> "switch " \o PrintedAll(n.a, yul, "\n")
      [] n.k = "Case" -> (IF n.a[1] = Nil THEN "default " ELSE "case " \o Printed(n.a[1], yul) \o " ") \o Printed(n.a[2], yul)
      [] n.k = "ForLoop" -> "for " \o PrintedAll(n.a, yul, "\n")
      [] n.k = "Block" -> IF n.a = << >> THEN "{\n}" ELSE "{\n" \o PrintedAll(n.a, yul, "\n") \o "\n}"
Printed(n, yul) == IF n.k \in {"Literal", "Identifier", "FunctionalInstruction", "FunctionCall"} THEN PrintedExpression(n, yul) ELSE PrintedStatement(n, yul)
=============================================================================
