------------------------------- MODULE Parser -------------------------------
(***************************************************************************)
(* The recursive descent parser.  Every parse function of the code is an   *)
(* operator; they call each other through P, which is also the             *)
(* RecursionGuard.  A loop of the code is an operator that calls itself    *)
(* through P; it has no guard.                                             *)
(***************************************************************************)
EXTENDS ParserBase
RECURSIVE P(_, _, _)

(***************************************************************************)
(* Tokens: the kind (its text) and the literal                             *)
(***************************************************************************)
ElementaryTypeNames == {"int", "uint", "bytes", "byte", "string", "address", "bool", "fixed", "ufixed", "intM", "uintM",
                        "safeuint", "bytesM", "fixedMxN", "ufixedMxN"}
AssignmentOps == {"=", "|=", "^=", "&=", "<<=", ">>=", ">>>=", "+=", "-=", "*=", "/=", "%="}
CountOps == {"++", "--"}
UnaryOps == {"!", "~", "++", "--", "factInsert", "factDelete", "update", "delete", "+", "-"}
VariableVisibilities == {"public", "private", "internal"}
Visibilities == VariableVisibilities \cup {"external"}
Locations == {"memory", "storage", "calldata"}
Mutabilities == {"pure", "view", "payable"}
Subdenominations == {"wei", "szabo", "finney", "ether", "seconds", "minutes", "hours", "days", "weeks", "years"}
Precedence == [t \in {"?"} |-> 3] @@ [t \in AssignmentOps |-> 2] @@ ("," :> 1) @@ ("||" :> 4) @@ ("&&" :> 5)
              @@ ("|" :> 8) @@ ("^" :> 9) @@ ("&" :> 10) @@ [t \in {"<<", ">>", ">>>"} |-> 11] @@ [t \in {"+", "-"} |-> 12]
              @@ [t \in {"*", "/", "%"} |-> 13] @@ ("**" :> 14) @@ [t \in {"==", "!="} |-> 6]
              @@ [t \in {"<", ">", "<=", ">="} |-> 7]
precedence(t) == IF t \in DOMAIN Precedence THEN Precedence[t] ELSE 0

Opts(o) == [o |-> o, type |-> Nil]

(***************************************************************************)
(* Source units and contracts                                              *)
(***************************************************************************)
RECURSIVE PragmaTokens(_)
PragmaTokens(state) ==
    With(state, LAMBDA s :
    With(Advance(IF Cur(s) = "ILLEGAL" THEN parserError(s) ELSE Push(s, Str(IF Literally(s) = "" THEN Cur(s) ELSE Literally(s)))),
         LAMBDA r : IF Cur(r) \in {";", "EOS"} THEN r ELSE PragmaTokens(r)))
parsePragmaDirective(s) ==
    With(PragmaTokens(expectToken(s, "pragma")), LAMBDA r :
        Ret(expectToken(r, ";"), s, PragmaDirective([i \in DOMAIN Since(r, s) |-> Since(r, s)[i].n[1]])))

RECURSIVE SymbolAliases(_)
SymbolAliases(state) ==
    With(state, LAMBDA s :
    With(P("Identifier", s, Nil), LAMBDA r :
    With(IF Cur(r) = "as" THEN expectIdentifierToken(Advance(r)) ELSE Push(r, Str("")), LAMBDA q :
    With(Ret(q, s, Node("symbol", <<Name(q, s, 1), Name(q, s, 2)>>, << >>)), LAMBDA w :
        IF w.f \/ Cur(w) # "," THEN w ELSE SymbolAliases(Advance(w))))))
ImportPath(s) ==
    With(s, LAMBDA r : IF Cur(r) # "Identifier" \/ Literally(r) # "from" THEN fatalParserError(r)
    ELSE IF Peek(r) # "StringLiteral" THEN fatalParserError(r) ELSE getLiteralAndAdvance(Advance(r)))
parseImportDirective(s) ==
    With(expectToken(s, "import"), LAMBDA r :
    With(CASE Cur(r) = "StringLiteral" ->
                With(getLiteralAndAdvance(r), LAMBDA q :
                    IF Cur(q) = "as" THEN expectIdentifierToken(Advance(q)) ELSE Push(q, Str("")))
           [] Cur(r) = "{" -> ImportPath(expectToken(SymbolAliases(Advance(r)), "}"))
           [] Cur(r) = "*" -> ImportPath(expectIdentifierToken(expectToken(Advance(r), "as")))
           [] OTHER -> fatalParserError(r), LAMBDA q :
        Ret(expectToken(q, ";"), s,
            CASE Cur(r) = "StringLiteral" -> ImportDirective(Name(q, s, 1), Name(q, s, 2), << >>)
              [] Cur(r) = "*" -> ImportDirective(Name(q, s, 2), Name(q, s, 1), << >>)
              [] OTHER -> With(Since(q, s), LAMBDA w : ImportDirective(w[Len(w)].n[1], "", [i \in 1 .. Len(w) - 1 |-> w[i].n])))))

InheritanceList(s) ==
    With(P("InheritanceSpecifier", Advance(s), Nil), LAMBDA r : IF Cur(r) = "," THEN P("InheritanceList", r, Nil) ELSE r)
ContractParts(s) ==
    CASE Cur(s) = "}" -> s
      [] Cur(s) \in {"function", "constructor"} -> P("ContractParts", P("FunctionDefinitionOrFunctionTypeStateVariable", s, Nil), Nil)
      [] Cur(s) \in {"struct", "enum", "modifier", "event", "using", "rule"} -> P("ContractParts", P(Cur(s), s, Nil), Nil)
      [] Cur(s) \in {"Identifier", "mapping"} \cup ElementaryTypeNames ->
            P("ContractParts", expectToken(P("VariableDeclaration", s, Opts({"state", "initial"})), ";"), Nil)
      [] OTHER -> fatalParserError(s)
parseContractDefinition(s) ==
    With(expectIdentifierToken(Advance(s)), LAMBDA r :
    With(IF Cur(r) = "is" THEN P("InheritanceList", r, Nil) ELSE r, LAMBDA b :
    With(P("ContractParts", expectToken(b, "{"), Nil), LAMBDA q :
        Ret(expectToken(q, "}"), s, ContractDefinition(Cur(s), Name(r, s, 1), Since(b, r), Since(q, b))))))
parseInheritanceSpecifier(s) ==
    With(P("UserDefinedTypeName", s, Nil), LAMBDA r :
        IF Cur(r) = "("
        THEN With(P("FunctionCallListArguments", Advance(r), Nil), LAMBDA q :
                 Ret(expectToken(q, ")"), s, InheritanceSpecifier(Val(r, s, 1), TRUE, Since(q, r))))
        ELSE Ret(r, s, InheritanceSpecifier(Val(r, s, 1), FALSE, << >>)))

(***************************************************************************)
(* Functions                                                               *)
(***************************************************************************)
parseStateMutability(s) == IF Cur(s) = "constant" THEN Advance(parserError(s)) ELSE Advance(s)
StateMutabilityOf(t) == IF t = "constant" THEN "view" ELSE t
(* x: the header so far; it ends at a token that may not be part of it, or     *)
(* where a name or a second visibility makes it a variable of function type    *)
HeaderModifiers(s, x) ==
    LET unnamed == x.name = "" /\ ~x.ctor
        done == Push(s, Node("header", <<x.vis, x.special, x.mut>>, x.mods))
    IN CASE x.allow /\ Cur(s) = "Identifier" ->
              IF unnamed /\ Peek(s) \in {";", "="} THEN done
              ELSE With(P("ModifierInvocation", s, Nil), LAMBDA r :
                       P("HeaderModifiers", Drop(r, s), [x EXCEPT !.mods = Append(@, IF r.f THEN Nil ELSE Val(r, s, 1))]))
         [] Cur(s) = "freegas" -> P("HeaderModifiers", Advance(s), [x EXCEPT !.special = "freegas"])
         [] Cur(s) \in Visibilities /\ x.vis = "" -> P("HeaderModifiers", Advance(s), [x EXCEPT !.vis = Cur(s)])
         [] Cur(s) \in Visibilities /\ x.vis # "" ->
              IF x.vis \in {"external", "internal"} /\ x.mods = << >> /\ unnamed THEN done
              ELSE P("HeaderModifiers", Advance(parserError(s)), x)
         [] Cur(s) \in Mutabilities \cup {"constant"} ->
              IF x.mut # "" THEN P("HeaderModifiers", Advance(parserError(s)), x)
              ELSE P("HeaderModifiers", parseStateMutability(s), [x EXCEPT !.mut = StateMutabilityOf(Cur(s))])
         [] OTHER -> done
(* pushes the name, the parameters, the modifiers and the return parameters *)
parseFunctionHeader(s, x) ==
    LET ctor == Cur(s) = "constructor"
    IN With(Advance(s), LAMBDA r :
       With(CASE ctor \/ x.forceEmptyName \/ Cur(r) = "(" -> Push(r, Str(""))
              [] Cur(r) = "constructor" -> fatalParserError(r)
              [] OTHER -> expectIdentifierToken(r), LAMBDA n :
       With(P("ParameterList", n, [o |-> {"location"}, allowEmpty |-> TRUE]), LAMBDA p :
       With(P("HeaderModifiers", p, [name |-> IF n.f THEN "" ELSE Name(n, s, 1), ctor |-> ctor, allow |-> x.allowModifiers,
                                     vis |-> "", special |-> "", mut |-> "", mods |-> << >>]), LAMBDA q :
           IF Cur(q) = "returns" THEN P("ParameterList", Advance(q), [o |-> {"location"}, allowEmpty |-> FALSE])
           ELSE Push(q, ParameterList(<< >>))))))
parseFunctionDefinitionOrFunctionTypeStateVariable(s) ==
    With(P("FunctionHeader", s, [forceEmptyName |-> FALSE, allowModifiers |-> TRUE]), LAMBDA r :
    IF r.f THEN r ELSE
    LET ctor == Cur(s) = "constructor"
        h == Val(r, s, 3)
    IN IF ctor \/ h.a # << >> \/ Name(r, s, 1) # "" \/ Cur(r) \in {";", "{"}
       THEN With(IF Cur(r) = ";" THEN Push(Advance(r), Nil) ELSE P("Block", r, Nil), LAMBDA q :
                Ret(q, s, FunctionDefinition(Name(r, s, 1), ctor, h.n[1], h.n[2], h.n[3], Val(r, s, 2), Val(r, s, 4), h.a, Val(q, r, 1))))
       ELSE With(P("TypeNameSuffix", r, FunctionTypeName(Val(r, s, 2), Val(r, s, 4), h.n[1], h.n[2], h.n[3])), LAMBDA t :
            With(P("VariableDeclaration", t, [o |-> {"state", "initial"}, type |-> IF t.f THEN Nil ELSE Val(t, r, 1)]), LAMBDA q :
                Ret(expectToken(q, ";"), s, Val(q, t, 1)))))

(***************************************************************************)
(* Other members of a contract                                             *)
(***************************************************************************)
StructMembers(s) ==
    IF Cur(s) = "}" THEN s
    ELSE P("StructMembers", expectToken(P("VariableDeclaration", s, Opts({})), ";"), Nil)
parseStructDefinition(s) ==
    With(expectIdentifierToken(expectToken(s, "struct")), LAMBDA r :
    With(P("StructMembers", expectToken(r, "{"), Nil), LAMBDA q :
        Ret(expectToken(q, "}"), s, StructDefinition(Name(r, s, 1), Since(q, r)))))
parseEnumValue(s) == With(expectIdentifierToken(s), LAMBDA r : Ret(r, s, EnumValue(Name(r, s, 1))))
EnumMembers(s) ==
    IF Cur(s) = "}" THEN s
    ELSE With(P("EnumValue", s, Nil), LAMBDA r :
             IF r.f \/ Cur(r) = "}" THEN r
             ELSE With(expectToken(r, ","), LAMBDA q :
                      IF Cur(q) = "Identifier" THEN P("EnumMembers", q, Nil) ELSE fatalParserError(q)))
parseEnumDefinition(s) ==
    With(expectIdentifierToken(expectToken(s, "enum")), LAMBDA r :
    With(P("EnumMembers", expectToken(r, "{"), Nil), LAMBDA q :
    With(IF ~q.f /\ Since(q, r) = << >> THEN parserError(q) ELSE q, LAMBDA w :
        Ret(expectToken(w, "}"), s, EnumDefinition(Name(r, s, 1), Since(q, r))))))

(* x: the options, the type, and what was specified so far *)
DeclarationModifiers(s, x) ==
    CASE "state" \in x.o /\ Cur(s) \in VariableVisibilities ->
           IF x.vis # "" THEN P("DeclarationModifiers", Advance(parserError(s)), x)
           ELSE P("DeclarationModifiers", Advance(s), [x EXCEPT !.vis = Cur(s)])
      [] "indexed" \in x.o /\ Cur(s) = "indexed" -> P("DeclarationModifiers", Advance(s), [x EXCEPT !.indexed = TRUE])
      [] Cur(s) = "constant" -> P("DeclarationModifiers", Advance(s), [x EXCEPT !.const = TRUE])
      [] "location" \in x.o /\ Cur(s) \in Locations ->
           IF x.loc # "" \/ x.type = Nil THEN P("DeclarationModifiers", Advance(parserError(s)), x)
           ELSE P("DeclarationModifiers", Advance(s), [x EXCEPT !.loc = Cur(s)])
      [] OTHER ->
           With(IF "emptyName" \in x.o /\ Cur(s) # "Identifier" THEN Push(s, Str("")) ELSE expectIdentifierToken(s), LAMBDA r :
           With(IF "initial" \in x.o /\ Cur(r) = "=" THEN P("Expression", Advance(r), Nil) ELSE Push(r, Nil), LAMBDA q :
               Ret(q, s, VariableDeclaration(x.type, Name(q, s, 1), Val(q, s, 2), x.vis, "state" \in x.o, x.indexed, x.const, x.loc))))
parseVariableDeclaration(s, x) ==
    With(IF x.type # Nil THEN Push(s, x.type) ELSE P("TypeName", s, "var" \in x.o), LAMBDA r :
    With(P("DeclarationModifiers", r, [o |-> x.o, type |-> IF r.f THEN Nil ELSE Val(r, s, 1), vis |-> "", loc |-> "",
                                       indexed |-> FALSE, const |-> FALSE]), LAMBDA q :
        Ret(q, s, Val(q, r, 1))))

parseModifierDefinition(s) ==
    With(expectIdentifierToken(expectToken([s EXCEPT !.m = TRUE], "modifier")), LAMBDA r :
    With(IF Cur(r) = "(" THEN P("ParameterList", r, [o |-> {"indexed", "location"}, allowEmpty |-> TRUE])
         ELSE Push(r, ParameterList(<< >>)), LAMBDA p :
    With(P("Block", p, Nil), LAMBDA q :
        Ret([q EXCEPT !.m = FALSE], s, ModifierDefinition(Name(r, s, 1), Val(q, s, 2), Val(q, s, 3))))))
parseEventDefinition(s) ==
    With(expectIdentifierToken(expectToken(s, "event")), LAMBDA r :
    With(P("ParameterList", r, [o |-> {"indexed"}, allowEmpty |-> TRUE]), LAMBDA p :
        Ret(expectToken(IF Cur(p) = "anonymous" THEN Advance(p) ELSE p, ";"), s,
            EventDefinition(Name(r, s, 1), Val(p, s, 2), Cur(p) = "anonymous"))))
parseUsingDirective(s) ==
    With(expectToken(P("UserDefinedTypeName", expectToken(s, "using"), Nil), "for"), LAMBDA r :
    With(IF Cur(r) = "*" THEN Push(Advance(r), Nil) ELSE P("TypeName", r, FALSE), LAMBDA q :
        Ret(expectToken(q, ";"), s, UsingForDirective(Val(q, s, 1), Val(q, s, 2)))))
parseModifierInvocation(s) ==
    With(P("Identifier", s, Nil), LAMBDA r :
        IF Cur(r) = "("
        THEN With(P("FunctionCallListArguments", Advance(r), Nil), LAMBDA q :
                 Ret(expectToken(q, ")"), s, ModifierInvocation(Val(r, s, 1), TRUE, Since(q, r))))
        ELSE Ret(r, s, ModifierInvocation(Val(r, s, 1), FALSE, << >>)))
parseIdentifier(s) == With(expectIdentifierToken(s), LAMBDA r : Ret(r, s, Identifier(Name(r, s, 1))))

(***************************************************************************)
(* Type names and parameters                                               *)
(***************************************************************************)
RECURSIVE PathFrom(_)
PathFrom(s) == With(expectIdentifierToken(s), LAMBDA r : IF ~r.f /\ Cur(r) = "." THEN PathFrom(Advance(r)) ELSE r)
parseUserDefinedTypeName(s) ==
    With(PathFrom(s), LAMBDA r : Ret(r, s, UserDefinedTypeName([i \in 1 .. Len(r.v) - Len(s.v) |-> Name(r, s, i)])))
parseTypeNameSuffix(s, type) ==
    IF Cur(s) # "[" THEN Push(s, type)
    ELSE With(IF Peek(s) = "]" THEN Push(Advance(s), Nil) ELSE P("Expression", Advance(s), Nil), LAMBDA r :
             P("MoreSuffixes", Drop(expectToken(r, "]"), s), ArrayTypeName(type, IF r.f THEN Nil ELSE Val(r, s, 1))))
parseTypeName(s, allowVar) ==
    With(CASE Cur(s) \in ElementaryTypeNames ->
                LET address == Cur(s) = "address"
                IN With(Advance(s), LAMBDA r :
                   With(CASE Cur(r) \in Mutabilities /\ address -> parseStateMutability(r)
                          [] Cur(r) \in Mutabilities /\ ~address -> Advance(parserError(r))
                          [] OTHER -> r, LAMBDA q :
                       Push(q, ElementaryTypeName(Cur(s), Literally(s), IF address /\ Cur(r) \in Mutabilities THEN Cur(r) ELSE ""))))
           [] Cur(s) = "var" -> Push(Advance(IF allowVar THEN s ELSE parserError(s)), Nil)
           [] Cur(s) = "function" -> P("FunctionType", s, Nil)
           [] Cur(s) = "mapping" -> P("Mapping", s, Nil)
           [] Cur(s) = "Identifier" -> P("UserDefinedTypeName", s, Nil)
           [] OTHER -> fatalParserError(s), LAMBDA t :
        IF t.f THEN t
        ELSE IF Val(t, s, 1) = Nil THEN t
        ELSE With(P("TypeNameSuffix", t, Val(t, s, 1)), LAMBDA q : Ret(q, s, Val(q, t, 1))))
parseFunctionType(s) ==
    With(P("FunctionHeader", s, [forceEmptyName |-> TRUE, allowModifiers |-> FALSE]), LAMBDA r :
        Ret(r, s, FunctionTypeName(Val(r, s, 2), Val(r, s, 4), Val(r, s, 3).n[1], Val(r, s, 3).n[2], Val(r, s, 3).n[3])))
parseMapping(s) ==
    With(expectToken(expectToken(s, "mapping"), "("), LAMBDA r :
    IF Cur(r) \notin ElementaryTypeNames THEN fatalParserError(r)
    ELSE With(P("TypeName", expectToken(Advance(r), "=>"), FALSE), LAMBDA q :
             Ret(expectToken(q, ")"), s, Mapping(ElementaryTypeName(Cur(r), Literally(r), ""), Val(q, s, 1)))))
MoreParameters(s, x) ==
    CASE Cur(s) = ")" -> s
      [] Cur(s) = "," /\ Peek(s) = ")" -> fatalParserError(s)
      [] OTHER -> P("MoreParameters", P("VariableDeclaration", expectToken(s, ","), x), x)
parseParameterList(s, x) ==
    With(expectToken(s, "("), LAMBDA r :
    With(IF x.allowEmpty /\ Cur(r) = ")" THEN r
         ELSE P("MoreParameters", P("VariableDeclaration", r, Opts(x.o \cup {"emptyName"})), Opts(x.o \cup {"emptyName"})), LAMBDA q :
        Ret(Advance(q), s, ParameterList(Since(q, r)))))

(***************************************************************************)
(* Declaration or expression: what x.y[1] starts                           *)
(***************************************************************************)
peekStatementType(s) ==
    CASE Cur(s) \in {"mapping", "function", "var"} -> "VariableDeclaration"
      [] Cur(s) \in ElementaryTypeNames /\ Peek(s) \in Mutabilities -> "VariableDeclaration"
      [] Cur(s) \in ElementaryTypeNames \cup {"Identifier"} /\ Peek(s) \in Locations \cup {"Identifier"} -> "VariableDeclaration"
      [] Cur(s) \in ElementaryTypeNames \cup {"Identifier"} /\ Peek(s) \in {"[", "."} -> "IndexAccessStructure"
      [] OTHER -> "Expression"
IdentifierPath(s) ==
    With(P("Identifier", s, Nil), LAMBDA r : IF Cur(r) = "." THEN P("IdentifierPath", Advance(r), Nil) ELSE r)
Indices(s) ==
    IF Cur(s) # "[" THEN s
    ELSE P("Indices", expectToken(IF Peek(s) = "]" THEN Push(Advance(s), Nil) ELSE P("Expression", Advance(s), Nil), "]"), Nil)
parseIndexAccessedPath(s) ==
    With(IF Cur(s) = "Identifier" THEN P("IdentifierPath", s, Nil)
         ELSE Advance(Push(s, ElementaryTypeNameExpression(Cur(s), Literally(s)))), LAMBDA r :
    With(P("Indices", r, Nil), LAMBDA q :
        Ret(q, s, Node("path", << >>, <<List(Since(r, s)), List(Since(q, r))>>))))
NoPath == Node("path", << >>, <<List(<< >>), List(<< >>)>>)
tryParseIndexAccessedPath(s) ==
    IF peekStatementType(s) # "IndexAccessStructure" THEN Push(s, [NoPath EXCEPT !.n = <<peekStatementType(s)>>])
    ELSE With(parseIndexAccessedPath(s), LAMBDA r :
             Ret(r, s, [Val(r, s, 1) EXCEPT !.n = <<IF Cur(r) \in Locations \cup {"Identifier"}
                                                    THEN "VariableDeclaration" ELSE "Expression">>]))
typeNameFromIndexAccessStructure(iap) ==
    LET path == iap.a[1].a
        type[i \in 0 .. Len(iap.a[2].a)] ==
            CASE i > 0 -> ArrayTypeName(type[i - 1], iap.a[2].a[i])
              [] i = 0 /\ path[1].k = "Identifier" -> UserDefinedTypeName([j \in DOMAIN path |-> path[j].n[1]])
              [] OTHER -> ElementaryTypeName(path[1].n[1], path[1].n[2], "")
    IN IF path = << >> THEN Nil ELSE type[Len(iap.a[2].a)]
expressionFromIndexAccessStructure(iap) ==
    LET path == iap.a[1].a
        member[i \in 1 .. Len(path)] == IF i = 1 THEN path[1] ELSE MemberAccess(member[i - 1], path[i].n[1])
        index[i \in 0 .. Len(iap.a[2].a)] == IF i = 0 THEN member[Len(path)] ELSE IndexAccess(index[i - 1], iap.a[2].a[i])
    IN IF path = << >> THEN Nil ELSE index[Len(iap.a[2].a)]

(***************************************************************************)
(* Statements                                                              *)
(***************************************************************************)
Statements(s) == IF Cur(s) = "}" THEN s ELSE P("Statements", P("Statement", s, Nil), Nil)
parseBlock(s) ==
    With(P("Statements", expectToken(s, "{"), Nil), LAMBDA q : Ret(expectToken(q, "}"), s, Block(Since(q, s))))
parseStatement(s) ==
    CASE Cur(s) \in {"if", "while", "do", "for", "{", "assembly"} -> P(Cur(s), s, Nil)
      [] OTHER ->
           expectToken(
               CASE Cur(s) = "continue" -> Advance(Push(s, Continue))
                 [] Cur(s) = "break" -> Advance(Push(s, Break))
                 [] Cur(s) = "return" ->
                      With(IF Peek(s) = ";" THEN Push(Advance(s), Nil) ELSE P("Expression", Advance(s), Nil), LAMBDA r :
                          Ret(r, s, Return(Val(r, s, 1))))
                 [] Cur(s) = "throw" -> Advance(Push(s, Throw))
                 [] Cur(s) = "emit" -> P("emit", s, Nil)
                 [] Cur(s) = "Identifier" /\ s.m /\ Literally(s) = "_" -> Advance(Push(s, PlaceholderStatement))
                 [] Cur(s) = "fireAllRules" -> Advance(Push(s, FireAllRulesStatement))
                 [] OTHER -> P("SimpleStatement", s, Nil), ";")
(* the block is parsed by the assembly parser: one token here *)
parseInlineAssembly(s) ==
    With(expectToken(s, "assembly"), LAMBDA r :
    With(CASE Cur(r) = "StringLiteral" /\ Literally(r) # "evmasm" -> fatalParserError(r)
           [] Cur(r) = "StringLiteral" /\ Literally(r) = "evmasm" -> Advance(r)
           [] OTHER -> r, LAMBDA q :
        Ret(expectToken(q, "AssemblyBlock"), s, InlineAssembly(Literally(q)))))
parseIfStatement(s) ==
    With(expectToken(P("Expression", expectToken(expectToken(s, "if"), "("), Nil), ")"), LAMBDA r :
    With(P("Statement", r, Nil), LAMBDA t :
    With(IF Cur(t) = "else" THEN P("Statement", Advance(t), Nil) ELSE Push(t, Nil), LAMBDA q :
        Ret(q, s, IfStatement(Val(q, s, 1), Val(q, s, 2), Val(q, s, 3))))))
parseWhileStatement(s) ==
    With(expectToken(P("Expression", expectToken(expectToken(s, "while"), "("), Nil), ")"), LAMBDA r :
    With(P("Statement", r, Nil), LAMBDA q :
        Ret(q, s, WhileStatement(Val(q, s, 1), Val(q, s, 2), FALSE))))
parseDoWhileStatement(s) ==
    With(expectToken(P("Statement", expectToken(s, "do"), Nil), "while"), LAMBDA r :
    With(expectToken(P("Expression", expectToken(r, "("), Nil), ")"), LAMBDA q :
        Ret(expectToken(q, ";"), s, WhileStatement(Val(q, s, 2), Val(q, s, 1), TRUE))))
parseForStatement(s) ==
    With(expectToken(expectToken(s, "for"), "("), LAMBDA r :
    With(expectToken(IF Cur(r) = ";" THEN Push(r, Nil) ELSE P("SimpleStatement", r, Nil), ";"), LAMBDA i :
    With(expectToken(IF Cur(i) = ";" THEN Push(i, Nil) ELSE P("Expression", i, Nil), ";"), LAMBDA c :
    With(expectToken(IF Cur(c) = ")" THEN Push(c, Nil) ELSE P("ExpressionStatement", c, Nil), ")"), LAMBDA l :
    With(P("Statement", l, Nil), LAMBDA q :
        Ret(q, s, ForStatement(Val(q, s, 1), Val(q, s, 2), Val(q, s, 3), Val(q, s, 4))))))))
parseEmitStatement(s) ==
    With(Advance(s), LAMBDA r :
    IF Cur(r) # "Identifier" THEN fatalParserError(r)
    ELSE With(P("IdentifierPath", r, Nil), LAMBDA e :
         With(P("FunctionCallArguments", expectToken(e, "("), Nil), LAMBDA q :
             Ret(expectToken(q, ")"), s,
                 EmitStatement(FunctionCall(expressionFromIndexAccessStructure(Node("path", << >>, <<List(Since(e, r)), List(<< >>)>>)),
                                            Val(q, e, 1).a, Val(q, e, 1).n))))))
RECURSIVE EmptyComponents(_)
EmptyComponents(s) == With(s, LAMBDA r : IF Cur(r) = "," THEN EmptyComponents(Push(Advance(r), Nil)) ELSE r)
MoreVariables(s) ==
    IF Cur(s) = ")" THEN s
    ELSE With(expectToken(s, ","), LAMBDA r :
             P("MoreVariables", IF Cur(r) \in {",", ")"} THEN Push(r, Nil) ELSE P("VariableDeclaration", r, Opts({"location"})), Nil))
MoreComponents(s) ==
    IF Cur(s) = ")" THEN s
    ELSE With(expectToken(s, ","), LAMBDA r :
             P("MoreComponents", IF Cur(r) \in {",", ")"} THEN Push(r, Nil) ELSE P("Expression", r, Nil), Nil))
parseSimpleStatement(s) ==
    With(IF Cur(s) = "(" THEN EmptyComponents(Advance(s)) ELSE s, LAMBDA e :
    With(tryParseIndexAccessedPath(e), LAMBDA r :
    IF r.f THEN r ELSE
    LET iap == Val(r, e, 1)
        declares == iap.n[1] = "VariableDeclaration"
        q == Drop(r, e)
    IN CASE Cur(s) # "(" /\ declares -> P("VariableDeclarationStatement", q, typeNameFromIndexAccessStructure(iap))
         [] Cur(s) # "(" /\ ~declares -> P("ExpressionStatement", q, expressionFromIndexAccessStructure(iap))
         [] Cur(s) = "(" /\ declares ->
              With(P("MoreVariables", P("VariableDeclaration", q, [o |-> {"location"}, type |-> typeNameFromIndexAccessStructure(iap)]),
                     Nil), LAMBDA w :
              With(P("Expression", expectToken(expectToken(w, ")"), "="), Nil), LAMBDA z :
                  Ret(z, s, VariableDeclarationStatement(Since(w, s), Val(z, w, 1)))))
         [] OTHER ->
              With(P("MoreComponents", P("Expression", q, expressionFromIndexAccessStructure(iap)), Nil), LAMBDA w :
                  P("ExpressionStatement", Drop(expectToken(w, ")"), s), TupleExpression(Since(w, s), FALSE)))))
VarNames(s) ==
    With(IF Cur(s) \in {",", ")"} THEN Push(s, Nil)
         ELSE With(expectIdentifierToken(s), LAMBDA r :
                  Ret(r, s, VariableDeclaration(Nil, Name(r, s, 1), Nil, "", FALSE, FALSE, FALSE, ""))), LAMBDA q :
        IF Cur(q) = ")" THEN q ELSE P("VarNames", expectToken(q, ","), Nil))
parseVariableDeclarationStatement(s, type) ==
    With(IF type = Nil /\ Cur(s) = "var" /\ Peek(s) = "("
         THEN With(Advance(Advance(s)), LAMBDA r : Advance(IF Cur(r) = ")" THEN r ELSE P("VarNames", r, Nil)))
         ELSE P("VariableDeclaration", s, [o |-> {"var", "location"}, type |-> type]), LAMBDA d :
    With(IF Cur(d) = "=" THEN P("Expression", Advance(d), Nil) ELSE Push(d, Nil), LAMBDA q :
        Ret(q, s, VariableDeclarationStatement(Since(d, s), Val(q, d, 1)))))
parseExpressionStatement(s, part) ==
    With(P("Expression", s, part), LAMBDA r : Ret(r, s, ExpressionStatement(Val(r, s, 1))))

(***************************************************************************)
(* Expressions; part: what was parsed of it already, or Nil                *)
(***************************************************************************)
parseExpression(s, part) ==
    With(P("BinaryExpression", s, [min |-> 4, part |-> part]), LAMBDA r :
        CASE Cur(r) \in AssignmentOps ->
               With(P("Expression", Advance(r), Nil), LAMBDA q : Ret(q, s, Assignment(Val(q, s, 1), Cur(r), Val(q, s, 2))))
          [] Cur(r) = "?" ->
               With(P("Expression", expectToken(P("Expression", Advance(r), Nil), ":"), Nil), LAMBDA q :
                   Ret(q, s, Conditional(Val(q, s, 1), Val(q, s, 2), Val(q, s, 3))))
          [] OTHER -> r)
(* x: the precedence being looked for, down to the least one *)
Climb(s, x) ==
    CASE x.precedence < x.min -> s
      [] precedence(Cur(s)) = x.precedence /\ x.precedence >= x.min ->
           With(P("BinaryExpression", Advance(s), [min |-> x.precedence + 1, part |-> Nil]), LAMBDA r :
               P("Climb", Ret(r, [s EXCEPT !.v = SubSeq(@, 1, Len(@) - 1)], BinaryOperation(s.v[Len(s.v)], Cur(s), Val(r, s, 1))), x))
      [] OTHER -> P("Climb", s, [x EXCEPT !.precedence = @ - 1])
(* mutant: the least precedence asked for is ignored *)
MutBinaryExpression(s, x) ==
    With(P("UnaryExpression", s, x.part), LAMBDA r : P("Climb", r, [precedence |-> precedence(Cur(r)), min |-> 4]))
parseBinaryExpression(s, x) ==
    With(P("UnaryExpression", s, x.part), LAMBDA r : P("Climb", r, [precedence |-> precedence(Cur(r)), min |-> x.min]))
parseUnaryExpression(s, part) ==
    IF part = Nil /\ Cur(s) \in UnaryOps
    THEN With(P("UnaryExpression", Advance(s), Nil), LAMBDA r : Ret(r, s, UnaryOperation(Cur(s), Val(r, s, 1), TRUE)))
    ELSE With(P("LeftHandSideExpression", s, part), LAMBDA r :
             IF Cur(r) \in CountOps THEN Ret(Advance(r), s, UnaryOperation(Cur(r), Val(r, s, 1), FALSE)) ELSE r)
(* x: the expression so far, and whether it began with eni *)
Postfix(s, x) ==
    CASE Cur(s) = "[" ->
           With(expectToken(IF Peek(s) = "]" THEN Push(Advance(s), Nil) ELSE P("Expression", Advance(s), Nil), "]"), LAMBDA r :
               P("Postfix", Drop(r, s), [x EXCEPT !.e = IndexAccess(@, IF r.f THEN Nil ELSE Val(r, s, 1))]))
      [] Cur(s) = "." ->
           With(expectIdentifierToken(Advance(s)), LAMBDA r :
               P("Postfix", Drop(r, s), [x EXCEPT !.e = MemberAccess(@, IF r.f THEN "" ELSE Name(r, s, 1))]))
      [] Cur(s) = "(" ->
           With(expectToken(P("FunctionCallArguments", Advance(s), Nil), ")"), LAMBDA r :
               IF r.f THEN r
               ELSE P("Postfix", Drop(r, s),
                      [x EXCEPT !.e = IF x.eni THEN EniCall(@, Val(r, s, 1).a, Val(r, s, 1).n)
                                      ELSE FunctionCall(@, Val(r, s, 1).a, Val(r, s, 1).n)]))
      [] OTHER -> Push(s, x.e)
parseLeftHandSideExpression(s, part) ==
    With(CASE part # Nil -> Push(s, part)
           [] part = Nil /\ Cur(s) = "new" -> With(P("TypeName", Advance(s), FALSE), LAMBDA r : Ret(r, s, NewExpression(Val(r, s, 1))))
           [] OTHER -> P("PrimaryExpression", s, Nil), LAMBDA r :
        IF r.f THEN r
        ELSE P("Postfix", Drop(r, s), [e |-> Val(r, s, 1), eni |-> part = Nil /\ Cur(s) # "new" /\ Literally(s) = "eni"]))
Components(s, close) ==
    With(CASE Cur(s) \notin {",", close} -> P("Expression", s, Nil)
           [] Cur(s) \in {",", close} /\ close = "]" -> parserError(s)
           [] OTHER -> Push(s, Nil), LAMBDA r :
        IF Cur(r) = close THEN r ELSE P("Components", expectToken(r, ","), close))
parsePrimaryExpression(s) ==
    CASE Cur(s) \in {"true", "false", "StringLiteral"} -> Advance(Push(s, Literal(Cur(s), Literally(s), "")))
      [] Cur(s) = "Number" ->
           IF Peek(s) \in Subdenominations THEN Advance(Advance(Push(s, Literal("Number", Literally(s), Peek(s)))))
           ELSE Advance(Push(s, Literal("Number", Literally(s), "")))
      [] Cur(s) = "Identifier" -> Advance(Push(s, Identifier(Literally(s))))
      [] Cur(s) \in {"(", "["} ->
           LET close == IF Cur(s) = "(" THEN ")" ELSE "]"
           IN With(IF Peek(s) = close THEN Advance(s) ELSE P("Components", Advance(s), close), LAMBDA r :
                  Ret(expectToken(r, close), s, TupleExpression(Since(r, s), close = "]")))
      [] Cur(s) \in ElementaryTypeNames -> Advance(Push(s, ElementaryTypeNameExpression(Cur(s), Literally(s))))
      [] OTHER -> fatalParserError(s)
MoreArguments(s) ==
    IF Cur(s) = ")" THEN s ELSE P("MoreArguments", P("Expression", expectToken(s, ","), Nil), Nil)
parseFunctionCallListArguments(s) ==
    IF Cur(s) = ")" THEN s ELSE P("MoreArguments", P("Expression", s, Nil), Nil)
NamedArguments(s, first) ==
    IF Cur(s) = "}" THEN s
    ELSE With(P("Expression", expectToken(expectIdentifierToken(IF first THEN s ELSE expectToken(s, ",")), ":"), Nil), LAMBDA r :
             P("NamedArguments", IF Cur(r) = "," /\ Peek(r) = "}" THEN Advance(parserError(r)) ELSE r, FALSE))
(* pushes the arguments, with the names if there are any *)
parseFunctionCallArguments(s) ==
    IF Cur(s) = "{"
    THEN With(P("NamedArguments", Advance(s), TRUE), LAMBDA r :
             With(Since(r, s), LAMBDA w :
                 Ret(expectToken(r, "}"), s, Node("arguments", [i \in 1 .. Len(w) \div 2 |-> w[2 * i - 1].n[1]],
                                                               [i \in 1 .. Len(w) \div 2 |-> w[2 * i]]))))
    ELSE With(P("FunctionCallListArguments", s, Nil), LAMBDA r : Ret(r, s, Node("arguments", << >>, Since(r, s))))

(***************************************************************************)
(* Rules                                                                   *)
(***************************************************************************)
RECURSIVE RuleAttributes(_, _)
RuleAttributes(state, x) ==
    With(state, LAMBDA s :
    CASE Cur(s) = "when" -> Push(s, Node("attributes", <<x.base, x.noLoop, x.lock, x.salience>>, << >>))
      [] Cur(s) = "salience" ->
           IF Peek(s) # "Number" THEN fatalParserError(s) ELSE RuleAttributes(Advance(Advance(s)), [x EXCEPT !.salience = PeekLiteral(s)])
      [] Cur(s) = "no_loop" ->
           IF Peek(s) \notin {"true", "false"} THEN fatalParserError(s) ELSE RuleAttributes(Advance(Advance(s)), [x EXCEPT !.noLoop = Peek(s)])
      [] Cur(s) = "lock_on_active" ->
           IF Peek(s) \notin {"true", "false"} THEN fatalParserError(s) ELSE RuleAttributes(Advance(Advance(s)), [x EXCEPT !.lock = Peek(s)])
      [] Cur(s) = "extends" -> RuleAttributes(Advance(Advance(s)), [x EXCEPT !.base = PeekLiteral(s)])
      [] OTHER -> fatalParserError(s))
Facts(s) == IF Cur(s) = "}" THEN s ELSE P("Facts", expectToken(P("FactDeclaration", s, Nil), ";"), Nil)
parseRule(s) ==
    With(RuleAttributes(getLiteralAndAdvance(expectToken(s, "rule")),
                        [base |-> "", noLoop |-> "false", lock |-> "false", salience |-> "0"]), LAMBDA r :
    With(P("Facts", expectToken(expectToken(r, "when"), "{"), Nil), LAMBDA f :
    With(P("Statement", expectToken(expectToken(f, "}"), "then"), Nil), LAMBDA q :
        Ret(q, s, Rule(Name(r, s, 1), Val(r, s, 2).n[1], Since(f, r), Val(q, f, 1),
                       Val(r, s, 2).n[2] = "true", Val(r, s, 2).n[3] = "true", Val(r, s, 2).n[4])))))
FieldExpressions(s) ==
    IF Cur(s) = ")" THEN s
    ELSE With(P("FieldExpression", s, Nil), LAMBDA r : P("FieldExpressions", IF Cur(r) = "," THEN Advance(r) ELSE r, Nil))
parseFactDeclaration(s) ==
    With(P("TypeName", expectToken(expectIdentifierToken(s), ":"), FALSE), LAMBDA r :
    With(P("FieldExpressions", expectToken(r, "("), Nil), LAMBDA q :
        Ret(expectToken(q, ")"), s, FactDeclaration(Name(r, s, 1), Val(r, s, 2), Since(q, r)))))
parseFieldExpression(s) == With(P("Expression", s, Nil), LAMBDA r : Ret(r, s, FieldExpression(Val(r, s, 1))))

(***************************************************************************)
(* RecursionGuard and the dispatch                                         *)
(***************************************************************************)
Unguarded == {"InheritanceList", "ContractParts", "StructMembers", "EnumMembers", "HeaderModifiers", "DeclarationModifiers",
              "MoreSuffixes", "MoreParameters", "IdentifierPath", "Indices", "Statements", "emit", "MoreVariables",
              "MoreComponents", "VarNames", "Climb", "Postfix", "Components", "MoreArguments", "NamedArguments", "rule",
              "Facts", "FactDeclaration", "FieldExpressions", "FieldExpression"}
Dispatch(k, s, x) ==
    CASE k = "pragma" -> parsePragmaDirective(s)
      [] k = "import" -> parseImportDirective(s)
      [] k \in {"contract", "interface", "library"} -> parseContractDefinition(s)
      [] k = "InheritanceList" -> InheritanceList(s)
      [] k = "ContractParts" -> ContractParts(s)
      [] k = "InheritanceSpecifier" -> parseInheritanceSpecifier(s)
      [] k = "FunctionHeader" -> parseFunctionHeader(s, x)
      [] k = "HeaderModifiers" -> HeaderModifiers(s, x)
      [] k = "FunctionDefinitionOrFunctionTypeStateVariable" -> parseFunctionDefinitionOrFunctionTypeStateVariable(s)
      [] k = "struct" -> parseStructDefinition(s)
      [] k = "StructMembers" -> StructMembers(s)
      [] k = "EnumValue" -> parseEnumValue(s)
      [] k = "EnumMembers" -> EnumMembers(s)
      [] k = "enum" -> parseEnumDefinition(s)
      [] k = "VariableDeclaration" -> parseVariableDeclaration(s, x)
      [] k = "DeclarationModifiers" -> DeclarationModifiers(s, x)
      [] k = "modifier" -> parseModifierDefinition(s)
      [] k = "event" -> parseEventDefinition(s)
      [] k = "using" -> parseUsingDirective(s)
      [] k = "ModifierInvocation" -> parseModifierInvocation(s)
      [] k = "Identifier" -> parseIdentifier(s)
      [] k = "UserDefinedTypeName" -> parseUserDefinedTypeName(s)
      [] k \in {"TypeNameSuffix", "MoreSuffixes"} -> parseTypeNameSuffix(s, x)
      [] k = "TypeName" -> parseTypeName(s, x)
      [] k = "FunctionType" -> parseFunctionType(s)
      [] k = "Mapping" -> parseMapping(s)
      [] k = "ParameterList" -> parseParameterList(s, x)
      [] k = "MoreParameters" -> MoreParameters(s, x)
      [] k \in {"Block", "{"} -> parseBlock(s)
      [] k = "Statements" -> Statements(s)
      [] k = "Statement" -> parseStatement(s)
      [] k = "assembly" -> parseInlineAssembly(s)
      [] k = "if" -> parseIfStatement(s)
      [] k = "while" -> parseWhileStatement(s)
      [] k = "do" -> parseDoWhileStatement(s)
      [] k = "for" -> parseForStatement(s)
      [] k = "emit" -> parseEmitStatement(s)
      [] k = "SimpleStatement" -> parseSimpleStatement(s)
      [] k = "MoreVariables" -> MoreVariables(s)
      [] k = "MoreComponents" -> MoreComponents(s)
      [] k = "VarNames" -> VarNames(s)
      [] k = "IdentifierPath" -> IdentifierPath(s)
      [] k = "Indices" -> Indices(s)
      [] k = "VariableDeclarationStatement" -> parseVariableDeclarationStatement(s, x)
      [] k = "ExpressionStatement" -> parseExpressionStatement(s, x)
      [] k = "Expression" -> parseExpression(s, x)
      [] k = "Climb" -> Climb(s, x)
      [] k = "BinaryExpression" -> parseBinaryExpression(s, x)
      [] k = "UnaryExpression" -> parseUnaryExpression(s, x)
      [] k = "LeftHandSideExpression" -> parseLeftHandSideExpression(s, x)
      [] k = "Postfix" -> Postfix(s, x)
      [] k = "PrimaryExpression" -> parsePrimaryExpression(s)
      [] k = "Components" -> Components(s, x)
      [] k = "MoreArguments" -> MoreArguments(s)
      [] k = "FunctionCallListArguments" -> parseFunctionCallListArguments(s)
      [] k = "NamedArguments" -> NamedArguments(s, x)
      [] k = "FunctionCallArguments" -> parseFunctionCallArguments(s)
      [] k = "rule" -> parseRule(s)
      [] k = "Facts" -> Facts(s)
      [] k = "FactDeclaration" -> parseFactDeclaration(s)
      [] k = "FieldExpressions" -> FieldExpressions(s)
      [] k = "FieldExpression" -> parseFieldExpression(s)
P(k, state, arg) ==
    With(state, LAMBDA s :
    With(arg, LAMBDA x :
        CASE s.f -> s
          [] ~s.f /\ k \in Unguarded -> Dispatch(k, s, x)
          [] ~s.f /\ k \notin Unguarded /\ s.d + 1 >= MaxDepth -> fatalParserError(s)
          [] OTHER -> With(Dispatch(k, [s EXCEPT !.d = @ + 1], x), LAMBDA r : [r EXCEPT !.d = s.d])))

(***************************************************************************)
(* parse: the tree, Nil after a fatal error, and the number of errors      *)
(***************************************************************************)
RECURSIVE SourceNodes(_)
SourceNodes(state) ==
    With(state, LAMBDA s :
    CASE s.f \/ Cur(s) = "EOS" -> s
      [] ~s.f /\ Cur(s) \in {"pragma", "import", "contract", "interface", "library"} -> SourceNodes(P(Cur(s), s, Nil))
      [] OTHER -> fatalParserError(s))
parse(tokens) ==
    With(SourceNodes(Start(tokens)), LAMBDA r : [tree |-> IF r.f THEN Nil ELSE SourceUnit(r.v), errors |-> r.e])
=============================================================================
