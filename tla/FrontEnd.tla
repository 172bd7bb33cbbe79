------------------------------ MODULE FrontEnd ------------------------------
(***************************************************************************)
(* One source unit on its way through the front end: its text is scanned,  *)
(* its tokens are parsed, and the tree is listed and converted to JSON, or *)
(* the control flow of its functions is analysed.  The names of trees are  *)
(* resolved, with those of a unit they import.  A block of assembly is     *)
(* printed instead, scanned and parsed again.                              *)
(*                                                                         *)
(* The reference for the parser: the tokens a tree is written with, and    *)
(* the trees that can be written without further parentheses (precedence   *)
(* and associativity as the language reference gives them).                *)
(***************************************************************************)
EXTENDS Parser

Text == INSTANCE Scanner
Output == INSTANCE TreeOutput
Asm == INSTANCE AsmParser
Flow == INSTANCE ControlFlow
Names == INSTANCE NameResolution

(* The tokens a tree is written with *)
RECURSIVE Tokens(_)
Key(t) == <<Token(t, "")>>
Keys(ts) == [i \in DOMAIN ts |-> Token(ts[i], "")]
Optional(t) == IF t = "" THEN << >> ELSE Key(t)
OptionalName(x) == IF x = "" THEN << >> ELSE <<Ident(x)>>
RECURSIVE Concat(_), Separated(_, _)
Concat(ns) == IF ns = << >> THEN << >> ELSE Tokens(ns[1]) \o Concat(Tail(ns))
Separated(ns, sep) == IF ns = << >> THEN << >> ELSE IF Len(ns) = 1 THEN Tokens(ns[1])
                      ELSE Tokens(ns[1]) \o Key(sep) \o Separated(Tail(ns), sep)
RECURSIVE Dotted(_)
Dotted(path) == IF Len(path) = 1 THEN <<Ident(path[1])>> ELSE <<Ident(path[1])>> \o Key(".") \o Dotted(Tail(path))
Paren(ts) == Key("(") \o ts \o Key(")")
Arguments(present, ns) == IF present THEN Paren(Separated(ns, ",")) ELSE << >>
Simple(n) == IF n = Nil THEN << >> ELSE Tokens(n)
(* a statement without its semicolon *)
Bare(n) == SubSeq(Tokens(n), 1, Len(Tokens(n)) - 1)
Named(names, ns) == Keys(<<"{">>) \o Concat([i \in DOMAIN names |-> Node("named", <<names[i], Bool(i > 1, ",")>>, <<ns[i]>>)]) \o Key("}")
Returns(n) == IF n.a = << >> THEN << >> ELSE Key("returns") \o Tokens(n)

(* a state variable ends with a semicolon *)
Part(n) == IF n.k = "VariableDeclaration" THEN Node("member", << >>, <<n>>) ELSE n

DeclarationTokens(n) ==
    CASE n.k = "SourceUnit" -> Concat(n.a)
      [] n.k = "PragmaDirective" -> Key("pragma") \o [i \in DOMAIN n.n |-> Ident(n.n[i])] \o Key(";")
      [] n.k = "symbol" -> <<Ident(n.n[1])>> \o (IF n.n[2] = "" THEN << >> ELSE Key("as") \o <<Ident(n.n[2])>>)
      [] n.k = "ImportDirective" ->
           Key("import")
           \o (CASE n.a # << >> -> Key("{") \o Separated(n.a, ",") \o Key("}") \o <<Ident("from"), Token("StringLiteral", n.n[1])>>
                 [] OTHER -> <<Token("StringLiteral", n.n[1])>> \o (IF n.n[2] = "" THEN << >> ELSE Key("as") \o <<Ident(n.n[2])>>))
           \o Key(";")
      [] n.k = "ContractDefinition" ->
           LET bases == SelectSeq(n.a, LAMBDA m : m.k = "InheritanceSpecifier")
           IN <<Token(n.n[1], ""), Ident(n.n[2])>> \o (IF bases = << >> THEN << >> ELSE Key("is") \o Separated(bases, ","))
              \o Key("{") \o Concat([i \in 1 .. Len(n.a) - Len(bases) |-> Part(n.a[Len(bases) + i])]) \o Key("}")
      [] n.k = "member" -> Tokens(n.a[1]) \o Key(";")
      [] n.k \in {"InheritanceSpecifier", "ModifierInvocation"} -> Tokens(n.a[1]) \o Arguments(n.n[1] = "args", Tail(n.a))
      [] n.k = "UsingForDirective" ->
           Key("using") \o Tokens(n.a[1]) \o Key("for") \o (IF n.a[2] = Nil THEN Key("*") ELSE Tokens(n.a[2])) \o Key(";")
      [] n.k = "StructDefinition" ->
           <<Token("struct", ""), Ident(n.n[1])>> \o Key("{") \o Concat([i \in DOMAIN n.a |-> Node("member", << >>, <<n.a[i]>>)]) \o Key("}")
      [] n.k = "EnumDefinition" -> <<Token("enum", ""), Ident(n.n[1])>> \o Key("{") \o Separated(n.a, ",") \o Key("}")
      [] n.k = "EnumValue" -> <<Ident(n.n[1])>>
      [] n.k = "ParameterList" -> Paren(Separated(n.a, ","))
      [] n.k = "FunctionDefinition" ->
           (IF n.n[2] # "" THEN Key("constructor") ELSE Key("function") \o OptionalName(n.n[1])) \o Tokens(n.a[1])
           \o Concat(SubSeq(n.a, 3, Len(n.a) - 1)) \o Optional(n.n[3]) \o Optional(n.n[4]) \o Optional(n.n[5]) \o Returns(n.a[2])
           \o (IF n.a[Len(n.a)] = Nil THEN Key(";") ELSE Tokens(n.a[Len(n.a)]))
      [] n.k = "VariableDeclaration" ->
           (IF n.a[1] = Nil THEN Key("var") ELSE Tokens(n.a[1])) \o Optional(n.n[2]) \o Optional(n.n[4]) \o Optional(n.n[5])
           \o Optional(n.n[6]) \o OptionalName(n.n[1]) \o (IF n.a[2] = Nil THEN << >> ELSE Key("=") \o Tokens(n.a[2]))
      [] n.k = "ModifierDefinition" -> <<Token("modifier", ""), Ident(n.n[1])>> \o Concat(n.a)
      [] n.k = "EventDefinition" -> <<Token("event", ""), Ident(n.n[1])>> \o Tokens(n.a[1]) \o Optional(n.n[2]) \o Key(";")
      [] n.k = "Rule" ->
           <<Token("rule", ""), Ident(n.n[1])>> \o (IF n.n[2] = "" THEN << >> ELSE <<Token("extends", ""), Ident(n.n[2])>>)
           \o (IF n.n[3] = "" THEN << >> ELSE Keys(<<"no_loop", "true">>)) \o (IF n.n[4] = "" THEN << >> ELSE Keys(<<"lock_on_active", "true">>))
           \o (IF n.n[5] = "0" THEN << >> ELSE <<Token("salience", ""), Token("Number", n.n[5])>>)
           \o Keys(<<"when", "{">>) \o Concat([i \in 1 .. Len(n.a) - 1 |-> Node("member", << >>, <<n.a[i]>>)]) \o Keys(<<"}", "then">>)
           \o Tokens(n.a[Len(n.a)])
      [] n.k = "FactDeclaration" -> <<Ident(n.n[1])>> \o Key(":") \o Tokens(n.a[1]) \o Paren(Separated(Tail(n.a), ","))
      [] n.k = "FieldExpression" -> Tokens(n.a[1])
TypeTokens(n) ==
    CASE n.k \in {"ElementaryTypeName", "ElementaryTypeNameExpression"} ->
           <<Token(n.n[1], n.n[2])>> \o (IF Len(n.n) = 3 THEN Optional(n.n[3]) ELSE << >>)
      [] n.k = "UserDefinedTypeName" -> Dotted(n.n)
      [] n.k = "FunctionTypeName" ->
           Key("function") \o Tokens(n.a[1]) \o Optional(n.n[1]) \o Optional(n.n[2]) \o Optional(n.n[3]) \o Returns(n.a[2])
      [] n.k = "Mapping" -> Keys(<<"mapping", "(">>) \o Tokens(n.a[1]) \o Key("=>") \o Tokens(n.a[2]) \o Key(")")
      [] n.k = "ArrayTypeName" -> Tokens(n.a[1]) \o Key("[") \o Simple(n.a[2]) \o Key("]")
StatementTokens(n) ==
    CASE n.k = "InlineAssembly" -> <<Token("assembly", ""), Token("AssemblyBlock", n.n[1])>>
      [] n.k = "Block" -> Key("{") \o Concat(n.a) \o Key("}")
      [] n.k = "PlaceholderStatement" -> <<Ident("_")>> \o Key(";")
      [] n.k = "IfStatement" ->
           Key("if") \o Paren(Tokens(n.a[1])) \o Tokens(n.a[2]) \o (IF n.a[3] = Nil THEN << >> ELSE Key("else") \o Tokens(n.a[3]))
      [] n.k = "WhileStatement" /\ n.n[1] = "" -> Key("while") \o Paren(Tokens(n.a[1])) \o Tokens(n.a[2])
      [] n.k = "WhileStatement" /\ n.n[1] = "do" -> Key("do") \o Tokens(n.a[2]) \o Key("while") \o Paren(Tokens(n.a[1])) \o Key(";")
      [] n.k = "ForStatement" ->
           Keys(<<"for", "(">>) \o (IF n.a[1] = Nil THEN Key(";") ELSE Tokens(n.a[1])) \o Simple(n.a[2]) \o Key(";")
           \o (IF n.a[3] = Nil THEN << >> ELSE Bare(n.a[3])) \o Key(")") \o Tokens(n.a[4])
      [] n.k \in {"FireAllRulesStatement", "Continue", "Break", "Throw"} ->
           Keys(<<[FireAllRulesStatement |-> "fireAllRules", Continue |-> "continue", Break |-> "break", Throw |-> "throw"][n.k], ";">>)
      [] n.k = "Return" -> Key("return") \o Simple(n.a[1]) \o Key(";")
      [] n.k = "EmitStatement" -> Key("emit") \o Tokens(n.a[1]) \o Key(";")
      [] n.k = "VariableDeclarationStatement" ->
           (CASE Len(n.a) = 2 /\ n.a[1] # Nil -> Tokens(n.a[1])
              [] Len(n.a) > 2 /\ n.a[1] # Nil /\ n.a[1].a[1] = Nil -> Key("var") \o Paren(Separated([i \in 1 .. Len(n.a) - 1 |-> Identifier(n.a[i].n[1])], ","))
              [] OTHER -> Paren(Separated(SubSeq(n.a, 1, Len(n.a) - 1), ",")))
           \o (IF n.a[Len(n.a)] = Nil THEN << >> ELSE Key("=") \o Tokens(n.a[Len(n.a)])) \o Key(";")
      [] n.k = "ExpressionStatement" -> Tokens(n.a[1]) \o Key(";")
ExpressionTokens(n) ==
    CASE n.k = "Conditional" -> Tokens(n.a[1]) \o Key("?") \o Tokens(n.a[2]) \o Key(":") \o Tokens(n.a[3])
      [] n.k \in {"Assignment", "BinaryOperation"} -> Tokens(n.a[1]) \o Key(n.n[1]) \o Tokens(n.a[2])
      [] n.k = "TupleExpression" ->
           IF n.n[1] = "array" THEN Key("[") \o Separated(n.a, ",") \o Key("]") ELSE Paren(Separated(n.a, ","))
      [] n.k = "UnaryOperation" -> IF n.n[2] = "prefix" THEN Key(n.n[1]) \o Tokens(n.a[1]) ELSE Tokens(n.a[1]) \o Key(n.n[1])
      [] n.k \in {"FunctionCall", "EniCall"} ->
           Tokens(n.a[1]) \o Paren(IF n.n = << >> THEN Separated(Tail(n.a), ",") ELSE Named(n.n, Tail(n.a)))
      [] n.k = "named" -> Optional(n.n[2]) \o <<Ident(n.n[1])>> \o Key(":") \o Tokens(n.a[1])
      [] n.k = "NewExpression" -> Key("new") \o Tokens(n.a[1])
      [] n.k = "MemberAccess" -> Tokens(n.a[1]) \o Key(".") \o <<Ident(n.n[1])>>
      [] n.k = "IndexAccess" -> Tokens(n.a[1]) \o Key("[") \o Simple(n.a[2]) \o Key("]")
      [] n.k = "Identifier" -> <<Ident(n.n[1])>>
      [] n.k = "Literal" -> <<Token(n.n[1], n.n[2])>> \o Optional(n.n[3])
TypeKinds == {"ElementaryTypeName", "ElementaryTypeNameExpression", "UserDefinedTypeName", "FunctionTypeName", "Mapping", "ArrayTypeName"}
StatementKinds == {"InlineAssembly", "Block", "PlaceholderStatement", "IfStatement", "WhileStatement", "ForStatement", "FireAllRulesStatement",
                   "Continue", "Break", "Throw", "Return", "EmitStatement", "VariableDeclarationStatement", "ExpressionStatement"}
ExpressionKinds == {"Conditional", "Assignment", "BinaryOperation", "TupleExpression", "UnaryOperation", "FunctionCall", "EniCall", "named",
                    "NewExpression", "MemberAccess", "IndexAccess", "Identifier", "Literal"}
Tokens(n) ==
    CASE n = Nil -> << >>
      [] n.k \in TypeKinds -> TypeTokens(n)
      [] n.k \in StatementKinds -> StatementTokens(n)
      [] n.k \in ExpressionKinds -> ExpressionTokens(n)
      [] OTHER -> DeclarationTokens(n)

(* The tokens of a text of lines, each of code and what stands behind it   *)
(* (nothing, a comment or a documentation comment), with doc: whether a    *)
(* documentation comment is open.  An empty line of a documentation        *)
(* comment that is not its first joins the next source line to the         *)
(* comment, whatever that line holds; blank lines do not end a comment.    *)
DocMarks == {"///", "/// x"}
RECURSIVE Kept(_, _)
Kept(lines, doc) ==
    IF lines = << >> THEN << >>
    ELSE LET line == lines[1]
             blank == line.code = << >> /\ line.mark = ""
         IN IF doc /\ line.code = << >> /\ line.mark = "///" THEN Kept(SubSeq(lines, 3, Len(lines)), TRUE)
            ELSE line.code \o Kept(Tail(lines), line.mark \in DocMarks \/ (doc /\ blank))

-----------------------------------------------------------------------------
(* The units and their stages *)
(* Units: a sequence of sets of records of the tree a unit was written     *)
(* from (Nil when it was not written from one), its tokens (without those  *)
(* of the lines a documentation comment takes), its text ("" when only the *)
(* tokens are looked at), its flavour ("" when it is not assembly), and    *)
(* the source unit "a" that it may import (Nil unless it starts as a tree, *)
(* for its names to be resolved)                                           *)
CONSTANT Units

VARIABLES unit, stage, tokens, tree, errors, output
vars == <<unit, stage, tokens, tree, errors, output>>

Init == /\ \E i \in DOMAIN Units : unit \in Units[i]
        /\ stage = CASE unit.library # Nil -> "tree"
                     [] unit.library = Nil /\ unit.text = "" -> "tokens"
                     [] OTHER -> "text"
        /\ tokens = IF unit.text = "" THEN unit.tokens ELSE << >>
        /\ tree = Nil /\ errors = 0 /\ output = << >>
Scan == /\ stage = "text"
        /\ tokens' = Text!Scan(unit.text)
        /\ stage' = "tokens"
        /\ UNCHANGED <<unit, tree, errors, output>>
Parse == /\ stage = "tokens" /\ unit.flavour = ""
         /\ \E r \in {parse(tokens)} : tree' = r.tree /\ errors' = r.errors
         /\ stage' = "parsed"
         /\ UNCHANGED <<unit, tokens, output>>
ParseAssembly == /\ stage = "tokens" /\ unit.flavour # ""
                 /\ \E r \in {Asm!parseAssembly(tokens, unit.flavour)} : tree' = r.tree /\ errors' = r.errors
                 /\ stage' = "parsed"
                 /\ UNCHANGED <<unit, tokens, output>>
PrintAssembly == /\ stage = "parsed" /\ unit.flavour # "" /\ tree # Nil
                 /\ output' = Text!Scan(Asm!Printed(tree, unit.flavour = "Yul"))
                 /\ stage' = "printed"
                 /\ UNCHANGED <<unit, tokens, tree, errors>>
Show == /\ stage = "parsed" /\ unit.flavour = "" /\ tree # Nil /\ errors = 0
        /\ output' = <<Output!accept(tree), Output!ASTPrinter(tree), Output!Json(tree, FALSE, FALSE), Output!Json(tree, TRUE, FALSE)>>
        /\ stage' = "shown"
        /\ UNCHANGED <<unit, tokens, tree, errors>>
(* CFG::constructFlow and ControlFlowAnalyzer::analyze, for units with one contract *)
Functions(contract) == SelectSeq(contract.a, LAMBDA d : d.k = "FunctionDefinition" /\ d.a[Len(d.a)] # Nil)
CheckFlow == /\ stage = "parsed" /\ unit.flavour = "" /\ tree # Nil /\ errors = 0
             /\ Len(tree.a) = 1 /\ tree.a[1].k = "ContractDefinition"
             /\ \E f \in DOMAIN Functions(tree.a[1]) : Flow!StorageReturns(Functions(tree.a[1])[f]) # {}
             /\ output' = [f \in DOMAIN Functions(tree.a[1]) |-> Flow!Reported(tree.a[1], Functions(tree.a[1])[f])]
             /\ stage' = "checked"
             /\ UNCHANGED <<unit, tokens, tree, errors>>
(* NameAndTypeResolver, with the unit to be imported and this one *)
ResolveNames == /\ stage = "tree"
                /\ output' = Names!analyzeNames(<<"a", "b">>, <<unit.library, unit.tree>>)
                /\ stage' = "resolved"
                /\ UNCHANGED <<unit, tokens, tree, errors>>
Next == ResolveNames \/ Scan \/ Parse \/ Show \/ CheckFlow \/ ParseAssembly \/ PrintAssembly
Spec == Init /\ [][Next]_vars

(* A text is cut into the tokens it was written with, whatever white space *)
(* and comments stand between them, with one exception: the source line    *)
(* after an empty line of a documentation comment (not its first) is lost, *)
(* that one line and no more (scanSingleLineDocComment adds the character  *)
(* after the slashes to the comment, be it the end of the line; see Kept). *)
(* The longest operator is taken where nothing stands between.             *)
ScanInverts == stage # "text" => tokens = unit.tokens

(* The parser inverts the grammar: a unit written from a tree that needs no *)
(* further parentheses is accepted and gives that tree back.  No token is   *)
(* skipped: a unit accepted without an error is the writing of the tree it  *)
(* gives.  The assembly printed for a tree gives the same tree again; it    *)
(* has the tokens of the source except for a comma before a closing         *)
(* parenthesis and, in loose assembly, for the parentheses of an            *)
(* instruction without arguments.                                           *)
RECURSIVE Plain(_)
Plain(ts) ==
    CASE Len(ts) <= 1 -> ts
      [] Len(ts) > 1 /\ ts[1].t = "," /\ ts[2].t = ")" -> Plain(Tail(ts))
      [] OTHER -> <<ts[1]>> \o Plain(Tail(ts))
ParseInverts ==
    /\ stage \in {"parsed", "shown"} =>
           /\ unit.tree # Nil => errors = 0 /\ tree = unit.tree
           /\ unit.flavour = "" /\ errors = 0 => Tokens(tree) = tokens
    /\ stage = "printed" =>
           /\ Asm!parseAssembly(output, unit.flavour).tree = tree
           /\ unit.flavour # "Loose" => output = Plain(tokens)

(* Every node is visited and listed once, below its parent and in the order *)
(* of the source (a condition of a fact has no line of its own).  Both JSON *)
(* forms show the same, except for the classes ASTJsonConverter has no      *)
(* visit for: in place of a rule stands its then block, without the name,   *)
(* the facts and the conditions; in place of a fireAllRules statement       *)
(* nothing.  Neither hides or moves any other node.                         *)
RECURSIVE Outline(_, _, _), Outlines(_, _, _)
Outlines(ns, depth, json) == IF ns = << >> THEN << >> ELSE Outline(ns[1], depth, json) \o Outlines(Tail(ns), depth, json)
Outline(n, depth, json) ==
    IF n = Nil THEN << >>
    ELSE IF n.k = "symbol" \/ (json /\ n.k = "FireAllRulesStatement") THEN << >>
    ELSE IF json /\ n.k = "Rule" THEN Outline(n.a[Len(n.a)], depth, json)
    ELSE <<<<depth, n.k>>>> \o Outlines(n.a, depth + 1, json)
RECURSIVE VisitOutline(_, _), JsonOutline(_, _), JsonOutlines(_, _)
VisitOutline(events, depth) ==
    CASE events = << >> -> << >>
      [] events # << >> /\ events[1].event = "endVisit" -> VisitOutline(Tail(events), depth - 1)
      [] OTHER -> <<<<depth, events[1].k>>>> \o VisitOutline(Tail(events), depth + 1)
JsonOutlines(vs, depth) == IF vs = << >> THEN << >> ELSE JsonOutline(vs[1], depth) \o JsonOutlines(Tail(vs), depth)
JsonOutline(v, depth) == IF v.k = "object" THEN <<<<depth, v.n[1]>>>> \o JsonOutlines(v.a, depth + 1) ELSE JsonOutlines(v.a, depth)
Classes(outline) == [i \in DOMAIN outline |-> <<outline[i][1], CASE outline[i][2] = "DoWhileStatement" -> "WhileStatement"
                                                                 [] outline[i][2] = "EniCall" -> "FunctionCall"
                                                                 [] OTHER -> outline[i][2]>>]
ShownOnce ==
    stage = "shown" =>
        /\ VisitOutline(output[1], 0) = Outline(tree, 0, FALSE)
        /\ output[2].indentation = 0
        /\ LET lines == Classes([i \in DOMAIN output[2].lines |-> <<output[2].lines[i][1] + 1, output[2].lines[i][2][1]>>])
           IN lines = SelectSeq(Classes(Outline(tree, 0, FALSE)), LAMBDA x : x[2] \notin {"SourceUnit", "FieldExpression"})
        /\ \A i \in {3, 4} : Classes(JsonOutline(output[i], 0)) = Classes(Outline(tree, 0, TRUE))

(* An error is reported for exactly the storage pointers that some path      *)
(* through a function leaves unassigned, whatever loops, early exits and     *)
(* short circuits it takes.  For a function with modifiers nothing is        *)
(* reported without such a path, and the paths that skip its code are found. *)
UnassignedReported ==
    stage = "checked" =>
        \A f \in DOMAIN output :
            LET function == Functions(tree.a[1])[f]
                may == Flow!MayReturnUnassigned(tree.a[1], function)
            IN  IF Flow!Invocations(function) = << >> THEN output[f] = may
                ELSE output[f] \subseteq may /\ Flow!SkippedUnassigned(tree.a[1], function) \subseteq output[f]

(* A name means the declaration of it in the innermost region around it, a  *)
(* local only after its declaration is complete; in a contract the one of   *)
(* the most derived base, and all functions that differ in their            *)
(* parameters.  A unit is rejected only for a name without a meaning or a   *)
(* clash of declarations, and never accepted with one.  The bases of a      *)
(* contract have an order that agrees with those of all its bases, or there *)
(* is none.  No pointer into storage crosses the interface of a contract.   *)
(* A declaration that hides another is warned about.  In a pattern a name   *)
(* that means nothing else is a member of the fact.  Only local variables   *)
(* and return statements in a then block break an assertion.                *)
Reported(kind) == {e[2] : e \in {e \in output.errors : e[1] = kind}}
NamesResolved ==
    stage = "resolved" =>
        LET ds == Names!Declared(output)
        IN IF output.broken
           THEN \E p \in Names!Paths(output) : /\ Names!At(output, p).k \in {"VariableDeclarationStatement", "Return"}
                                               /\ \E q \in Names!Around(p) : Names!At(output, q).k = "Rule"
           ELSE /\ Names!LinearizedOrNot(output)
                /\ Names!MembersFound(output, <<unit.library, unit.tree>>)
                /\ Reported("declared") # {} => Names!Conflict(output, ds)
                /\ Reported("declared") = {} =>
                       /\ \A use \in Reported("undeclared") : Names!Meant(output, ds, use) = << >>
                       /\ \A use \in Reported("path") : Len(Names!Meant(output, ds, use)) # 1
                       /\ Names!Warned(output) = {d.at : d \in {d \in ds \cup Names!AllImports(output, ds) : Names!Hides(output, ds, d)}}
                /\ output.errors = {} =>
                       /\ ~Names!Conflict(output, ds)
                       /\ \A use \in Names!Uses(output) : output.refs[use] = Names!Meant(output, ds, use)
                       /\ \A v \in DOMAIN output.types : Names!InPlace(output, v)
=============================================================================
