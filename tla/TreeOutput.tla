----------------------------- MODULE TreeOutput -----------------------------
(***************************************************************************)
(* What the compiler shows of a syntax tree: the order in which accept     *)
(* visits it, the indented listing and the two JSON forms.  Annotations    *)
(* (ids, scopes, types, references), gas costs and source excerpts are     *)
(* left out.                                                               *)
(***************************************************************************)
EXTENDS SyntaxTree

RECURSIVE accept(_), listAccept(_)
Without(a) == SelectSeq(a, LAMBDA m : m # Nil)

(***************************************************************************)
(* accept: the calls of visit and endVisit a visitor that always descends  *)
(* receives                                                                *)
(***************************************************************************)
DeclarationChildren(n) ==
    CASE n.k \in {"PragmaDirective", "ImportDirective", "EnumValue"} -> << >>
      [] n.k \in {"SourceUnit", "ContractDefinition", "InheritanceSpecifier", "ModifierInvocation", "EnumDefinition",
                  "StructDefinition", "ParameterList", "EventDefinition", "ModifierDefinition"} -> n.a
      [] n.k \in {"UsingForDirective", "VariableDeclaration"} -> Without(<<n.a[1], n.a[2]>>)
      [] n.k = "FunctionDefinition" -> <<n.a[1], n.a[2]>> \o SubSeq(n.a, 3, Len(n.a) - 1) \o Without(<<n.a[Len(n.a)]>>)
TypeChildren(n) ==
    CASE n.k \in {"ElementaryTypeName", "UserDefinedTypeName"} -> << >>
      [] n.k \in {"FunctionTypeName", "Mapping"} -> <<n.a[1], n.a[2]>>
      [] n.k = "ArrayTypeName" -> <<n.a[1]>> \o Without(<<n.a[2]>>)
StatementChildren(n) ==
    CASE n.k \in {"InlineAssembly", "PlaceholderStatement", "FireAllRulesStatement", "Continue", "Break", "Throw"} -> << >>
      [] n.k \in {"Block", "EmitStatement"} -> n.a
      [] n.k = "IfStatement" -> <<n.a[1], n.a[2]>> \o Without(<<n.a[3]>>)
      [] n.k = "WhileStatement" -> <<n.a[1], n.a[2]>>
      [] n.k = "ForStatement" -> Without(<<n.a[1], n.a[2], n.a[3]>>) \o <<n.a[4]>>
      [] n.k \in {"Return", "ExpressionStatement", "VariableDeclarationStatement"} -> Without(n.a)
ExpressionChildren(n) ==
    CASE n.k \in {"Conditional", "Assignment", "UnaryOperation", "BinaryOperation", "FunctionCall", "EniCall", "NewExpression",
                  "MemberAccess"} -> n.a
      [] n.k \in {"TupleExpression", "IndexAccess"} -> Without(n.a)
      [] n.k \in {"Identifier", "ElementaryTypeNameExpression", "Literal"} -> << >>
RuleChildren(n) ==
    CASE n.k = "Rule" -> SubSeq(n.a, 1, Len(n.a) - 1) \o Without(<<n.a[Len(n.a)]>>)
      [] n.k \in {"FactDeclaration", "FieldExpression"} -> Without(n.a)
Types == {"ElementaryTypeName", "UserDefinedTypeName", "FunctionTypeName", "Mapping", "ArrayTypeName"}
Statements == {"InlineAssembly", "Block", "PlaceholderStatement", "IfStatement", "WhileStatement", "ForStatement",
               "FireAllRulesStatement", "Continue", "Break", "Return", "Throw", "EmitStatement", "ExpressionStatement",
               "VariableDeclarationStatement"}
Expressions == {"Conditional", "Assignment", "TupleExpression", "UnaryOperation", "BinaryOperation", "FunctionCall", "EniCall",
                "NewExpression", "MemberAccess", "IndexAccess", "Identifier", "ElementaryTypeNameExpression", "Literal"}
Rules == {"Rule", "FactDeclaration", "FieldExpression"}
Children(n) == CASE n.k \in Types -> TypeChildren(n)
                 [] n.k \in Statements -> StatementChildren(n)
                 [] n.k \in Expressions -> ExpressionChildren(n)
                 [] n.k \in Rules -> RuleChildren(n)
                 [] OTHER -> DeclarationChildren(n)
Event(what, n) == [event |-> what, k |-> n.k, n |-> n.n]
listAccept(a) == IF a = << >> THEN << >> ELSE accept(a[1]) \o listAccept(Tail(a))
accept(n) == <<Event("visit", n)>> \o listAccept(Children(n)) \o <<Event("endVisit", n)>>

(***************************************************************************)
(* The listing: lines with their indentation                               *)
(***************************************************************************)
DeclarationLine(e) ==
    CASE e.k = "ContractDefinition" -> <<e.k, e.n[2]>>
      [] e.k \in {"StructDefinition", "EnumDefinition", "EnumValue", "FunctionDefinition", "VariableDeclaration", "ModifierDefinition",
                  "EventDefinition", "Rule", "FactDeclaration"} -> <<e.k, e.n[1]>>
      [] OTHER -> <<e.k>>
StatementLine(e) == <<IF e.k = "WhileStatement" /\ e.n[1] = "do" THEN "DoWhileStatement" ELSE e.k>>
ExpressionLine(e) ==
    CASE e.k \in {"Assignment", "BinaryOperation", "MemberAccess", "Identifier"} -> <<e.k, e.n[1]>>
      [] e.k = "UnaryOperation" -> <<e.k, e.n[2], e.n[1]>>
      [] e.k = "EniCall" -> <<"FunctionCall">>
      [] e.k = "Literal" -> <<e.k, e.n[1], e.n[2]>>
      [] OTHER -> <<e.k>>
Line(e) == CASE e.k \in Types \cup Statements -> StatementLine(e) [] e.k \in Expressions -> ExpressionLine(e) [] OTHER -> DeclarationLine(e)
(* s: the indentation and the lines written *)
Written(s, e) ==
    CASE e.k = "SourceUnit" -> s
      [] e.k # "SourceUnit" /\ e.event = "endVisit" -> [s EXCEPT !.indentation = @ - 1]
      [] e.k = "FieldExpression" /\ e.event = "visit" -> [s EXCEPT !.indentation = @ + 1]
      [] OTHER -> [indentation |-> s.indentation + 1, lines |-> Append(s.lines, <<s.indentation, Line(e)>>)]
RECURSIVE Listing(_, _)
Listing(events, s) == IF events = << >> THEN s ELSE With(Written(s, events[1]), LAMBDA r : Listing(Tail(events), r))
ASTPrinter(n) == Listing(accept(n), [indentation |-> 0, lines |-> << >>])

(***************************************************************************)
(* JSON.  A value is null, a text, an array or the object of a node: its   *)
(* type and its attributes by name; the legacy form moves the attributes   *)
(* that are nodes to the children.  A class the converter does not handle  *)
(* leaves what the last of its children has set.                           *)
(***************************************************************************)
Null == Node("null", << >>, << >>)
Text(x) == Node("text", <<x>>, << >>)
Array(vs) == Node("array", << >>, vs)
Attribute(name, value) == <<name, value>>
NeedsChildren == {"VariableDeclaration", "ParameterList", "Block", "InlineAssembly", "Throw"}
(* looking at the first element of an empty array makes it one null element *)
Looked(v) == IF v.k = "array" /\ v.a = << >> THEN Array(<<Null>>) ELSE v
IsChild(x) ==
    \/ x[2].k = "object"
    \/ x[2].k = "array" /\ Looked(x[2]).a[1].k = "object"
    \/ x[1] = "declarations" /\ x[2].k # "null"
NonNull(v) == IF v.k = "object" THEN <<v>> ELSE SelectSeq(v.a, LAMBDA w : w.k # "null")
RECURSIVE Flat(_)
Flat(ss) == IF ss = << >> THEN << >> ELSE NonNull(ss[1][2]) \o Flat(Tail(ss))
setJsonNode(legacy, type, attributes) ==
    IF ~legacy THEN Node("object", <<type>> \o [i \in DOMAIN attributes |-> attributes[i][1]], [i \in DOMAIN attributes |-> attributes[i][2]])
    ELSE With(SelectSeq(attributes, LAMBDA x : ~IsChild(x)), LAMBDA rest :
         With(Flat(SelectSeq(attributes, IsChild)), LAMBDA children :
             Node("object", <<type>>,
                  <<IF rest = << >> THEN Null ELSE Node("attributes", [i \in DOMAIN rest |-> rest[i][1]], [i \in DOMAIN rest |-> Looked(rest[i][2])]),
                    IF children = << >> /\ type \notin NeedsChildren THEN Null ELSE Array(children)>>)))

(* j: the JSON of each child *)
literalTokenKind(token) == CASE token = "Number" -> "number" [] token = "StringLiteral" -> "string" [] token \in {"true", "false"} -> "bool"
NameAttribute(n) == Attribute("name", Text(n.n[1]))
ListOf(j, a) == Array([i \in DOMAIN a |-> j[a[i]]])
DeclarationJson(n, j) ==
    CASE n.k = "SourceUnit" -> <<Attribute("nodes", ListOf(j, n.a))>>
      [] n.k = "PragmaDirective" -> <<Attribute("literals", Array([i \in DOMAIN n.n |-> Text(n.n[i])]))>>
      [] n.k = "ImportDirective" ->
           <<Attribute("file", Text(n.n[1])), Attribute("unitAlias", Text(n.n[2])),
             Attribute("symbolAliases", Array([i \in DOMAIN n.a |-> Node("alias", << >>, <<IF n.a[i].n[2] = "" THEN Null ELSE Text(n.a[i].n[2])>>)]))>>
      [] n.k = "ContractDefinition" ->
           <<Attribute("name", Text(n.n[2])), Attribute("contractKind", Text(n.n[1])),
             Attribute("baseContracts", ListOf(j, SelectSeq(n.a, LAMBDA m : m.k = "InheritanceSpecifier"))),
             Attribute("nodes", ListOf(j, SelectSeq(n.a, LAMBDA m : m.k # "InheritanceSpecifier")))>>
      [] n.k = "InheritanceSpecifier" ->
           <<Attribute("baseName", j[n.a[1]]), Attribute("arguments", IF n.n[1] = "" THEN Null ELSE ListOf(j, Tail(n.a)))>>
      [] n.k = "UsingForDirective" -> <<Attribute("libraryName", j[n.a[1]]), Attribute("typeName", j[n.a[2]])>>
      [] n.k \in {"StructDefinition", "EnumDefinition"} -> <<NameAttribute(n), Attribute("members", ListOf(j, n.a))>>
      [] n.k = "EnumValue" -> <<NameAttribute(n)>>
      [] n.k = "ParameterList" -> <<Attribute("parameters", ListOf(j, n.a))>>
MemberJson(n, j, legacy, inEvent) ==
    CASE n.k = "FunctionDefinition" ->
           <<NameAttribute(n),
             Attribute("kind", Text(CASE n.n[2] # "" -> "constructor" [] n.n[2] = "" /\ n.n[1] = "" -> "fallback" [] OTHER -> "function")),
             Attribute("stateMutability", Text(n.n[5])), Attribute("visibility", Text(n.n[3])),
             Attribute("parameters", j[n.a[1]]), Attribute("returnParameters", j[n.a[2]]),
             Attribute("modifiers", ListOf(j, SubSeq(n.a, 3, Len(n.a) - 1))), Attribute("body", j[n.a[Len(n.a)]]),
             Attribute("implemented", Text(Bool(n.a[Len(n.a)] # Nil, "true")))>>
           \o (IF legacy THEN <<Attribute("isConstructor", Text(n.n[2]))>> ELSE << >>)
      [] n.k = "VariableDeclaration" ->
           <<NameAttribute(n), Attribute("typeName", j[n.a[1]]), Attribute("constant", Text(n.n[5])), Attribute("stateVariable", Text(n.n[3])),
             Attribute("storageLocation", Text(n.n[6])), Attribute("visibility", Text(n.n[2])), Attribute("value", j[n.a[2]])>>
           \o (IF inEvent THEN <<Attribute("indexed", Text(n.n[4]))>> ELSE << >>)
      [] n.k = "ModifierDefinition" -> <<NameAttribute(n), Attribute("parameters", j[n.a[1]]), Attribute("body", j[n.a[2]])>>
      [] n.k = "ModifierInvocation" ->
           <<Attribute("modifierName", j[n.a[1]]), Attribute("arguments", IF n.n[1] = "" THEN Null ELSE ListOf(j, Tail(n.a)))>>
      [] n.k = "EventDefinition" -> <<NameAttribute(n), Attribute("parameters", j[n.a[1]]), Attribute("anonymous", Text(n.n[2]))>>
Members == {"FunctionDefinition", "VariableDeclaration", "ModifierDefinition", "ModifierInvocation", "EventDefinition"}
TypeJson(n, j) ==
    CASE n.k = "ElementaryTypeName" ->
           <<Attribute("name", Array(<<Text(n.n[1]), Text(n.n[2])>>))>>
           \o (IF n.n[3] = "" THEN << >> ELSE <<Attribute("stateMutability", Text(n.n[3]))>>)
      [] n.k = "UserDefinedTypeName" -> <<Attribute("name", Array([i \in DOMAIN n.n |-> Text(n.n[i])]))>>
      [] n.k = "FunctionTypeName" ->
           <<Attribute("visibility", Text(n.n[1])), Attribute("stateMutability", Text(n.n[3])),
             Attribute("parameterTypes", j[n.a[1]]), Attribute("returnParameterTypes", j[n.a[2]])>>
      [] n.k = "Mapping" -> <<Attribute("keyType", j[n.a[1]]), Attribute("valueType", j[n.a[2]])>>
      [] n.k = "ArrayTypeName" -> <<Attribute("baseType", j[n.a[1]]), Attribute("length", j[n.a[2]])>>
StatementJson(n, j) ==
    CASE n.k = "InlineAssembly" -> <<Attribute("operations", Text(n.n[1]))>>
      [] n.k = "Block" -> <<Attribute("statements", ListOf(j, n.a))>>
      [] n.k \in {"PlaceholderStatement", "Continue", "Break", "Throw"} -> << >>
      [] n.k = "IfStatement" -> <<Attribute("condition", j[n.a[1]]), Attribute("trueBody", j[n.a[2]]), Attribute("falseBody", j[n.a[3]])>>
      [] n.k = "WhileStatement" -> <<Attribute("condition", j[n.a[1]]), Attribute("body", j[n.a[2]])>>
      [] n.k = "ForStatement" ->
           <<Attribute("initializationExpression", j[n.a[1]]), Attribute("condition", j[n.a[2]]),
             Attribute("loopExpression", j[n.a[3]]), Attribute("body", j[n.a[4]])>>
      [] n.k \in {"Return", "ExpressionStatement"} -> <<Attribute("expression", j[n.a[1]])>>
      [] n.k = "EmitStatement" -> <<Attribute("eventCall", j[n.a[1]])>>
      [] n.k = "VariableDeclarationStatement" ->
           LET variables == SubSeq(n.a, 1, Len(n.a) - 1)
           IN <<Attribute("assignments", Array([i \in DOMAIN variables |-> IF variables[i] = Nil THEN Null ELSE Text("id")])),
                Attribute("declarations", ListOf(j, variables)), Attribute("initialValue", j[n.a[Len(n.a)]])>>
ExpressionJson(n, j, legacy) ==
    CASE n.k = "Conditional" ->
           <<Attribute("condition", j[n.a[1]]), Attribute("trueExpression", j[n.a[2]]), Attribute("falseExpression", j[n.a[3]])>>
      [] n.k = "Assignment" ->
           <<Attribute("operator", Text(n.n[1])), Attribute("leftHandSide", j[n.a[1]]), Attribute("rightHandSide", j[n.a[2]])>>
      [] n.k = "TupleExpression" -> <<Attribute("isInlineArray", Text(n.n[1])), Attribute("components", ListOf(j, n.a))>>
      [] n.k = "UnaryOperation" ->
           <<Attribute("prefix", Text(n.n[2])), Attribute("operator", Text(n.n[1])), Attribute("subExpression", j[n.a[1]])>>
      [] n.k = "BinaryOperation" ->
           <<Attribute("operator", Text(n.n[1])), Attribute("leftExpression", j[n.a[1]]), Attribute("rightExpression", j[n.a[2]])>>
      [] n.k \in {"FunctionCall", "EniCall"} ->
           <<Attribute("expression", j[n.a[1]]), Attribute("names", Array([i \in DOMAIN n.n |-> Text(n.n[i])])),
             Attribute("arguments", ListOf(j, Tail(n.a)))>>
      [] n.k = "NewExpression" -> <<Attribute("typeName", j[n.a[1]])>>
      [] n.k = "MemberAccess" -> <<Attribute(IF legacy THEN "member_name" ELSE "memberName", Text(n.n[1])), Attribute("expression", j[n.a[1]])>>
      [] n.k = "IndexAccess" -> <<Attribute("baseExpression", j[n.a[1]]), Attribute("indexExpression", j[n.a[2]])>>
      [] n.k = "Identifier" -> <<Attribute(IF legacy THEN "value" ELSE "name", Text(n.n[1]))>>
      [] n.k = "ElementaryTypeNameExpression" -> <<Attribute(IF legacy THEN "value" ELSE "typeName", Array(<<Text(n.n[1]), Text(n.n[2])>>))>>
      [] n.k = "Literal" ->
           <<Attribute(IF legacy THEN "token" ELSE "kind", Text(literalTokenKind(n.n[1]))), Attribute("value", Text(n.n[2])),
             Attribute("subdenomination", IF n.n[3] = "" THEN Null ELSE Text(n.n[3]))>>
JsonType(n) == CASE n.k = "WhileStatement" /\ n.n[1] = "do" -> "DoWhileStatement"
                 [] n.k = "EniCall" -> "FunctionCall"
                 [] OTHER -> n.k
Unhandled == Rules \cup {"FireAllRulesStatement"}
(* what a class without a visit of its own leaves for its parent: the value its last child has set *)
(* mutant: the first child's *)
MutLeft(n, j) == IF Children(n) = << >> THEN Null ELSE j[Children(n)[1]]
Left(n, j) == IF Children(n) = << >> THEN Null ELSE j[Children(n)[Len(Children(n))]]
RECURSIVE Json(_, _, _)
toJson(n, legacy, inEvent) ==
    With([m \in {n.a[i] : i \in DOMAIN n.a} |-> Json(m, legacy, inEvent \/ n.k = "EventDefinition")], LAMBDA j :
        CASE n.k \in Unhandled -> Left(n, j)
          [] n.k \notin Unhandled /\ n.k \in Types -> setJsonNode(legacy, JsonType(n), TypeJson(n, j))
          [] n.k \notin Unhandled /\ n.k \in Statements -> setJsonNode(legacy, JsonType(n), StatementJson(n, j))
          [] n.k \in Expressions -> setJsonNode(legacy, JsonType(n), ExpressionJson(n, j, legacy))
          [] n.k \in Members -> setJsonNode(legacy, JsonType(n), MemberJson(n, j, legacy, inEvent))
          [] OTHER -> setJsonNode(legacy, JsonType(n), DeclarationJson(n, j)))
Json(n, legacy, inEvent) == IF n \in {Nil} \/ n.k = "symbol" THEN Null ELSE toJson(n, legacy, inEvent)
=============================================================================
