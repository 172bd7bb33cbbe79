----------------------------- MODULE SyntaxTree -----------------------------
(* The syntax tree: one constructor per node class.  A node is its class, its *)
(* attributes (strings; "" when absent) and its children in the order accept  *)
(* visits them, Nil where an optional child is missing.  Source locations and *)
(* documentation comments are left out.                                       *)
EXTENDS Integers, Sequences, TLC, Eager

Node(k, n, a) == [k |-> k, n |-> n, a |-> a]
Nil == Node("nil", << >>, << >>)
Str(x) == Node("str", <<x>>, << >>)
List(a) == Node("list", << >>, a)
Bool(b, yes) == IF b THEN yes ELSE ""

SourceUnit(nodes) == Node("SourceUnit", << >>, nodes)
PragmaDirective(literals) == Node("PragmaDirective", literals, << >>)
(* symbols: pairs of a name and its alias, "" when it has none *)
ImportDirective(path, unitAlias, symbols) ==
    Node("ImportDirective", <<path, unitAlias>>, [i \in DOMAIN symbols |-> Node("symbol", symbols[i], << >>)])
ContractDefinition(kind, name, bases, subNodes) ==
    Node("ContractDefinition", <<kind, name>>, bases \o subNodes)
InheritanceSpecifier(name, hasArgs, args) == Node("InheritanceSpecifier", <<Bool(hasArgs, "args")>>, <<name>> \o args)
UsingForDirective(library, type) == Node("UsingForDirective", << >>, <<library, type>>)
StructDefinition(name, members) == Node("StructDefinition", <<name>>, members)
EnumDefinition(name, members) == Node("EnumDefinition", <<name>>, members)
EnumValue(name) == Node("EnumValue", <<name>>, << >>)
ParameterList(parameters) == Node("ParameterList", << >>, parameters)
FunctionDefinition(name, isConstructor, visibility, special, mutability, parameters, returns, modifiers, body) ==
    Node("FunctionDefinition", <<name, Bool(isConstructor, "constructor"), visibility, special, mutability>>,
         <<parameters, returns>> \o modifiers \o <<body>>)
VariableDeclaration(type, name, value, visibility, isState, isIndexed, isConstant, location) ==
    Node("VariableDeclaration",
         <<name, visibility, Bool(isState, "state"), Bool(isIndexed, "indexed"), Bool(isConstant, "constant"), location>>,
         <<type, value>>)
ModifierDefinition(name, parameters, body) == Node("ModifierDefinition", <<name>>, <<parameters, body>>)
ModifierInvocation(name, hasArgs, args) == Node("ModifierInvocation", <<Bool(hasArgs, "args")>>, <<name>> \o args)
EventDefinition(name, parameters, isAnonymous) ==
    Node("EventDefinition", <<name, Bool(isAnonymous, "anonymous")>>, <<parameters>>)
(* type: the token and its size; mutability: of an address *)
ElementaryTypeName(type, size, mutability) == Node("ElementaryTypeName", <<type, size, mutability>>, << >>)
UserDefinedTypeName(path) == Node("UserDefinedTypeName", path, << >>)
FunctionTypeName(parameters, returns, visibility, special, mutability) ==
    Node("FunctionTypeName", <<visibility, special, mutability>>, <<parameters, returns>>)
Mapping(key, value) == Node("Mapping", << >>, <<key, value>>)
ArrayTypeName(base, length) == Node("ArrayTypeName", << >>, <<base, length>>)

InlineAssembly(block) == Node("InlineAssembly", <<block>>, << >>)
Block(statements) == Node("Block", << >>, statements)
PlaceholderStatement == Node("PlaceholderStatement", << >>, << >>)
IfStatement(condition, trueBody, falseBody) == Node("IfStatement", << >>, <<condition, trueBody, falseBody>>)
WhileStatement(condition, body, isDoWhile) == Node("WhileStatement", <<Bool(isDoWhile, "do")>>, <<condition, body>>)
ForStatement(init, condition, loop, body) == Node("ForStatement", << >>, <<init, condition, loop, body>>)
FireAllRulesStatement == Node("FireAllRulesStatement", << >>, << >>)
Continue == Node("Continue", << >>, << >>)
Break == Node("Break", << >>, << >>)
Return(expression) == Node("Return", << >>, <<expression>>)
Throw == Node("Throw", << >>, << >>)
EmitStatement(call) == Node("EmitStatement", << >>, <<call>>)
VariableDeclarationStatement(variables, value) == Node("VariableDeclarationStatement", << >>, variables \o <<value>>)
ExpressionStatement(expression) == Node("ExpressionStatement", << >>, <<expression>>)

Conditional(condition, yes, no) == Node("Conditional", << >>, <<condition, yes, no>>)
Assignment(left, op, right) == Node("Assignment", <<op>>, <<left, right>>)
TupleExpression(components, isArray) == Node("TupleExpression", <<Bool(isArray, "array")>>, components)
UnaryOperation(op, sub, isPrefix) == Node("UnaryOperation", <<op, Bool(isPrefix, "prefix")>>, <<sub>>)
BinaryOperation(left, op, right) == Node("BinaryOperation", <<op>>, <<left, right>>)
(* names: those of a call with named arguments *)
FunctionCall(expression, args, names) == Node("FunctionCall", names, <<expression>> \o args)
EniCall(expression, args, names) == Node("EniCall", names, <<expression>> \o args)
NewExpression(type) == Node("NewExpression", << >>, <<type>>)
MemberAccess(expression, member) == Node("MemberAccess", <<member>>, <<expression>>)
IndexAccess(base, index) == Node("IndexAccess", << >>, <<base, index>>)
Identifier(name) == Node("Identifier", <<name>>, << >>)
ElementaryTypeNameExpression(type, size) == Node("ElementaryTypeNameExpression", <<type, size>>, << >>)
Literal(token, value, unit) == Node("Literal", <<token, value, unit>>, << >>)

(* base: the name of the extended rule *)
Rule(name, base, facts, body, noLoop, lockOnActive, salience) ==
    Node("Rule", <<name, base, Bool(noLoop, "no_loop"), Bool(lockOnActive, "lock_on_active"), salience>>, facts \o <<body>>)
FactDeclaration(name, type, fields) == Node("FactDeclaration", <<name>>, <<type>> \o fields)
FieldExpression(expression) == Node("FieldExpression", << >>, <<expression>>)
=============================================================================
