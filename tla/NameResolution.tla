--------------------------- MODULE NameResolution ---------------------------
(* Name resolution: declarations are registered in the scopes of their source  *)
(* units, imports are added, and for each contract in turn the members in its   *)
(* rules' patterns are found, its bases are linearised, what it inherits is     *)
(* added and its references are resolved, first outside code and then in it.    *)
(* A node is the path of child numbers that leads to it from the sequence of    *)
(* source units; an assembly block stands for the one name it mentions.         *)
EXTENDS SyntaxTree, SequencesExt

(* the scope of the builtin symbols, around every source unit *)
Global == <<0>>
(* GlobalContext: the builtin symbols and the number of parameters of those that are functions *)
Builtins == <<<<"abi", 0>>, <<"addmod", 3>>, <<"assert", 1>>, <<"block", 0>>, <<"blockhash", 1>>, <<"ecrecover", 4>>, <<"eni", 0>>,
              <<"isValidator", 1>>, <<"gasleft", 0>>, <<"keccak256", 1>>, <<"log0", 1>>, <<"log1", 2>>, <<"log2", 3>>, <<"log3", 4>>,
              <<"log4", 5>>, <<"msg", 0>>, <<"mulmod", 3>>, <<"now", 0>>, <<"rand", 0>>, <<"require", 1>>, <<"require", 2>>,
              <<"revert", 0>>, <<"revert", 1>>, <<"ripemd160", 1>>, <<"selfdestruct", 1>>, <<"sha256", 1>>, <<"sha3", 1>>,
              <<"suicide", 1>>, <<"tx", 0>>>>
Magic(name, at) == [at |-> at, k |-> "MagicVariableDeclaration", name |-> name, visibility |-> "public", scope |-> << >>]
currentThis(contract) == Magic("this", Global \o contract \o <<1>>)
currentSuper(contract) == Magic("super", Global \o contract \o <<2>>)

declaredName(node) == IF node.k \in {"ContractDefinition", "ImportDirective"} THEN node.n[2] ELSE node.n[1]
visibility(node) ==
    CASE node.k = "FunctionDefinition" -> IF node.n[3] = "" THEN "public" ELSE node.n[3]
      [] node.k = "VariableDeclaration" -> IF node.n[2] = "" THEN "internal" ELSE node.n[2]
      [] OTHER -> "public"
Declaration(node, at, scope) == [at |-> at, k |-> node.k, name |-> declaredName(node), visibility |-> visibility(node), scope |-> scope]
(* constructors and fallback functions have no name *)
isVisibleInContract(d) == d.visibility # "external" /\ (d.k = "FunctionDefinition" => d.name # "")
isVisibleInDerivedContracts(d) == isVisibleInContract(d) /\ d.visibility # "private"

(* DeclarationContainer: the names of one scope.  Invisible are locals not yet declared, and      *)
(* members that a contract does not see without its own address.                                  *)
Container(enclosing) == [enclosing |-> enclosing, declarations |-> << >>, invisible |-> << >>]
Of(names, name) == IF name \in DOMAIN names THEN names[name] ELSE << >>
Overloadable == {"FunctionDefinition", "EventDefinition", "MagicVariableDeclaration"}
conflictingDeclaration(c, d, name) ==
    LET others == Of(c.declarations, name) \o Of(c.invisible, name)
    IN CASE d.k \in Overloadable -> SelectSeq(others, LAMBDA e : e.k # d.k)
         [] d.k \notin Overloadable /\ others = <<d>> -> << >>
         [] OTHER -> others
Put(names, name, d) == IF \E i \in DOMAIN Of(names, name) : names[name][i] = d THEN names ELSE (name :> Append(Of(names, name), d)) @@ names
registered(c, d, name, isInvisible) ==
    IF isInvisible THEN [c EXCEPT !.invisible = Put(@, name, d)] ELSE [c EXCEPT !.declarations = Put(@, name, d)]
Without(names, name) == [n \in DOMAIN names \ {name} |-> names[n]] @@ << >>
updated(c, d) == registered([c EXCEPT !.declarations = Without(@, d.name), !.invisible = Without(@, d.name)], d, d.name, FALSE)
activateVariable(c, name) ==
    IF name \notin DOMAIN c.invisible THEN c
    ELSE [c EXCEPT !.declarations = (name :> c.invisible[name]) @@ @, !.invisible = Without(@, name)]

(* What the resolver keeps: the source units and their names, the scopes (an import shares the scope of what it   *)
(* imports), the declarations each name refers to, the types and locations of variables, the      *)
(* linearised bases of contracts; returns is the stack of functions around the node, inside       *)
(* whether code is looked at, failed and fatal how the current node ends, broken an assertion.    *)
Start(names, units) ==
    [paths |-> names, sources |-> units, shared |-> << >>,
     scopes |-> Global :> Through(LAMBDA c, i : registered(c, Magic(Builtins[i][1], Append(Global, i)), Builtins[i][1], FALSE),
                                  Container(<< >>), [i \in DOMAIN Builtins |-> i]),
     current |-> Global, inFunction |-> FALSE, inside |-> FALSE, returns |-> << >>, refs |-> << >>, types |-> << >>, linear |-> << >>,
     errors |-> {}, warnings |-> {}, failed |-> FALSE, fatal |-> FALSE, broken |-> FALSE]
RECURSIVE Below(_, _)
Below(node, path) == IF path = << >> THEN node ELSE Below(node.a[path[1]], Tail(path))
At(s, path) == Below(s.sources[path[1]], Tail(path))
Kind(s, path) == IF path[1] = 0 THEN "MagicVariableDeclaration" ELSE At(s, path).k
Scope(s, path) == IF path \in DOMAIN s.shared THEN s.shared[path] ELSE path
declarationError(s, kind, at) == [s EXCEPT !.errors = @ \cup {<<kind, at>>}, !.failed = TRUE]
fatalError(s, kind, at) == [declarationError(s, kind, at) EXCEPT !.fatal = TRUE]
solAssert(s, holds) == IF holds THEN s ELSE [s EXCEPT !.broken = TRUE]
Stopped(s) == s.fatal \/ s.broken
Each(F(_, _, _), s, node, at) == Through(LAMBDA r, i : F(r, node.a[i], Append(at, i)), s, [i \in DOMAIN node.a |-> i])

RECURSIVE resolveName(_, _, _, _, _)
resolveName(s, scope, name, recursive, alsoInvisible) ==
    LET c == s.scopes[scope]
        found == Of(c.declarations, name) \o (IF alsoInvisible THEN Of(c.invisible, name) ELSE << >>)
    IN IF found = << >> /\ recursive /\ c.enclosing # << >> THEN resolveName(s, c.enclosing, name, TRUE, alsoInvisible) ELSE found
nameFromCurrentScope(s, name) == resolveName(s, s.current, name, TRUE, FALSE)

-----------------------------------------------------------------------------
(* DeclarationRegistrationHelper *)
registerIn(s, scope, d, name, warnOnShadow, inactive) ==
    LET c == s.scopes[scope]
        shadowed == IF warnOnShadow /\ c.enclosing # << >> THEN resolveName(s, c.enclosing, name, TRUE, TRUE) ELSE << >>
    IN CASE name = "" -> s
         [] name # "" /\ conflictingDeclaration(c, d, name) # << >> -> [s EXCEPT !.errors = @ \cup {<<"declared", d.at>>}]
         [] OTHER -> [s EXCEPT !.scopes[scope] = registered(c, d, name, ~isVisibleInContract(d) \/ inactive),
                               !.warnings = IF shadowed = << >> THEN @ ELSE @ \cup {<<Last(shadowed).k = "MagicVariableDeclaration", d.at>>}]
enterNewSubScope(s, at) == [s EXCEPT !.scopes = (at :> Container(s.current)) @@ @, !.current = at]
closeCurrentScope(s) == [s EXCEPT !.current = s.scopes[s.current].enclosing]
(* locals are registered with the block or loop around them, and not yet seen *)
Locals == {"Block", "ForStatement"}
(* a mutant: locals are seen from the start of their block *)
registerDeclarationSeen(s, node, at) ==
    registerIn(s, s.current, Declaration(node, at, s.current), declaredName(node), TRUE, FALSE)
registerDeclaration(s, node, at) ==
    LET around == At(s, s.current).k
    IN registerIn(s, s.current, Declaration(node, at, s.current), declaredName(node),
                  around \notin {"StructDefinition", "EnumDefinition", "EventDefinition"}, around \in Locals)

Importee(s, node) == <<CHOOSE i \in DOMAIN s.sources : s.paths[i] = node.n[1]>>
Opening == {"ContractDefinition", "StructDefinition", "EnumDefinition", "FunctionDefinition", "ModifierDefinition", "EventDefinition",
            "Rule", "FactDeclaration"}
Entered == {"FunctionTypeName"} \cup Locals
Callables == {"FunctionDefinition", "ModifierDefinition"}
EnsureUnit(s, at) == IF at \in DOMAIN s.scopes THEN s ELSE [s EXCEPT !.scopes = (at :> Container(Global)) @@ @]
visitDeclaration(s, node, at) ==
    CASE node.k = "SourceUnit" -> [EnsureUnit(s, at) EXCEPT !.current = at]
      [] node.k = "ImportDirective" -> registerDeclaration([EnsureUnit(s, Importee(s, node)) EXCEPT !.shared = (at :> Importee(s, node)) @@ @], node, at)
      [] node.k \in Opening -> [enterNewSubScope(registerDeclaration(s, node, at), at) EXCEPT !.inFunction = @ \/ node.k \in Callables]
      [] node.k \in Entered -> enterNewSubScope(s, at)
      [] node.k \in {"EnumValue", "VariableDeclaration"} -> registerDeclaration(s, node, at)
      [] OTHER -> s
endVisitDeclaration(s, node) ==
    CASE node.k = "VariableDeclarationStatement" -> solAssert(s, s.inFunction)
      [] node.k \in {"SourceUnit"} \cup Opening \cup Entered -> [closeCurrentScope(s) EXCEPT !.inFunction = @ /\ node.k \notin Callables]
      [] OTHER -> s
RECURSIVE registerDeclarations(_, _, _)
registerDeclarations(s, node, at) ==
    IF node.k \in {"nil", "symbol"} \/ s.broken THEN s
    ELSE With(Each(LAMBDA r, n, p : registerDeclarations(r, n, p), visitDeclaration(s, node, at), node, at), LAMBDA r : IF r.broken THEN r ELSE endVisitDeclaration(r, node))

(* performImports: the symbols an import names, under the names it gives them, or all *)
importSymbols(s, target, from, symbols) ==
    Through(LAMBDA r, symbol :
                LET found == resolveName(r, from, symbol.n[1], FALSE, FALSE)
                IN IF found = << >> THEN declarationError(r, "symbol", target)
                   ELSE Through(LAMBDA q, d : registerIn(q, target, d, IF symbol.n[2] = "" THEN d.name ELSE symbol.n[2], TRUE, FALSE), r, found),
            s, symbols)
importAll(s, target, from) ==
    Through(LAMBDA r, name : Through(LAMBDA q, d : registerIn(q, target, d, name, TRUE, FALSE), r, s.scopes[from].declarations[name]),
            s, SetToSeq(DOMAIN s.scopes[from].declarations))
performImports(s, target) ==
    Through(LAMBDA r, node :
                CASE node.k = "ImportDirective" /\ node.a # << >> -> importSymbols(r, target, Importee(r, node), node.a)
                  [] node.k = "ImportDirective" /\ node.a = << >> /\ node.n[2] = "" -> importAll(r, target, Importee(r, node))
                  [] OTHER -> r,
            s, At(s, target).a)

-----------------------------------------------------------------------------
(* FactMemberReferencesResolver: a name in a pattern that is not declared becomes a member of the  *)
(* fact.  It is replaced in its parent; arguments of calls and the parts of types are not.         *)
Parents == {"FieldExpression", "Conditional", "Assignment", "TupleExpression", "UnaryOperation", "BinaryOperation", "FunctionCall", "EniCall",
            "MemberAccess", "IndexAccess"}
Replaces(parent, i) == parent.k \in Parents /\ (parent.k \in {"FunctionCall", "EniCall"} => i = 1)
RECURSIVE factMembers(_, _, _, _)
factMembers(s, node, scope, fact) ==
    [node EXCEPT !.a = [i \in DOMAIN node.a |->
        IF node.a[i].k = "Identifier" /\ Replaces(node, i) /\ resolveName(s, scope, node.a[i].n[1], TRUE, FALSE) = << >>
        THEN MemberAccess(Identifier(fact), node.a[i].n[1])
        ELSE factMembers(s, node.a[i], scope, fact)]]
inPatterns(s, node, at) ==
    CASE node.k = "FactDeclaration" -> factMembers(s, node, at, node.n[1])
      [] OTHER -> node
resolveFactMemberReferences(s, at) ==
    LET contract == At(s, at)
        patterns(rule, i) == [rule EXCEPT !.a = [j \in DOMAIN rule.a |-> inPatterns(s, rule.a[j], at \o <<i, j>>)]]
    IN [s EXCEPT !.sources[at[1]].a[at[2]].a =
           [i \in DOMAIN contract.a |-> IF contract.a[i].k = "Rule" THEN patterns(contract.a[i], i) ELSE contract.a[i]]]

-----------------------------------------------------------------------------
(* linearizeBaseContracts: the bases named last come first, each with its own bases *)
(* the merge of the lists, << >> when there is none *)
RECURSIVE cThreeMerge(_, _)
cThreeMerge(result, toMerge) ==
    LET onlyAtHead(c) == \A i \in DOMAIN toMerge : ~ Contains(Tail(toMerge[i]), c)
        candidates == SelectSeq([i \in DOMAIN toMerge |-> toMerge[i][1]], onlyAtHead)
        removed(c) == SelectSeq([i \in DOMAIN toMerge |-> SelectSeq(toMerge[i], LAMBDA d : d # c)], LAMBDA l : l # << >>)
    IN CASE toMerge = << >> -> result
         [] toMerge # << >> /\ candidates = << >> -> << >>
         [] OTHER -> cThreeMerge(Append(result, candidates[1]), removed(candidates[1]))
specifiers(contract) == SelectSeq(contract.a, LAMBDA d : d.k = "InheritanceSpecifier")
Base(s, at, i) == s.refs[at \o <<i, 1>>][1]
linearizeBaseContracts(s, at) ==
    LET n == Len(specifiers(At(s, at)))
        bases == [i \in 1 .. n |-> Base(s, at, n + 1 - i)]
        order == cThreeMerge(<< >>, [i \in 1 .. n |-> s.linear[bases[i]]] \o <<<<at>> \o bases>>)
        wrong == SelectSeq(Reverse(bases), LAMBDA b : Kind(s, b) # "ContractDefinition" \/ b \notin DOMAIN s.linear)
    IN CASE wrong # << >> -> fatalError(s, IF Kind(s, wrong[1]) # "ContractDefinition" THEN "contract" ELSE "precede", at)
         [] wrong = << >> /\ order = << >> -> fatalError(s, "linearization", at)
         [] OTHER -> [s EXCEPT !.linear = (at :> order) @@ @]
(* a variable or modifier hides the one of the same name in a base *)
Shadows(d, e) == d.k = e.k /\ d.k \in {"VariableDeclaration", "ModifierDefinition"}
importInherited(s, at, d) ==
    LET conflicts == conflictingDeclaration(s.scopes[at], d, d.name)
    IN CASE conflicts = << >> -> [s EXCEPT !.scopes[at] = registered(@, d, d.name, FALSE)]
         [] conflicts # << >> /\ Shadows(d, conflicts[1]) -> s
         [] OTHER -> [s EXCEPT !.errors = @ \cup {<<"declared", d.at>>}]
importInheritedScope(s, at, base) ==
    LET names == s.scopes[base].declarations
    IN Through(LAMBDA r, name : Through(LAMBDA q, d : importInherited(q, at, d), r,
                                        SelectSeq(names[name], LAMBDA d : d.scope = base /\ isVisibleInDerivedContracts(d))),
               s, SetToSeq(DOMAIN names))

-----------------------------------------------------------------------------
(* Types and data locations of variables *)
Category(s, type, at) ==
    CASE type.k = "Mapping" -> "mapping"
      [] type.k = "ArrayTypeName" \/ (type.k = "ElementaryTypeName" /\ type.n[1] \in {"bytes", "string"}) -> "reference"
      [] type.k = "UserDefinedTypeName" -> IF Kind(s, s.refs[at][1]) = "StructDefinition" THEN "reference" ELSE "value"
      [] OTHER -> "value"
RECURSIVE TypeOf(_, _, _)
TypeOf(s, type, at) ==
    CASE type.k = "UserDefinedTypeName" -> Node("declared", <<ToString(s.refs[at][1])>>, << >>)
      [] type.k = "ArrayTypeName" -> ArrayTypeName(TypeOf(s, type.a[1], Append(at, 1)), type.a[2])
      [] OTHER -> type
(* the scope of a variable, and its place in the parameter lists of a function or function type *)
scopeOf(s, at) == CHOOSE p \in {SubSeq(at, 1, n) : n \in 1 .. Len(at) - 1} :
                      /\ p \in DOMAIN s.scopes
                      /\ \A n \in Len(p) + 1 .. Len(at) - 1 : SubSeq(at, 1, n) \notin DOMAIN s.scopes
ScopeNode(s, at) == At(s, scopeOf(s, at))
isStateVariable(variable) == variable.n[3] # ""
isEventParameter(s, at) == ScopeNode(s, at).k = "EventDefinition"
HasParameters(s, at) == ScopeNode(s, at).k \in {"FunctionTypeName", "EventDefinition"} \cup Callables
isReturnParameter(s, at) == ScopeNode(s, at).k \in {"FunctionTypeName", "FunctionDefinition"} /\ at[Len(at) - 1] = 2
isCallableParameter(s, at) == HasParameters(s, at)
isLocalVariable(s, at) == HasParameters(s, at) \/ ScopeNode(s, at).k \in Locals
isExternalCallableParameter(s, at) ==
    ScopeNode(s, at).k = "FunctionDefinition" /\ visibility(ScopeNode(s, at)) = "external" /\ ~isReturnParameter(s, at)
isInternalCallableParameter(s, at) ==
    LET around == ScopeNode(s, at)
    IN \/ around.k = "FunctionTypeName" /\ around.n[1] \in {"", "internal"}
       \/ around.k = "FunctionDefinition" /\ visibility(around) \in {"internal", "private"}
       \/ around.k = "ModifierDefinition"
isLibraryFunctionParameter(s, at) ==
    ScopeNode(s, at).k = "FunctionDefinition" /\ At(s, s.scopes[scopeOf(s, at)].enclosing).n[1] = "library"
(* in the order of the enumeration: the first stands in for a location that is not allowed *)
allowedDataLocations(s, variable, at) ==
    LET category == Category(s, variable.a[1], Append(at, 1))
        StorageIf(b) == IF b THEN <<"storage">> ELSE << >>
    IN IF category = "value" \/ isStateVariable(variable) \/ isEventParameter(s, at) THEN <<"">>
       ELSE IF isExternalCallableParameter(s, at) THEN StorageIf(isLibraryFunctionParameter(s, at)) \o <<"calldata">>
       ELSE IF isCallableParameter(s, at) THEN StorageIf(isInternalCallableParameter(s, at) \/ isLibraryFunctionParameter(s, at)) \o <<"memory">>
       ELSE IF isLocalVariable(s, at) THEN IF category = "mapping" THEN <<"storage">> ELSE <<"storage", "memory">>
       ELSE <<"">>
endVisitVariable(s, variable, at) ==
    LET category == Category(s, variable.a[1], Append(at, 1))
        allowed == allowedDataLocations(s, variable, at)
        given == variable.n[6]
        location == IF Contains(allowed, given) THEN given ELSE allowed[1]
        place == CASE isEventParameter(s, at) -> "memory"
                   [] isStateVariable(variable) -> IF variable.n[5] = "" THEN "storage" ELSE "memory"
                   [] ScopeNode(s, at).k = "StructDefinition" -> "storage"
                   [] OTHER -> location
        declared == IF variable.n[5] # "" /\ ~isStateVariable(variable) THEN [s EXCEPT !.errors = @ \cup {<<"constant", at>>}] ELSE s
        checked == IF Contains(allowed, given) THEN declared ELSE declarationError(declared, "location", at)
    IN IF at \in DOMAIN s.types THEN s
       ELSE IF variable.a[1] = Nil THEN declared
       ELSE [solAssert(checked, category = "value" \/ place # "") EXCEPT
                !.types = (at :> <<TypeOf(s, variable.a[1], Append(at, 1)), IF category = "reference" THEN place ELSE "">>) @@ @]

-----------------------------------------------------------------------------
(* ReferencesResolver *)
(* cleanedDeclarations: overloads that differ in their parameters; their types must be known *)
Lists(s, d) == CASE d.k = "FunctionDefinition" -> {1, 2}
                 [] d.k = "EventDefinition" -> {1}
                 [] OTHER -> {}
Parameters(s, d, list) == [i \in DOMAIN At(s, d.at).a[list].a |-> d.at \o <<list, i>>]
TypesKnown(s, d) == \A list \in Lists(s, d) : \A i \in DOMAIN Parameters(s, d, list) : Parameters(s, d, list)[i] \in DOMAIN s.types
parameterTypes(s, d) == IF d.k = "MagicVariableDeclaration" THEN [i \in 1 .. Builtins[d.at[2]][2] |-> <<Nil, "">>]
                        ELSE [i \in DOMAIN Parameters(s, d, 1) |-> s.types[Parameters(s, d, 1)[i]]]
cleanedDeclarations(s, ds) ==
    Through(LAMBDA unique, d : IF \E i \in DOMAIN unique : parameterTypes(s, unique[i]) = parameterTypes(s, d) THEN unique ELSE Append(unique, d),
            << >>, ds)
Refer(s, at, ds) == [s EXCEPT !.refs = (at :> [i \in DOMAIN ds |-> ds[i].at]) @@ @]
visitIdentifier(s, name, at) ==
    With(nameFromCurrentScope(s, name), LAMBDA ds :
        CASE ds = << >> -> declarationError(s, "undeclared", at)
          [] Len(ds) = 1 -> Refer(s, at, ds)
          [] Len(ds) > 1 /\ \E i \in DOMAIN ds : ~TypesKnown(s, ds[i]) -> fatalError(s, "untyped", at)
          [] OTHER -> Refer(s, at, cleanedDeclarations(s, ds)))
RECURSIVE pathFrom(_, _, _)
pathFrom(s, candidates, path) ==
    CASE Len(candidates) # 1 \/ path = << >> -> candidates
      [] Len(candidates) = 1 /\ path # << >> /\ Scope(s, candidates[1].at) \notin DOMAIN s.scopes -> << >>
      [] OTHER -> pathFrom(s, resolveName(s, Scope(s, candidates[1].at), path[1], FALSE, FALSE), Tail(path))
endVisitTypeName(s, path, at) ==
    With(pathFrom(s, nameFromCurrentScope(s, path[1]), Tail(path)), LAMBDA ds :
        CASE Len(ds) # 1 -> fatalError(s, "path", at)
          [] Len(ds) = 1 /\ ds[1].k \in {"StructDefinition", "EnumDefinition", "ContractDefinition"} -> Refer(s, at, ds)
          [] OTHER -> declarationError(Refer(s, at, ds), "type", at))
endVisitFunctionType(s, type, at) ==
    IF type.n[1] \notin {"", "internal", "external"} \/ (type.n[3] = "payable" /\ type.n[1] # "external") THEN fatalError(s, "functionType", at) ELSE s
(* names ending in _slot and _offset are the position of a storage variable *)
Suffix(name) == CHOOSE e \in {"_slot", "_offset", ""} :
                    \/ e # "" /\ Len(name) >= Len(e) /\ SubSeq(name, Len(name) - Len(e) + 1, Len(name)) = e
                    \/ e = "" /\ \A o \in {"_slot", "_offset"} : Len(name) < Len(o) \/ SubSeq(name, Len(name) - Len(o) + 1, Len(name)) # o
visitAssembly(s, name, at) ==
    LET ds == nameFromCurrentScope(s, name)
        real == SubSeq(name, 1, Len(name) - Len(Suffix(name)))
        found == IF Suffix(name) = "" THEN ds ELSE nameFromCurrentScope(s, real)
    IN CASE Suffix(name) # "" /\ ds # << >> -> s
         [] (Suffix(name) # "" => ds = << >>) /\ real = "" -> declarationError(s, "suffix", at)
         [] OTHER -> IF Len(found) = 1 THEN Refer(s, at, found) ELSE declarationError(s, "assembly", at)
activate(s, variable) == [s EXCEPT !.scopes[s.current] = activateVariable(@, variable.n[1])]
RECURSIVE resolveReferences(_, _, _)
children(s, node, at) == Each(LAMBDA r, n, p : resolveReferences(r, n, p), s, node, at)
resolveReferences(s, node, at) ==
    CASE node = Nil \/ Stopped(s) \/ (node.k \in Locals /\ ~s.inside) -> s
      [] node # Nil /\ ~Stopped(s) /\ node.k \in Locals /\ s.inside ->
           [children([s EXCEPT !.current = at], node, at) EXCEPT !.current = s.scopes[at].enclosing]
      [] node # Nil /\ ~Stopped(s) /\ node.k = "Identifier" -> visitIdentifier(s, node.n[1], at)
      [] node # Nil /\ ~Stopped(s) /\ node.k = "UserDefinedTypeName" -> endVisitTypeName(s, node.n, at)
      [] node # Nil /\ ~Stopped(s) /\ node.k = "InlineAssembly" -> visitAssembly(s, node.n[1], at)
      [] node # Nil /\ ~Stopped(s) /\ node.k \in Callables ->
           [children([s EXCEPT !.returns = Append(@, at)], node, at) EXCEPT !.returns = s.returns]
      [] node # Nil /\ ~Stopped(s) /\ node.k = "Return" ->
           IF s.returns = << >> THEN solAssert(s, FALSE) ELSE children([s EXCEPT !.refs = (at :> <<Last(s.returns)>>) @@ @], node, at)
      [] OTHER ->
           With(children(s, node, at), LAMBDA r :
               CASE Stopped(r) \/ node.k \notin {"FunctionTypeName", "VariableDeclaration", "VariableDeclarationStatement"} -> r
                 [] ~Stopped(r) /\ node.k = "FunctionTypeName" -> endVisitFunctionType(r, node, at)
                 [] ~Stopped(r) /\ node.k = "VariableDeclaration" -> endVisitVariable(r, node, at)
                 [] OTHER -> Through(activate, r, SelectSeq(Front(node.a), LAMBDA v : r.inside /\ v # Nil)))

(* resolveNamesAndTypes of one node: a fatal error ends the node, not the contract around it *)
resolveNode(s, node, at, inside) ==
    With(resolveReferences([s EXCEPT !.inside = inside, !.returns = << >>, !.current = IF at \in DOMAIN s.scopes THEN at ELSE @], node, at),
         LAMBDA r : [r EXCEPT !.fatal = FALSE])
(* resolve the parts of a contract whose numbers are given, from the given scope *)
resolveParts(s, at, parts, scope, inside) ==
    Through(LAMBDA r, i : IF r.broken THEN r ELSE resolveNode([r EXCEPT !.current = scope], At(r, Append(at, i)), Append(at, i), inside), s, parts)
inherit(s, at) ==
    IF s.failed THEN s
    ELSE With(linearizeBaseContracts(s, at), LAMBDA r :
             IF r.fatal THEN r ELSE Through(LAMBDA q, base : importInheritedScope(q, at, base), r, Tail(r.linear[at])))
resolveContract(s, at) ==
    LET n == Len(specifiers(At(s, at)))
        members == [i \in 1 .. Len(At(s, at).a) - n |-> n + i]
    IN With(inherit(resolveParts([s EXCEPT !.failed = FALSE], at, [i \in 1 .. n |-> i], <<at[1]>>, TRUE), at), LAMBDA inherited :
       IF Stopped(inherited) THEN [inherited EXCEPT !.fatal = FALSE]
       ELSE With(resolveParts(inherited, at, members, at, FALSE), LAMBDA outside :
            IF outside.failed \/ outside.broken THEN outside ELSE resolveParts(outside, at, members, at, TRUE)))
withThisAndSuper(s, at) == [s EXCEPT !.scopes[Global] = updated(updated(@, currentThis(at)), currentSuper(at))]

(* CompilerStack::analyze, up to the resolved names *)
contracts(s) ==
    SelectSeq(FlattenSeq([i \in DOMAIN s.sources |-> [j \in DOMAIN s.sources[i].a |-> <<i, j>>]]), LAMBDA p : At(s, p).k = "ContractDefinition")
analyzeNames(names, units) ==
    With(Through(LAMBDA r, i : registerDeclarations([r EXCEPT !.current = Global], units[i], <<i>>), Start(names, units), [i \in DOMAIN units |-> i]),
         LAMBDA declared :
    IF declared.broken THEN declared
    ELSE With(Through(LAMBDA r, i : IF r.errors # declared.errors THEN r ELSE performImports(r, <<i>>), declared, [i \in DOMAIN units |-> i]), LAMBDA imported :
         IF imported.errors # declared.errors THEN imported
         ELSE Through(LAMBDA r, at : IF r.failed \/ r.broken THEN r ELSE resolveContract(resolveFactMemberReferences(withThisAndSuper(r, at), at), at),
                      imported, contracts(imported))))

-----------------------------------------------------------------------------
(* The reference: what names mean by the nesting of the source and the order of bases *)
RECURSIVE PathsIn(_, _)
PathsIn(node, at) == IF node.k \in {"nil", "symbol"} THEN {} ELSE {at} \cup UNION {PathsIn(node.a[i], Append(at, i)) : i \in DOMAIN node.a}
Paths(s) == UNION {PathsIn(s.sources[i], <<i>>) : i \in DOMAIN s.sources}
Around(p) == {SubSeq(p, 1, n) : n \in 1 .. Len(p) - 1}
Precedes(p, q) == \E n \in DOMAIN p \cap DOMAIN q : p[n] < q[n] /\ SubSeq(p, 1, n - 1) = SubSeq(q, 1, n - 1)
Regions == {"SourceUnit"} \cup Opening \cup Entered
Region(s, p) == CHOOSE q \in Around(p) : At(s, q).k \in Regions /\ \A r \in Around(p) : At(s, r).k \in Regions => Len(r) <= Len(q)
Declaring == (Opening \cup {"EnumValue", "VariableDeclaration", "ImportDirective"})
(* the declarations of the source: their paths, kinds, names and regions *)
Declared(s) == {[at |-> p, k |-> At(s, p).k, name |-> declaredName(At(s, p)), region |-> Region(s, p), visibility |-> visibility(At(s, p))] :
                    p \in {p \in Paths(s) : At(s, p).k \in Declaring /\ declaredName(At(s, p)) # ""}}
Sorted(ds) == SetToSortSeq(ds, LAMBDA d, e : Precedes(d.at, e.at))
(* the declarations a source unit imports, with the names it gives them *)
Imports(s, ds, unit) ==
    UNION {LET import == At(s, unit).a[i]
               others == {d \in ds : d.region = Importee(s, import)}
           IN IF import.a = << >> THEN IF import.n[2] = "" THEN others ELSE {}
              ELSE UNION {{[d EXCEPT !.name = IF import.a[j].n[2] = "" THEN @ ELSE import.a[j].n[2]] : d \in {d \in others : d.name = import.a[j].n[1]}} :
                             j \in DOMAIN import.a}
           : i \in {i \in DOMAIN At(s, unit).a : At(s, unit).a[i].k = "ImportDirective"}}
AllImports(s, ds) == UNION {Imports(s, ds, <<i>>) : i \in DOMAIN s.sources}
(* what a name means in a region, seen from a use of it *)
Local(s, d, use) == At(s, d.region).k \in Locals => Precedes(Front(d.at), use)
Linear(s, c) == IF c \in DOMAIN s.linear THEN s.linear[c] ELSE <<c>>
Members(s, ds, contract, name) ==
    FlattenSeq([i \in DOMAIN Linear(s, contract) |->
        Sorted({d \in ds : d.region = Linear(s, contract)[i] /\ d.name = name /\ d.visibility # "external" /\ (i > 1 => d.visibility # "private")})])
Distinct(s, seq) == SelectSeq([i \in DOMAIN seq |-> [d |-> seq[i], i |-> i]],
                              LAMBDA e : \A j \in 1 .. e.i - 1 : parameterTypes(s, seq[j]) # parameterTypes(s, e.d))
Overloads(s, seq) == CASE Len(seq) <= 1 -> seq
                       [] Len(seq) > 1 /\ seq[1].k \in Overloadable /\ (\A i \in DOMAIN seq : TypesKnown(s, seq[i])) -> [i \in DOMAIN Distinct(s, seq) |-> Distinct(s, seq)[i].d]
                       [] OTHER -> <<seq[1]>>
MeantIn(s, ds, region, name, use) ==
    CASE At(s, region).k = "ContractDefinition" -> Overloads(s, Members(s, ds, region, name))
      [] At(s, region).k = "SourceUnit" -> Sorted({d \in ds \cup Imports(s, ds, region) : d.name = name /\ (d.region = region \/ d \in Imports(s, ds, region))})
      [] OTHER -> Sorted({d \in ds : d.region = region /\ d.name = name /\ Local(s, d, use)})
Builtin(s, name, use) ==
    CASE name = "this" -> <<currentThis(SubSeq(use, 1, 2)).at>>
      [] name = "super" -> <<currentSuper(SubSeq(use, 1, 2)).at>>
      [] OTHER -> SelectSeq([i \in DOMAIN Builtins |-> Append(Global, i)], LAMBDA p : Builtins[p[2]][1] = name)
(* the arguments of a base are outside the contract; a function type has no names for its parts *)
Regional(s, use) ==
    LET all == {p \in Around(use) : At(s, p).k \in Regions \ {"FunctionTypeName"}}
    IN IF \E p \in Around(use) : At(s, p).k = "InheritanceSpecifier" THEN {p \in all : Len(p) = 1} ELSE all
Meaning(s, ds, name, use) ==
    LET inner == {p \in Regional(s, use) : MeantIn(s, ds, p, name, use) # << >>}
        found == MeantIn(s, ds, CHOOSE p \in inner : \A q \in inner : Len(q) <= Len(p), name, use)
    IN IF inner = {} THEN Builtin(s, name, use) ELSE [i \in DOMAIN found |-> found[i].at]
RECURSIVE Follow(_, _, _, _, _)
Follow(s, ds, meant, path, use) ==
    IF Len(meant) # 1 \/ path = << >> THEN meant
    ELSE LET region == IF Kind(s, meant[1]) = "ImportDirective" THEN Importee(s, At(s, meant[1])) ELSE meant[1]
             found == IF Kind(s, region) \in Regions THEN MeantIn(s, ds, region, path[1], use) ELSE << >>
         IN Follow(s, ds, [i \in DOMAIN found |-> found[i].at], Tail(path), use)
Uses(s) == {p \in Paths(s) : At(s, p).k \in {"Identifier", "UserDefinedTypeName"}}
Meant(s, ds, use) == Follow(s, ds, Meaning(s, ds, At(s, use).n[1], use), IF At(s, use).k = "Identifier" THEN << >> ELSE Tail(At(s, use).n), use)
(* two declarations that cannot share a name *)
Clash(d, e) == d.name = e.name /\ d.at # e.at /\ (d.k # e.k \/ d.k \notin Overloadable)
Conflict(s, ds) ==
    \/ \E d, e \in ds : d.region = e.region /\ Clash(d, e)
    \/ \E i \in DOMAIN s.sources : \E d \in Imports(s, ds, <<i>>) : \E e \in ds \cup Imports(s, ds, <<i>>) :
           (e.region = <<i>> \/ e \in Imports(s, ds, <<i>>)) /\ Clash(d, e)
    \/ \E c \in DOMAIN s.linear : \E d, e \in ds :
           /\ \E i, j \in DOMAIN s.linear[c] : i < j /\ d.region = s.linear[c][i] /\ e.region = s.linear[c][j]
           /\ Clash(d, e) /\ ~Shadows(d, e) /\ isVisibleInDerivedContracts(e)
           /\ d.region = c \/ isVisibleInDerivedContracts(d)

(* an order of a contract and its bases that keeps those of its bases and the reverse of its own list *)
Bases(s, c) == [i \in DOMAIN specifiers(At(s, c)) |-> Base(s, c, i)]
Position(order, c) == CHOOSE i \in DOMAIN order : order[i] = c
Keeps(order, list) == \A i, j \in DOMAIN list : i < j => Position(order, list[i]) < Position(order, list[j])
Family(s, c) == {c} \cup UNION {Range(s.linear[Bases(s, c)[i]]) : i \in DOMAIN Bases(s, c)}
Orders(s, c) == {order \in SetToSeqs(Family(s, c)) :
                    /\ Keeps(order, <<c>> \o Reverse(Bases(s, c)))
                    /\ \A i \in DOMAIN Bases(s, c) : Keeps(order, s.linear[Bases(s, c)[i]])}
LinearizedOrNot(s) ==
    /\ \A c \in DOMAIN s.linear : s.linear[c] \in Orders(s, c)
    /\ \A e \in s.errors : e[1] = "linearization" => Orders(s, e[2]) = {}

(* in patterns, before anything is inherited: a name without a meaning is a member of the fact, *)
(* unless it is an argument of a call                                                          *)
Asked(s, p) == At(s, p).k = "Identifier" /\ \E q \in Around(p) : At(s, q).k = "FactDeclaration"
Argument(s, p) == At(s, Front(p)).k \in {"FunctionCall", "EniCall"} /\ Last(p) > 1
FactAround(s, p) == At(s, CHOOSE q \in Around(p) : At(s, q).k = "FactDeclaration")
MembersFound(s, units) ==
    LET before == [s EXCEPT !.sources = units, !.linear = << >>]
        ds == Declared(before)
    IN \A p \in {p \in Paths(before) : Asked(before, p)} :
           At(s, p) = IF Meaning(before, ds, At(before, p).n[1], p) = << >> /\ ~Argument(before, p)
                      THEN MemberAccess(Identifier(FactAround(before, p).n[1]), At(before, p).n[1]) ELSE At(before, p)

(* a storage pointer does not cross the interface of a contract, call data belongs to external calls *)
InPlace(s, v) ==
    LET location == s.types[v][2]
        around == At(s, Region(s, v))
        contract == At(s, Front(Region(s, v)))
        given == At(s, v).n[6]
    IN /\ Category(s, At(s, v).a[1], Append(v, 1)) = "reference" <=> location # ""
       /\ given # "" /\ location # "" => location = given
       /\ location = "storage" /\ around.k = "FunctionDefinition" => around.n[3] \in {"internal", "private"} \/ contract.n[1] = "library"
       /\ location = "calldata" => around.k = "FunctionDefinition" /\ around.n[3] = "external" /\ v[Len(v) - 1] = 1

(* a declaration that hides an earlier one around it, or a builtin, is warned about, and no other *)
Hides(s, ds, d) ==
    /\ At(s, d.region).k \notin {"StructDefinition", "EnumDefinition", "EventDefinition"}
    /\ \/ \E e \in ds : e.name = d.name /\ e.region \in Around(d.region) /\ (Precedes(e.at, d.at) \/ e.at \in Around(d.at))
       \/ d.name \in {Builtins[i][1] : i \in DOMAIN Builtins}
Warned(s) == {w[2] : w \in s.warnings}
=============================================================================
