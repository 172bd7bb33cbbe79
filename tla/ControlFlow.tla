---------------------------- MODULE ControlFlow -----------------------------
(* Control flow analysis: the graph of each function and modifier of a        *)
(* contract (ControlFlowBuilder), modifiers applied to functions              *)
(* (ControlFlowGraph), and the search for storage pointers that a function    *)
(* may return without having assigned them (ControlFlowAnalyzer).  Names are  *)
(* not shadowed, so that a name is the variable it refers to; an assembly     *)
(* block stands for the one variable it mentions.                             *)
EXTENDS SyntaxTree, SequencesExt

(* a graph: the exits, entries and block of each node, counted from 1; what   *)
(* the builder keeps beside it: the current node, the targets of break and    *)
(* continue, the flow it builds, and the nodes of the last split and branch   *)
EmptyBlock == [expressions |-> {}, assembly |-> {}, returns |-> ""]
EmptyGraph == [exits |-> << >>, entries |-> << >>, block |-> << >>]
Builder(g, flow) == [g |-> g, cur |-> flow.entry, brk |-> 0, cont |-> 0, flow |-> flow, split |-> <<0, 0>>, end |-> 0]

newNode(g) == [exits |-> Append(g.exits, {}), entries |-> Append(g.entries, {}), block |-> Append(g.block, EmptyBlock)]
Newest(g) == Len(g.exits)
connect(b, from, to) == [b EXCEPT !.g.exits[from] = @ \cup {to}, !.g.entries[to] = @ \cup {from}]
newLabel(b) == With([b EXCEPT !.g = newNode(b.g)], LAMBDA r : [r EXCEPT !.cur = Newest(r.g)])
placeAndConnectLabel(b, label) == [connect(b, b.cur, label) EXCEPT !.cur = label]
createLabelHere(b) == With([b EXCEPT !.g = newNode(b.g)], LAMBDA r : placeAndConnectLabel(r, Newest(r.g)))
(* control leaves the current node for good; what follows is not reached from it *)
leave(b, to) == newLabel(connect(b, b.cur, to))
splitFlow(b) ==
    With([b EXCEPT !.g = newNode(newNode(b.g))], LAMBDA r :
        [connect(connect(r, r.cur, Newest(r.g) - 1), r.cur, Newest(r.g)) EXCEPT !.cur = 0, !.split = <<Newest(r.g) - 1, Newest(r.g)>>])
mergeFlow(b, nodes, end) ==
    [Through(LAMBDA r, n : IF n = end THEN r ELSE connect(r, n, end), b, nodes) EXCEPT !.cur = end]
mergeToNew(b, nodes) == With([b EXCEPT !.g = newNode(b.g)], LAMBDA r : mergeFlow(r, nodes, Newest(r.g)))

(* ASTNode::accept: the visit, and the visits of the children unless they were made already *)
RECURSIVE accept(_, _)
listAccept(b, nodes) == Through(LAMBDA r, n : accept(r, n), b, nodes)
(* the flow of a node from entry on, with its end in end *)
createFlow(b, entry, node) == With(accept([b EXCEPT !.cur = entry], node), LAMBDA r : [r EXCEPT !.end = r.cur, !.cur = b.cur])
BreakContinueScope(b, brk, cont, body) ==
    With(accept([b EXCEPT !.brk = brk, !.cont = cont], body), LAMBDA r : [r EXCEPT !.brk = b.brk, !.cont = b.cont])

visitNode(b, e) ==
    CASE e.k = "Assignment" -> [b EXCEPT !.g.block[b.cur].expressions = @ \cup {e}]
      [] e.k = "InlineAssembly" -> [b EXCEPT !.g.block[b.cur].assembly = @ \cup {e.n[1]}]
      [] OTHER -> b
visitShortCircuit(b, e) ==
    With(splitFlow(accept(b, e.a[1])), LAMBDA s :
    With(createFlow(s, s.split[1], e.a[2]), LAMBDA r : mergeFlow(r, <<r.end, s.split[2]>>, s.split[2])))
visitConditional(b, e) ==
    With(splitFlow(accept(b, e.a[1])), LAMBDA s :
    With(createFlow(s, s.split[1], e.a[2]), LAMBDA p :
    With(createFlow(p, s.split[2], e.a[3]), LAMBDA q : mergeToNew(q, <<p.end, q.end>>))))
visitIf(b, e) ==
    With(splitFlow(accept(b, e.a[1])), LAMBDA s :
    With(createFlow(s, s.split[1], e.a[2]), LAMBDA p :
        IF e.a[3] = Nil THEN mergeFlow(p, <<p.end, s.split[2]>>, s.split[2])
        ELSE With(createFlow(p, s.split[2], e.a[3]), LAMBDA q : mergeToNew(q, <<p.end, q.end>>))))
visitFor(b, e) ==
    With(createLabelHere(accept(b, e.a[1])), LAMBDA c :
    With(accept(c, e.a[2]), LAMBDA d :
    With([d EXCEPT !.g = newNode(d.g)], LAMBDA l :
    With(splitFlow(l), LAMBDA s :
    With(BreakContinueScope([s EXCEPT !.cur = s.split[1]], s.split[2], Newest(l.g), e.a[4]), LAMBDA r :
    With(accept(placeAndConnectLabel(r, Newest(l.g)), e.a[3]), LAMBDA t :
        [connect(t, t.cur, c.cur) EXCEPT !.cur = s.split[2]]))))))
(* mutant: continue starts the body again without its condition *)
MutVisitDoWhile(b, e) ==
    With([b EXCEPT !.g = newNode(b.g)], LAMBDA a :
    With(createLabelHere(a), LAMBDA w :
    With(BreakContinueScope(w, Newest(a.g), w.cur, e.a[2]), LAMBDA r :
    With(accept(r, e.a[1]), LAMBDA t :
        placeAndConnectLabel(connect(t, t.cur, w.cur), Newest(a.g))))))
visitDoWhile(b, e) ==
    With([b EXCEPT !.g = newNode(b.g)], LAMBDA a :
    With(createLabelHere(a), LAMBDA w :
    With([w EXCEPT !.g = newNode(w.g)], LAMBDA c :
    With(BreakContinueScope(c, Newest(a.g), Newest(c.g), e.a[2]), LAMBDA r :
    With(accept(placeAndConnectLabel(r, Newest(c.g)), e.a[1]), LAMBDA t :
        placeAndConnectLabel(connect(t, t.cur, w.cur), Newest(a.g)))))))
visitWhile(b, e) ==
    With(createLabelHere(b), LAMBDA c :
    With(splitFlow(accept(c, e.a[1])), LAMBDA s :
    With(BreakContinueScope([s EXCEPT !.cur = s.split[1]], s.split[2], c.cur, e.a[2]), LAMBDA r :
        [connect(r, r.cur, c.cur) EXCEPT !.cur = s.split[2]])))
visitReturn(b, e) ==
    accept(leave([b EXCEPT !.g.block[b.cur].returns = IF e.a[1] = Nil THEN "nothing" ELSE "value"], b.flow.exit), e.a[1])
visitPlaceholder(b) ==
    With(leave(b, b.flow.placeholderEntry), LAMBDA r : connect(r, r.flow.placeholderExit, r.cur))
(* the functions that end an execution are known by their types; nothing else has their names *)
Named(e, names) == e.k = "FunctionCall" /\ e.a[1].k = "Identifier" /\ e.a[1].n[1] \in names
visitRequire(b, e) ==
    With(listAccept(b, e.a), LAMBDA r : createLabelHere(connect(r, r.cur, r.flow.revert)))

ShortCircuit(e) == e.k = "BinaryOperation" /\ e.n[1] \in {"||", "&&"}
accept(b, e) ==
    CASE e.k = "nil" -> b
      [] ShortCircuit(e) -> visitShortCircuit(b, e)
      [] e.k = "Conditional" -> visitConditional(b, e)
      [] e.k = "IfStatement" -> visitIf(b, e)
      [] e.k = "ForStatement" -> visitFor(b, e)
      [] e.k = "WhileStatement" /\ e.n[1] = "do" -> visitDoWhile(b, e)
      [] e.k = "WhileStatement" /\ e.n[1] # "do" -> visitWhile(b, e)
      [] e.k = "Break" -> leave(b, b.brk)
      [] e.k = "Continue" -> leave(b, b.cont)
      [] e.k = "Throw" -> leave(b, b.flow.revert)
      [] e.k = "Block" -> createLabelHere(listAccept(createLabelHere(b), e.a))
      [] e.k = "Return" -> visitReturn(b, e)
      [] e.k = "PlaceholderStatement" -> visitPlaceholder(b)
      [] Named(e, {"revert"}) -> With(listAccept(b, e.a), LAMBDA r : leave(r, r.flow.revert))
      [] Named(e, {"require", "assert"}) -> visitRequire(b, e)
      [] OTHER -> listAccept(visitNode(b, e), e.a)

-----------------------------------------------------------------------------
(* the flows of a contract; entry, exit, revert and the placeholder's nodes come first *)
FirstNodes(n, modifier) ==
    [entry |-> n + 1, exit |-> n + 2, revert |-> n + 3,
     placeholderEntry |-> IF modifier THEN n + 4 ELSE 0, placeholderExit |-> IF modifier THEN n + 5 ELSE 0]
createFlowOf(g, definition) ==
    With(definition.k = "ModifierDefinition", LAMBDA modifier :
    With(FirstNodes(Newest(g), modifier), LAMBDA flow :
    With(Builder(Through(LAMBDA h, i : newNode(h), g, IF modifier THEN <<1, 2, 3, 4, 5>> ELSE <<1, 2, 3>>), flow), LAMBDA b :
    With(listAccept(b, definition.a), LAMBDA r : [g |-> connect(r, r.cur, flow.exit).g, flow |-> flow]))))

(* a node of a modifier that has no copy yet gets one, and waits for its own edges *)
copyOf(st, n) == IF n \in DOMAIN st.to THEN st
                 ELSE With(newNode(st.g), LAMBDA g : [g |-> g, to |-> (n :> Newest(g)) @@ st.to, todo |-> Append(st.todo, n)])
RECURSIVE copyNodes(_)
copyNodes(st) ==
    IF st.todo = << >> THEN st
    ELSE With(st.todo[Len(st.todo)], LAMBDA n :
         With(Through(LAMBDA r, m : copyOf(r, m), [st EXCEPT !.todo = Front(@)],
                      SetToSeq(st.g.entries[n] \cup st.g.exits[n])), LAMBDA r :
             copyNodes([r EXCEPT !.g.block[r.to[n]] = r.g.block[n],
                                 !.g.entries[r.to[n]] = @ \cup {r.to[m] : m \in r.g.entries[n]},
                                 !.g.exits[r.to[n]] = @ \cup {r.to[m] : m \in r.g.exits[n]}])))
applyModifierFlowToFunctionFlow(f, modifier) ==
    With(newNode(f.g), LAMBDA g :
    With(copyNodes([g |-> g, todo |-> <<modifier.entry>>,
                    to |-> (modifier.revert :> f.flow.revert) @@ (modifier.placeholderEntry :> f.flow.entry)
                           @@ (modifier.placeholderExit :> f.flow.exit) @@ (modifier.entry :> Newest(g))]), LAMBDA st :
    With(copyOf(st, modifier.exit), LAMBDA r :
        [g |-> r.g, flow |-> [f.flow EXCEPT !.entry = r.to[modifier.entry], !.exit = r.to[modifier.exit]]])))

(* the flow of one function of a contract with its modifiers, the last one applied first *)
Invocations(function) == SelectSeq(function.a, LAMBDA a : a.k = "ModifierInvocation")
modifierNamed(contract, name) == CHOOSE d \in ToSet(contract.a) : d.k = "ModifierDefinition" /\ d.n[1] = name
functionFlow(contract, function) ==
    Through(LAMBDA f, invocation :
                With(createFlowOf(f.g, modifierNamed(contract, invocation.a[1].n[1])), LAMBDA m :
                    applyModifierFlowToFunctionFlow([g |-> m.g, flow |-> f.flow], m.flow)),
            createFlowOf(EmptyGraph, function), Reverse(Invocations(function)))

-----------------------------------------------------------------------------
RECURSIVE Targets(_)
Targets(e) == CASE e.k = "TupleExpression" -> UNION {Targets(e.a[i]) : i \in DOMAIN e.a}
                [] e.k = "Identifier" -> {e.n[1]}
                [] OTHER -> {}
variablesAssignedInNode(block) == UNION {Targets(e.a[1]) : e \in block.expressions}
Remaining(block, unassigned) ==
    IF block.returns = "value" THEN {} ELSE unassigned \ (variablesAssignedInNode(block) \cup block.assembly)
StorageReturns(function) ==
    {v.n[1] : v \in {v \in ToSet(function.a[2].a) : v.n[6] = "storage" \/ v.a[1].k = "Mapping"}}

(* walk all paths with the largest sets of unassigned return values *)
RECURSIVE traverse(_, _, _)
traverse(g, unassigned, todo) ==
    IF todo = << >> THEN unassigned
    ELSE With(todo[Len(todo)], LAMBDA n :
         With(Remaining(g.block[n], unassigned[n]), LAMBDA left :
         With({m \in g.exits[n] : ~(left \subseteq (IF m = n THEN left ELSE unassigned[m]))}, LAMBDA grown :
             traverse(g, [m \in DOMAIN unassigned |-> (IF m = n THEN left ELSE unassigned[m]) \cup (IF m \in g.exits[n] THEN left ELSE {})] @@ << >>,
                      Front(todo) \o SetToSeq(grown)))))
checkUnassignedStorageReturnValues(function, f) ==
    traverse(f.g, [n \in DOMAIN f.g.exits |-> IF n = f.flow.entry THEN StorageReturns(function) ELSE {}], <<f.flow.entry>>)[f.flow.exit]
(* the variables for which an error is reported *)
Reported(contract, function) == With(functionFlow(contract, function), LAMBDA f : checkUnassignedStorageReturnValues(function, f))

-----------------------------------------------------------------------------
(* Reference: how an execution may leave a piece of syntax (go on, break,     *)
(* continue, return or revert) and which variables it has assigned then, when *)
(* it begins with the variables of A assigned and every condition may hold or *)
(* not.  inner: how the code at a placeholder may be left.                    *)
RECURSIVE Ways(_, _, _), Turns(_, _, _, _, _), WaysOf(_, _, _)
Go(A) == {<<"go", A>>}
On(ways, F(_)) == {w \in ways : w[1] # "go"} \cup UNION {F(w[2]) : w \in {w \in ways : w[1] = "go"}}
WaysOf(es, A, inner) == IF es = << >> THEN Go(A) ELSE On(Ways(es[1], A, inner), LAMBDA B : WaysOf(Tail(es), B, inner))
(* at the head of a loop with any of the sets of heads assigned, first then second makes a turn *)
AfterBody(ways) == {IF w[1] = "continue" THEN <<"go", w[2]>> ELSE w : w \in ways}
Turn(A, parts, body, after, inner) ==
    On(WaysOf(parts, A, inner), LAMBDA B : On(AfterBody(Ways(body, B, inner)), LAMBDA C : WaysOf(after, C, inner)))
Turns(heads, parts, body, after, inner) ==
    LET all == UNION {Turn(A, parts, body, after, inner) : A \in heads}
        next == heads \cup {w[2] : w \in {w \in all : w[1] = "go"}}
    IN  IF next = heads THEN [heads |-> heads, ways |-> all] ELSE Turns(next, parts, body, after, inner)
Out(ways) == {IF w[1] = "break" THEN <<"go", w[2]>> ELSE w : w \in {w \in ways : w[1] # "go"}}
Ways(e, A, inner) ==
    CASE e.k = "nil" -> Go(A)
      [] ShortCircuit(e) -> On(Ways(e.a[1], A, inner), LAMBDA B : Go(B) \cup Ways(e.a[2], B, inner))
      [] e.k \in {"IfStatement", "Conditional"} -> On(Ways(e.a[1], A, inner), LAMBDA B : Ways(e.a[2], B, inner) \cup Ways(e.a[3], B, inner))
      [] e.k = "WhileStatement" ->
            IF e.n[1] = "do"
            THEN With(Turns({A}, << >>, e.a[2], <<e.a[1]>>, inner), LAMBDA t : Out(t.ways) \cup {w \in t.ways : w[1] = "go"})
            ELSE With(Turns({A}, <<e.a[1]>>, e.a[2], << >>, inner), LAMBDA t :
                     Out(t.ways) \cup UNION {Ways(e.a[1], B, inner) : B \in t.heads})
      [] e.k = "ForStatement" ->
            On(Ways(e.a[1], A, inner), LAMBDA B :
                With(Turns({B}, <<e.a[2]>>, e.a[4], <<e.a[3]>>, inner), LAMBDA t :
                    Out(t.ways) \cup UNION {Ways(e.a[2], C, inner) : C \in t.heads}))
      [] e.k \in {"Break", "Continue"} -> {<<IF e.k = "Break" THEN "break" ELSE "continue", A>>}
      [] e.k = "Throw" -> {<<"revert", A>>}
      [] e.k = "Return" -> {<<"return", IF e.a[1] = Nil THEN A ELSE {"all"}>>}
      [] e.k = "PlaceholderStatement" -> On(inner, LAMBDA B : Go(A \cup B))
      [] Named(e, {"revert"}) -> On(WaysOf(e.a, A, inner), LAMBDA B : {<<"revert", B>>})
      [] Named(e, {"require", "assert"}) -> On(WaysOf(e.a, A, inner), LAMBDA B : {<<"revert", B>>, <<"go", B>>})
      [] e.k = "Assignment" -> On(WaysOf(e.a, A, inner), LAMBDA B : Go(B \cup Targets(e.a[1])))
      [] e.k = "InlineAssembly" -> Go(A \cup {e.n[1]})
      [] OTHER -> WaysOf(e.a, A, inner)
(* at its end a function or a modifier goes on behind the placeholder around it *)
Ended(ways) == {IF w[1] = "return" THEN <<"go", w[2]>> ELSE w : w \in ways}
LeftUnassigned(function, ways) ==
    {v \in StorageReturns(function) : \E w \in ways : w[1] = "go" /\ w[2] \cap {v, "all"} = {}}
RECURSIVE Wrapped(_, _, _)
Wrapped(contract, invocations, ways) ==
    IF invocations = << >> THEN ways
    ELSE Wrapped(contract, Front(invocations),
                 Ended(Ways(modifierNamed(contract, invocations[Len(invocations)].a[1].n[1]).a[2], {}, ways)))
(* what may be unassigned when the function has returned, and when its first *)
(* modifier has done so without executing anything at its placeholder        *)
MayReturnUnassigned(contract, function) ==
    LeftUnassigned(function, Wrapped(contract, Invocations(function), Ended(Ways(function.a[Len(function.a)], {}, {}))))
SkippedUnassigned(contract, function) ==
    LeftUnassigned(function, Wrapped(contract, SubSeq(Invocations(function), 1, 1), {}))
=============================================================================
