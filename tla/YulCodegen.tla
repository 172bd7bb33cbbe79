----------------------------- MODULE YulCodegen -----------------------------
(***************************************************************************)
(* Inline assembly from tree to EVM code: ScopeFiller registers names,     *)
(* AsmAnalyzer checks the tree and records the stack height after every    *)
(* node, CodeTransform emits items through EthAssemblyAdapter and asserts  *)
(* those heights again.                                                    *)
(*                                                                         *)
(* Nodes and scopes are known by their paths: statement i of a block, its  *)
(* block j, 0 for the scope of a function's parameters, -1 for its         *)
(* expression, then argument numbers.  Besides the statements of YulSyntax *)
(* there are the loose ones: "label", "instr", "stackasg".                 *)
(*                                                                         *)
(* A unit is [b, ext, h0, loose]: the block, the Solidity declarations it  *)
(* may name, the stack height it begins at, whether loose features are     *)
(* allowed (assembler input) or errors (inline assembly).                  *)
(***************************************************************************)
EXTENDS YulSyntax

CONSTANT StackReach     \* 16: DUP and SWAP reach that deep

Label(n) == St("label", <<n>>, "", << >>, << >>, << >>, << >>, << >>)
Instr(o) == St("instr", << >>, o, << >>, << >>, << >>, << >>, << >>)
StackAsg(n) == St("stackasg", <<n>>, "", << >>, << >>, << >>, << >>, << >>)

(* instructionInfo: what an instruction takes from the stack and leaves on it *)
Returned(op) == IF op \in {"sstore", "pop", "jump", "jumpi"} THEN 0 ELSE 1
Taken(op) == CASE op \in {"not", "iszero", "sload", "calldataload", "pop", "jump"} -> 1
               [] op \in {"addmod", "mulmod"} -> 3
               [] op \in {"address", "caller", "origin", "coinbase"} -> 0
               [] OTHER -> 2

(***************************************************************************)
(* Scopes                                                                  *)
(***************************************************************************)
RECURSIVE lookup(_, _, _, _), exists(_, _, _), insideFunction(_, _)
lookup(scopes, p, n, crossed) ==
    LET s == scopes[p]
    IN IF n \in DOMAIN s.ids THEN (IF crossed /\ s.ids[n].k = "var" THEN << >> ELSE <<s.ids[n]>>)
       ELSE IF s.up = << >> THEN << >>
       ELSE lookup(scopes, s.up[1], n, crossed \/ s.fn)
exists(scopes, p, n) ==
    n \in DOMAIN scopes[p].ids \/ (scopes[p].up # << >> /\ exists(scopes, scopes[p].up[1], n))
insideFunction(scopes, p) ==
    scopes[p].fn \/ (scopes[p].up # << >> /\ insideFunction(scopes, scopes[p].up[1]))
numberOfVariables(scopes, p) == Cardinality({n \in DOMAIN scopes[p].ids : scopes[p].ids[n].k = "var"})

(* registerVariable, registerFunction, registerLabel: a name taken here or further out is an error *)
register(st, p, n, kind, args, rets) ==
    IF exists(st.scopes, p, n) THEN [st EXCEPT !.ok = FALSE]
    ELSE [st EXCEPT !.scopes[p].ids = (n :> [k |-> kind, at |-> p, n |-> n, a |-> args, r |-> rets]) @@ @]
registerVariables(st, p, names) == Through(LAMBDA x, n : register(x, p, n, "var", 0, 0), st, names)
enterScope(st, p, up, fn) == [st EXCEPT !.scopes = (p :> [ids |-> << >>, up |-> up, fn |-> fn]) @@ @]

RECURSIVE FillB(_, _, _, _)
FillS(st, s, p, path) ==
    LET bodies(x, up, js) == Through(LAMBDA y, j : FillB(y, s.bs[j], Append(path, j), <<up>>), x, js)
        virtual == Append(path, 0)
    IN CASE s.k = "let" -> registerVariables(st, p, s.n)
         [] s.k = "label" -> register(st, p, s.n[1], "label", 0, 0)
         [] s.k = "fn" ->
              LET f == register(st, p, s.f, "fun", Len(s.ps), Len(s.rs))
                  v == registerVariables(enterScope(f, virtual, <<p>>, TRUE), virtual, s.ps \o s.rs)
              IN bodies(v, virtual, <<1>>)
         [] s.k = "for" -> bodies(bodies(st, p, <<1>>), Append(path, 1), <<3, 2>>)
         [] OTHER -> bodies(st, p, [j \in DOMAIN s.bs |-> j])
FillB(st, b, p, up) ==
    Through(LAMBDA x, i : FillS(x, b[i], p, Append(p, i)), enterScope(st, p, up, FALSE), [i \in DOMAIN b |-> i])
ScopeFiller(b) == FillB([scopes |-> << >>, ok |-> TRUE], b, << >>, << >>)

(***************************************************************************)
(* Declarations outside of the block.  An entry of ext has: count, decl    *)
(* ("local", "state", "function", "library", "contract"), suffix ("",      *)
(* "slot", "offset"), storage (points to storage), size on the stack,      *)
(* constant, base (stack offset), slot and offset.                         *)
(***************************************************************************)
(* ReferencesResolver: which declaration a name refers to *)
Referenced(e, inside) == e.count = 1 /\ ~(e.decl = "local" /\ inside)
(* TypeChecker: whether it may be used that way; the result is its size *)
Usable(e, context) ==
    LET requiresStorage == e.suffix # ""
    IN IF e.decl \in {"local", "state"}
       THEN /\ ~e.constant
            /\ IF requiresStorage THEN (e.decl = "state" \/ e.storage) /\ context = "R"
               ELSE e.decl = "local" /\ ~e.storage /\ e.size = 1
       ELSE ~requiresStorage /\ context = "R" /\ e.decl # "contract"
Resolvable(g, n, context, p) ==
    n \in DOMAIN g.ext /\ Referenced(g.ext[n], insideFunction(g.scopes, p)) /\ Usable(g.ext[n], context)

(***************************************************************************)
(* AsmAnalyzer: a has the height h, the active variables, whether all is   *)
(* well so far, and the height recorded for each node                      *)
(***************************************************************************)
Also(a, c) == [a EXCEPT !.ok = @ /\ c]
Grow(a, n) == [a EXCEPT !.h = @ + n]
Record(a, path) == [a EXCEPT !.info = (path :> a.h) @@ @]
MutReversed(s) == [i \in DOMAIN s |-> i]
Reversed(s) == [i \in DOMAIN s |-> Len(s) + 1 - i]

RECURSIVE AnE(_, _, _, _, _)
expectExpression(a, e, p, path, g) == LET x == AnE(a, e, p, path, g) IN Also(x, x.h - a.h = 1)
AnArgs(a, es, p, path, g) ==
    Through(LAMBDA x, i : expectExpression(x, es[i], p, Append(path, i), g), a, Reversed(es))
AnE(a, e, p, path, g) ==
    LET id == lookup(g.scopes, p, e.n, FALSE)
        args == AnArgs(a, e.a, p, path, g)
        fun == id # << >> /\ id[1].k = "fun"
    IN CASE e.k = "lit" -> Record(Also(Grow(a, 1), e.v \in Word), path)
         [] e.k = "id" ->
              IF id = << >> THEN Record(Also(Grow(a, 1), Resolvable(g, e.n, "R", p)), path)
              ELSE IF fun THEN Record(Also(a, FALSE), path)
              ELSE Record(Also(Grow(a, 1), id[1].k = "label" \/ <<id[1].at, e.n>> \in a.active), path)
         [] e.k = "op" -> Record(Grow(args, Returned(e.n) - Len(e.a)), path)
         [] e.k = "call" -> Record(Also(IF fun THEN Grow(args, id[1].r - id[1].a) ELSE args, fun /\ id[1].a = Len(e.a)), path)

(* checkAssignment: every variable and every usable local has one slot *)
checkAssignment(a, n, p, g) ==
    LET id == lookup(g.scopes, p, n, FALSE)
    IN Also(Grow(a, -1), IF id # << >> THEN id[1].k = "var" /\ <<id[1].at, n>> \in a.active ELSE Resolvable(g, n, "L", p))
checkLooseFeature(a, g) == Also(a, g.loose)
activate(a, p, names) == [a EXCEPT !.active = @ \cup {<<p, n>> : n \in ToSet(names)}]

RECURSIVE AnB(_, _, _, _), AnStmts(_, _, _, _, _)
AnS(a, s, p, path, g) ==
    LET ep == Append(path, -1)
        value == AnE(a, s.es[1], p, ep, g)
        cond == expectExpression(a, s.es[1], p, ep, g)
        n == Len(s.n)
        in(x, j) == AnB(x, s.bs[j], Append(path, j), g)
        literals == [i \in {j \in DOMAIN s.vs : s.vs[j] # << >>} |-> s.vs[i][1].v]
        caseOf(x, j) == IF s.vs[j] = << >> THEN x
                        ELSE LET lit == Also([x EXCEPT !.h = @ + 1], literals[j] \in Word)
                                 done == Record(lit, path \o <<-2, j>>)
                             IN Also(Grow(done, -1), \A i \in DOMAIN literals : i < j => literals[i] # literals[j])
    IN CASE s.k = "let" ->
              IF s.es # << >> /\ value.h - a.h # n THEN Also(value, FALSE)
              ELSE Record(activate(IF s.es = << >> THEN Grow(a, n) ELSE value, p, s.n), path)
         [] s.k = "asg" ->
              IF value.h - a.h # n THEN Also(value, FALSE)
              ELSE Record(Through(LAMBDA x, v : checkAssignment(x, v, p, g), value, s.n), path)
         [] s.k = "ex" -> Record(Also(value, value.h = a.h \/ g.loose), path)
         [] s.k = "if" -> Record(in(Grow(cond, -1), 1), path)
         [] s.k = "switch" ->
              Record(Grow(Through(LAMBDA x, j : in(caseOf(x, j), j), cond, [j \in DOMAIN s.bs |-> j]), -1), path)
         [] s.k = "fn" ->
              LET start == [activate(a, Append(path, 0), s.ps \o s.rs) EXCEPT !.h = Len(s.ps) + Len(s.rs)]
              IN Record([in(start, 1) EXCEPT !.h = a.h], path)
         [] s.k = "for" ->
              LET pre == Append(path, 1)
                  vars == numberOfVariables(g.scopes, pre)
                  test == Grow(expectExpression(Grow(in(a, 1), vars), s.es[1], pre, ep, g), -1)
              IN Record(Grow(in(in(test, 3), 2), -vars), path)
         [] s.k = "block" -> in(a, 1)
         [] s.k = "label" -> Record(checkLooseFeature(a, g), path)
         [] s.k = "instr" -> Record(Grow(checkLooseFeature(a, g), Returned(s.f) - Taken(s.f)), path)
         [] s.k = "stackasg" -> Record(checkAssignment(checkLooseFeature(a, g), s.n[1], p, g), path)
(* What follows the first error only adds more *)
AnStmts(a, b, i, p, g) ==
    IF i > Len(b) \/ ~a.ok THEN a ELSE AnStmts(AnS(a, b[i], p, Append(p, i), g), b, i + 1, p, g)
AnB(a, b, p, g) ==
    LET in == AnStmts(a, b, 1, p, g)
        out == Grow(in, -numberOfVariables(g.scopes, p))
    IN Record(Also(out, out.h = a.h), Append(p, 0))

Unit(b, ext, h0, loose) == [b |-> b, ext |-> ext, h0 |-> h0, loose |-> loose]
(* AsmAnalyzer::analyze *)
Analyzed(u) ==
    LET filled == ScopeFiller(u.b)
        g == [scopes |-> filled.scopes, ext |-> u.ext, loose |-> u.loose]
        start == [h |-> 0, active |-> {}, ok |-> filled.ok, info |-> << >>]
    IN [g |-> g, a |-> IF filled.ok THEN AnB(start, u.b, << >>, g) ELSE start]

(***************************************************************************)
(* CodeTransform: c has the items, the height (deposit) of the assembly,   *)
(* the next label, the heights of variables and the labels of functions    *)
(* and labels, the stack adjustment, and the assertions that failed        *)
(***************************************************************************)
Item(k, n, v) == [k |-> k, n |-> n, v |-> v]
Emit(c, item, diff) == [c EXCEPT !.code = Append(@, item), !.h = @ + diff]
appendInstruction(c, op, diff) == Emit(c, Item("op", op, 0), diff)
appendConstant(c, v) == Emit(c, Item("push", "", v), 1)
appendLabel(c, l) == Emit(c, Item("tag", "", l), 0)
appendLabelReference(c, l) == Emit(c, Item("pushtag", "", l), 1)
appendJump(c, diff) == appendInstruction(c, "jump", diff - 1)
appendJumpTo(c, l, diff) == appendJump(appendLabelReference(c, l), diff)
appendJumpToIf(c, l) == appendInstruction(appendLabelReference(c, l), "jumpi", -2)
newLabelId(c, n) == [c EXCEPT !.next = @ + n]
Dup(c, n) == Emit(c, Item("dup", "", n), 1)
Swap(c, n) == Emit(c, Item("swap", "", n), 0)
Pop(c) == appendInstruction(c, "pop", -1)

(* The first assertion that fails throws *)
solAssert(c, cond, what) == IF cond \/ c.err # {} THEN c ELSE [c EXCEPT !.err = {what}]
expectDeposit(c, n, old) == solAssert(c, c.h = old + n, "deposit")
checkStackHeight(c, path, g) ==
    solAssert(c, path \in DOMAIN g.info /\ g.info[path] = c.h - c.adj, "height")

(* labelID and functionEntryID: a label is made on first use *)
labelled(c, id) == IF <<id.at, id.n>> \in DOMAIN c.labels THEN c
                   ELSE newLabelId([c EXCEPT !.labels = (<<id.at, id.n>> :> c.next) @@ @], 1)
labelOf(c, id) == c.labels[<<id.at, id.n>>]

variableHeightDiff(c, id) == c.h - c.heights[<<id.at, id.n>>]
accessible(diff, forSwap) == diff > (IF forSwap THEN 1 ELSE 0) /\ diff <= (IF forSwap THEN StackReach + 1 ELSE StackReach)

(* ContractCompiler: code for a name declared in Solidity *)
ExternalRead(c, e) ==
    LET diff == c.h - e.base - (IF e.suffix = "offset" /\ e.size = 2 THEN 1 ELSE 0)
    IN CASE e.decl = "state" -> appendConstant(c, IF e.suffix = "slot" THEN e.slot ELSE e.offset)
         [] e.decl = "local" /\ e.suffix = "offset" /\ e.size = 1 -> appendConstant(c, 0)
         [] e.decl = "local" /\ ~(e.suffix = "offset" /\ e.size = 1) ->
              IF diff < 1 \/ diff > StackReach THEN solAssert(c, FALSE, "deep") ELSE Dup(c, diff)
         [] e.decl \in {"function", "library"} -> Emit(c, Item("symbol", e.decl, 0), 1)
ExternalWrite(c, e) ==
    LET diff == c.h - e.base - 1
    IN IF diff < 1 \/ diff > StackReach THEN solAssert(c, FALSE, "deep") ELSE Pop(Swap(c, diff))

RECURSIVE GenE(_, _, _, _, _)
visitExpression(c, e, p, path, g) == expectDeposit(GenE(c, e, p, path, g), 1, c.h)
GenArgs(c, es, p, path, g) ==
    Through(LAMBDA x, i : visitExpression(x, es[i], p, Append(path, i), g), c, Reversed(es))
GenE(c, e, p, path, g) ==
    LET id == lookup(g.scopes, p, e.n, FALSE)
    IN CASE e.k = "lit" -> checkStackHeight(appendConstant(c, e.v), path, g)
         [] e.k = "id" ->
              IF id = << >> THEN checkStackHeight(ExternalRead(c, g.ext[e.n]), path, g)
              ELSE IF id[1].k = "var"
              THEN LET diff == variableHeightDiff(c, id[1])
                   IN IF accessible(diff, FALSE) THEN Dup(c, diff) ELSE solAssert(c, FALSE, "deep")
              ELSE LET l == labelled(c, id[1]) IN appendLabelReference(l, labelOf(l, id[1]))
         [] e.k = "op" ->
              checkStackHeight(appendInstruction(GenArgs(c, e.a, p, path, g), e.n, Returned(e.n) - Len(e.a)), path, g)
         [] e.k = "call" ->
              LET ret == [appendLabelReference(newLabelId(c, 1), c.next) EXCEPT !.adj = @ + 1]
                  args == labelled(GenArgs(ret, e.a, p, path, g), id[1])
                  jump == appendJumpTo(args, labelOf(args, id[1]), id[1].r - id[1].a - 1)
              IN checkStackHeight([appendLabel(jump, c.next) EXCEPT !.adj = @ - 1], path, g)

generateAssignment(c, n, p, g) ==
    LET id == lookup(g.scopes, p, n, FALSE)
        diff == variableHeightDiff(c, id[1])
    IN IF id = << >> THEN ExternalWrite(c, g.ext[n])
       ELSE IF accessible(diff, TRUE) THEN Pop(Swap(c, diff - 1)) ELSE solAssert(c, FALSE, "deep")

(* <return label> <arguments> <return values> becomes <return values> <return label> *)
RECURSIVE Reshuffle(_, _)
Reshuffle(c, layout) ==
    LET n == Len(layout) last == layout[n]
    IN IF layout = << >> \/ last = n - 1
       THEN solAssert(c, \A i \in DOMAIN layout : layout[i] = i - 1, "reshuffle")
       ELSE IF last < 0 THEN Reshuffle(Pop(c), Front(layout))
       ELSE Reshuffle(Swap(c, n - last - 1), [layout EXCEPT ![last + 1] = last, ![n] = layout[last + 1]])

place(c, p, names, from) ==
    [c EXCEPT !.heights = [v \in {<<p, n>> : n \in ToSet(names)} |->
                              from + (CHOOSE i \in DOMAIN names : names[i] = v[2]) - 1] @@ @]
zeros(c, n) == Through(LAMBDA x, i : appendConstant(x, 0), c, [i \in 1 .. n |-> i])
finalizeBlock(c, p, start, g) ==
    LET popped == Through(LAMBDA x, i : Pop(x), c, [i \in 1 .. numberOfVariables(g.scopes, p) |-> i])
    IN checkStackHeight(solAssert(popped, popped.h = start, "block"), Append(p, 0), g)

RECURSIVE GenB(_, _, _, _), visitStatements(_, _, _, _, _)
GenFunction(c, s, p, path, g) ==
    LET id == lookup(g.scopes, p, s.f, FALSE)[1]
        v == Append(path, 0)
        params == place(c, v, Rev(s.ps), 1)
        height == 1 + Len(s.ps)
        entry == labelled(newLabelId(params, 1), id)
        begin == appendLabel(appendJumpTo(entry, c.next, height - c.h), labelOf(entry, id))
        rets == zeros(place(begin, v, s.rs, height), Len(s.rs))
        body == [GenB([rets EXCEPT !.adj = 1], s.bs[1], Append(path, 1), g) EXCEPT !.adj = c.adj]
        layout == <<Len(s.rs)>> \o [i \in DOMAIN s.ps |-> -1] \o [i \in DOMAIN s.rs |-> i - 1]
        shuffled == Reshuffle(solAssert(body, Len(layout) <= StackReach + 1, "deep"), layout)
    IN appendLabel(appendJump(shuffled, c.h - Len(s.rs)), c.next)
GenSwitch(c, s, p, path, g) ==
    LET value == newLabelId(visitExpression(c, s.es[1], p, Append(path, -1), g), 1)
        end == value.next - 1
        valued == SelectSeq([j \in DOMAIN s.bs |-> j], LAMBDA j : s.vs[j] # << >>)
        body(x, j) == GenB(x, s.bs[j], Append(path, j), g)
        labelAt(j) == end + Cardinality({i \in ToSet(valued) : i <= j})
        compare(x, j) ==
            IF s.vs[j] = << >> THEN body(x, j)
            ELSE LET lit == newLabelId(checkStackHeight(appendConstant(x, s.vs[j][1].v), path \o <<-2, j>>, g), 1)
                     same == solAssert(lit, lit.h = value.h + 1, "switch")
                 IN appendJumpToIf(appendInstruction(Dup(same, 2), "eq", -1), lit.next - 1)
        caseBody(x, j) ==
            LET y == body(appendLabel(x.c, x.l), j)
            IN [c |-> IF j # valued[Len(valued)] THEN appendJumpTo(y, end, 0) ELSE y, l |-> x.l + 1]
        compared == Through(compare, value, [j \in DOMAIN s.bs |-> j])
        bodies == Through(caseBody, [c |-> appendJumpTo(compared, end, 0), l |-> end + 1], valued)
    IN Pop(appendLabel(bodies.c, end))
GenFor(c, s, path, g) ==
    LET pre == Append(path, 1)
        init == visitStatements(c, s.bs[1], 1, pre, g)
        start == init.next
        labels == appendLabel(newLabelId(init, 3), start)
        cond == appendInstruction(visitExpression(labels, s.es[1], pre, Append(path, -1), g), "iszero", 0)
        body == GenB(appendJumpToIf(cond, start + 1), s.bs[3], Append(path, 3), g)
        post == GenB(appendLabel(body, start + 2), s.bs[2], Append(path, 2), g)
    IN finalizeBlock(appendLabel(appendJumpTo(post, start, 0), start + 1), pre, c.h, g)
GenS(c, s, p, path, g) ==
    LET ep == Append(path, -1)
        value == GenE(c, s.es[1], p, ep, g)
        checked(x) == checkStackHeight(x, path, g)
    IN CASE s.k = "let" ->
              LET v == IF s.es = << >> THEN zeros(c, Len(s.n)) ELSE expectDeposit(value, Len(s.n), c.h)
              IN checked(place(v, p, s.n, c.h))
         [] s.k = "asg" ->
              checked(Through(LAMBDA x, n : generateAssignment(x, n, p, g), expectDeposit(value, Len(s.n), c.h), Rev(s.n)))
         [] s.k = "stackasg" -> checked(generateAssignment(c, s.n[1], p, g))
         [] s.k = "ex" -> checked(value)
         [] s.k = "label" -> LET id == lookup(g.scopes, p, s.n[1], FALSE)[1] l == labelled(c, id)
                             IN checked(appendLabel(l, labelOf(l, id)))
         [] s.k = "instr" -> checked(appendInstruction(c, s.f, Returned(s.f) - Taken(s.f)))
         [] s.k = "if" ->
              LET cond == newLabelId(appendInstruction(visitExpression(c, s.es[1], p, ep, g), "iszero", 0), 1)
                  end == cond.next - 1
              IN checked(appendLabel(GenB(appendJumpToIf(cond, end), s.bs[1], Append(path, 1), g), end))
         [] s.k = "switch" -> checked(GenSwitch(c, s, p, path, g))
         [] s.k = "fn" -> checked(GenFunction(c, s, p, path, g))
         [] s.k = "for" -> GenFor(c, s, path, g)
         [] s.k = "block" -> GenB(c, s.bs[1], Append(path, 1), g)
(* An assertion that fails throws *)
visitStatements(c, b, i, p, g) ==
    IF i > Len(b) \/ c.err # {} THEN c ELSE visitStatements(GenS(c, b[i], p, Append(p, i), g), b, i + 1, p, g)
GenB(c, b, p, g) == finalizeBlock(visitStatements(c, b, 1, p, g), p, c.h, g)

(* CodeGenerator::assemble *)
Assembled(u, an) ==
    GenB([code |-> << >>, h |-> u.h0, next |-> 1, heights |-> << >>, labels |-> << >>, adj |-> u.h0, err |-> {}],
         u.b, << >>, [scopes |-> an.g.scopes, ext |-> u.ext, info |-> an.a.info])

(***************************************************************************)
(* The machine the items run on                                            *)
(***************************************************************************)
TagAt(code, l) == CHOOSE i \in DOMAIN code : code[i].k = "tag" /\ code[i].v = l
ReplaceTop(st, n, vs) == Rev(vs) \o SubSeq(st, n + 1, Len(st))
(* The stack has its top first *)
StepItem(code, x) ==
    LET i == code[x.pc]
        go(st) == [x EXCEPT !.st = st, !.pc = @ + 1]
        args == SubSeq(x.st, 1, Taken(i.n))
        r == Perform(i.n, args, x.m)
    IN CASE i.k \in {"push", "pushtag"} -> go(<<i.v>> \o x.st)
         [] i.k = "symbol" -> go(<<0>> \o x.st)
         [] i.k = "tag" -> go(x.st)
         [] i.k = "dup" -> go(<<x.st[i.v]>> \o x.st)
         [] i.k = "swap" -> go([x.st EXCEPT ![1] = x.st[i.v + 1], ![i.v + 1] = x.st[1]])
         [] i.k = "op" /\ i.n = "jump" -> [x EXCEPT !.st = Tail(@), !.pc = TagAt(code, x.st[1])]
         [] i.k = "op" /\ i.n = "jumpi" ->
              [x EXCEPT !.st = Tail(Tail(@)), !.pc = IF x.st[2] # 0 THEN TagAt(code, x.st[1]) ELSE @ + 1]
         [] OTHER -> [x EXCEPT !.st = r.v \o SubSeq(@, Taken(i.n) + 1, Len(@)), !.m = r.m, !.pc = @ + 1]
(* 2^k steps, or fewer if the end is reached *)
RECURSIVE Steps(_, _, _)
Steps(code, k, x) ==
    IF x.pc > Len(code) THEN x
    ELSE IF k = 0 THEN StepItem(code, x) ELSE Steps(code, k - 1, Steps(code, k - 1, x))
MaxSteps == 10
RunItems(code, x) == Steps(code, MaxSteps, x)
=============================================================================
