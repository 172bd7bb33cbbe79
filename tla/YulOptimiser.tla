---------------------------- MODULE YulOptimiser ----------------------------
(***************************************************************************)
(* The steps of the Yul optimiser (libyul/optimiser), each as a function   *)
(* from a program to a program, and the order OptimiserSuite::run applies  *)
(* them in.                                                                *)
(*                                                                         *)
(* A name dispenser is the set of used names and a counter.  Maps keyed by *)
(* YulString are ordered by a hash in the code: where the order decides,   *)
(* CHOOSE stands for it.  A transformation that would throw an             *)
(* OptimizerException yields the program Thrown.                           *)
(***************************************************************************)
EXTENDS YulSyntax

(* NameDispenser::newNameInternal and newName *)
RECURSIVE newNameInternal(_, _, _)
newNameInternal(hint, name, d) ==
    IF name = "" \/ name \in d.used
    THEN newNameInternal(hint, hint \o "_" \o ToString(d.c + 1), [d EXCEPT !.c = @ + 1])
    ELSE [n |-> name, d |-> [d EXCEPT !.used = @ \cup {name}]]
newName(hint, context, d) ==
    LET prefix == IF context = "" THEN hint ELSE context \o "_" \o hint
    IN newNameInternal(prefix, prefix, d)
Dispenser(used) == [used |-> used, c |-> 0]

(***************************************************************************)
(* Disambiguator: the identifiers with the scopes that declare them, in    *)
(* the order the copier meets them; a new name for each; the renaming.     *)
(***************************************************************************)
Decls(b) == FunsOf(b) \cup VarsOf(b)
Enter(env, names, path) == [n \in names |-> path] @@ env
Inner(s, j, env, path) ==
    LET p == Append(path, j)
        outer == CASE s.k = "fn" -> Enter(env, ToSet(s.ps) \cup ToSet(s.rs), Append(path, 0))
                   [] s.k = "for" -> Enter(env, Decls(s.bs[1]), Append(path, 1))
                   [] OTHER -> env
    IN [env |-> Enter(outer, Decls(s.bs[j]), p), path |-> p]

RECURSIVE OccE(_, _), OccB(_, _, _)
OccE(e, env) == (IF e.k \in {"id", "call"} THEN <<<<env[e.n], e.n>>>> ELSE << >>)
                \o FlattenSeq([i \in DOMAIN e.a |-> OccE(e.a[i], env)])
OccS(s, env, path) ==
    LET scoped == IF s.bs # << >> /\ s.k = "for" THEN Inner(s, 1, env, path).env ELSE env
        blocks == IF s.k = "for" THEN <<1, 2, 3>> ELSE [j \in DOMAIN s.bs |-> j]
        inBlock(j) == OccB(s.bs[j], Inner(s, j, env, path).env, Inner(s, j, env, path).path)
        exprs == FlattenSeq([i \in DOMAIN s.es |-> OccE(s.es[i], scoped)])
    IN CASE s.k = "fn" -> <<<<env[s.f], s.f>>>> \o Map(LAMBDA p : <<Append(path, 0), p>>, s.ps \o s.rs) \o inBlock(1)
         [] s.k = "for" -> inBlock(1) \o exprs \o inBlock(2) \o inBlock(3)
         [] OTHER -> Map(LAMBDA n : <<env[n], n>>, s.n) \o exprs \o FlattenSeq([j \in DOMAIN blocks |-> inBlock(j)])
OccB(b, env, path) == FlattenSeq([i \in DOMAIN b |-> OccS(b[i], env, Append(path, i))])

translateIdentifier(acc, key) ==
    IF key \in DOMAIN acc.t THEN acc
    ELSE LET r == newName(key[2], "", acc.d) IN [d |-> r.d, t |-> (key :> r.n) @@ acc.t]

RECURSIVE DisE(_, _, _), DisB(_, _, _, _)
DisE(e, env, t) == [e EXCEPT !.n = IF e.k \in {"id", "call"} THEN t[<<env[@], @>>] ELSE @,
                             !.a = [i \in DOMAIN @ |-> DisE(@[i], env, t)]]
DisS(s, env, path, t) ==
    LET scoped == IF s.k = "for" THEN Inner(s, 1, env, path).env ELSE env
        local(n) == t[<<Append(path, 0), n>>]
    IN [s EXCEPT !.n = Map(LAMBDA n : t[<<env[n], n>>], @),
                 !.f = IF s.k = "fn" THEN t[<<env[@], @>>] ELSE @,
                 !.ps = Map(local, @), !.rs = Map(local, @),
                 !.es = Map(LAMBDA e : DisE(e, scoped, t), @),
                 !.bs = [j \in DOMAIN @ |-> DisB(@[j], Inner(s, j, env, path).env, Inner(s, j, env, path).path, t)]]
DisB(b, env, path, t) == [i \in DOMAIN b |-> DisS(b[i], env, Append(path, i), t)]

Disambiguator(b) ==
    LET env == Enter(<< >>, Decls(b), << >>)
        t == Through(translateIdentifier, [d |-> Dispenser({}), t |-> << >>], OccB(b, env, << >>)).t
    IN DisB(b, env, << >>, t)

(***************************************************************************)
(* FunctionHoister, FunctionGrouper, MainFunction, BlockFlattener          *)
(***************************************************************************)
RECURSIVE HoistB(_)
HoistS(s) ==
    LET in == Map(HoistB, s.bs)
    IN [s |-> [s EXCEPT !.bs = [j \in DOMAIN in |-> in[j].b]],
        fs |-> FlattenSeq([j \in DOMAIN in |-> in[j].fs])]
HoistB(b) ==
    Through(LAMBDA acc, s :
                LET h == HoistS(s)
                IN IF s.k = "fn" THEN [acc EXCEPT !.fs = @ \o h.fs \o <<h.s>>]
                   ELSE [b |-> removeEmptyBlocks(Append(acc.b, h.s)), fs |-> acc.fs \o h.fs],
             [b |-> << >>, fs |-> << >>], b)
FunctionHoister(b) == LET h == HoistB(b) IN h.b \o h.fs

IsFn(s) == s.k = "fn"
FunctionGrouper(b) == <<Blk(SelectSeq(b, LAMBDA s : ~IsFn(s)))>> \o SelectSeq(b, IsFn)

MainFunction(b) == [b EXCEPT ![1] = Fn("main", << >>, << >>, b[1].bs[1])]

RECURSIVE BlockFlattener(_)
BlockFlattener(b) ==
    FlattenSeq(Map(LAMBDA s : LET in == [s EXCEPT !.bs = Map(BlockFlattener, @)]
                              IN IF s.k = "block" THEN in.bs[1] ELSE <<in>>, b))

(***************************************************************************)
(* ExpressionSplitter: acc holds the dispenser and the declarations to put *)
(* in front of the current statement                                       *)
(***************************************************************************)
RECURSIVE SplitArgs(_, _), SplitB(_, _)
outlineExpression(e, acc) ==
    IF IsId(e) THEN [e |-> e, acc |-> acc]
    ELSE LET in == SplitArgs(e.a, acc)
             new == newName("", "", in.acc.d)
         IN [e |-> Id(new.n),
             acc |-> [d |-> new.d, pre |-> Append(in.acc.pre, Let(<<new.n>>, <<[e EXCEPT !.a = in.a]>>))]]
SplitArgs(a, acc) ==
    IF a = << >> THEN [a |-> << >>, acc |-> acc]
    ELSE LET last == outlineExpression(a[Len(a)], acc)
             rest == SplitArgs(Front(a), last.acc)
         IN [a |-> Append(rest.a, last.e), acc |-> rest.acc]
(* The blocks of a statement, one after the other; the order is that of ASTModifier *)
SplitBlocks(bs, d) ==
    Through(LAMBDA r, b : LET x == SplitB(b, r.d) IN [bs |-> Append(r.bs, x.b), d |-> x.d], [bs |-> << >>, d |-> d], bs)
SplitS(s, d) ==
    LET acc == [d |-> d, pre |-> << >>]
        whole == s.es # << >> /\ s.k \in {"if", "switch"}
        root == s.es # << >> /\ s.k \in {"let", "asg", "ex"}
        out == outlineExpression(s.es[1], acc)
        args == SplitArgs(s.es[1].a, acc)
        es == IF whole THEN <<out.e>> ELSE IF root THEN <<[s.es[1] EXCEPT !.a = args.a]>> ELSE s.es
        after == IF whole THEN out.acc ELSE IF root THEN args.acc ELSE acc
        in == SplitBlocks(s.bs, after.d)
    IN [b |-> Append(after.pre, [s EXCEPT !.es = es, !.bs = in.bs]), d |-> in.d]
SplitB(b, d) ==
    Through(LAMBDA r, s : LET x == SplitS(s, r.d) IN [b |-> r.b \o x.b, d |-> x.d], [b |-> << >>, d |-> d], b)
ExpressionSplitter(p) == SplitB(p.b, p.d)

(***************************************************************************)
(* SSATransform: cur maps variables to the names of their current values   *)
(***************************************************************************)
(* TLC computes the table now, not whenever it is used *)
Table(f) == f @@ << >>
Without(f, names) == Table([n \in DOMAIN f \ names |-> f[n]])
RECURSIVE SsaB(_, _, _, _)
SsaS(s, d, cur, replace) ==
    LET in(t) == Map(LAMBDA x : RenE(x, t), s.es)
        inner(r, b) == With(SsaB(b, r.d, r.cur, replace), LAMBDA x : [bs |-> Append(r.bs, x.b), d |-> x.d, cur |-> x.cur])
    IN CASE Len(s.n) = 1 /\ s.k \in {"let", "asg"} /\ s.n[1] \in replace ->
              With(newName(s.n[1], "", d), LAMBDA new :
                   [b |-> <<Let(<<new.n>>, in(cur)), [s EXCEPT !.es = <<Id(new.n)>>]>>,
                    d |-> new.d, cur |-> (s.n[1] :> new.n) @@ cur, set |-> {s.n[1]}])
         [] s.k = "for" ->
              With(SsaB(s.bs[1], d, cur, replace), LAMBDA pre :
              With(Without(pre.cur, Assigned(s.bs[3]) \cup Assigned(s.bs[2])), LAMBDA loop :
              With(SsaB(s.bs[3], pre.d, loop, replace), LAMBDA body :
              With(SsaB(s.bs[2], body.d, body.cur, replace), LAMBDA post :
                   [b |-> <<[s EXCEPT !.es = in(loop), !.bs = <<pre.b, post.b, body.b>>]>>,
                    d |-> post.d, cur |-> post.cur, set |-> {}]))))
         [] OTHER ->
              With(Through(inner, [bs |-> << >>, d |-> d, cur |-> cur], s.bs), LAMBDA r :
                   [b |-> <<[s EXCEPT !.es = in(cur), !.bs = r.bs]>>, d |-> r.d, cur |-> r.cur, set |-> {}])
SsaB(b, d, cur, replace) ==
    LET next(acc, s) == With(SsaS(s, acc.d, acc.cur, replace), LAMBDA x :
            [b |-> acc.b \o x.b, d |-> x.d, cur |-> x.cur, set |-> acc.set \cup x.set])
    IN With(Through(next, [b |-> << >>, d |-> d, cur |-> cur, set |-> {}], b), LAMBDA r :
            [b |-> r.b, d |-> r.d, cur |-> Without(r.cur, r.set)])
SSATransform(p) == With(SsaB(p.b, p.d, << >>, Assigned(p.b)), LAMBDA r : [b |-> r.b, d |-> r.d])

(***************************************************************************)
(* RedundantAssignEliminator: the state of every assignment seen (by its   *)
(* place in the program), the variables of the current block, and the      *)
(* assignments to remove                                                   *)
(***************************************************************************)
Unused == 0
Undecided == 1
Used == 2
changeUndecidedTo(r, names, new) ==
    [r EXCEPT !.asg = Table([q \in DOMAIN @ |-> IF @[q].v \in names /\ @[q].s = Undecided THEN [@[q] EXCEPT !.s = new] ELSE @[q]])]
finalize(r, names) ==
    LET mine == {q \in DOMAIN r.asg : r.asg[q].v \in names}
    IN [r EXCEPT !.rem = @ \cup {q \in mine : r.asg[q].s = Unused /\ r.asg[q].mv},
                 !.asg = Without(@, mine)]
join(r, o) ==
    [r EXCEPT !.rem = @ \cup o.rem,
              !.asg = [q \in DOMAIN @ \cup DOMAIN o.asg |->
                          IF q \notin DOMAIN @ THEN o.asg[q]
                          ELSE IF q \in DOMAIN o.asg /\ o.asg[q].s > @[q].s THEN o.asg[q] ELSE @[q]]]
useOf(r, e) == changeUndecidedTo(r, ToSet(RefsE(e)), Used)
(* ~BlockScope: what the block declared is dead, and the outer declarations come back *)
leaveBlock(r, outer) == [finalize(changeUndecidedTo(r, r.dec, Unused), r.dec) EXCEPT !.dec = outer]

RECURSIVE RaeB(_, _, _), RaeStmts(_, _, _)
RaeS(s, r, path) ==
    LET cond == IF s.es = << >> THEN r ELSE useOf(r, s.es[1])
        in(j, x) == RaeB(s.bs[j], x, Append(path, j))
    IN CASE s.k = "let" -> [cond EXCEPT !.dec = @ \cup ToSet(s.n)]
         [] s.k = "asg" ->
              LET c == changeUndecidedTo(cond, ToSet(s.n), Unused)
              IN IF Len(s.n) # 1 \/ path \in DOMAIN c.asg THEN c
                 ELSE [c EXCEPT !.asg = (path :> [v |-> s.n[1], s |-> Undecided, mv |-> Movable(s.es[1])]) @@ @]
         [] s.k = "if" -> join(cond, in(1, cond))
         [] s.k = "switch" ->
              LET br == [j \in DOMAIN s.bs |-> in(j, cond)]
                  all == \E j \in DOMAIN s.vs : s.vs[j] = << >>
                  first == IF all THEN br[Len(br)] ELSE cond
              IN Through(join, first, IF all THEN Front(br) ELSE br)
         [] s.k = "fn" ->
              LET ps == ToSet(s.ps) rs == ToSet(s.rs) body == in(1, cond)
              IN finalize(changeUndecidedTo(finalize(changeUndecidedTo(body, ps, Unused), ps), rs, Used), rs)
         [] s.k = "for" ->
              LET pre == RaeStmts(s.bs[1], [r EXCEPT !.dec = {}], Append(path, 1))
                  zeroRuns == useOf(pre, s.es[1])
                  oneRun == useOf(in(2, in(3, zeroRuns)), s.es[1])
                  twoRuns == useOf(in(2, in(3, oneRun)), s.es[1])
              IN leaveBlock(join(join(twoRuns, oneRun), zeroRuns), r.dec)
         [] s.k = "block" -> in(1, r)
         [] s.k = "ex" -> cond
RaeStmts(b, r, path) == Through(LAMBDA x, i : RaeS(b[i], x, Append(path, i)), r, [i \in DOMAIN b |-> i])
RaeB(b, r, path) == leaveBlock(RaeStmts(b, [r EXCEPT !.dec = {}], path), r.dec)

RECURSIVE AssignmentRemover(_, _, _)
AssignmentRemover(b, rem, path) ==
    LET kept == SelectSeq([i \in DOMAIN b |-> i], LAMBDA i : Append(path, i) \notin rem)
    IN Map(LAMBDA i : [b[i] EXCEPT !.bs = [j \in DOMAIN @ |-> AssignmentRemover(@[j], rem, path \o <<i, j>>)]], kept)
RedundantAssignEliminator(b) ==
    AssignmentRemover(b, RaeB(b, [asg |-> << >>, dec |-> {}, rem |-> {}], << >>).rem, << >>)

(***************************************************************************)
(* VarDeclPropagator: emp holds the variables of this block declared       *)
(* without a value and not mentioned since, lazy those whose declaration   *)
(* moves to the first assignment.  Inner blocks have their own.            *)
(***************************************************************************)
allVarNamesUninitialized(names, emp) == ToSet(names) \subseteq emp
PropWalk(st, s) ==
    LET emp == st.emp \ UNION {ToSet(RefsE(s.es[i])) : i \in DOMAIN s.es}
    IN CASE s.k = "let" /\ s.es = << >> -> [st EXCEPT !.emp = emp \cup ToSet(s.n)]
         [] s.k = "asg" -> [emp |-> emp \ ToSet(s.n),
                            lazy |-> IF allVarNamesUninitialized(s.n, emp) THEN st.lazy \cup ToSet(s.n) ELSE st.lazy]
         [] OTHER -> [st EXCEPT !.emp = emp]
(* The rewriting of one statement; lazy variables whose declaration moved are not lazy any more *)
PropReplace(r, s) ==
    LET left == SelectSeq(s.n, LAMBDA n : n \notin r.lazy)
    IN CASE s.k = "let" -> [r EXCEPT !.b = IF left = << >> THEN @ ELSE Append(@, [s EXCEPT !.n = left])]
         [] s.k = "asg" /\ ToSet(s.n) \subseteq r.lazy ->
              [b |-> Append(r.b, Let(s.n, s.es)), lazy |-> r.lazy \ ToSet(s.n)]
         [] OTHER -> [r EXCEPT !.b = Append(@, s)]
RECURSIVE VarDeclPropagator(_)
VarDeclPropagator(b) ==
    LET in == Map(LAMBDA s : [s EXCEPT !.bs = Map(VarDeclPropagator, @)], b)
        walked == Through(PropWalk, [emp |-> {}, lazy |-> {}], in)
    IN Through(PropReplace, [b |-> << >>, lazy |-> walked.lazy], in).b

(***************************************************************************)
(* DataFlowAnalyzer: the known value of every variable, who is mentioned   *)
(* in whose value, and the scopes; CommonSubexpressionEliminator and       *)
(* Rematerialiser rewrite the expressions on the way (mode)                *)
(***************************************************************************)
RefBy(st, n) == {v \in DOMAIN st.refs : n \in st.refs[v]}
(* Values that mention a cleared variable go too, values that mention those do not *)
MutClearValues(st, names) == [st EXCEPT !.val = Without(@, names), !.refs = Without(@, names)]
clearValues(st, names) ==
    LET all == names \cup UNION {RefBy(st, n) : n \in names}
    IN [st EXCEPT !.val = Without(@, all), !.refs = Without(@, all)]
handleAssignment(st, names, es) ==
    LET c == clearValues(st, ToSet(names))
        seen == IF es = << >> THEN {} ELSE SeenVars(es[1])
        known == Len(names) = 1 /\ es # << >> /\ Movable(es[1]) /\ names[1] \notin seen
    IN [c EXCEPT !.val = IF known THEN (names[1] :> es[1]) @@ @ ELSE @,
                 !.refs = [n \in ToSet(names) |-> seen] @@ @]
pushScope(st, isFunction, vars) == [st EXCEPT !.scopes = Append(@, [fn |-> isFunction, vars |-> vars])]
popScope(st) == [clearValues(st, st.scopes[Len(st.scopes)].vars) EXCEPT !.scopes = Front(@)]
inScope(st, n) ==
    \E i \in DOMAIN st.scopes :
        n \in st.scopes[i].vars /\ \A j \in i + 1 .. Len(st.scopes) : ~st.scopes[j].fn

RECURSIVE CseE(_, _), RematE(_, _)
CseE(e, st) ==
    LET in == [e EXCEPT !.a = Map(LAMBDA x : CseE(x, st), @)]
        same == {n \in DOMAIN st.val : st.val[n] = in}
    IN IF IsId(e) THEN (IF e.n \in DOMAIN st.val /\ IsId(st.val[e.n]) THEN st.val[e.n] ELSE e)
       ELSE IF same # {} THEN Id(CHOOSE n \in same : TRUE) ELSE in
RematE(e, st) ==
    LET new == IF IsId(e) /\ e.n \in DOMAIN st.val /\ SizeE(st.val[e.n]) <= 7 THEN st.val[e.n] ELSE e
    IN [new EXCEPT !.a = Map(LAMBDA x : RematE(x, st), @)]
FlowE(e, st, mode) == IF mode = "cse" THEN CseE(e, st) ELSE RematE(e, st)
(* assertThrow(inScope(...)): what a known value would be replaced by is visible here *)
Visible(st, mode) ==
    \A n \in DOMAIN st.val :
        IF mode = "cse" THEN inScope(st, n) /\ (IsId(st.val[n]) => inScope(st, st.val[n].n))
        ELSE \A r \in st.refs[n] : inScope(st, r)

RECURSIVE FlowB(_, _, _), FlowStmts(_, _, _)
FlowS(s, st0, mode) ==
    With([st0 EXCEPT !.err = @ \/ (s.es # << >> /\ ~Visible(st0, mode))], LAMBDA st :
    With([i \in DOMAIN s.es |-> FlowE(s.es[i], st, mode)], LAMBDA es :
    LET done(x, bs) == [s |-> [s EXCEPT !.es = es, !.bs = bs], st |-> x]
    IN CASE s.k = "let" ->
              LET d == [st EXCEPT !.scopes[Len(st.scopes)].vars = @ \cup ToSet(s.n)]
              IN done(handleAssignment(d, s.n, es), << >>)
         [] s.k = "asg" -> done(handleAssignment(st, s.n, es), << >>)
         [] s.k = "fn" ->
              With(FlowB(s.bs[1], pushScope([st EXCEPT !.val = << >>, !.refs = << >>], TRUE, ToSet(s.ps) \cup ToSet(s.rs)), mode),
                   LAMBDA in : done([popScope(in.st) EXCEPT !.val = st.val, !.refs = st.refs], <<in.b>>))
         [] s.k = "for" ->
              LET assigned == Assigned(s.bs[3]) \cup Assigned(s.bs[2])
              IN With(FlowStmts(s.bs[1], pushScope(st, FALSE, {}), mode), LAMBDA pre :
                 With(clearValues(pre.st, assigned), LAMBDA start :
                 With(FlowB(s.bs[3], start, mode), LAMBDA body :
                 With(FlowB(s.bs[2], body.st, mode), LAMBDA post :
                      [s |-> [s EXCEPT !.es = Map(LAMBDA e : FlowE(e, start, mode), @), !.bs = <<pre.b, post.b, body.b>>],
                       st |-> popScope(clearValues(post.st, assigned))]))))
         [] OTHER ->
              With(Through(LAMBDA acc, b : With(FlowB(b, acc.st, mode), LAMBDA x :
                                               [bs |-> Append(acc.bs, x.b),
                                                st |-> IF s.k = "block" THEN x.st ELSE clearValues(x.st, Assigned(b))]),
                           [bs |-> << >>, st |-> st], s.bs), LAMBDA r :
                   done(IF s.k = "switch" THEN clearValues(r.st, UNION {Assigned(s.bs[j]) : j \in DOMAIN s.bs}) ELSE r.st, r.bs))))
FlowStmts(b, st, mode) ==
    Through(LAMBDA acc, s : With(FlowS(s, acc.st, mode), LAMBDA x : [b |-> Append(acc.b, x.s), st |-> x.st]),
             [b |-> << >>, st |-> st], b)
FlowB(b, st, mode) ==
    With(FlowStmts(b, pushScope(st, FALSE, {}), mode), LAMBDA r : [b |-> r.b, st |-> popScope(r.st)])

Thrown == <<Blk(<<Ex(Call("OptimizerException", << >>))>>)>>
Flow(b, mode) ==
    With(FlowB(b, [val |-> << >>, refs |-> << >>, scopes |-> << >>, err |-> FALSE], mode), LAMBDA r :
        IF r.st.err THEN Thrown ELSE r.b)
CommonSubexpressionEliminator(b) == Flow(b, "cse")
Rematerialiser(b) == Flow(b, "remat")

(***************************************************************************)
(* Pattern::matches and ExpressionSimplifier.  ssa maps every variable     *)
(* that is never assigned to its value; a declaration without a value      *)
(* makes it a null pointer, and following it throws.                       *)
(***************************************************************************)
RECURSIVE SsaValues(_, _)
SSAValueTracker(t, s) ==
    LET own == CASE s.k = "asg" -> Without(t, ToSet(s.n))
                 [] s.k = "let" -> [n \in ToSet(s.n) |-> IF Len(s.n) = 1 THEN s.es ELSE << >>] @@ t
                 [] OTHER -> t
        inner == IF s.k = "for" THEN <<s.bs[1], s.bs[3], s.bs[2]>> ELSE s.bs
    IN Through(SsaValues, own, inner)
SsaValues(t, b) == Through(SSAValueTracker, t, b)

RECURSIVE matches(_, _, _, _)
matches(p, e, ssa, m) ==
    LET known == p.k # "any" /\ IsId(e) /\ e.n \in DOMAIN ssa
        null == known /\ ssa[e.n] = << >>
        x == IF known /\ ~null THEN ssa[e.n][1] ELSE e
        bind(g, v) == [m EXCEPT !.g = (g :> v) @@ @]
        no == [m EXCEPT !.st = "no"]
        args == Through(LAMBDA acc, i : IF acc.st # "yes" THEN acc ELSE matches(p.a[i], x.a[i], ssa, acc),
                         m, [i \in DOMAIN p.a |-> i])
    IN CASE null -> [m EXCEPT !.st = "throw"]
         [] ~null /\ p.k = "lit" -> IF x.k = "lit" /\ x.v = p.v THEN m ELSE no
         [] ~null /\ p.k = "const" -> IF x.k = "lit" THEN bind(p.n, x) ELSE no
         [] ~null /\ p.k = "op" -> IF x.k = "op" /\ x.n = p.n THEN args ELSE no
         [] p.k = "any" -> IF p.n \notin DOMAIN m.g THEN bind(p.n, e)
                           ELSE IF m.g[p.n] = e /\ Movable(e) THEN m ELSE no

RECURSIVE toExpression(_, _)
toExpression(t, g) ==
    CASE t.k \in {"any", "const"} -> g[t.n]
      [] t.k = "lit" -> t
      [] t.k = "fold" -> Lit(Folded(t.n, Map(LAMBDA c : g[c.n].v, t.a)))
      [] t.k = "iflt" -> toExpression(IF g[t.a[1].n].v < g[t.a[2].n].v THEN t.a[3] ELSE t.a[4], g)
      [] t.k = "op" -> [t EXCEPT !.a = Map(LAMBDA x : toExpression(x, g), @)]

(* The rules are tried in their order; a match that throws ends the search *)
RECURSIVE firstMatch(_, _, _)
firstMatch(rules, e, ssa) ==
    IF rules = << >> THEN [st |-> "no", r |-> << >>, g |-> << >>]
    ELSE With(matches(rules[1].p, e, ssa, [st |-> "yes", g |-> << >>]), LAMBDA m :
              IF m.st = "no" THEN firstMatch(Tail(rules), e, ssa) ELSE [st |-> m.st, r |-> <<rules[1]>>, g |-> m.g])
findFirstMatch(e, ssa) == firstMatch(IF e.k = "op" /\ e.n \in DOMAIN RulesOf THEN RulesOf[e.n] ELSE << >>, e, ssa)

Failed == Call("OptimizerException", << >>)
RECURSIVE SimplifyE(_, _), Rewrite(_, _)
Rewrite(e, ssa) ==
    With(findFirstMatch(e, ssa), LAMBDA m :
        IF m.st = "throw" THEN Failed
        ELSE IF m.st = "no" \/ (m.r[1].rem /\ ~Movable(e)) THEN e
        ELSE Rewrite(toExpression(m.r[1].r, m.g), ssa))
SimplifyE(e, ssa) == Rewrite([e EXCEPT !.a = Map(LAMBDA x : SimplifyE(x, ssa), @)], ssa)

(* The table points into the program: it sees the simplified values *)
RECURSIVE SimplifyB(_, _)
SimplifyS(s, ssa) ==
    LET inner(r, b) == With(SimplifyB(b, r.t), LAMBDA x : [r EXCEPT !.bs = Append(@, x.b), !.t = x.t])
        (* the initialisation of a loop comes before its condition *)
        first == IF s.k = "for" THEN SubSeq(s.bs, 1, 1) ELSE << >>
        values(r) == With([i \in DOMAIN s.es |-> SimplifyE(s.es[i], r.t)], LAMBDA es :
            [r EXCEPT !.es = es,
                      !.t = IF s.k = "let" /\ Len(s.n) = 1 /\ s.n[1] \in DOMAIN r.t THEN [r.t EXCEPT ![s.n[1]] = es] ELSE r.t])
    IN With(values(Through(inner, [es |-> << >>, bs |-> << >>, t |-> ssa], first)), LAMBDA r :
            With(Through(inner, r, SubSeq(s.bs, Len(first) + 1, Len(s.bs))), LAMBDA x :
                 [s |-> [s EXCEPT !.es = x.es, !.bs = x.bs], t |-> x.t]))
SimplifyB(b, ssa) ==
    Through(LAMBDA r, s : With(SimplifyS(s, r.t), LAMBDA x : [b |-> Append(r.b, x.s), t |-> x.t]), [b |-> << >>, t |-> ssa], b)
ExpressionSimplifier(b) ==
    With(SimplifyB(b, SsaValues(<< >>, b)).b, LAMBDA new :
        IF "OptimizerException" \in ToSet(RefsB(new)) THEN Thrown ELSE new)

(***************************************************************************)
(* UnusedPruner: refs are the references of the tree, gone the ones dropped *)
(***************************************************************************)
used(r, n) == Count(r.refs, n) > Count(r.gone, n)
subtractReferences(r, sub) == [r EXCEPT !.gone = @ \o sub, !.again = @ \/ sub # << >>]
PruneS(r, s) ==
    LET keep == [r EXCEPT !.b = Append(@, s)]
        drop(sub) == subtractReferences(r, sub)
    IN CASE s.k = "fn" /\ ~used(r, s.f) -> drop(RefsB(s.bs[1]))
         [] s.k = "let" /\ \A i \in DOMAIN s.n : ~used(r, s.n[i]) ->
              IF s.es = << >> THEN r
              ELSE IF Movable(s.es[1]) THEN drop(RefsE(s.es[1]))
              ELSE IF Len(s.n) = 1 THEN [r EXCEPT !.b = Append(@, Ex(Op("pop", s.es)))] ELSE keep
         [] s.k = "ex" /\ Movable(s.es[1]) -> drop(RefsE(s.es[1]))
         [] OTHER -> keep
RECURSIVE PruneB(_, _)
PruneB(b, r) ==
    LET inner(acc, x) == With(PruneB(x, acc.r), LAMBDA y : [bs |-> Append(acc.bs, y.b), r |-> y])
        stmt(acc, s) == With(Through(inner, [bs |-> << >>, r |-> acc], s.bs),
                             LAMBDA y : [y.r EXCEPT !.b = Append(acc.b, [s EXCEPT !.bs = y.bs])])
    IN With(Through(PruneS, [r EXCEPT !.b = << >>], b),
            LAMBDA here : Through(stmt, [here EXCEPT !.b = << >>], removeEmptyBlocks(here.b)))
RECURSIVE UnusedPruner(_, _)
UnusedPruner(b, external) ==
    LET r == PruneB(b, [b |-> << >>, refs |-> RefsB(b) \o external, gone |-> << >>, again |-> FALSE])
    IN IF r.again THEN UnusedPruner(r.b, external) ELSE r.b

(***************************************************************************)
(* ExpressionJoiner: pre holds the statements of the block already passed, *)
(* last the one whose value may move into the next expression              *)
(***************************************************************************)
Joinable(j, n, refs) ==
    /\ j.last > 0
    /\ LET s == j.pre[j.last] IN s.k = "let" /\ s.n = <<n>> /\ s.es # << >>
    /\ Count(refs, n) = 1
(* Arguments are filled from the last one that is neither a name nor a number *)
FirstArgument(a) ==
    LET complex == {i \in DOMAIN a : a[i].k \notin {"id", "lit"}}
    IN IF complex = {} THEN 1 ELSE Max(complex)
RECURSIVE JoinE(_, _, _), handleArguments(_, _, _, _)
JoinE(e, j, refs) ==
    IF IsId(e)
    THEN IF ~Joinable(j, e.n, refs) THEN [e |-> e, j |-> j]
         ELSE [e |-> j.pre[j.last].es[1], j |-> [pre |-> [j.pre EXCEPT ![j.last] = Blk(<< >>)], last |-> j.last - 1]]
    ELSE LET r == handleArguments(e.a, FirstArgument(e.a), j, refs) IN [e |-> [e EXCEPT !.a = r.a], j |-> r.j]
handleArguments(a, i, j, refs) ==
    IF i > Len(a) THEN [a |-> a, j |-> j]
    ELSE LET r == JoinE(a[i], j, refs) IN handleArguments([a EXCEPT ![i] = r.e], i + 1, r.j, refs)
RECURSIVE JoinB(_, _)
JoinS(j, s, refs) ==
    LET start == IF s.k = "for" THEN [j EXCEPT !.last = 0] ELSE j
        r == IF s.es = << >> THEN [e |-> << >>, j |-> j] ELSE LET x == JoinE(s.es[1], start, refs) IN [e |-> <<x.e>>, j |-> x.j]
        pre == Append(r.j.pre, [s EXCEPT !.es = r.e, !.bs = Map(LAMBDA b : JoinB(b, refs), @)])
    IN [pre |-> pre, last |-> Len(pre)]
JoinB(b, refs) == removeEmptyBlocks(Through(LAMBDA j, s : JoinS(j, s, refs), [pre |-> << >>, last |-> 0], b).pre)
ExpressionJoiner(b) == JoinB(b, RefsB(b))

(***************************************************************************)
(* ExpressionInliner: functions that are one expression replace their      *)
(* calls; the table sees the bodies as they are rewritten                  *)
(***************************************************************************)
RECURSIVE InlinableIn(_)
Inlinable(s) ==
    /\ s.k = "fn" /\ Len(s.rs) = 1 /\ Len(s.bs[1]) = 1
    /\ LET a == s.bs[1][1]
       IN a.k = "asg" /\ a.n = s.rs /\ ToSet(RefsE(a.es[1])) \cap {s.rs[1], s.f} = {}
InlinableIn(b) ==
    Through(LAMBDA t, s : LET own == IF Inlinable(s) THEN s.f :> [ps |-> s.ps, e |-> s.bs[1][1].es[1]] ELSE << >>
                           IN Through(LAMBDA u, x : InlinableIn(x) @@ u, own @@ t, s.bs), << >>, b)
RECURSIVE Substitution(_, _), InlineE(_, _), ExprInlineB(_, _)
Substitution(e, sub) ==
    IF IsId(e) /\ e.n \in DOMAIN sub THEN sub[e.n]
    ELSE [e EXCEPT !.a = Map(LAMBDA x : Substitution(x, sub), @)]
InlineE(e, t) ==
    LET in == [e EXCEPT !.a = Map(LAMBDA x : InlineE(x, t), @)]
    IN IF in.k = "call" /\ in.n \in DOMAIN t /\ \A i \in DOMAIN in.a : Movable(in.a[i])
       THEN Substitution(t[in.n].e, Bound(t[in.n].ps, in.a)) ELSE in
ExprInlineB(b, t) ==
    Through(LAMBDA r, s :
        LET es == Map(LAMBDA e : InlineE(e, r.t), s.es)
            in == Through(LAMBDA q, x : LET y == ExprInlineB(x, q.t) IN [bs |-> Append(q.bs, y.b), t |-> y.t],
                           [bs |-> << >>, t |-> r.t], s.bs)
            t2 == IF s.k = "fn" /\ s.f \in DOMAIN in.t THEN [in.t EXCEPT ![s.f].e = in.bs[1][1].es[1]] ELSE in.t
        IN [b |-> Append(r.b, [s EXCEPT !.es = es, !.bs = in.bs]), t |-> t2],
        [b |-> << >>, t |-> t], b)
ExpressionInliner(b) == ExprInlineB(b, InlinableIn(b)).b

(***************************************************************************)
(* FullInliner                                                             *)
(***************************************************************************)
(* BodyCopier: declarations get new names, which later identifiers follow *)
RECURSIVE CopyB(_, _)
CopyS(c, s) ==
    LET declare(x, n) == With(newName(n, x.f, x.d), LAMBDA new : [x EXCEPT !.d = new.d, !.rep = (n :> new.n) @@ @])
        inner(q, b) == With(CopyB(b, q.c), LAMBDA y : [bs |-> Append(q.bs, y.b), c |-> y])
        (* the initialisation of a loop comes before its condition *)
        first == IF s.k = "for" THEN SubSeq(s.bs, 1, 1) ELSE << >>
    IN With(Through(declare, c, IF s.k = "let" THEN s.n ELSE << >>), LAMBDA d :
       With(Through(inner, [bs |-> << >>, c |-> d], first), LAMBDA p :
       With(Through(inner, p, SubSeq(s.bs, Len(first) + 1, Len(s.bs))), LAMBDA r :
            [r.c EXCEPT !.b = Append(c.b, [s EXCEPT !.n = Map(LAMBDA n : Renamed(n, d.rep), @),
                                                    !.es = Map(LAMBDA e : RenE(e, p.c.rep), @), !.bs = r.bs])])))
CopyB(b, c) == Through(CopyS, [c EXCEPT !.b = << >>], b)

IsConstant(e, consts) == e.k = "lit" \/ (IsId(e) /\ e.n \in consts)
shallInline(call, site, st) ==
    /\ call.n # site
    /\ \/ call.n \in st.always
       \/ st.sizes[call.n] < 10
       \/ (\E i \in DOMAIN call.a : IsConstant(call.a[i], st.consts)) /\ st.sizes[call.n] < 50
performInline(s, st) ==
    LET fun == st.funs[s.es[1].n]
        newVariable(x, v) == With(newName(v.n, fun.f, x.d), LAMBDA new :
            [x EXCEPT !.d = new.d, !.rep = (v.n :> new.n) @@ @, !.b = Append(@, Let(<<new.n>>, v.e))])
        vars == [i \in DOMAIN fun.ps |-> [n |-> fun.ps[i], e |-> <<s.es[1].a[i]>>]] \o Map(LAMBDA n : [n |-> n, e |-> << >>], fun.rs)
        results(rep) == [i \in DOMAIN s.n |-> [s EXCEPT !.n = <<s.n[i]>>, !.es = <<Id(rep[fun.rs[i]])>>]]
    IN With(Through(newVariable, [d |-> st.d, rep |-> << >>, b |-> << >>, f |-> fun.f], vars), LAMBDA decl :
       With(CopyB(fun.bs[1], decl), LAMBDA copy :
            [b |-> decl.b \o copy.b \o results(decl.rep), st |-> [st EXCEPT !.d = copy.d]]))
RECURSIVE InlineModifier(_, _, _)
tryInline(s, site, st) ==
    LET inner(q, b) == With(InlineModifier(b, site, q.st), LAMBDA y : [bs |-> Append(q.bs, y.b), st |-> y.st])
    IN IF s.k \in {"ex", "asg", "let"} /\ s.es # << >> /\ s.es[1].k = "call" /\ shallInline(s.es[1], site, st)
       THEN performInline(s, st)
       ELSE With(Through(inner, [bs |-> << >>, st |-> st], s.bs), LAMBDA in : [b |-> <<[s EXCEPT !.bs = in.bs]>>, st |-> in.st])
InlineModifier(b, site, st) ==
    Through(LAMBDA r, s : With(tryInline(s, site, r.st), LAMBDA x : [b |-> r.b \o x.b, st |-> x.st]), [b |-> << >>, st |-> st], b)

FullInliner(p) ==
    LET indices(k) == SelectSeq([i \in DOMAIN p.b |-> i], LAMBDA i : p.b[i].k = k)
        names == FunsOf(p.b)
        def(f) == SelectSeq(p.b, LAMBDA s : s.k = "fn" /\ s.f = f)[1]
        start(values, refs) ==
            [d |-> p.d, funs |-> [f \in names |-> def(f)], sizes |-> [f \in names |-> SizeB(def(f).bs[1])],
             always |-> {f \in names : Count(refs, f) = 1},
             consts |-> {n \in DOMAIN values : values[n] # << >> /\ values[n][1].k = "lit"}]
        (* the blocks of the program first, then its functions, whose new bodies count for the later ones *)
        handleBlock(r, i) ==
            LET f == r.b[i].f
            IN With(InlineModifier(r.b[i].bs[1], f, r.st), LAMBDA x :
                    [b |-> [r.b EXCEPT ![i].bs[1] = x.b],
                     st |-> IF r.b[i].k = "block" THEN x.st
                            ELSE [x.st EXCEPT !.funs[f].bs[1] = x.b, !.sizes[f] = SizeB(x.b)]])
    IN With(Through(handleBlock, [b |-> p.b, st |-> start(SsaValues(<< >>, p.b), RefsB(p.b))], indices("block") \o indices("fn")),
            LAMBDA r : [b |-> r.b, d |-> r.st.d])

(***************************************************************************)
(* OptimiserSuite::run                                                     *)
(***************************************************************************)
Apply(pass, p) ==
    LET same(b) == [p EXCEPT !.b = b]
    IN CASE pass = "Disambiguator" -> same(Disambiguator(p.b))
         [] pass = "FunctionHoister" -> same(FunctionHoister(p.b))
         [] pass = "FunctionGrouper" -> same(FunctionGrouper(p.b))
         [] pass = "NameDispenser" -> [p EXCEPT !.d = Dispenser(Names(p.b))]
         [] pass = "ExpressionSplitter" -> ExpressionSplitter(p)
         [] pass = "SSATransform" -> SSATransform(p)
         [] pass = "RedundantAssignEliminator" -> same(RedundantAssignEliminator(p.b))
         [] pass = "VarDeclPropagator" -> same(VarDeclPropagator(p.b))
         [] pass = "CommonSubexpressionEliminator" -> same(CommonSubexpressionEliminator(p.b))
         [] pass = "ExpressionSimplifier" -> same(ExpressionSimplifier(p.b))
         [] pass = "UnusedPruner" -> same(UnusedPruner(p.b, << >>))
         [] pass = "ExpressionJoiner" -> same(ExpressionJoiner(p.b))
         [] pass = "ExpressionInliner" -> same(ExpressionInliner(p.b))
         [] pass = "FullInliner" -> FullInliner(p)
         [] pass = "Rematerialiser" -> same(Rematerialiser(p.b))
         [] pass = "BlockFlattener" -> same(BlockFlattener(p.b))
         [] pass = "MainFunction" -> same(MainFunction(p.b))

Ssa == <<"SSATransform", "RedundantAssignEliminator">>
SsaTwice == Ssa \o <<"RedundantAssignEliminator">>
Prop == <<"VarDeclPropagator", "RedundantAssignEliminator">>
Cse == <<"CommonSubexpressionEliminator">>
Prune == <<"UnusedPruner">>
Round ==
    <<"ExpressionSplitter">> \o Ssa \o Prop
    \o Cse \o <<"ExpressionSimplifier">> \o SsaTwice \o Prune \o Cse \o Prune \o SsaTwice
    \o <<"ExpressionJoiner", "ExpressionJoiner", "ExpressionInliner", "UnusedPruner">>
    \o <<"ExpressionSplitter">> \o SsaTwice \o Cse \o <<"FullInliner", "VarDeclPropagator">>
    \o Ssa \o Prop \o <<"ExpressionSimplifier">> \o Cse \o Ssa \o Prop \o Prune
Finish == <<"ExpressionJoiner", "VarDeclPropagator", "UnusedPruner", "ExpressionJoiner", "UnusedPruner">>
Preparation == <<"Disambiguator", "FunctionHoister", "FunctionGrouper", "NameDispenser">>
=============================================================================
