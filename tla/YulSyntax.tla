----------------------------- MODULE YulSyntax -----------------------------
(***************************************************************************)
(* Yul programs, the walkers of the optimiser that collect facts about     *)
(* them (NameCollector, ReferencesCounter, Assignments, MovableChecker,    *)
(* CodeSize), and an interpreter: the reference every transformation is    *)
(* compared with.                                                          *)
(*                                                                         *)
(* Every statement has the same fields: kind, names, function name,        *)
(* parameters, return variables, expressions, blocks, case values.  A      *)
(* block is a sequence of statements.  An absent value or a default case   *)
(* is an empty sequence.                                                   *)
(***************************************************************************)
EXTENDS SimplificationRules, Eager, TLC

St(k, n, f, ps, rs, es, bs, vs) ==
    [k |-> k, n |-> n, f |-> f, ps |-> ps, rs |-> rs, es |-> es, bs |-> bs, vs |-> vs]
Let(n, es) == St("let", n, "", << >>, << >>, es, << >>, << >>)
Asg(n, e) == St("asg", n, "", << >>, << >>, <<e>>, << >>, << >>)
Ex(e) == St("ex", << >>, "", << >>, << >>, <<e>>, << >>, << >>)
If(c, b) == St("if", << >>, "", << >>, << >>, <<c>>, <<b>>, << >>)
Switch(e, vs, bs) == St("switch", << >>, "", << >>, << >>, <<e>>, bs, vs)
Fn(f, ps, rs, b) == St("fn", << >>, f, ps, rs, << >>, <<b>>, << >>)
For(pre, c, post, b) == St("for", << >>, "", << >>, << >>, <<c>>, <<pre, post, b>>, << >>)
Blk(b) == St("block", << >>, "", << >>, << >>, << >>, <<b>>, << >>)

IsId(e) == e.k = "id"
Map(F(_), s) == [i \in DOMAIN s |-> F(s[i])]
Rev(s) == [i \in DOMAIN s |-> s[Len(s) + 1 - i]]

(* removeEmptyBlocks *)
removeEmptyBlocks(b) == SelectSeq(b, LAMBDA s : ~(s.k = "block" /\ s.bs[1] = << >>))

(***************************************************************************)
(* Walkers                                                                 *)
(***************************************************************************)
(* ReferencesCounter: every identifier, assigned ones and called functions included *)
RECURSIVE RefsE(_), RefsB(_)
RefsE(e) == (IF e.k \in {"id", "call"} THEN <<e.n>> ELSE << >>) \o FlattenSeq(Map(RefsE, e.a))
RefsS(s) == (IF s.k = "asg" THEN s.n ELSE << >>) \o FlattenSeq(Map(RefsE, s.es)) \o FlattenSeq(Map(RefsB, s.bs))
RefsB(b) == FlattenSeq(Map(RefsS, b))
Count(refs, n) == Cardinality({i \in DOMAIN refs : refs[i] = n})

(* NameCollector: the names of variables, functions, parameters and return variables *)
RECURSIVE Names(_)
Names(b) ==
    UNION {LET s == b[i]
           IN (IF s.k = "let" THEN ToSet(s.n) ELSE {})
              \cup (IF s.k = "fn" THEN {s.f} \cup ToSet(s.ps) \cup ToSet(s.rs) ELSE {})
              \cup UNION {Names(s.bs[j]) : j \in DOMAIN s.bs} : i \in DOMAIN b}

(* Assignments: the variables assigned to anywhere inside *)
RECURSIVE Assigned(_)
Assigned(b) ==
    UNION {(IF b[i].k = "asg" THEN ToSet(b[i].n) ELSE {})
           \cup UNION {Assigned(b[i].bs[j]) : j \in DOMAIN b[i].bs} : i \in DOMAIN b}

(* SemanticInformation::movable, for the instructions the programs use *)
movable(op) == op \in PureOps \cup {"calldataload", "pop"}

(* MovableChecker: whether an expression may be moved, and the variables it saw until it knew *)
RECURSIVE Movable(_), SeenVars(_)
Movable(e) ==
    /\ e.k # "call"
    /\ e.k = "op" => movable(e.n)
    /\ \A i \in DOMAIN e.a : Movable(e.a[i])
SeenVars(e) ==
    IF e.k = "id" THEN {e.n}
    ELSE IF e.k = "call" \/ (e.k = "op" /\ ~movable(e.n)) THEN {}
    ELSE UNION {SeenVars(e.a[i]) : i \in DOMAIN e.a}

(* CodeSize: one for each statement and each expression *)
RECURSIVE SizeE(_), SizeB(_)
SizeE(e) == 1 + MapThenSumSet(LAMBDA i : SizeE(e.a[i]), DOMAIN e.a)
SizeS(s) == 1 + MapThenSumSet(LAMBDA i : SizeE(s.es[i]), DOMAIN s.es)
              + MapThenSumSet(LAMBDA i : SizeB(s.bs[i]), DOMAIN s.bs)
SizeB(b) == MapThenSumSet(LAMBDA i : SizeS(b[i]), DOMAIN b)

(* ASTCopier with a table of names: everything not in the table keeps its name *)
Renamed(n, t) == IF n \in DOMAIN t THEN t[n] ELSE n
RECURSIVE RenE(_, _)
RenE(e, t) == [e EXCEPT !.n = IF e.k \in {"id", "call"} THEN Renamed(@, t) ELSE @,
                        !.a = [i \in DOMAIN @ |-> RenE(@[i], t)]]

(***************************************************************************)
(* The interpreter.  A machine is the storage and the log of what was      *)
(* written to it and read from it; arguments are evaluated last to first.  *)
(* Environments map variables to words; scopes is the list of blocks whose *)
(* functions are visible.  Loops of the programs given here end.           *)
(***************************************************************************)
Key(w) == w % 2
Perform(op, a, m) ==
    CASE op = "sload" -> [v |-> <<m.sto[Key(a[1])]>>, m |-> [m EXCEPT !.log = Append(@, <<Key(a[1])>>)]]
      [] op = "sstore" -> [v |-> << >>, m |-> [m EXCEPT !.sto[Key(a[1])] = a[2],
                                                        !.log = Append(@, <<Key(a[1]), a[2]>>)]]
      [] op = "calldataload" -> [v |-> <<m.cd[Key(a[1])]>>, m |-> m]
      [] op = "pop" -> [v |-> << >>, m |-> m]
      [] OTHER -> [v |-> <<Value(op, a)>>, m |-> m]

(* The innermost block of the scopes that defines a function *)
Defining(f, scopes) ==
    CHOOSE i \in DOMAIN scopes :
        /\ \E j \in DOMAIN scopes[i] : scopes[i][j].k = "fn" /\ scopes[i][j].f = f
        /\ \A h \in i + 1 .. Len(scopes) : \A j \in DOMAIN scopes[h] : scopes[h][j].k # "fn" \/ scopes[h][j].f # f

Zeros(names) == [n \in ToSet(names) |-> 0]
Bound(names, values) == [n \in ToSet(names) |-> values[CHOOSE i \in DOMAIN names : names[i] = n]]

RECURSIVE EvalE(_, _, _, _), EvalArgs(_, _, _, _), ExecB(_, _, _, _), ExecS(_, _, _, _), Loop(_, _, _, _)
EvalArgs(a, env, scopes, m) ==
    IF a = << >> THEN [v |-> << >>, m |-> m]
    ELSE With(EvalE(a[Len(a)], env, scopes, m), LAMBDA last :
         With(EvalArgs(Front(a), env, scopes, last.m), LAMBDA rest : [v |-> rest.v \o last.v, m |-> rest.m]))
EvalE(e, env, scopes, m) ==
    CASE e.k = "lit" -> [v |-> <<e.v>>, m |-> m]
      [] e.k = "id" -> [v |-> <<env[e.n]>>, m |-> m]
      [] OTHER ->
            With(EvalArgs(e.a, env, scopes, m), LAMBDA args :
                IF e.k = "op" THEN Perform(e.n, args.v, args.m)
                ELSE With(Defining(e.n, scopes), LAMBDA i :
                     With(SelectSeq(scopes[i], LAMBDA s : s.k = "fn" /\ s.f = e.n)[1], LAMBDA fun :
                     With(ExecB(fun.bs[1], Bound(fun.ps, args.v) @@ Zeros(fun.rs), SubSeq(scopes, 1, i), args.m), LAMBDA r :
                          [v |-> Map(LAMBDA x : r.env[x], fun.rs), m |-> r.m]))))
(* The block of a switch that a value selects *)
Selected(s, v) ==
    LET hit == {i \in DOMAIN s.vs : s.vs[i] # << >> /\ s.vs[i][1].v = v}
        default == {i \in DOMAIN s.vs : s.vs[i] = << >>}
    IN IF hit # {} THEN hit ELSE default
ExecS(s, env, scopes, m) ==
    LET outer(in) == [env |-> [n \in DOMAIN env |-> in.env[n]], m |-> in.m]
        bind(r) == [env |-> IF s.k \in {"let", "asg"} THEN Bound(s.n, r.v) @@ env ELSE env, m |-> r.m]
    IN CASE s.k = "fn" -> [env |-> env, m |-> m]
         [] s.k = "let" /\ s.es = << >> -> [env |-> Zeros(s.n) @@ env, m |-> m]
         [] s.k = "block" -> ExecB(s.bs[1], env, scopes, m)
         [] s.k = "for" -> outer(Loop([s EXCEPT !.bs[1] = << >>], [env |-> env, m |-> m], Append(scopes, s.bs[1]), s.bs[1]))
         [] s.k # "for" /\ s.es # << >> ->
              With(EvalE(s.es[1], env, scopes, m), LAMBDA r :
              With(IF s.k = "if" /\ r.v[1] # 0 THEN {1} ELSE IF s.k = "switch" THEN Selected(s, r.v[1]) ELSE {}, LAMBDA taken :
                   IF taken = {} THEN bind(r) ELSE ExecB(s.bs[CHOOSE i \in taken : TRUE], env, scopes, r.m)))
Loop(s, r, scopes, pre) ==
    IF pre # << >> THEN With(ExecS(pre[1], r.env, scopes, r.m), LAMBDA x : Loop(s, x, scopes, Tail(pre)))
    ELSE With(EvalE(s.es[1], r.env, scopes, r.m), LAMBDA c :
         IF c.v[1] = 0 THEN [r EXCEPT !.m = c.m]
         ELSE With(ExecB(s.bs[3], r.env, scopes, c.m), LAMBDA body :
              With(ExecB(s.bs[2], body.env, scopes, body.m), LAMBDA post : Loop(s, post, scopes, << >>))))
ExecB(b, env, scopes, m) ==
    With(Through(LAMBDA r, s : ExecS(s, r.env, Append(scopes, b), r.m), [env |-> env, m |-> m], b), LAMBDA in :
         [env |-> [n \in DOMAIN env |-> in.env[n]], m |-> in.m])

(* What a program does on one input: the log of its storage accesses *)
Inputs == {<<0, 1>>, <<3, 2>>}
Run(b, input) == ExecB(b, << >>, << >>, [sto |-> (0 :> 0) @@ (1 :> 5), log |-> << >>, cd |-> (0 :> input[1]) @@ (1 :> input[2])]).m.log
Behaviour(b) == [i \in Inputs |-> Run(b, i)]

(* Whether every variable is declared before it is used and every function called exists:
   the analyser accepts the program *)
RECURSIVE UsesOkE(_, _, _), UsesOkB(_, _, _)
UsesOkE(e, vars, funs) ==
    /\ e.k = "id" => e.n \in vars
    /\ e.k = "call" => e.n \in funs
    /\ \A i \in DOMAIN e.a : UsesOkE(e.a[i], vars, funs)
FunsOf(b) == {b[i].f : i \in {j \in DOMAIN b : b[j].k = "fn"}}
VarsOf(b) == UNION {ToSet(b[i].n) : i \in {j \in DOMAIN b : b[j].k = "let"}}
UsesOkB(b, vars, funs) ==
    LET fs == funs \cup FunsOf(b)
    IN \A i \in DOMAIN b :
        LET s == b[i]
            before == vars \cup VarsOf(SubSeq(b, 1, i - 1))
            inner == CASE s.k = "fn" -> ToSet(s.ps) \cup ToSet(s.rs)
                       [] s.k = "for" -> before \cup VarsOf(s.bs[1])
                       [] OTHER -> before
        IN /\ \A j \in DOMAIN s.es : UsesOkE(s.es[j], inner, fs)
           /\ s.k = "asg" => ToSet(s.n) \subseteq before
           /\ s.k = "let" => ToSet(s.n) \cap before = {}
           /\ \A j \in DOMAIN s.bs : UsesOkB(s.bs[j], IF s.k = "for" /\ j = 1 THEN before ELSE inner, fs)
WellScoped(b) == UsesOkB(b, {}, {})
=============================================================================
