----------------------------- MODULE ParserBase -----------------------------
(***************************************************************************)
(* What the parsers share.  A parser state is the tokens, the position,    *)
(* the values built so far, the number of errors reported, whether a fatal *)
(* error was thrown, the recursion depth and whether a modifier definition *)
(* is being parsed.  Once a fatal error is thrown every operation leaves   *)
(* the state alone: it unwinds to parse.                                   *)
(***************************************************************************)
EXTENDS SyntaxTree
CONSTANT MaxDepth      (* 2560 in the code *)

(* a token: its kind (its text) and its literal *)
Token(t, l) == [t |-> t, l |-> l]
Ident(x) == Token("Identifier", x)
EOS == Token("EOS", "")

(***************************************************************************)
(* The parser state                                                        *)
(***************************************************************************)
At(s, p) == IF p <= Len(s.ts) THEN s.ts[p] ELSE EOS
Cur(s) == At(s, s.p).t
Literally(s) == At(s, s.p).l
Peek(s) == At(s, s.p + 1).t
PeekLiteral(s) == At(s, s.p + 1).l
Advance(s) == With(s, LAMBDA r : IF r.f \/ r.p > Len(r.ts) THEN r ELSE [r EXCEPT !.p = @ + 1])
Push(s, v) == With(s, LAMBDA r : IF r.f THEN r ELSE [r EXCEPT !.v = Append(@, v)])
parserError(s) == With(s, LAMBDA r : IF r.f THEN r ELSE [r EXCEPT !.e = @ + 1])
fatalParserError(s) == [parserError(s) EXCEPT !.f = TRUE]
expectToken(s, t) == With(s, LAMBDA r : IF Cur(r) = t THEN Advance(r) ELSE fatalParserError(r))
getLiteralAndAdvance(s) == With(s, LAMBDA r : Advance(Push(r, Str(Literally(r)))))
expectIdentifierToken(s) ==
    With(s, LAMBDA r : IF Cur(r) = "Identifier" THEN getLiteralAndAdvance(r) ELSE fatalParserError(r))
(* s with one value where r has those pushed since s; the i-th of them *)
Ret(r, s, v) == With(r, LAMBDA q : IF q.f THEN q ELSE [q EXCEPT !.v = Append(s.v, v)])
Val(r, s, i) == r.v[Len(s.v) + i]
Name(r, s, i) == Val(r, s, i).n[1]
Since(r, s) == SubSeq(r.v, Len(s.v) + 1, Len(r.v))
Drop(r, s) == With(r, LAMBDA q : IF q.f THEN q ELSE [q EXCEPT !.v = s.v])
Start(tokens) == [ts |-> tokens, p |-> 1, v |-> << >>, e |-> 0, f |-> FALSE, d |-> 0, m |-> FALSE]
=============================================================================
