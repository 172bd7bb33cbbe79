------------------------------ MODULE Scanner ------------------------------
(***************************************************************************)
(* The scanner: a text is a string; a scanner state has the position, the  *)
(* character looked at ("" past the end; it is not the one at the position *)
(* just after a comment), the literal and the documentation comment of the *)
(* token being scanned.  The bytes of the Unicode line breaks are written  *)
(* with characters that no other rule of the scanner mentions.  Source     *)
(* locations are left out.                                                 *)
(***************************************************************************)
EXTENDS SyntaxTree

(* the words of TOKEN_LIST that are keywords, those reserved for later included *)
Keywords ==
    {"factInsert", "factDelete", "update", "delete", "anonymous", "as", "assembly", "break", "constant",
     "constructor", "continue", "contract", "do", "else", "enum", "emit", "event", "external", "for", "function",
     "hex", "if", "indexed", "interface", "internal", "import", "is", "library", "mapping", "memory", "modifier",
     "new", "payable", "public", "pragma", "private", "pure", "return", "returns", "storage", "calldata", "struct",
     "throw", "using", "var", "view", "while", "rule", "when", "then", "fireAllRules", "no_loop", "lock_on_active",
     "salience", "extends", "freegas", "wei", "szabo", "finney", "ether", "seconds", "minutes", "hours", "days",
     "weeks", "years", "int", "uint", "bytes", "byte", "string", "address", "bool", "fixed", "ufixed", "safeuint",
     "true", "false", "abstract", "after", "alias", "apply", "auto", "case", "catch", "copyof", "default", "define",
     "final", "immutable", "implements", "in", "inline", "let", "macro", "match", "mutable", "null", "of",
     "override", "partial", "promise", "reference", "relocatable", "sealed", "sizeof", "static", "supports",
     "switch", "try", "type", "typedef", "typeof", "unchecked"}

DecimalDigits == {"0", "1", "2", "3", "4", "5", "6", "7", "8", "9"}
HexValues == ("0" :> 0) @@ ("1" :> 1) @@ ("2" :> 2) @@ ("3" :> 3) @@ ("4" :> 4) @@ ("5" :> 5) @@ ("6" :> 6) @@ ("7" :> 7) @@ ("8" :> 8)
             @@ ("9" :> 9) @@ ("a" :> 10) @@ ("b" :> 11) @@ ("c" :> 12) @@ ("d" :> 13) @@ ("e" :> 14) @@ ("f" :> 15)
             @@ ("A" :> 10) @@ ("B" :> 11) @@ ("C" :> 12) @@ ("D" :> 13) @@ ("E" :> 14) @@ ("F" :> 15)
WhiteSpace == {" ", "\n", "\t", "\r"}
IdentifierStart == {"_", "$", "a", "b", "c", "d", "e", "f", "g", "h", "i", "j", "k", "l", "m", "n", "o", "p", "q", "r", "s", "t", "u", "v", "w",
                    "x", "y", "z", "A", "B", "C", "D", "E", "F", "G", "H", "I", "J", "K", "L", "M", "N", "O", "P", "Q", "R", "S", "T", "U", "V",
                    "W", "X", "Y", "Z"}
IdentifierPart == IdentifierStart \cup DecimalDigits

(***************************************************************************)
(* CharStream and the state                                                *)
(***************************************************************************)
CharAt(s, k) == IF s.p + k < Len(s.src) THEN SubSeq(s.src, s.p + k + 1, s.p + k + 1) ELSE ""
PastEnd(s, k) == s.p + k >= Len(s.src)
advanceBy(s, k) ==
    IF PastEnd(s, 0) THEN [s EXCEPT !.c = ""] ELSE With([s EXCEPT !.p = @ + k], LAMBDA r : [r EXCEPT !.c = CharAt(r, 0)])
advance(s) == advanceBy(s, 1)
rollback(s, k) == With([s EXCEPT !.p = @ - k], LAMBDA r : [r EXCEPT !.c = CharAt(r, 0)])
addLiteral(s, c) == [s EXCEPT !.lit = @ \o c]
addLiteralCharAndAdvance(s) == advance(addLiteral(s, s.c))
addComment(s, c) == [s EXCEPT !.comment = @ \o c]
Yield(s, t) == [s EXCEPT !.t = t]
(* a literal that is not complete is dropped *)
Abort(s, t) == [s EXCEPT !.t = t, !.lit = ""]
isUnicodeLinebreak(s) ==
    \/ s.c \in {"\n", "\r", "\f"}
    \/ ~PastEnd(s, 1) /\ CharAt(s, 0) = "#" /\ CharAt(s, 1) = "@"
    \/ ~PastEnd(s, 2) /\ CharAt(s, 0) = "@" /\ CharAt(s, 1) = "#" /\ CharAt(s, 2) = "#"

RECURSIVE skipWhitespace(_), skipBlanks(_), skipSingleLineComment(_), addWhile(_, _)
skipWhitespace(s) == IF s.c \in WhiteSpace THEN With(advance(s), LAMBDA r : skipWhitespace(r)) ELSE s
(* white space of the line *)
skipBlanks(s) == IF s.c \in WhiteSpace /\ ~isUnicodeLinebreak(s) THEN With(advance(s), LAMBDA r : skipBlanks(r)) ELSE s
addWhile(s, set) == IF s.c \in set THEN With(addLiteralCharAndAdvance(s), LAMBDA r : addWhile(r, set)) ELSE s

(***************************************************************************)
(* Comments                                                                *)
(***************************************************************************)
skipSingleLineComment(s) ==
    IF isUnicodeLinebreak(s) THEN s ELSE With(advance(s), LAMBDA r : IF PastEnd(r, 0) THEN r ELSE skipSingleLineComment(r))
Follows(s, text) == \A i \in 1 .. Len(text) : CharAt(s, i - 1) = SubSeq(text, i, i)
(* whether the next line is also a documentation comment *)
(* mutant: two slashes are enough *)
MutDocFollows(s) == ~PastEnd(s, 3) /\ Follows(s, "//")
DocFollows(s) == ~PastEnd(s, 3) /\ Follows(s, "///")
RECURSIVE DocLines(_)
DocLines(s) ==
    CASE PastEnd(s, 0) -> s
      [] ~PastEnd(s, 0) /\ s.c = "\n" ->
           With(skipWhitespace(s), LAMBDA r :
               IF DocFollows(r)
               THEN With(advanceBy(addComment(r, "\n"), 3), LAMBDA q : With(advance(addComment(q, q.c)), LAMBDA w : DocLines(w)))
               ELSE r)
      [] ~PastEnd(s, 0) /\ s.c # "\n" /\ isUnicodeLinebreak(s) -> s
      [] OTHER -> With(advance(addComment(s, s.c)), LAMBDA r : DocLines(r))
scanSingleLineDocComment(s) == DocLines(skipBlanks(advance([s EXCEPT !.comment = ""])))
RECURSIVE skipMultiLineComment(_)
skipMultiLineComment(s) ==
    IF PastEnd(s, 0) THEN Yield(s, "ILLEGAL")
    ELSE With(advance(s), LAMBDA r :
             IF s.c = "*" /\ r.c = "/" THEN Yield([r EXCEPT !.c = " "], "Whitespace") ELSE skipMultiLineComment(r))
(* the start of a line of a documentation comment; added: whether it has characters already *)
LineStart(s, added) ==
    With(skipWhitespace(s), LAMBDA r :
        CASE Follows(r, "**") -> advance(addComment(r, "*"))
          [] Follows(r, "*") /\ ~PastEnd(r, 1) /\ ~Follows(r, "**") /\ ~Follows(r, "*/") ->
               advanceBy(IF added THEN addComment(r, "\n") ELSE r, 2)
          [] Follows(r, "*/") -> Yield(advanceBy(r, 2), "CommentLiteral")
          [] OTHER -> IF added THEN addComment(r, "\n") ELSE r)
RECURSIVE MultiDoc(_, _)
MultiDoc(s, added) ==
    IF PastEnd(s, 0) THEN Yield(s, "ILLEGAL")
    ELSE With(IF s.c = "\n" THEN LineStart(s, added) ELSE s, LAMBDA r :
             CASE r.t = "CommentLiteral" -> r
               [] r.t # "CommentLiteral" /\ Follows(r, "*/") -> Yield(advanceBy(r, 2), "CommentLiteral")
               [] OTHER -> With(advance(addComment(r, r.c)), LAMBDA q : MultiDoc(q, TRUE)))
RECURSIVE InLine(_)
InLine(s) == IF s.c \in WhiteSpace \ {"\n"} THEN With(advance(s), LAMBDA r : InLine(r)) ELSE s
scanMultiLineDocComment(s) == MultiDoc(InLine([s EXCEPT !.comment = "", !.t = ""]), FALSE)
scanSlash(s) ==
    With(advance(s), LAMBDA r :
        CASE r.c = "/" ->
               With(advance(r), LAMBDA q :
                   CASE PastEnd(q, 0) -> Yield(q, "Whitespace")
                     [] ~PastEnd(q, 0) /\ q.c = "/" -> Yield(scanSingleLineDocComment(q), "Whitespace")
                     [] OTHER -> Yield(skipSingleLineComment(q), "Whitespace"))
          [] r.c = "*" ->
               With(advance(r), LAMBDA q :
                   CASE PastEnd(q, 0) -> Yield(q, "ILLEGAL")
                     [] ~PastEnd(q, 0) /\ q.c = "*" ->
                          With(advance(q), LAMBDA w :
                              IF w.c = "/" THEN Yield(advance(w), "Whitespace")
                              ELSE With(scanMultiLineDocComment(w), LAMBDA z : IF z.t = "ILLEGAL" THEN z ELSE Yield(z, "Whitespace")))
                     [] OTHER -> skipMultiLineComment(advance(q)))
          [] r.c = "=" -> Yield(advance(r), "/=")
          [] OTHER -> Yield(r, "/"))

(***************************************************************************)
(* Literals                                                                *)
(***************************************************************************)
(* one byte of a literal: its character, or its number where it cannot be written *)
Printable == " !\"#$%&'()*+,-./0123456789:;<=>?@ABCDEFGHIJKLMNOPQRSTUVWXYZ[\\]^_"
Lower == "abcdefghijklmnopqrstuvwxyz{|}~"
Byte(code) == CASE code \in 32 .. 95 -> SubSeq(Printable, code - 31, code - 31)
                [] code \in 97 .. 126 -> SubSeq(Lower, code - 96, code - 96)
                [] code \in {9, 10, 12, 13} -> (9 :> "\t" @@ 10 :> "\n" @@ 12 :> "\f" @@ 13 :> "\r")[code]
                [] OTHER -> "<" \o ToString(code) \o ">"
(* n hexadecimal digits: their value, or -1 with nothing consumed *)
RECURSIVE HexDigits(_, _, _)
HexDigits(s, n, x) == IF n = 0 THEN [s |-> s, x |-> x]
                      ELSE IF s.c \notin DOMAIN HexValues THEN [s |-> s, x |-> -1]
                      ELSE With(advance(s), LAMBDA r : HexDigits(r, n - 1, x * 16 + HexValues[s.c]))
scanHex(s, n) == With(HexDigits(s, n, 0), LAMBDA r : IF r.x >= 0 THEN r ELSE [s |-> rollback(r.s, r.s.p - s.p), x |-> -1])
addUnicodeAsUTF8(s, codepoint) ==
    CASE codepoint <= 127 -> addLiteral(s, Byte(codepoint))
      [] codepoint > 127 /\ codepoint <= 2047 -> addLiteral(s, Byte(192 + codepoint \div 64) \o Byte(128 + (codepoint % 64)))
      [] OTHER -> addLiteral(s, Byte(224 + codepoint \div 4096) \o Byte(128 + ((codepoint \div 64) % 64)) \o Byte(128 + (codepoint % 64)))
Escapes == ("b" :> 8) @@ ("f" :> 12) @@ ("n" :> 10) @@ ("r" :> 13) @@ ("t" :> 9) @@ ("v" :> 11)
(* ILLEGAL when it is no escape *)
scanEscape(s) ==
    With(advance(s), LAMBDA r :
        CASE s.c = "\n" -> r
          [] s.c \in {"'", "\"", "\\"} -> addLiteral(r, s.c)
          [] s.c \in DOMAIN Escapes -> addLiteral(r, Byte(Escapes[s.c]))
          [] s.c = "u" -> With(scanHex(r, 4), LAMBDA h : IF h.x < 0 THEN Abort(h.s, "ILLEGAL") ELSE addUnicodeAsUTF8(h.s, h.x))
          [] s.c = "x" -> With(scanHex(r, 2), LAMBDA h : IF h.x < 0 THEN Abort(h.s, "ILLEGAL") ELSE addLiteral(h.s, Byte(h.x)))
          [] OTHER -> Abort(r, "ILLEGAL"))
RECURSIVE StringChars(_, _), HexChars(_, _)
StringChars(s, quote) ==
    CASE s.c = quote /\ ~PastEnd(s, 0) -> Yield(advance(s), "StringLiteral")
      [] PastEnd(s, 0) \/ isUnicodeLinebreak(s) -> Abort(s, "ILLEGAL")
      [] s.c = "\\" ->
           With(advance(s), LAMBDA r :
               IF PastEnd(r, 0) THEN Abort(r, "ILLEGAL")
               ELSE With(scanEscape(r), LAMBDA q : IF q.t = "ILLEGAL" THEN q ELSE StringChars(q, quote)))
      [] OTHER -> With(advance(addLiteral(s, s.c)), LAMBDA r : StringChars(r, quote))
scanString(s) == StringChars(advance([s EXCEPT !.lit = "", !.t = ""]), s.c)
HexChars(s, quote) ==
    CASE s.c = quote /\ ~PastEnd(s, 0) -> Yield(advance(s), "StringLiteral")
      [] PastEnd(s, 0) -> Abort(s, "ILLEGAL_HEX")
      [] OTHER -> With(scanHex(s, 2), LAMBDA h : IF h.x < 0 THEN Abort(h.s, "ILLEGAL_HEX")
                                                 ELSE With(addLiteral(h.s, Byte(h.x)), LAMBDA r : HexChars(r, quote)))
scanHexString(s) == HexChars(advance([s EXCEPT !.lit = ""]), s.c)

scanDecimalDigits(s) == IF s.c \in DecimalDigits THEN addWhile(s, DecimalDigits \cup {"_"}) ELSE s
(* what follows a number must not continue it *)
NumberEnd(s) == IF s.c \in IdentifierPart THEN Abort(s, "ILLEGAL") ELSE Yield(s, "Number")
Exponent(s) ==
    CASE s.c \notin {"e", "E"} -> NumberEnd(s)
      [] s.c \in {"e", "E"} /\ ~PastEnd(s, 1) /\ CharAt(s, 1) = "_" ->
           Yield(scanDecimalDigits(addLiteralCharAndAdvance(addLiteralCharAndAdvance(s))), "Number")
      [] OTHER ->
           With(addLiteralCharAndAdvance(s), LAMBDA r :
           With(IF r.c \in {"+", "-"} THEN addLiteralCharAndAdvance(r) ELSE r, LAMBDA q :
               IF q.c \notin DecimalDigits THEN Abort(q, "ILLEGAL") ELSE NumberEnd(scanDecimalDigits(q))))
Fraction(s) ==
    IF s.c # "." THEN Exponent(s)
    ELSE With(IF ~PastEnd(s, 1) /\ CharAt(s, 1) = "_" THEN scanDecimalDigits(addLiteralCharAndAdvance(addLiteralCharAndAdvance(s))) ELSE s, LAMBDA r :
             IF PastEnd(r, 0) \/ CharAt(r, 1) \notin DecimalDigits THEN Yield(r, "Number")
             ELSE Exponent(scanDecimalDigits(addLiteralCharAndAdvance(r))))
scanNumber(s, pointSeen) ==
    With([s EXCEPT !.lit = ""], LAMBDA r :
        CASE pointSeen -> Exponent(scanDecimalDigits(addLiteral(r, ".")))
          [] ~pointSeen /\ r.c = "0" ->
               With(addLiteralCharAndAdvance(r), LAMBDA q :
                   CASE q.c = "x" ->
                          With(addLiteralCharAndAdvance(q), LAMBDA w :
                              IF w.c \notin DOMAIN HexValues THEN Abort(w, "ILLEGAL")
                              ELSE Exponent(addWhile(w, DOMAIN HexValues \cup {"_"})))
                     [] q.c \in DecimalDigits -> Abort(q, "ILLEGAL")
                     [] OTHER -> Fraction(scanDecimalDigits(q)))
          [] OTHER -> Fraction(scanDecimalDigits(r)))

(***************************************************************************)
(* Keywords and sized types: the word split at its first digit             *)
(***************************************************************************)
keywordByName(word) == IF word \in Keywords THEN word ELSE "Identifier"
RECURSIVE Number(_, _)
Number(text, x) == IF text = "" THEN x ELSE Number(SubSeq(text, 2, Len(text)), x * 10 + HexValues[SubSeq(text, 1, 1)])
(* the first position from i on whose character is (not) a digit, Len + 1 if there is none *)
RECURSIVE FirstFrom(_, _, _)
FirstFrom(word, i, digit) ==
    IF i > Len(word) \/ (SubSeq(word, i, i) \in DecimalDigits) = digit THEN i ELSE FirstFrom(word, i + 1, digit)
Sized(t, m, n) == [t |-> t, m |-> m, n |-> n]
fromIdentifierOrKeyword(word) ==
    With(FirstFrom(word, 1, TRUE), LAMBDA i :
    IF i > Len(word) THEN Sized(keywordByName(word), 0, 0)
    ELSE With(FirstFrom(word, i, FALSE), LAMBDA j :
         LET base == keywordByName(SubSeq(word, 1, i - 1))
             m == Number(SubSeq(word, i, j - 1), 0)
             rest == SubSeq(word, j + 1, Len(word))
             fixed == j <= Len(word) /\ SubSeq(word, j, j) = "x" /\ FirstFrom(word, j + 1, FALSE) > Len(word) /\ rest # ""
         IN CASE base = "bytes" /\ 0 < m /\ m <= 32 /\ j > Len(word) -> Sized("bytesM", m, 0)
              [] base \in {"uint", "int"} /\ 0 < m /\ m <= 256 /\ m % 8 = 0 /\ j > Len(word) -> Sized(base \o "M", m, 0)
              [] base \in {"ufixed", "fixed"} /\ fixed /\ 8 <= m /\ m <= 256 /\ m % 8 = 0 -> Sized(base \o "MxN", m, Number(rest, 0))
              [] OTHER -> Sized("Identifier", 0, 0)))
scanIdentifierOrKeyword(s) ==
    With(addWhile(addLiteralCharAndAdvance([s EXCEPT !.lit = ""]), IdentifierPart), LAMBDA r :
    With(fromIdentifierOrKeyword(r.lit), LAMBDA k :
        CASE k.t = "hex" /\ r.c \in {"\"", "'"} -> scanHexString(r)
          [] k.t = "hex" /\ r.c \notin {"\"", "'"} -> Yield(r, "ILLEGAL_HEX")
          [] OTHER -> [r EXCEPT !.t = k.t, !.m = k.m, !.n = k.n]))

(***************************************************************************)
(* Operators: the characters that may follow                               *)
(***************************************************************************)
Continuations == ("<" :> {"=", "<"}) @@ ("<<" :> {"="}) @@ (">" :> {"=", ">"}) @@ (">>" :> {"=", ">"}) @@ (">>>" :> {"="})
                 @@ ("=" :> {"=", ">"}) @@ ("!" :> {"="}) @@ ("+" :> {"+", "="}) @@ ("-" :> {"-", "="}) @@ ("*" :> {"*", "="})
                 @@ ("%" :> {"="}) @@ ("&" :> {"&", "="}) @@ ("|" :> {"|", "="}) @@ ("^" :> {"="})
Singles == {":", ";", ",", "(", ")", "[", "]", "{", "}", "?", "~"}
RECURSIVE Operator(_, _)
Operator(s, sofar) ==
    IF sofar \in DOMAIN Continuations /\ s.c \in Continuations[sofar]
    THEN With(advance(s), LAMBDA r : Operator(r, sofar \o s.c)) ELSE Yield(s, sofar)
(* one token or a stretch of white space *)
ScanOne(s) ==
    CASE s.c \in {"\"", "'"} -> scanString(s)
      [] s.c = "/" -> scanSlash(s)
      [] s.c = "." -> With(advance(s), LAMBDA r : IF r.c \in DecimalDigits THEN scanNumber(r, TRUE) ELSE Yield(r, "."))
      [] s.c \in DOMAIN Continuations \cup Singles -> Operator(advance(s), s.c)
      [] s.c \in IdentifierStart -> scanIdentifierOrKeyword(s)
      [] s.c \in DecimalDigits -> scanNumber(s, FALSE)
      [] s.c \in WhiteSpace -> Yield(skipWhitespace(s), "Whitespace")
      [] s.c = "" -> Yield(s, "EOS")
      [] OTHER -> Yield(advance(s), "ILLEGAL")
RECURSIVE ScanOn(_)
ScanOn(s) == With(ScanOne(s), LAMBDA r : IF r.t = "Whitespace" THEN ScanOn(r) ELSE r)
scanToken(s) == ScanOn([s EXCEPT !.lit = "", !.comment = "", !.m = 0, !.n = 0, !.t = ""])

(* the token the parser sees: its kind, its literal or the sizes of its type *)
Described(s) == [t |-> s.t, l |-> CASE s.t \in {"intM", "uintM", "bytesM"} -> ToString(s.m)
                                    [] s.t \in {"fixedMxN", "ufixedMxN"} -> ToString(s.m) \o "x" \o ToString(s.n)
                                    [] s.t \in {"Identifier", "Number", "StringLiteral"} -> s.lit
                                    [] OTHER -> ""]
RECURSIVE TokensFrom(_)
TokensFrom(state) ==
    With(scanToken(state), LAMBDA s : IF s.t = "EOS" THEN << >> ELSE <<Described(s)>> \o TokensFrom(s))
reset(text) ==
    With([src |-> text, p |-> 0, c |-> "", lit |-> "", comment |-> "", t |-> "", m |-> 0, n |-> 0], LAMBDA s :
        skipWhitespace([s EXCEPT !.c = CharAt(s, 0)]))
Scan(text) == TokensFrom(reset(text))
=============================================================================
