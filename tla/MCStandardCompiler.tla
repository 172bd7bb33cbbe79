------------------------- MODULE MCStandardCompiler -------------------------
(***************************************************************************)
(* Two sources the user gives and one only the read callback knows; texts  *)
(* with an import, a circle of imports, a missing import and a fault of    *)
(* each kind.                                                              *)
(***************************************************************************)
EXTENDS StandardCompiler

MCNameOrder == <<"a", "b", "l", "m">>

(* uses creates the contract of l, back that of a text uses in a, with     *)
(* hard it closes a circle; gone imports what is nowhere; twice has a      *)
(* double declaration, reported by a phase that goes on.                   *)
MCTexts == {"uses", "lib", "back", "gone", "broken", "twice", "hard", "plain"}

MCImports ==
    [t \in MCTexts |-> CASE t = "uses" -> <<"l">> [] t = "back" -> <<"a", "l">>
                         [] t = "gone" -> <<"m">> [] t = "hard" -> <<"b">> [] OTHER -> <<>>]
MCDeclares ==
    [t \in MCTexts |-> CASE t = "uses" -> <<"U">> [] t = "lib" -> <<"L">>
                         [] t = "back" -> <<"B">> [] t = "hard" -> <<"H">>
                         [] t = "twice" -> <<"T">> [] t = "plain" -> <<"A">>
                         [] OTHER -> <<>>]
MCNeeds ==
    [c \in {"U", "L", "B", "H", "T", "A"} |->
        CASE c = "U" -> {"L"} [] c = "B" -> {"U"} [] OTHER -> {}]
MCFault ==
    [t \in MCTexts |->
        CASE t = "broken" -> [phase |-> "parse", fatal |-> TRUE]
          [] t = "twice" -> [phase |-> "register", fatal |-> FALSE]
          [] OTHER -> [phase |-> "none", fatal |-> FALSE]]
MCAbstract == {"A"}
MCUnsupported == {"H"}
MCGiven == {"a", "b"}
MCSelections == {{}, {<<"", "U">>}}
MCFiles == [n \in {"l"} |-> "lib"]

Base == [NoRequest EXCEPT !.sources = [n \in {"a"} |-> <<"uses">>]]
MCRequests ==
    {[Base EXCEPT !.optimize = o, !.evm = o, !.requested = q, !.bad = x] :
        o \in {"absent", "on"}, q \in {{}, {<<"a", "U">>}, {<<"*", "U">>}}, x \in {"no", "libraries", "optimizer"}}
    \cup {[Base EXCEPT !.standard = x, !.bad = y] : x \in {"known", "unknown"}, y \in {"no", "evm"}}
    \cup {[Base EXCEPT !.sources = [n \in {"a", "b"} |-> IF n = "a" THEN x ELSE y]] :
            x \in {<<"uses">>, <<Unreadable, "uses">>, <<Mismatch>>, <<>>},
            y \in {<<"back">>, <<"twice">>, <<"broken">>, <<"gone">>, <<"hard">>, <<Unreadable>>, <<>>}}
    \cup {[Base EXCEPT !.bad = "input"], [Base EXCEPT !.sources = <<>>]}
=============================================================================
