-------------------------------- MODULE Eager --------------------------------
(* Ways to say that a value is computed once: TLC would otherwise compute an
   argument of an operator again at every place it is used. *)
EXTENDS Integers, Sequences

(* F(v), with v computed once *)
With(v, F(_)) == CHOOSE r \in {F(x) : x \in {v}} : TRUE
(* FoldLeft, with each step computed before the next one asks for it *)
Through(Step(_, _), base, s) ==
    With(s, LAMBDA q :
        LET upTo[i \in 0 .. Len(q)] == IF i = 0 THEN base ELSE With(upTo[i - 1], LAMBDA v : Step(v, q[i]))
        IN upTo[Len(q)])
==============================================================================
