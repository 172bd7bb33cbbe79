---------------------------- MODULE MCRuleEngine ----------------------------
(***************************************************************************)
(* Small instances of RuleEngine.  One struct type, facts whose contents   *)
(* are 0 or 1, and rules "low", "any" and "pair": facts that are 0, all    *)
(* facts, and a fact that is 0 together with one that is 1.                *)
(***************************************************************************)
EXTENDS RuleEngine

CONSTANTS T, f1, f2, low, any, pair

MCTypeOf == [f \in Facts |-> T]

(* TLC may take f1 and f2 for each other: no constant tells them apart.    *)
FactSymmetry == Permutations(Facts)

SalienceFlat == [r \in Rules |-> 0]
SalienceLow == [r \in Rules |-> IF r = low THEN 1 ELSE 0]

Singles(F, v, S) ==
    LET in == SelectSeq(F[T], LAMBDA f : v[f] \in S)
    IN [n \in DOMAIN in |-> <<in[n]>>]

(* As the join node does: for every right fact, all left facts.            *)
Pairs(L, R) ==
    [n \in 1..Len(L) * Len(R) |->
        L[((n - 1) % Len(L)) + 1] \o R[((n - 1) \div Len(L)) + 1]]

MCMatches(r, F, v) ==
    CASE r = low  -> Singles(F, v, {0})
      [] r = any  -> Singles(F, v, Vals)
      [] r = pair -> Pairs(Singles(F, v, {0}), Singles(F, v, {1}))
=============================================================================
