------------------------------ MODULE SeqStore ------------------------------
(***************************************************************************)
(* What the dynamic memory arrays promise: a growing set of independent    *)
(* sequences, each of which can be appended to and emptied.                *)
(***************************************************************************)
EXTENDS Sequences

CONSTANTS Items, Refs

VARIABLE seqs

Init == seqs = <<>>

New(r) ==
    /\ r \notin DOMAIN seqs
    /\ seqs' = [q \in DOMAIN seqs \cup {r} |-> IF q = r THEN <<>> ELSE seqs[q]]

Push(r, item) == seqs' = [seqs EXCEPT ![r] = Append(@, item)]

Clear(r) == seqs' = [seqs EXCEPT ![r] = <<>>]

Next ==
    \/ \E r \in Refs : New(r)
    \/ \E r \in DOMAIN seqs : Clear(r) \/ \E item \in Items : Push(r, item)

Spec == Init /\ [][Next]_seqs
=============================================================================
