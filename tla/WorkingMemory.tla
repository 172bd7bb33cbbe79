---------------------------- MODULE WorkingMemory ----------------------------
(***************************************************************************)
(* What factInsert and factDelete promise: for every kind of fact a bag of *)
(* struct addresses.  A handle remembers the bag it was last put into.     *)
(***************************************************************************)
EXTENDS Naturals

CONSTANTS Keys, Facts, NoKey

VARIABLES bag, home

Init ==
    /\ bag = [k \in Keys |-> [f \in Facts |-> 0]]
    /\ home = [f \in Facts |-> NoKey]

Insert(k, f) ==
    /\ bag' = [bag EXCEPT ![k][f] = @ + 1]
    /\ home' = [home EXCEPT ![f] = k]

Delete(f) ==
    /\ home[f] # NoKey
    /\ bag[home[f]][f] > 0
    /\ bag' = [bag EXCEPT ![home[f]][f] = @ - 1]
    /\ UNCHANGED home

Next == \E f \in Facts : Delete(f) \/ \E k \in Keys : Insert(k, f)

Spec == Init /\ [][Next]_<<bag, home>>
=============================================================================
