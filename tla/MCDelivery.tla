----------------------------- MODULE MCDelivery -----------------------------
(* Symmetry for the safety of Delivery, and one run of its loop for the rest. *)
EXTENDS Delivery, TLC

Names == Permutations(Offer) \cup Permutations(Ticket) \cup Permutations(Blob)

\* Bound: one run of the loop, in which the process does not end.
LoopSpec == Init /\ [][Next /\ UNCHANGED restarts]_vars /\ Fairness
=============================================================================
