---------------------------- MODULE MCRendezvous ----------------------------
(* Symmetry, and bounds on what may happen in one behaviour. *)
EXTENDS Rendezvous, TLC

Names == Permutations(Sender) \cup Permutations(Receiver)

\* Bound: a behaviour has a lost message or a restart of the sender, not both,
\* and one tick less where a device is paired.
Bounded ==
    /\ faults = 0 \/ restarts = 0
    /\ now = MaxTime => \A s \in Sender : snd[s].kind # "device"
BoundedSpec == Init /\ [][Next /\ Bounded']_vars
=============================================================================
