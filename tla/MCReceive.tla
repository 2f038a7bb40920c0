----------------------------- MODULE MCReceive -----------------------------
(* A file of two pieces; the relay holds the second, one peer the first.    *)
EXTENDS Receive
MCHolds == [p \in {"relay"} \cup Peer |-> IF p = "relay" THEN {2} ELSE {1}]

\* Bound: all the faults meet a download to a named file, one fewer those into a
\* directory.
DirsFailLess == faults = MaxFaults => \A t \in Ticket : dest[t] # "dir"
ReceiveSpec == RecvInit /\ [][RecvNext /\ DirsFailLess']_recvVars /\ RecvFairness
=============================================================================
