------------------------------- MODULE MCBook -------------------------------
(* The address book on small instances. *)
EXTENDS Book

VARIABLE editors   \* bound: a machine's book is edited once

\* Notes left in the slot by an older build, of a machine long gone: one in the
\* shape that had neither relays nor a display name, one that does not decrypt.
OldState == [EmptyState EXCEPT ![Cell("contact", 1)] = Reg(1, 1, 0, FALSE)]
LeftBehind == <<Note([ok |-> FALSE, snap |-> [lamport |-> 0, state |-> EmptyState, shape |-> 3]]),
                Note(SealedNote([lamport |-> 1, state |-> OldState, shape |-> 1]))>>
SecondHasAName == [d \in Devices |-> IF d = Host THEN Blank ELSE 1]

\* Two edits are made on two machines, so that each is concurrent with the other
\* or comes after a round has carried it there.
MCNext ==
    \/ \E d \in Devices \ editors : Edit(d) /\ editors' = editors \cup {d}
    \/ /\ \E d \in Devices :
            PairHost(d) \/ PairJoin(d) \/ RoundStep(d) \/ Fault(d) \/ StartSweep(d)
       /\ UNCHANGED editors

MCInit == BookInit /\ editors = {}

MCSpec == MCInit /\ [][MCNext]_<<bookVars, editors>> /\ Fairness
=============================================================================
