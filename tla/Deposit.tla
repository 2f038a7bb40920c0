------------------------------ MODULE Deposit ------------------------------
(***************************************************************************)
(* What putting a file on a relay promises, as if it were one indivisible  *)
(* request: the file is stored whole or not at all, and the sender is told *)
(* of a copy only once it is there.                                        *)
(***************************************************************************)
CONSTANTS Claim, None

VARIABLES
    copies,   \* claims of the whole copies on the relay
    told,     \* the claim the sender was told of
    outcome   \* "pending", "done", "failed" or "cancelled"

dvars == <<copies, told, outcome>>

Init == copies = {} /\ told = None /\ outcome = "pending"

\* A copy appears, whole; an answer that was lost leaves the sender pending.
Store(c) ==
    /\ outcome = "pending" /\ c \notin copies
    /\ copies' = copies \cup {c} /\ UNCHANGED <<told, outcome>>

Tell(c) ==
    /\ outcome = "pending" /\ c \in copies
    /\ told' = c /\ outcome' = "done" /\ UNCHANGED copies

\* Both at once: stored and answered.
StoreAndTell(c) ==
    /\ outcome = "pending" /\ c \notin copies
    /\ copies' = copies \cup {c} /\ told' = c /\ outcome' = "done"

GiveUp(how) ==
    /\ outcome = "pending" /\ how \in {"failed", "cancelled"}
    /\ outcome' = how /\ UNCHANGED <<copies, told>>

\* Collected or expired.
Lapse(c) == c \in copies /\ copies' = copies \ {c} /\ UNCHANGED <<told, outcome>>

Next ==
    \/ \E c \in Claim : Store(c) \/ Tell(c) \/ StoreAndTell(c) \/ Lapse(c)
    \/ \E how \in {"failed", "cancelled"} : GiveUp(how)

Spec == Init /\ [][Next]_dvars
=============================================================================
