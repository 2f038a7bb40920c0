----------------------------- MODULE MCRestart -----------------------------
(* What outlives a process: the records of a manager that is started       *)
(* again, and the relay's inbox under two devices of one recipient, which  *)
(* restart as the relay does.  They share no state, so a behaviour plays   *)
(* one and leaves the other where it begins.                               *)
EXTENDS Restart, TLC

CONSTANTS Offer, Device, Notify

VARIABLES scene, boxRows, boxWaiters, boxReq, boxAcking, boxHeld, boxKnown

boxVars == <<boxRows, boxWaiters, boxReq, boxAcking, boxHeld, boxKnown>>
Box == INSTANCE Inbox WITH
    PerSlot <- 1, MaxRows <- 1, MaxPosts <- 1,
    rows <- boxRows, waiters <- boxWaiters, req <- boxReq,
    acking <- boxAcking, held <- boxHeld, known <- boxKnown

Names == Permutations(Items) \cup Permutations(Device)

\* Bound: where somebody cancels, the process ends one time fewer.
CancelOrCrash ==
    crashes = MaxCrashes => \A x \in Items : wish[x] # "gone"

ScenesInit == scene \in {"records", "inbox"} /\ Init /\ Box!Init

ScenesNext ==
    \/ scene = "records" /\ Next /\ CancelOrCrash' /\ UNCHANGED <<scene, boxVars>>
    \/ scene = "inbox" /\ Box!Next /\ UNCHANGED <<scene, vars>>

ScenesSpec == ScenesInit /\ [][ScenesNext]_<<scene, vars, boxVars>>

\* With two devices, what a sender has heard of its offer never goes back
\* (Inbox; mailbox.rs, inbox_mark_arrived).
DevicesClimb == [][Box!NeverBack]_boxVars
=============================================================================
