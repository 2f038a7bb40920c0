------------------------------ MODULE Delivery ------------------------------
(***************************************************************************)
(* One `send --to`, from send_to() to its end: the row the user sees, the  *)
(* delivery loop (deliver_to), the records that bring it back after a      *)
(* restart, the watcher of a deposited or parked copy, the detached task   *)
(* that withdraws one, and the commands a user gives meanwhile.  The relay *)
(* and the recipient are an environment: what they may do in a run is Env. *)
(*                                                                         *)
(* A step of the loop is the code between two awaits.  A command runs on   *)
(* another thread and may come between any two of them, also between       *)
(* drop_held and the record that replaces it.  Deadlines and back-offs are *)
(* choices: whether the loop finds the recipient online, whether the relay *)
(* is due another try.  The payload does not change, so a stored           *)
(* preparation is always usable, and there is one transfer, so its id is   *)
(* the same in every life of the daemon.                                   *)
(***************************************************************************)
EXTENDS Naturals, FiniteSets

CONSTANTS
    Offer,       \* ids of rows in the recipient's inbox
    Ticket,      \* chunk tickets: a content key and the node seed serving it
    Blob,        \* claims of sealed copies in the relay's mailbox
    None,
    Commands,    \* what the user may do
    Env,         \* what the relay, the recipient and the clock may do
    LiveOnly,    \* the send's live_only flag
    MaxRestarts  \* bound on restarts of the daemon

ASSUME DeliveryConstants ==
    /\ None \notin Offer \cup Ticket \cup Blob
    /\ Ticket \cap Blob = {}
    /\ LiveOnly \in BOOLEAN
    /\ MaxRestarts \in Nat

VARIABLES
    row,       \* the transfer's status, and whether `cancels` has its token
    held,      \* its Held entry: preparation, pause_flag, deposit_now
    disk,      \* its records: sendto-, prep-, deposited-, park-
    task,      \* the locals of the delivery loop
    retracts,  \* offers whose withdrawal is on its way to the relay
    watch,     \* the watcher of a deposited or parked copy
    withdraw,  \* the task cancelling one
    offers,    \* the recipient's inbox on the relay
    blobs,     \* the relay's mailbox
    pieces,    \* what the relay holds of a ticket's pieces
    pulling,   \* tickets the recipient has accepted
    got,       \* the recipient has the file
    clock,     \* where the deposit's deadline stands
    asked,     \* the user has asked for the send to end
    restarts

mine  == <<row, held, disk, task, retracts, watch, withdraw, asked, restarts>>
theirs == <<offers, blobs, pieces, pulling, got, clock>>
vars  == <<mine, theirs>>

Live == {"active", "preparing", "waiting"}
Over == {"completed", "cancelled", "failed"}

\* Offers the recipient can still act on, and those the relay still knows.
Open  == {"pending", "arrived"}
Known == Open \cup {"taken"}

Idle ==
    [pc |-> "ended", stop |-> FALSE, expired |-> FALSE, online |-> FALSE,
     proven |-> FALSE, relayDue |-> FALSE, told |-> FALSE, tooBig |-> FALSE,
     offloaded |-> FALSE, standing |-> None, seen |-> "pending",
     attempt |-> "on", connected |-> FALSE, peer |-> FALSE, blob |-> None,
     offer |-> None]

Loop == [Idle EXCEPT !.pc = "top", !.relayDue = TRUE]

-----------------------------------------------------------------------------
(* The row, and the ways it leaves the loop.                               *)

\* set_status: the task is ending, so the token goes with the status.
SetStatus(s) ==
    row' = [status |-> IF row.status = "none" THEN "none" ELSE s, token |-> FALSE]

\* mutant
SetLiveDropsToken(s) == SetStatus(s)

SetLive(s) ==
    row' = [row EXCEPT !.status = IF @ = "none" THEN "none" ELSE s]

DropHeld ==
    /\ held' = None
    /\ disk' = [disk EXCEPT !.sendto = "none", !.prep = None]

\* mutant
FinishKeepsRecord(s) == SetStatus(s) /\ UNCHANGED <<held, disk>>

Finish(s) == SetStatus(s) /\ DropHeld

SetPaused ==
    /\ disk' = [disk EXCEPT !.sendto = "paused"]
    /\ SetStatus("paused")
    /\ UNCHANGED held

HandleStop == IF held.pause THEN SetPaused ELSE Finish("cancelled")

\* mutant
EndTaskLeavesOffer == task' = Idle /\ UNCHANGED retracts

\* deliver_to's tail: whatever ended the loop, the standing offer goes.
EndTask ==
    /\ task' = Idle
    /\ retracts' = retracts \cup ({task.standing} \ {None})

At(pc) == task.pc = pc

Goto(pc) == task' = [task EXCEPT !.pc = pc]

-----------------------------------------------------------------------------
(* send_to and the loop: the live path.                                    *)

SendTo ==
    /\ row.status = "unsent"
    /\ row' = [status |-> "active", token |-> TRUE]
    /\ held' = [prep |-> None, pause |-> FALSE, depositNow |-> FALSE]
    /\ disk' = [disk EXCEPT !.sendto = "run"]
    /\ task' = Loop
    /\ UNCHANGED <<retracts, watch, withdraw, asked, restarts, theirs>>

\* The loop looks at its token here, and in the awaits that select on it.
\* serve_live_once selects on it too, but a receiver may have the last word.
Stop ==
    /\ task.stop
    /\ task.pc \in {"top", "upload", "announce", "hand", "wait"}
    /\ HandleStop
    /\ EndTask
    /\ UNCHANGED <<watch, withdraw, asked, restarts, theirs>>

GiveUp ==
    /\ At("top")
    /\ ~task.stop
    /\ task.expired
    /\ SetPaused
    /\ EndTask
    /\ UNCHANGED <<watch, withdraw, asked, restarts, theirs>>

\* mutant
LookForgetsWakeUp ==
    /\ At("top")
    /\ ~task.stop
    /\ ~task.expired
    /\ \E online \in BOOLEAN :
        /\ task' = [task EXCEPT !.pc = IF online THEN "prepare" ELSE "relay",
                                !.online = online, !.proven = FALSE]
        /\ IF online /\ held.prep = None THEN SetLive("preparing")
                                         ELSE UNCHANGED row
    /\ UNCHANGED <<held, disk, retracts, watch, withdraw, asked, restarts, theirs>>

\* A recipient who has just acted on the offer is there whatever the beacon says.
Look ==
    /\ At("top")
    /\ ~task.stop
    /\ ~task.expired
    /\ \E online \in (IF task.proven THEN {TRUE} ELSE BOOLEAN) :
        /\ task' = [task EXCEPT !.pc = IF online THEN "prepare" ELSE "relay",
                                !.online = online, !.proven = FALSE]
        /\ IF online /\ held.prep = None THEN SetLive("preparing")
                                         ELSE UNCHANGED row
    /\ UNCHANGED <<held, disk, retracts, watch, withdraw, asked, restarts, theirs>>

Unheard(t) == t # disk.prep /\ t \notin pulling /\ \A o \in Offer : offers[o].names # t

Prepare ==
    /\ At("prepare")
    /\ \/ /\ held.prep = None
          /\ \E t \in Ticket : Unheard(t) /\ held' = [held EXCEPT !.prep = t]
          /\ Goto("note")
       \/ /\ held.prep # None
          /\ Goto("post")
          /\ UNCHANGED held
    /\ UNCHANGED <<row, disk, retracts, watch, withdraw, asked, restarts, theirs>>

PrepareFails ==
    /\ At("prepare")
    /\ "fatal" \in Env
    /\ Finish("failed")
    /\ EndTask
    /\ UNCHANGED <<watch, withdraw, asked, restarts, theirs>>

\* mutant
NoteNothing ==
    /\ At("note")
    /\ Goto("post")
    /\ UNCHANGED <<row, held, disk, retracts, watch, withdraw, asked, restarts, theirs>>

\* persist_prep_record, before anybody is told of the ticket.
Note ==
    /\ At("note")
    /\ disk' = [disk EXCEPT !.prep = held.prep]
    /\ Goto("post")
    /\ UNCHANGED <<row, held, retracts, watch, withdraw, asked, restarts, theirs>>

\* What serve_live_once finds of its standing offer: the offer itself, or
\* nothing, when it is gone or the relay cannot say.
Standing ==
    {o \in {task.standing} : o # None /\ offers[o].st \in Known}
        \cup (IF task.standing = None \/ offers[task.standing].st \notin Known
                \/ "relay_down" \in Env THEN {None} ELSE {})

NewOffer(o, what) ==
    /\ offers[o].st = "none"
    /\ offers' = [offers EXCEPT ![o] = [st |-> "pending", names |-> what]]

Serving(o, seen) ==
    task' = [task EXCEPT !.pc = "serve", !.standing = o, !.seen = seen, !.attempt = "on",
                         !.connected = FALSE, !.peer = FALSE]

Post ==
    /\ At("post")
    /\ \E o \in Standing :
        \/ /\ o # None
           /\ Serving(o, offers[o].st)
           /\ UNCHANGED offers
        \/ /\ o = None
           /\ \E new \in Offer : NewOffer(new, held.prep) /\ Serving(new, "pending")
    /\ SetLive("waiting")
    /\ UNCHANGED <<held, disk, retracts, watch, withdraw, asked, restarts>>
    /\ UNCHANGED <<blobs, pieces, pulling, got, clock>>

\* post_offer failed, or its answer was lost: nobody is told, or nobody knows.
PostFails ==
    /\ At("post")
    /\ "relay_down" \in Env
    /\ task' = [task EXCEPT !.pc = "relay", !.standing = None]
    /\ offers' = offers \/ \E new \in Offer : NewOffer(new, held.prep)
    /\ UNCHANGED <<row, held, disk, retracts, watch, withdraw, asked, restarts>>
    /\ UNCHANGED <<blobs, pieces, pulling, got, clock>>

\* mutant
WatchdogPhaseOne ==
    /\ At("serve")
    /\ task.attempt = "on"
    /\ ~task.connected
    /\ offers[task.standing].st = "pending"
    /\ task' = [task EXCEPT !.attempt = "unseen"]
    /\ UNCHANGED <<row, held, disk, retracts, watch, withdraw, asked, restarts, theirs>>

\* The watchdog of one attempt: nobody saw the offer, or nobody answered it.
Watchdog ==
    /\ At("serve")
    /\ task.attempt = "on"
    /\ ~task.connected
    /\ task' = [task EXCEPT !.attempt =
                    IF offers[task.standing].st = "pending" THEN "unseen" ELSE "undecided"]
    /\ UNCHANGED <<row, held, disk, retracts, watch, withdraw, asked, restarts, theirs>>

ReceiverConnected ==
    /\ At("serve")
    /\ ~task.peer
    /\ ~got
    /\ held.prep \in pulling
    /\ task' = [task EXCEPT !.connected = TRUE, !.peer = TRUE]
    /\ SetLive("active")
    /\ UNCHANGED <<held, disk, retracts, watch, withdraw, asked, restarts, theirs>>

Delivered ==
    /\ At("serve")
    /\ task.connected
    /\ got
    /\ Finish("completed")
    /\ EndTask
    /\ UNCHANGED <<watch, withdraw, asked, restarts, theirs>>

\* The recipient cancelled on the wire: the offer is withdrawn here, at once.
RecipientCancelled ==
    /\ At("serve")
    /\ task.peer
    /\ ~got
    /\ "abort" \in Env
    /\ Finish("failed")
    /\ task' = Idle
    /\ offers' = [offers EXCEPT ![task.standing].st = "gone"]
    /\ UNCHANGED <<retracts, watch, withdraw, asked, restarts>>
    /\ UNCHANGED <<blobs, pieces, pulling, got, clock>>

\* mutant
OffloadedForgets ==
    /\ At("serve")
    /\ task.peer
    /\ ~got
    /\ "drop" \in Env
    /\ pieces' = [pieces EXCEPT ![held.prep] = "all"]
    /\ task' = [task EXCEPT !.pc = "relay", !.peer = FALSE]
    /\ SetLive("waiting")
    /\ UNCHANGED <<held, disk, retracts, watch, withdraw, asked, restarts>>
    /\ UNCHANGED <<offers, blobs, pulling, got, clock>>

\* The receiver dropped and the relay took every piece it lacks.
Offloaded ==
    /\ At("serve")
    /\ task.peer
    /\ ~got
    /\ "drop" \in Env
    /\ pieces' = [pieces EXCEPT ![held.prep] = "all"]
    /\ IF task.stop
       THEN HandleStop /\ EndTask
       ELSE /\ task' = [task EXCEPT !.pc = "relay", !.peer = FALSE, !.offloaded = TRUE]
            /\ SetLive("waiting")
            /\ UNCHANGED <<held, disk, retracts>>
    /\ UNCHANGED <<watch, withdraw, asked, restarts>>
    /\ UNCHANGED <<offers, blobs, pulling, got, clock>>

\* The receiver dropped and the relay took some of it, or nothing: serve goes on.
OffloadFails ==
    /\ At("serve")
    /\ task.peer
    /\ ~got
    /\ "capped" \in Env
    /\ pieces' = [pieces EXCEPT ![held.prep] = IF @ = "all" THEN @ ELSE "some"]
    /\ task' = [task EXCEPT !.peer = FALSE]
    /\ SetLive("waiting")
    /\ UNCHANGED <<held, disk, retracts, watch, withdraw, asked, restarts>>
    /\ UNCHANGED <<offers, blobs, pulling, got, clock>>

\* mutant
ServeEndsDeaf ==
    /\ At("serve")
    /\ task.attempt # "on"
    /\ \E due \in (IF task.attempt = "undecided" THEN BOOLEAN ELSE {task.relayDue}) :
            task' = [task EXCEPT !.pc = "relay", !.relayDue = due, !.peer = FALSE]
    /\ UNCHANGED <<row, held, disk, retracts>>
    /\ UNCHANGED <<watch, withdraw, asked, restarts, theirs>>

\* serve() broke on a token.  AwaitingDecision puts the relay off to the
\* deposit deadline, unless the recipient has left or the deadline has passed.
ServeEnds ==
    /\ At("serve")
    /\ task.stop \/ task.attempt # "on"
    /\ IF task.stop
       THEN HandleStop /\ EndTask
       ELSE /\ \E due \in (IF task.attempt = "undecided" THEN BOOLEAN ELSE {task.relayDue}) :
                    task' = [task EXCEPT !.pc = "relay", !.relayDue = due, !.peer = FALSE]
            /\ UNCHANGED <<row, held, disk, retracts>>
    /\ UNCHANGED <<watch, withdraw, asked, restarts, theirs>>

-----------------------------------------------------------------------------
(* The loop: the relay path.                                               *)

RelayOpen == ~LiveOnly /\ ~task.tooBig /\ ~task.offloaded

ChooseRelay ==
    /\ At("relay")
    /\ IF LiveOnly /\ ~task.online /\ ~task.told
       THEN /\ task' = [task EXCEPT !.pc = "wait", !.told = TRUE]
            /\ SetLive("waiting")
       ELSE /\ Goto(IF RelayOpen /\ held.depositNow /\ task.standing # None THEN "park"
                    ELSE IF RelayOpen /\ (held.depositNow \/ task.relayDue) THEN "upload"
                    ELSE "wait")
            /\ UNCHANGED row
    /\ UNCHANGED <<held, disk, retracts, watch, withdraw, asked, restarts, theirs>>

\* park_on_relay took it all: spawn_parked_confirm, and the loop returns with
\* its offer still standing.
Park ==
    /\ At("park")
    /\ pieces' = [pieces EXCEPT ![held.prep] = "all"]
    /\ held' = [held EXCEPT !.depositNow = FALSE]
    /\ disk' = [disk EXCEPT !.park = [ticket |-> held.prep, offer |-> task.standing]]
    /\ watch' = [kind |-> "park", what |-> held.prep, offer |-> task.standing]
    /\ SetStatus("deposited")
    /\ EndTask
    /\ UNCHANGED <<withdraw, asked, restarts, offers, blobs, pulling, got, clock>>

\* Capped, full, unreachable or cancelled: on to the mailbox.
ParkFails ==
    /\ At("park")
    /\ task.stop \/ {"capped", "relay_down"} \cap Env # {}
    /\ Goto("upload")
    /\ row' = row \/ SetLive("waiting")
    /\ UNCHANGED <<held, disk, retracts, watch, withdraw, asked, restarts, theirs>>

\* deposit_offline_with: the sealed copy is in the mailbox.
Upload ==
    /\ At("upload")
    /\ \E b \in Blob :
        /\ blobs[b] = "none"
        /\ blobs' = [blobs EXCEPT ![b] = "stored"]
        /\ task' = [task EXCEPT !.pc = "announce", !.blob = b]
    /\ UNCHANGED <<row, held, disk, retracts, watch, withdraw, asked, restarts>>
    /\ UNCHANGED <<offers, pieces, pulling, got, clock>>

UploadRefused ==
    /\ At("upload")
    /\ \/ /\ "too_large" \in Env
          /\ task' = [task EXCEPT !.pc = "wait", !.tooBig = TRUE]
       \/ /\ "relay_down" \in Env
          /\ task' = [task EXCEPT !.pc = "wait", !.relayDue = FALSE]
    /\ SetLive("waiting")
    /\ UNCHANGED <<held, disk, retracts, watch, withdraw, asked, restarts, theirs>>

UploadFails ==
    /\ At("upload")
    /\ "fatal" \in Env
    /\ Finish("failed")
    /\ EndTask
    /\ UNCHANGED <<watch, withdraw, asked, restarts, theirs>>

\* post_offer of the deposit has reached the relay; its answer is on the way.
Announce ==
    /\ At("announce")
    /\ \E new \in Offer :
        /\ NewOffer(new, task.blob)
        /\ task' = [task EXCEPT !.pc = "hand", !.offer = new]
    /\ UNCHANGED <<row, held, disk, retracts, watch, withdraw, asked, restarts>>
    /\ UNCHANGED <<blobs, pieces, pulling, got, clock>>

\* The notice failed, so the whole deposit did: the loop will make another.
AnnounceFails ==
    /\ task.pc \in {"announce", "hand"}
    /\ "relay_down" \in Env
    /\ task' = [task EXCEPT !.pc = "wait", !.relayDue = FALSE, !.blob = None, !.offer = None]
    /\ SetLive("waiting")
    /\ UNCHANGED <<held, disk, retracts, watch, withdraw, asked, restarts, theirs>>

Hand ==
    /\ At("hand")
    /\ DropHeld
    /\ Goto("file")
    /\ UNCHANGED <<row, retracts, watch, withdraw, asked, restarts, theirs>>

\* mutant
FileLiveOffer ==
    /\ At("file")
    /\ SetStatus("deposited")
    /\ disk' = [disk EXCEPT !.dep = [blob |-> task.blob, offer |-> task.standing]]
    /\ watch' = [kind |-> "dep", what |-> task.blob, offer |-> task.offer]
    /\ EndTask
    /\ UNCHANGED <<held, withdraw, asked, restarts, theirs>>

\* spawn_offline_confirm
File ==
    /\ At("file")
    /\ SetStatus("deposited")
    /\ disk' = [disk EXCEPT !.dep = [blob |-> task.blob, offer |-> task.offer]]
    /\ watch' = [kind |-> "dep", what |-> task.blob, offer |-> task.offer]
    /\ EndTask
    /\ UNCHANGED <<held, withdraw, asked, restarts, theirs>>

\* The held wait: news of the standing offer, no news, or no standing offer.
Wait ==
    /\ At("wait")
    /\ \E due \in {task.relayDue, TRUE} :
        LET s    == IF task.standing = None THEN None ELSE offers[task.standing].st
            base == [task EXCEPT !.pc = "top", !.relayDue = due]
        IN  \/ task' = IF s = None THEN base
                       ELSE IF s \notin Known THEN [base EXCEPT !.standing = None]
                       ELSE [base EXCEPT !.seen = s, !.proven = (s # task.seen)]
            \/ "relay_down" \in Env /\ task' = base
    /\ UNCHANGED <<row, held, disk, retracts, watch, withdraw, asked, restarts, theirs>>

\* give_up_at goes by.
TimeIsUp ==
    /\ task.pc # "ended"
    /\ "give_up" \in Env
    /\ ~task.expired
    /\ task' = [task EXCEPT !.expired = TRUE]
    /\ UNCHANGED <<row, held, disk, retracts, watch, withdraw, asked, restarts, theirs>>

\* deliver_to's retract_offer, best effort.
Retract(o) ==
    /\ o \in retracts
    /\ retracts' = retracts \ {o}
    /\ \/ offers' = [offers EXCEPT ![o].st = "gone"]
       \/ "relay_down" \in Env /\ UNCHANGED offers
    /\ UNCHANGED <<row, held, disk, task, watch, withdraw, asked, restarts>>
    /\ UNCHANGED <<blobs, pieces, pulling, got, clock>>

-----------------------------------------------------------------------------
(* Watching and withdrawing a copy left on the relay.                      *)

Gone ==
    IF watch.kind = "dep" THEN blobs[watch.what] # "stored"
                          ELSE pieces[watch.what] = "none"

\* mutant
ReadCopyTrustsClock(reach) ==
    CASE clock = "early" /\ offers[watch.offer].st = "taken" -> "picked_up"
      [] reach /\ Gone -> "picked_up"
      [] clock = "early" -> "keep"
      [] OTHER -> "picked_up"

\* read_deposit and read_parked: the offer is asked after only when the copy
\* itself settles nothing, and a parked copy is never called expired.
ReadCopy(reach) ==
    CASE reach /\ Gone -> "picked_up"
      [] clock = "early" /\ offers[watch.offer].st = "taken" -> "picked_up"
      [] clock = "early" -> "keep"
      [] reach /\ watch.kind = "dep" -> "expired"
      [] OTHER -> "unknown"

Retire ==
    disk' = IF watch.kind = "dep" THEN [disk EXCEPT !.dep = None]
                                  ELSE [disk EXCEPT !.park = None]

Confirm ==
    /\ watch # None
    /\ \E reach \in (IF "relay_down" \in Env THEN BOOLEAN ELSE {TRUE}) :
        LET verdict == ReadCopy(reach)
        IN  /\ verdict # "keep"
            /\ CASE verdict = "picked_up" -> SetStatus("completed")
                 [] verdict = "expired"   -> SetStatus("failed")
                 [] OTHER                 -> UNCHANGED row
    /\ Retire
    /\ watch' = None
    /\ UNCHANGED <<held, task, retracts, withdraw, asked, restarts, theirs>>

\* cancel_deposited, cancel_parked: revoke the copy, retract the notice, both
\* best effort and within CANCEL_RELAY_SECS ...
WithdrawCalls ==
    /\ withdraw # None
    /\ ~withdraw.called
    /\ withdraw' = [withdraw EXCEPT !.called = TRUE]
    /\ LET r == withdraw.rec IN
       \/ /\ r # None /\ withdraw.kind = "dep"
          /\ blobs' = [blobs EXCEPT ![r.blob] = IF @ = "stored" THEN "revoked" ELSE @]
          /\ offers' = [offers EXCEPT ![r.offer].st = "gone"]
          /\ UNCHANGED pieces
       \/ /\ r # None /\ withdraw.kind = "park"
          /\ pieces' = [pieces EXCEPT ![r.ticket] = "none"]
          /\ offers' = [offers EXCEPT ![r.offer].st = "gone"]
          /\ UNCHANGED blobs
       \/ /\ r = None \/ "relay_down" \in Env
          /\ UNCHANGED <<blobs, offers, pieces>>
    /\ UNCHANGED <<row, held, disk, task, retracts, watch, asked, restarts>>
    /\ UNCHANGED <<pulling, got, clock>>

\* ... then end the row.
WithdrawEnds ==
    /\ withdraw # None
    /\ withdraw.called
    /\ disk' = IF withdraw.kind = "dep" THEN [disk EXCEPT !.dep = None]
                                        ELSE [disk EXCEPT !.park = None]
    /\ SetStatus("cancelled")
    /\ withdraw' = None
    /\ UNCHANGED <<held, task, retracts, watch, asked, restarts, theirs>>

-----------------------------------------------------------------------------
(* What the user does.                                                     *)

Pause ==
    /\ "pause" \in Commands
    /\ row.status \in Live
    /\ held # None
    /\ held' = [held EXCEPT !.pause = TRUE]
    /\ task' = [task EXCEPT !.stop = @ \/ row.token]
    /\ UNCHANGED <<row, disk, retracts, watch, withdraw, asked, restarts, theirs>>

Resume ==
    /\ "resume" \in Commands
    /\ row.status = "paused"
    /\ held # None
    /\ held' = [held EXCEPT !.pause = FALSE]
    /\ row' = [status |-> "active", token |-> TRUE]
    /\ disk' = [disk EXCEPT !.sendto = "run"]
    /\ task' = Loop
    /\ asked' = FALSE
    /\ UNCHANGED <<retracts, watch, withdraw, restarts, theirs>>

CancelLive ==
    /\ "cancel" \in Commands
    /\ row.status \in Live
    /\ asked' = TRUE
    /\ IF row.token
       THEN task' = [task EXCEPT !.stop = TRUE] /\ UNCHANGED <<row, held, disk>>
       ELSE Finish("cancelled") /\ UNCHANGED task
    /\ UNCHANGED <<retracts, watch, withdraw, restarts, theirs>>

CancelPaused ==
    /\ "cancel" \in Commands
    /\ row.status = "paused"
    /\ asked' = TRUE
    /\ Finish("cancelled")
    /\ UNCHANGED <<task, retracts, watch, withdraw, restarts, theirs>>

\* Which kind of copy it is, the records say.  A second cancel while the first
\* is at work would find the same record and is left out.
CancelDeposited ==
    /\ "cancel" \in Commands
    /\ row.status = "deposited"
    /\ withdraw = None
    /\ asked' = TRUE
    /\ withdraw' = IF disk.park # None
                   THEN [kind |-> "park", rec |-> disk.park, called |-> FALSE]
                   ELSE [kind |-> "dep", rec |-> disk.dep, called |-> FALSE]
    /\ UNCHANGED <<row, held, disk, task, retracts, watch, restarts, theirs>>

\* deposit_now: jump the queue, and end the attempt being served.
DepositNow ==
    /\ "deposit_now" \in Commands
    /\ row.status \in {"waiting", "preparing"}
    /\ held # None
    /\ held' = [held EXCEPT !.depositNow = TRUE]
    /\ task' = [task EXCEPT !.attempt = IF At("serve") /\ @ = "on" THEN "unseen" ELSE @]
    /\ UNCHANGED <<row, disk, retracts, watch, withdraw, asked, restarts, theirs>>

Remove ==
    /\ "remove" \in Commands
    /\ row.status \in Over
    /\ row' = [row EXCEPT !.status = "none"]
    /\ UNCHANGED <<held, disk, task, retracts, watch, withdraw, asked, restarts, theirs>>

ClearFinished ==
    /\ "clear" \in Commands
    /\ row.status \notin {"unsent", "none", "active", "deposited", "waiting", "paused"}
    /\ row' = [row EXCEPT !.status = "none"]
    /\ UNCHANGED <<held, disk, task, retracts, watch, withdraw, asked, restarts, theirs>>

\* restore_sendto's Held entry, with the preparation that was written down.
RestoreHeld ==
    IF disk.sendto = "none" THEN None
    ELSE [prep |-> disk.prep, pause |-> FALSE, depositNow |-> FALSE]

\* The daemon stops anywhere and comes back: resume_incomplete.
Restart ==
    /\ restarts < MaxRestarts
    /\ row.status # "unsent"
    /\ restarts' = restarts + 1
    /\ retracts' = {}
    /\ withdraw' = None
    /\ asked' = FALSE
    /\ LET kept == disk.dep # None /\ clock # "over" IN
       /\ disk' = [disk EXCEPT !.dep = IF kept THEN @ ELSE None,
                               !.prep = IF disk.sendto = "none" THEN None ELSE @]
       /\ watch' = IF kept THEN [kind |-> "dep", what |-> disk.dep.blob,
                                 offer |-> disk.dep.offer]
                   ELSE None
       /\ held' = RestoreHeld
       /\ task' = IF disk.sendto = "run" THEN Loop ELSE Idle
       /\ row' = CASE kept                   -> [status |-> "deposited", token |-> FALSE]
                   [] disk.sendto = "run"    -> [status |-> "active", token |-> TRUE]
                   [] disk.sendto = "paused" -> [status |-> "paused", token |-> FALSE]
                   [] OTHER                  -> [status |-> "none", token |-> FALSE]
    /\ UNCHANGED theirs

-----------------------------------------------------------------------------
(* The recipient, the relay's clock.                                       *)

See(o) ==
    /\ offers[o].st = "pending"
    /\ offers' = [offers EXCEPT ![o].st = "arrived"]
    /\ UNCHANGED <<mine, blobs, pieces, pulling, got, clock>>

\* A live offer is acked when it is accepted, before anything is fetched.
Accept(o) ==
    /\ offers[o].st \in Open
    /\ offers[o].names \in Ticket
    /\ ~got
    /\ offers' = [offers EXCEPT ![o].st = "taken"]
    /\ pulling' = pulling \cup {offers[o].names}
    /\ UNCHANGED <<mine, blobs, pieces, got, clock>>

\* A mailbox offer is acked by the fetch, once the file is written.
Fetch(o) ==
    /\ offers[o].st \in Open
    /\ offers[o].names \in Blob
    /\ blobs[offers[o].names] = "stored"
    /\ blobs' = [blobs EXCEPT ![offers[o].names] = "fetched"]
    /\ got' = TRUE
    /\ UNCHANGED <<mine, offers, pieces, pulling, clock>>

Ack(o) ==
    /\ offers[o].st \in Open
    /\ offers[o].names \in Blob
    /\ blobs[offers[o].names] = "fetched"
    /\ offers' = [offers EXCEPT ![o].st = "taken"]
    /\ UNCHANGED <<mine, blobs, pieces, pulling, got, clock>>

\* reject_offer acks, too.
Reject(o) ==
    /\ "reject" \in Env
    /\ offers[o].st \in Open
    /\ offers' = [offers EXCEPT ![o].st = "taken"]
    /\ UNCHANGED <<mine, blobs, pieces, pulling, got, clock>>

Pull ==
    /\ At("serve")
    /\ task.peer
    /\ ~got
    /\ got' = TRUE
    /\ UNCHANGED <<mine, offers, blobs, pieces, pulling, clock>>

Collect(t) ==
    /\ t \in pulling
    /\ ~got
    /\ pieces[t] = "all"
    /\ got' = TRUE
    /\ pieces' = [pieces EXCEPT ![t] = "none"]
    /\ UNCHANGED <<mine, offers, blobs, pulling, clock>>

OfferLapses(o) ==
    /\ "expire" \in Env
    /\ offers[o].st \in Known
    /\ offers' = [offers EXCEPT ![o].st = "gone"]
    /\ UNCHANGED <<mine, blobs, pieces, pulling, got, clock>>

\* The deposit's deadline comes near, and passes.  The daemon is awake in the
\* margin between the two (OFFLINE_CONFIRM_MARGIN_SECS) unless it is "asleep".
Tick ==
    /\ row.status = "deposited"
    /\ \/ clock = "early" /\ clock' = "margin"
       \/ clock = "margin" /\ (watch = None \/ "asleep" \in Env) /\ clock' = "over"
    /\ UNCHANGED <<mine, offers, blobs, pieces, pulling, got>>

\* The relay drops a blob at the deadline it granted: the one asked for, or an
\* earlier one of its own ("clamp").
BlobLapses(b) ==
    /\ blobs[b] = "stored"
    /\ clock = "over" \/ "clamp" \in Env
    /\ blobs' = [blobs EXCEPT ![b] = "lapsed"]
    /\ UNCHANGED <<mine, offers, pieces, pulling, got, clock>>

-----------------------------------------------------------------------------
Init ==
    /\ row = [status |-> "unsent", token |-> FALSE]
    /\ held = None
    /\ disk = [sendto |-> "none", prep |-> None, dep |-> None, park |-> None]
    /\ task = Idle
    /\ retracts = {}
    /\ watch = None
    /\ withdraw = None
    /\ offers = [o \in Offer |-> [st |-> "none", names |-> None]]
    /\ blobs = [b \in Blob |-> "none"]
    /\ pieces = [t \in Ticket |-> "none"]
    /\ pulling = {}
    /\ got = FALSE
    /\ clock = "early"
    /\ asked = FALSE
    /\ restarts = 0

TaskStep ==
    \/ Stop \/ GiveUp \/ Look \/ Prepare \/ PrepareFails \/ Note \/ Post \/ PostFails
    \/ ChooseRelay \/ Park \/ ParkFails
    \/ Upload \/ UploadRefused \/ UploadFails \/ Announce \/ AnnounceFails
    \/ Hand \/ File \/ Wait

ServeStep ==
    \/ Watchdog \/ ReceiverConnected \/ Delivered \/ RecipientCancelled
    \/ Offloaded \/ OffloadFails \/ ServeEnds

RelayTasks ==
    \/ TimeIsUp \/ Confirm \/ WithdrawCalls \/ WithdrawEnds
    \/ \E o \in Offer : Retract(o)

UserStep ==
    \/ SendTo \/ Pause \/ Resume \/ CancelLive \/ CancelPaused \/ CancelDeposited
    \/ DepositNow \/ Remove \/ ClearFinished

RecipientStep ==
    \/ Pull \/ Tick
    \/ \E o \in Offer : See(o) \/ Accept(o) \/ Fetch(o) \/ Ack(o) \/ Reject(o) \/ OfferLapses(o)
    \/ \E t \in Ticket : Collect(t)
    \/ \E b \in Blob : BlobLapses(b)

Next == TaskStep \/ ServeStep \/ RelayTasks \/ UserStep \/ RecipientStep \/ Restart

Spec == Init /\ [][Next]_vars

\* The runtime polls a task that can move, a timer fires, and a select! with
\* two arms ready does not pick the same one for ever.  A receiver that is
\* connected gets the file or is lost: its connection does not stay idle.
Fairness ==
    /\ WF_vars(TaskStep)
    /\ WF_vars(Stop)
    /\ WF_vars(ServeEnds)
    /\ WF_vars(Delivered)
    /\ WF_vars(Watchdog)
    /\ WF_vars(Pull \/ Offloaded \/ OffloadFails)

FairSpec == Spec /\ Fairness

-----------------------------------------------------------------------------
(* Properties.                                                             *)

Pc == {"ended", "top", "prepare", "note", "post", "serve", "relay", "park",
       "upload", "announce", "hand", "file", "wait"}

Status == Live \cup Over \cup {"unsent", "none", "paused", "deposited"}

Copy(kind, what) == [kind : {kind}, what : what, offer : Offer]

DepRecord  == [blob : Blob, offer : Offer]
ParkRecord == [ticket : Ticket, offer : Offer]

TaskType ==
    [pc : Pc, stop : BOOLEAN, expired : BOOLEAN, online : BOOLEAN, proven : BOOLEAN,
     relayDue : BOOLEAN, told : BOOLEAN, tooBig : BOOLEAN, offloaded : BOOLEAN,
     standing : Offer \cup {None}, seen : Known, attempt : {"on", "unseen", "undecided"},
     connected : BOOLEAN, peer : BOOLEAN, blob : Blob \cup {None},
     offer : Offer \cup {None}]

RowType  == [status : Status, token : BOOLEAN]
HeldType == [prep : Ticket \cup {None}, pause : BOOLEAN, depositNow : BOOLEAN]
DiskType ==
    [sendto : {"none", "run", "paused"}, prep : Ticket \cup {None},
     dep : DepRecord \cup {None}, park : ParkRecord \cup {None}]
OfferType == [st : Known \cup {"none", "gone"}, names : Ticket \cup Blob \cup {None}]

WatchType == Copy("dep", Blob) \cup Copy("park", Ticket)
WithdrawType ==
    [kind : {"dep"}, rec : DepRecord \cup {None}, called : BOOLEAN]
        \cup [kind : {"park"}, rec : ParkRecord, called : BOOLEAN]

\* None is none of the records it stands in for.
ASSUME DeliveryNone ==
    None \notin HeldType \cup DepRecord \cup ParkRecord \cup WatchType \cup WithdrawType

TypeOK ==
    /\ row \in RowType
    /\ held \in HeldType \cup {None}
    /\ disk \in DiskType
    /\ task \in TaskType
    /\ retracts \subseteq Offer
    /\ watch \in WatchType \cup {None}
    /\ withdraw \in WithdrawType \cup {None}
    /\ offers \in [Offer -> OfferType]
    /\ blobs \in [Blob -> {"none", "stored", "fetched", "revoked", "lapsed"}]
    /\ pieces \in [Ticket -> {"none", "some", "all"}]
    /\ pulling \subseteq Ticket
    /\ got \in BOOLEAN
    /\ clock \in {"early", "margin", "over"}
    /\ asked \in BOOLEAN
    /\ restarts \in 0 .. MaxRestarts

\* A row that reads as live can be stopped, has a loop working on it and comes
\* back after a restart; one that reads as paused has everything a resume needs,
\* also after a restart; any other has no loop.  (set_status and
\* set_status_live, persist_held_record.)
RowTellsTheTruth ==
    /\ row.status \in Live =>
        /\ row.token
        /\ task.pc # "ended"
        /\ held # None <=> task.pc # "file"
        /\ disk.sendto = IF task.pc = "file" THEN "none" ELSE "run"
    /\ row.status = "paused" =>
        /\ task.pc = "ended"
        /\ held # None
        /\ disk.sendto = "paused"
    /\ row.status \in Over \cup {"deposited", "none"} => task.pc = "ended" /\ ~row.token

\* A ticket in somebody's hands can be served again by whatever restart comes
\* next: while the send may come back, the preparation on disk is the one every
\* offer of it names.  (serve_live_once: written down before anyone is told.)
TicketsAreReproducible ==
    \A o \in Offer :
        (offers[o].st \in Known /\ offers[o].names \in Ticket /\ disk.sendto # "none")
            => /\ disk.prep = offers[o].names
               /\ held # None => held.prep = offers[o].names

\* A send that is over leaves nothing that a restart would start again, and
\* one handed to the mailbox does not also come back as a send.  (finish,
\* drop_held, retire_record.)
NothingComesBack ==
    /\ row.status \in Over => disk.sendto = "none" /\ disk.prep = None /\ disk.dep = None
    /\ disk.dep # None => disk.sendto = "none" /\ disk.prep = None

\* "Completed" is said only of a file the recipient has, whichever way it was
\* concluded: acks on the wire, an offer taken, a copy gone from the relay.  The
\* exception is a copy its own sender has revoked, which the watcher reads as a
\* pickup.  (read_deposit, confirm_offline_delivery.)
CompletedMeansReceived ==
    row.status = "completed" => got \/ \E b \in Blob : blobs[b] = "revoked"

\* The row is true: it reads as live, paused or over exactly when the send is,
\* and as completed only when the recipient has the file.
RowIsTrue == TypeOK /\ RowTellsTheTruth /\ CompletedMeansReceived

\* A restart at any moment does right by the send: it can serve the ticket that
\* is out, and starts nothing that is over.
RestartIsSafe == TicketsAreReproducible /\ NothingComesBack

\* When the loop is over and its last withdrawal has been made, no live offer
\* of the send is left in the recipient's inbox for them to say yes to.
\* (deliver_to withdraws once; serve_live_once posts only when none stands.)
NoOfferLeftBehind ==
    (task.pc = "ended" /\ retracts = {}) =>
        \A o \in Offer : offers[o].names \in Ticket => offers[o].st \notin Open

\* The mailbox is not given a second, whole copy of what the relay already
\* holds in pieces the recipient can finish from.  (`offloaded` is sticky.)
NoSecondCopy ==
    [][\A b \in Blob : (blobs[b] = "none" /\ blobs'[b] = "stored")
            => \A t \in Ticket : pieces[t] # "all"]_vars

\* A cancel of a running send ends its loop.  (Every await of the loop that can
\* last selects on the token.)
CancelEndsTheLoop == asked ~> (task.pc = "ended")

\* An acceptance the loop has not read yet is served, or the send has ended,
\* even when no beacon ever says that the recipient is there.  (The held wait,
\* proven_present.)
AcceptedIsServed ==
    \A o \in Offer :
        (task.standing = o /\ offers[o].st = "taken" /\ task.seen # "taken") ~>
        (task.pc \in {"serve", "ended"} \/ task.standing # o)

\* A send that has been held too long lets go of its task and payload, unless a
\* receiver has dropped and the relay refused the tail: there serve() waits on
\* its token alone.  (give_up_at, the watchdog of serve_live_once.)
HeldTooLongLetsGo ==
    task.expired ~> (task.pc = "ended" \/ (At("serve") /\ task.connected /\ ~task.peer))

\* The loop answers to everyone: to a cancel, to the deadline, and to the
\* recipient that has accepted.
LoopAnswers == CancelEndsTheLoop /\ HeldTooLongLetsGo /\ AcceptedIsServed

-----------------------------------------------------------------------------
(* What comments in the code say and the code does not keep to: for each,  *)
(* the README names the constants under which TLC refutes it.              *)

\* A live_only send leaves nothing on a relay.
NothingOnTheRelay ==
    /\ \A b \in Blob : blobs[b] = "none"
    /\ \A t \in Ticket : pieces[t] = "none"

\* A row that has come to its end stays there until it is removed.
OverIsOver == [][row.status \in Over => row'.status \in {row.status, "none"}]_vars

\* A cancel that was accepted brings the row to an end: once nothing is at
\* work on it any more, it does not read as paused or deposited.
CancelIsTotal ==
    (asked /\ task.pc = "ended" /\ withdraw = None) => row.status \in Over \cup {"none"}

\* A parked copy can be reached: the recipient has accepted the ticket naming
\* its pieces, or the offer naming them is still in their inbox.
ParkedIsReachable ==
    (watch # None /\ watch.kind = "park" /\ pieces[watch.what] = "all" /\ task.pc = "ended"
        /\ retracts = {} /\ clock = "early") =>
            watch.what \in pulling \/ offers[watch.offer].st \in Known

\* A row that has been cleared has no task working on it.
ClearedHasNoFuture == row.status = "none" => task.pc = "ended"

\* The relay's mailbox holds at most one sealed copy of the send.
OneSealedCopy == Cardinality({b \in Blob : blobs[b] = "stored"}) <= 1

\* A cancelled send cannot be fetched: nothing in the recipient's inbox leads
\* to a copy in the mailbox.
CancelledCannotBeFetched ==
    (row.status = "cancelled" /\ task.pc = "ended" /\ withdraw = None /\ retracts = {}) =>
        \A o \in Offer : (offers[o].st \in Open /\ offers[o].names \in Blob)
                            => blobs[offers[o].names] # "stored"

\* A restart forgets only what was over.
RestartForgetsNothing ==
    [][(restarts' # restarts /\ row'.status = "none") => row.status \in Over \cup {"none"}]_vars
=============================================================================
