------------------------------- MODULE Inbox -------------------------------
(***************************************************************************)
(* One inbox slot of the relay, the clients on both sides of it, and the   *)
(* wake-ups between them.                                                  *)
(*                                                                         *)
(* A sender posts an offer and then holds a status request open on it; a   *)
(* recipient's devices hold a poll open on the slot, surface what it       *)
(* returns, and ack what the person takes.  A held request sleeps on a     *)
(* tokio Notify that it finds in the relay's map of waiters, one per slot. *)
(*                                                                         *)
(* A step is what happens between two acquisitions of the connection       *)
(* mutex or of the map's mutex, or between two awaits.  Rows are on disk;  *)
(* the map, the requests and the session secret die with the process.      *)
(*                                                                         *)
(* Clocks are abstracted to the two facts the code reads off them: whether *)
(* a row's expires_at has passed (`live`) and whether a request's deadline *)
(* has (`over`).  Each becomes true at a moment of its own choosing.       *)
(***************************************************************************)
EXTENDS Naturals, FiniteSets

CONSTANTS
    Offer,        \* offers: row ids, each with the sender that posts it
    Device,       \* the recipient's devices
    Notify,       \* Arc<Notify> objects
    None,         \* no row, no object
    PerSlot,      \* MAX_INBOX_PER_SLOT
    MaxRows,      \* ARVOLO_MAX_INBOX_ROWS
    MaxPosts      \* bound on the posts being handled at once

ASSUME InboxConstants ==
    /\ IsFiniteSet(Offer) /\ IsFiniteSet(Device)
    /\ Offer \cap Device = {}
    /\ PerSlot \in Nat /\ MaxRows \in Nat /\ MaxPosts \in Nat \ {0}

VARIABLES
    rows,      \* the slot's rows of the inbox table
    waiters,   \* AppState::inbox_waiters of the slot
    req,       \* each client's request in progress
    acking,    \* the devices whose ack is written and not announced yet
    held,      \* InboxSubscription::held, the rows a device has
    known      \* what a sender last heard of its offer

vars == <<rows, waiters, req, acking, held, known>>

Client == Offer \cup Device
Row == [live: BOOLEAN, arrived: BOOLEAN, taken: BOOLEAN]
Word == {"pending", "fetched", "taken", "gone"}

\* None is no Notify and no row.
ASSUME InboxNone == None \notin Notify \cup Row

\* post: check, put, wake, answer.  poll and status: arm, look, hold, and for
\* a poll that found something mark and wake; then drop and release.
Req == [op: {"none", "post", "poll", "status"},
        pc: {"idle", "check", "put", "answer", "arm", "look", "hold", "mark",
             "wake", "drop", "release"},
        got: SUBSET Offer, word: Word \cup {"none"},
        notify: Notify \cup {None}, woken: BOOLEAN, over: BOOLEAN]
Started(op, pc, notify) ==
    [op |-> op, pc |-> pc, got |-> {}, word |-> "none", notify |-> notify,
     woken |-> FALSE, over |-> FALSE]
Idle == Started("none", "idle", None)

At(c, op, pc) == req[c].op = op /\ req[c].pc = pc
Held(c) == req[c].pc = "hold"

-----------------------------------------------------------------------------
(* The table.                                                              *)

InTable == {o \in Offer : rows[o] # None}

\* inbox_list
Visible == {o \in InTable : rows[o].live /\ ~rows[o].taken}

\* inbox_status_by_poster: taken outranks arrived; an expired row still answers.
StatusWordForScreens(o) ==                                        \* mutant
    IF rows[o] = None THEN "gone"
    ELSE IF rows[o].taken THEN "taken"
    ELSE IF rows[o].arrived THEN "arrived" ELSE "pending"
StatusWordArrivedFirst(o) ==                                      \* mutant
    IF rows[o] = None THEN "gone"
    ELSE IF rows[o].arrived THEN "fetched"
    ELSE IF rows[o].taken THEN "taken" ELSE "pending"
StatusWord(o) ==
    IF rows[o] = None THEN "gone"
    ELSE IF rows[o].taken THEN "taken"
    ELSE IF rows[o].arrived THEN "fetched" ELSE "pending"

-----------------------------------------------------------------------------
(* The map of waiters.                                                     *)

\* Arc::strong_count: the map's reference and every guard's, a dropped guard's
\* included until its field is dropped after Drop::drop has returned.
StrongCount(n) ==
    Cardinality({c \in Client : req[c].notify = n})
        + (IF waiters = n THEN 1 ELSE 0)

FreshNotify(n) == StrongCount(n) = 0

\* inbox_wait_on: the slot's Notify, or a new one put in the map.
Register(n) ==
    IF waiters = None THEN FreshNotify(n) /\ waiters' = n
                      ELSE n = waiters /\ UNCHANGED waiters

\* A Notified future is woken by every notify_waiters after its creation.
Armed(q) == q.pc \in {"look", "hold"}

\* notify_inbox: wakes whoever is armed on the Notify that is in the map.
NotifyInbox(requests) ==
    [c \in Client |->
        IF waiters # None /\ requests[c].notify = waiters /\ Armed(requests[c])
        THEN [requests[c] EXCEPT !.woken = TRUE]
        ELSE requests[c]]

\* Drop of InboxWaiterGuard: nobody but the map and this guard.
LastGuardAlways(n) == TRUE                                        \* mutant
LastGuard(n) == StrongCount(n) <= 2

-----------------------------------------------------------------------------
(* Posting an offer: inbox_post_handler.                                   *)

\* A row id is 16 random bytes: a new one is one nobody refers to.
FreshOffer(o) ==
    /\ rows[o] = None /\ known[o] \in {"none", "gone"}
    /\ \A d \in Device : o \notin held[d] \cup req[d].got

PostStart(o) ==
    /\ req[o] = Idle /\ FreshOffer(o)
    /\ Cardinality({p \in Offer : req[p].op = "post"}) < MaxPosts
    /\ Cardinality(InTable) < MaxRows
    /\ req' = [req EXCEPT ![o] = Started("post", "check", None)]
    /\ known' = [known EXCEPT ![o] = "none"]
    /\ UNCHANGED <<rows, waiters, acking, held>>

SlotHasRoom == Cardinality(Visible) < PerSlot

PostCheck(o) ==
    /\ At(o, "post", "check")
    /\ req' = [req EXCEPT ![o] = IF SlotHasRoom
                                 THEN Started("post", "put", None) ELSE Idle]
    /\ UNCHANGED <<rows, waiters, acking, held, known>>

InboxPutUnannounced(o) ==                                         \* mutant
    /\ At(o, "post", "put")
    /\ rows' = [rows EXCEPT ![o] =
            [live |-> TRUE, arrived |-> FALSE, taken |-> FALSE]]
    /\ req' = [req EXCEPT ![o].pc = "answer"]
    /\ UNCHANGED <<waiters, acking, held, known>>

InboxPut(o) ==
    /\ At(o, "post", "put")
    /\ rows' = [rows EXCEPT ![o] =
            [live |-> TRUE, arrived |-> FALSE, taken |-> FALSE]]
    /\ req' = [req EXCEPT ![o].pc = "wake"]
    /\ UNCHANGED <<waiters, acking, held, known>>

PostNotify(o) ==
    /\ At(o, "post", "wake")
    /\ req' = NotifyInbox([req EXCEPT ![o].pc = "answer"])
    /\ UNCHANGED <<rows, waiters, acking, held, known>>

\* The id reaches the sender, which starts from Pending, or is lost on the way.
PostAnswer(o) ==
    /\ At(o, "post", "answer")
    /\ req' = [req EXCEPT ![o] = Idle]
    /\ known' \in {known, [known EXCEPT ![o] = "pending"]}
    /\ UNCHANGED <<rows, waiters, acking, held>>

-----------------------------------------------------------------------------
(* Holding a request open: the part inbox_get_handler and                  *)
(* inbox_status_handler share.                                             *)

\* Returning from the handler, with an answer or without.
Answering(q, pc, got, word) ==
    [op |-> q.op, pc |-> pc, got |-> got, word |-> word, notify |-> q.notify,
     woken |-> FALSE, over |-> FALSE]
Leave(c, got, word) ==
    [req EXCEPT ![c] = Answering(req[c], "drop", got, word)]

\* Back to the top of the loop, where the next Notified is created.
Again(q) ==
    [op |-> q.op, pc |-> "arm", got |-> {}, word |-> "none",
     notify |-> q.notify, woken |-> FALSE, over |-> q.over]

\* Re-armed before each look at the store.
Arm(c) ==
    /\ req[c].pc = "arm"
    /\ req' = [req EXCEPT ![c].pc = "look"]
    /\ UNCHANGED <<rows, waiters, acking, held, known>>

\* The select: the notification, or the sleep, which ends with the deadline...
WakeUp(c) ==
    /\ Held(c)
    /\ req[c].woken \/ req[c].over
    /\ req' = [req EXCEPT ![c] = Again(req[c])]
    /\ UNCHANGED <<rows, waiters, acking, held, known>>

\* ... or earlier, with INBOX_IDLE_RECHECK_SECS.
IdleRecheck(c) ==
    /\ Held(c)
    /\ req' = [req EXCEPT ![c] = Again(req[c])]
    /\ UNCHANGED <<rows, waiters, acking, held, known>>

\* The deadline may pass before the first look: a wait=0 request is that.
Deadline(c) ==
    /\ req[c].pc \in {"arm", "hold"} /\ ~req[c].over
    /\ req' = [req EXCEPT ![c].over = TRUE]
    /\ UNCHANGED <<rows, waiters, acking, held, known>>

\* The client hangs up: the handler's future is dropped where it awaits.
HangUp(c) ==
    /\ Held(c)
    /\ req' = Leave(c, {}, "none")
    /\ UNCHANGED <<rows, waiters, acking, held, known>>

\* The guard goes when the handler returns, under the map's lock...
DropGuard(c) ==
    /\ req[c].pc = "drop"
    /\ waiters' = IF LastGuard(req[c].notify) THEN None ELSE waiters
    /\ req' = [req EXCEPT ![c].pc = "release"]
    /\ UNCHANGED <<rows, acking, held, known>>

\* ... and its reference to the Notify after that.  Then the answer travels.
Lost(c) ==
    /\ req[c].pc = "release"
    /\ req' = [req EXCEPT ![c] = Idle]
    /\ UNCHANGED <<rows, waiters, acking, held, known>>

-----------------------------------------------------------------------------
(* The recipient's poll: inbox_get_handler and InboxSubscription.          *)

PollStart(d) ==
    /\ req[d] = Idle
    /\ \E n \in Notify :
        /\ Register(n)
        /\ req' = [req EXCEPT ![d] = Started("poll", "arm", n)]
    /\ UNCHANGED <<rows, acking, held, known>>

\* The have header is the subscription's `held`, which does not change while
\* its one poll is under way.
NewsForAnyRow(d) == Visible # {}                                  \* mutant
NewsFor(d) == Visible \ held[d] # {}

PollLookDeadlineFirst(d) ==                                       \* mutant
    /\ At(d, "poll", "look")
    /\ req' = IF req[d].over THEN Leave(d, {}, "none")
              ELSE IF NewsFor(d)
              THEN [req EXCEPT ![d] = Answering(req[d], "mark", Visible, "none")]
              ELSE [req EXCEPT ![d].pc = "hold"]
    /\ UNCHANGED <<rows, waiters, acking, held, known>>

PollLook(d) ==
    /\ At(d, "poll", "look")
    /\ req' = IF NewsFor(d)
              THEN [req EXCEPT ![d] = Answering(req[d], "mark", Visible, "none")]
              ELSE IF req[d].over THEN Leave(d, {}, "none")
              ELSE [req EXCEPT ![d].pc = "hold"]
    /\ UNCHANGED <<rows, waiters, acking, held, known>>

\* inbox_mark_arrived, for the rows that are still there
ArrivedAnew(row) == [row EXCEPT !.arrived = TRUE, !.taken = FALSE] \* mutant
Arrived(row) == [row EXCEPT !.arrived = TRUE]

PollMark(d) ==
    /\ At(d, "poll", "mark")
    /\ rows' = [o \in Offer |-> IF o \in req[d].got \cap InTable
                                THEN Arrived(rows[o]) ELSE rows[o]]
    /\ req' = [req EXCEPT ![d].pc = "wake"]
    /\ UNCHANGED <<waiters, acking, held, known>>

PollNotify(d) ==
    /\ At(d, "poll", "wake")
    /\ req' = NotifyInbox([req EXCEPT ![d].pc = "drop"])
    /\ UNCHANGED <<rows, waiters, acking, held, known>>

\* An empty answer leaves held alone; any other replaces it.
HeldAfter(old, got) == IF got = {} THEN old ELSE got

PollAnswer(d) ==
    /\ At(d, "poll", "release")
    /\ req' = [req EXCEPT ![d] = Idle]
    /\ held' = [held EXCEPT ![d] = HeldAfter(@, req[d].got)]
    /\ UNCHANGED <<rows, waiters, acking, known>>

-----------------------------------------------------------------------------
(* The sender's status request, and its retraction.                        *)

Watched(o) == known[o] \in {"pending", "fetched", "taken"}

\* offer_status_waiting: its `since` is what the sender knows.
StatusStart(o) ==
    /\ req[o] = Idle /\ Watched(o)
    /\ \E n \in Notify :
        /\ Register(n)
        /\ req' = [req EXCEPT ![o] = Started("status", "arm", n)]
    /\ UNCHANGED <<rows, acking, held, known>>

StatusLook(o) ==
    /\ At(o, "status", "look")
    /\ req' = IF StatusWord(o) = known[o] /\ ~req[o].over
              THEN [req EXCEPT ![o].pc = "hold"]
              ELSE Leave(o, {}, StatusWord(o))
    /\ UNCHANGED <<rows, waiters, acking, held, known>>

StatusAnswerSkipsGone(o) ==                                       \* mutant
    /\ At(o, "status", "release")
    /\ req' = [req EXCEPT ![o] = Idle]
    /\ known' = [known EXCEPT ![o] = IF req[o].word \in {"none", "gone"} THEN @
                                     ELSE req[o].word]
    /\ UNCHANGED <<rows, waiters, acking, held>>

StatusAnswer(o) ==
    /\ At(o, "status", "release")
    /\ req' = [req EXCEPT ![o] = Idle]
    /\ known' = [known EXCEPT ![o] = IF req[o].word = "none" THEN @
                                     ELSE req[o].word]
    /\ UNCHANGED <<rows, waiters, acking, held>>

\* inbox_delete_by_poster: the row goes, and nobody is woken for it.
Retract(o) ==
    /\ Watched(o) /\ rows[o] # None
    /\ rows' = [rows EXCEPT ![o] = None]
    /\ UNCHANGED <<waiters, req, acking, held, known>>

-----------------------------------------------------------------------------
(* The recipient's ack: inbox_delete_handler with a session.               *)

\* inbox_mark_taken: a tombstone, if the row is still there.
MarkTakenByDelete(d, o) ==                                        \* mutant
    /\ d \notin acking /\ o \in held[d]
    /\ rows' = [rows EXCEPT ![o] = None]
    /\ acking' = acking \cup {d}
    /\ UNCHANGED <<waiters, req, held, known>>

MarkTaken(d, o) ==
    /\ d \notin acking /\ o \in held[d]
    /\ rows' = [rows EXCEPT ![o] = IF @ = None THEN None
                                   ELSE [@ EXCEPT !.taken = TRUE]]
    /\ acking' = acking \cup {d}
    /\ UNCHANGED <<waiters, req, held, known>>

AckNotify(d) ==
    /\ d \in acking
    /\ req' = NotifyInbox(req)
    /\ acking' = acking \ {d}
    /\ UNCHANGED <<rows, waiters, held, known>>

-----------------------------------------------------------------------------
(* Time, the reaper, restarts.                                             *)

RowExpires(o) ==
    /\ rows[o] # None /\ rows[o].live
    /\ rows' = [rows EXCEPT ![o].live = FALSE]
    /\ UNCHANGED <<waiters, req, acking, held, known>>

InboxReap ==
    /\ \E o \in InTable : ~rows[o].live
    /\ rows' = [o \in Offer |-> IF o \in InTable /\ ~rows[o].live THEN None
                                ELSE rows[o]]
    /\ UNCHANGED <<waiters, req, acking, held, known>>

\* A new process: no waiters, no requests.
RelayRestart ==
    /\ waiters' = None
    /\ req' = [c \in Client |-> Idle]
    /\ acking' = {}
    /\ UNCHANGED <<rows, held, known>>

\* A new InboxSubscription.
DeviceRestart(d) ==
    /\ req[d] = Idle
    /\ held' = [held EXCEPT ![d] = {}]
    /\ UNCHANGED <<rows, waiters, req, acking, known>>

-----------------------------------------------------------------------------
Init ==
    /\ rows = [o \in Offer |-> None]
    /\ waiters = None
    /\ req = [c \in Client |-> Idle]
    /\ acking = {}
    /\ held = [d \in Device |-> {}]
    /\ known = [o \in Offer |-> "none"]

Post(o) == PostStart(o) \/ PostCheck(o) \/ InboxPut(o) \/ PostNotify(o)
               \/ PostAnswer(o)
Hold(c) == Arm(c) \/ WakeUp(c) \/ IdleRecheck(c) \/ Deadline(c) \/ HangUp(c)
               \/ DropGuard(c) \/ Lost(c)
Poll(d) == PollStart(d) \/ PollLook(d) \/ PollMark(d) \/ PollNotify(d)
               \/ PollAnswer(d)
Status(o) == StatusStart(o) \/ StatusLook(o) \/ StatusAnswer(o)
AckOffer(d) == (\E o \in Offer : MarkTaken(d, o)) \/ AckNotify(d)
Restart == RelayRestart \/ \E d \in Device : DeviceRestart(d)

Next ==
    \/ \E o \in Offer : Post(o) \/ Status(o) \/ Retract(o) \/ RowExpires(o)
    \/ \E d \in Device : Poll(d) \/ AckOffer(d)
    \/ \E c \in Client : Hold(c)
    \/ InboxReap
    \/ Restart

Spec == Init /\ [][Next]_vars

-----------------------------------------------------------------------------
(* Properties.                                                             *)

\* Every variable keeps its type.
TypeOK ==
    /\ rows \in [Offer -> Row \cup {None}]
    /\ waiters \in Notify \cup {None}
    /\ req \in [Client -> Req]
    /\ acking \in SUBSET Device
    /\ held \in [Device -> SUBSET Offer]
    /\ known \in [Offer -> Word \cup {"none"}]

\* A request that looks at the store or sleeps does so on the Notify that the
\* map holds: no guard's drop takes the entry from under another request, and
\* no later request is given a second Notify (state.rs, InboxWaiterGuard).
Waiting(c) == req[c].pc \in {"arm", "look", "hold", "mark", "wake", "drop"}
                  /\ req[c].op \in {"poll", "status"}
WaitersReachable ==
    \A c \in Client : Waiting(c) => req[c].notify = waiters /\ waiters # None

\* What a sleeping request is waiting for.
HasNews(c) ==
    \/ At(c, "poll", "hold") /\ NewsFor(c)
    \/ At(c, "status", "hold") /\ StatusWord(c) \notin {known[c], "gone"}

\* Someone who has changed the table and not called notify_inbox yet.
WakePending == acking # {} \/ \E c \in Client : req[c].pc = "wake"

\* No wake-up is lost: a request that sleeps while there is something for it
\* has been woken, or is about to be.  INBOX_IDLE_RECHECK_SECS is never what
\* finds a row (http.rs, "this should never be what finds one").
NoLostWakeup ==
    \A c \in Client : HasNews(c) => req[c].woken \/ WakePending

\* A sender is told `gone` only of an offer that expired or that it retracted,
\* never of one that was taken and whose row is still within its TTL
\* (mailbox.rs, inbox_mark_taken): a row leaves the table in no other way.
GoneOnlyByExpiryOrRetraction ==
    \A o \in Offer :
        rows[o] # None /\ rows'[o] = None => ~rows[o].live \/ Retract(o)

\* A device never applies an answer that holds nothing it did not have: a slot
\* with a durable row in it does not turn the poll loop into a request storm
\* (http.rs, inbox_get_handler on INBOX_HAVE_HEADER).
NoStorm ==
    \A d \in Device :
        PollAnswer(d) /\ req[d].got # {} => ~(req[d].got \subseteq held[d])

\* No answer misleads: none repeats what the device has, and none is `gone`
\* for an offer that was taken.
AnswersAreSound == [][NoStorm /\ GoneOnlyByExpiryOrRetraction]_vars

\* The reader's ladder: what a sender has heard of its offer never goes back,
\* through lost answers, restarts and the reaper, though one device stamps an
\* arrival for rows it read before another has acked them (mailbox.rs,
\* inbox_mark_arrived).  (none: a new offer.)
Rank(word) == CASE word = "none" -> 0 [] word = "pending" -> 1
                [] word = "fetched" -> 2 [] word = "taken" -> 3 [] word = "gone" -> 4
NeverBack ==
    \A o \in Offer : known'[o] # "none" => Rank(known'[o]) >= Rank(known[o])

-----------------------------------------------------------------------------
(* Liveness.  The relay's tasks make progress; a deadline comes; an answer *)
(* that is sent over and over is not lost each time; the daemon polls and  *)
(* the sender asks again for as long as they live; the reaper runs; and    *)
(* the processes restart finitely often.  Nothing is assumed of            *)
(* IdleRecheck.                                                            *)

Progress(c) ==
    \/ Arm(c) \/ WakeUp(c) \/ Deadline(c) \/ DropGuard(c)
    \/ c \in Device /\ (PollLook(c) \/ PollMark(c) \/ PollNotify(c))
    \/ c \in Offer /\ (StatusLook(c) \/ PostCheck(c) \/ InboxPut(c)
                         \/ PostNotify(c) \/ PostAnswer(c))

Fairness ==
    /\ \A c \in Client : WF_vars(Progress(c))
    /\ \A d \in Device : /\ SF_vars(PollAnswer(d))
                         /\ WF_vars(PollStart(d))
                         /\ WF_vars(AckNotify(d))
    /\ \A o \in Offer : SF_vars(StatusAnswer(o)) /\ WF_vars(StatusStart(o))
    /\ WF_vars(InboxReap)
    /\ <>[][~Restart]_vars

FairSpec == Spec /\ Fairness

\* An offer that stays visible reaches every device of the recipient.
OffersArrive ==
    \A d \in Device : \A o \in Offer :
        o \in Visible ~> (o \in held[d] \/ o \notin Visible)

\* A sender that is watching learns that its offer was taken, or that it is
\* gone, whichever is the last it can be told.
SenderLearnsTaken ==
    \A o \in Offer :
        (known[o] # "none" /\ rows[o] # None /\ rows[o].taken)
            ~> known[o] \in {"taken", "gone"}
SenderLearnsGone ==
    \A o \in Offer :
        (known[o] # "none" /\ rows[o] = None) ~> known[o] = "gone"

\* News travels both ways: the offer to every device, and what became of it to
\* the sender that watches (inbox_get_handler, inbox_status_handler).
NewsArrives == OffersArrive /\ SenderLearnsTaken /\ SenderLearnsGone

-----------------------------------------------------------------------------
(* What the comments say and the code does not do.                         *)

\* state.rs: "Dropping it removes the slot's entry once the last waiter has
\* gone, so the map is bounded by the polls open right now".
MapBoundedByPolls ==
    waiters # None => \E c \in Client : req[c].notify = waiters

\* state.rs: "Cap on pending offers a single inbox slot may hold".
SlotCapped == Cardinality(Visible) <= PerSlot
=============================================================================
