------------------------------- MODULE Intake -------------------------------
(***************************************************************************)
(* What the client does with an offer once the relay has handed it over:   *)
(* the inbox poll and the engine's map of waiting offers (manager/mod.rs), *)
(* the daemon's intake task and its own map of parked questions            *)
(* (start.rs), the requests that accept and decline (daemon.rs), and the   *)
(* rows a window draws from two broadcast channels and from snapshots      *)
(* (store.ts).                                                             *)
(*                                                                         *)
(* A step runs from one await to the next.  The intake, every request and  *)
(* the window are tasks of their own; what they share is the two maps, the *)
(* address book and the relay.  Acks are best effort.  The tables behind   *)
(* the relay's answers are the subject of Inbox, a download's course that  *)
(* of Receive.                                                             *)
(***************************************************************************)
EXTENDS Naturals, Sequences, FiniteSets

CONSTANTS
    Offered,    \* ids of offers
    Peer,       \* senders other than ourselves
    Me,         \* our own identity: another of our devices
    Sender,     \* [Offered -> Peer \cup {Me}]
    File,       \* [Offered -> what is offered]: the name, and the content
    Mail,       \* the offers of a mailbox deposit; the others are live
    Locked,     \* the offers accept_offer refuses without a password
    MaxSends,   \* bound on the offers that are made
    Asker,      \* clients with a request in flight, one each
    MaxTurns    \* bound on edits of the address book, pauses, reloads, lost acks
                \* and ends of the process together

ASSUME IntakeConstants ==
    /\ Me \notin Peer
    /\ \A o \in Offered : Sender[o] \in Peer \cup {Me}
    /\ Offered \subseteq DOMAIN File
    /\ Mail \subseteq Offered /\ Locked \subseteq Offered
    /\ MaxSends \in Nat /\ MaxTurns \in Nat

VARIABLES
    slot,      \* the offer's row on the relay
    met,       \* the poll's `seen`
    pending,   \* the engine's offers: Inner::pending
    parked,    \* the daemon's questions: Daemon::pending
    queue,     \* OfferReceived events the intake has not taken
    task,      \* where the intake task stands
    call,      \* where each request stands
    fetch,     \* the download row an offer started
    begun,     \* how often it was started in this process
    answered,  \* offers somebody decided about (history)
    standing,  \* the address book's word on a sender
    chan,      \* the window's engine channel
    side,      \* the window's side channel
    board,     \* the questions the window shows
    snap,      \* the answer to its ListPending, not yet applied
    turns

intakeVars == <<slot, met, pending, parked, queue, task, call, fetch, begun, answered,
                standing, chan, side, board, snap, turns>>

Resting == [at |-> "idle", offer |-> "", olds |-> {}]
TaskAt(at, o, olds) == [at |-> at, offer |-> o, olds |-> olds]
NoCall == [at |-> "none", offer |-> ""]

SamePost(x, o) == Sender[x] = Sender[o] /\ File[x] = File[o]

\* auto_accepts under the default setting: the trusted, and ourselves.
Trusted == {p \in Peer : standing[p] = "trusted"}
AutoAccepts(o) == Sender[o] \in Trusted \cup {Me}
Blocked(o) == Sender[o] \in {p \in Peer : standing[p] = "blocked"}

\* InboxSubscription::ack: best effort, and once the row is gone a no-op.
Ack(os) ==
    \/ /\ slot' = [o \in Offered |-> IF o \in os THEN "acked" ELSE slot[o]]
       /\ UNCHANGED turns
    \/ /\ os # {} /\ turns < MaxTurns
       /\ turns' = turns + 1 /\ UNCHANGED slot

Say(kind, o) == side' = Append(side, [kind |-> kind, offer |-> o])

-----------------------------------------------------------------------------
(* The poll: InboxSubscription::run and the closure of spawn_inbox.        *)

\* The sender's side: a new file, or one posted again.
Send(o) ==
    /\ slot[o] = "unsent"
    /\ Cardinality({x \in Offered : slot[x] # "unsent"}) < MaxSends
    /\ slot' = [slot EXCEPT ![o] = "listed"]
    /\ UNCHANGED <<met, pending, parked, queue, task, call, fetch, begun, answered,
                   standing, chan, side, board, snap, turns>>

\* download_of_same_content: a live ticket's content, fetching or paused.
FetchOf(o) == {x \in Offered \ Mail : SamePost(x, o) /\ fetch[x] \in {"running", "paused"}}
Known(o) == o \notin Mail /\ FetchOf(o) # {}
Copies(o) == {x \in pending \ Mail : SamePost(x, o)}

\* An offer of what is coming down already is not put in front of anybody.
ArriveKnown(o) ==
    /\ Known(o)
    /\ pending' = pending \ Copies(o)
    /\ IF \E x \in FetchOf(o) : fetch[x] = "paused"
       THEN UNCHANGED <<slot, turns>>
       ELSE Ack(Copies(o) \cup {o})
    /\ UNCHANGED <<queue, chan>>

ArriveNew(o) ==
    /\ ~Known(o)
    /\ pending' = pending \cup {o}
    /\ queue' = Append(queue, o) /\ chan' = Append(chan, o)
    /\ UNCHANGED <<slot, turns>>

Arrive(o) ==
    /\ slot[o] = "listed" /\ o \notin met
    /\ met' = met \cup {o}
    /\ ArriveKnown(o) \/ ArriveNew(o)
    /\ UNCHANGED <<parked, task, call, fetch, begun, answered, standing, side, board,
                   snap>>

-----------------------------------------------------------------------------
(* accept_offer_with_password, in the two parts its await divides.         *)

\* Everything up to the removal that claims the offer: a refusal, for want of
\* a password or because the offer is no longer waiting, changes nothing.
TakeLeaves(o) == o \in pending /\ UNCHANGED pending               \* mutant
Take(o) == o \in pending /\ pending' = pending \ {o}

\* After the ack, which a mailbox offer only gets when its file is written:
\* the download that exists already, resumed if it was paused, or a new one.
StartFetch(o) ==
    /\ Ack({o} \ Mail)
    /\ IF Known(o)
       THEN /\ fetch' = [x \in Offered |-> IF x \in FetchOf(o) THEN "running" ELSE fetch[x]]
            /\ UNCHANGED begun
       ELSE /\ fetch' = [fetch EXCEPT ![o] = "running"]
            /\ begun' = [begun EXCEPT ![o] = @ + 1]

-----------------------------------------------------------------------------
(* The intake task: the OfferReceived arm of spawn_intake.                 *)

\* superseded_ids
SupersedesSender(o) == {x \in parked : Sender[x] = Sender[o]}     \* mutant
Supersedes(o) == {x \in parked : SamePost(x, o)}

IntakeTakes ==
    /\ task.at = "idle" /\ queue # <<>>
    /\ LET o == Head(queue) IN
        /\ queue' = Tail(queue)
        /\ IF Blocked(o)
           THEN /\ pending' = pending \ {o}
                /\ answered' = answered \cup {o}
                /\ task' = TaskAt("dropping", o, {})
           ELSE /\ task' = TaskAt("sweeping", o, Supersedes(o))
                /\ UNCHANGED <<pending, answered>>
    /\ UNCHANGED <<slot, met, parked, call, fetch, begun, standing, chan, side, board,
                   snap, turns>>

\* reject_offer has removed it; the ack has returned.
IntakeDrops ==
    /\ task.at = "dropping"
    /\ Ack({task.offer}) /\ Say("gone", task.offer)
    /\ task' = Resting
    /\ UNCHANGED <<met, pending, parked, queue, call, fetch, begun, answered, standing,
                   chan, board, snap>>

\* One older question at a time: out of both maps, then acked and announced.
IntakeRetires ==
    /\ task.at = "sweeping" /\ task.olds # {}
    /\ LET x == CHOOSE x \in task.olds : TRUE IN
        /\ parked' = parked \ {x} /\ pending' = pending \ {x}
    /\ task' = TaskAt("retiring", task.offer, task.olds)
    /\ UNCHANGED <<slot, met, queue, call, fetch, begun, answered, standing, chan, side,
                   board, snap, turns>>

IntakeRetired ==
    /\ task.at = "retiring"
    /\ LET x == CHOOSE x \in task.olds : TRUE IN
        /\ Ack({x}) /\ Say("gone", x)
        /\ task' = TaskAt("sweeping", task.offer, task.olds \ {x})
    /\ UNCHANGED <<met, pending, parked, queue, call, fetch, begun, answered, standing,
                   chan, board, snap>>

\* Taken automatically, refused to a question, already gone, or asked about.
RefusedDrops(o) ==                                                \* mutant
    IF o \in pending THEN TaskAt("idle", "", {}) ELSE Resting
Refused(o) ==
    IF o \in pending THEN TaskAt("asking", o, {}) ELSE Resting

IntakeDecides ==
    /\ task.at = "sweeping" /\ task.olds = {}
    /\ LET o == task.offer IN
        \/ /\ ~AutoAccepts(o)
           /\ task' = TaskAt("parking", o, {})
           /\ UNCHANGED <<pending, answered, side>>
        \/ /\ AutoAccepts(o) /\ o \notin Locked /\ Take(o)
           /\ answered' = answered \cup {o}
           /\ task' = TaskAt("taking", o, {}) /\ UNCHANGED side
        \/ /\ AutoAccepts(o) /\ (o \in Locked \/ o \notin pending)
           /\ task' = Refused(o)
           /\ IF o \in pending THEN UNCHANGED side ELSE Say("gone", o)
           /\ UNCHANGED <<pending, answered>>
    /\ UNCHANGED <<slot, met, parked, queue, call, fetch, begun, standing, chan, board,
                   snap, turns>>

IntakeTook ==
    /\ task.at = "taking"
    /\ StartFetch(task.offer) /\ Say("gone", task.offer)
    /\ task' = Resting
    /\ UNCHANGED <<met, pending, parked, queue, call, answered, standing, chan, board,
                   snap>>

\* pending.insert, whatever became of the offer since; a refused automatic
\* take is announced as a question first.
IntakeParks ==
    /\ task.at \in {"parking", "asking"}
    /\ parked' = parked \cup {task.offer}
    /\ IF task.at = "asking" THEN Say("question", task.offer) ELSE UNCHANGED side
    /\ task' = Resting
    /\ UNCHANGED <<slot, met, pending, queue, call, fetch, begun, answered, standing,
                   chan, board, snap, turns>>

-----------------------------------------------------------------------------
(* Request::AcceptOffer and Request::RejectOffer.                          *)

\* What a person can name: a question on the board, or one ListPending gave.
CanName(o) == o \in board \cup parked

AskAccept(c, o) ==
    /\ call[c] = NoCall /\ CanName(o) /\ Take(o)
    /\ answered' = answered \cup {o}
    /\ call' = [call EXCEPT ![c] = [at |-> "taking", offer |-> o]]
    /\ UNCHANGED <<slot, met, parked, queue, task, fetch, begun, standing, chan, side,
                   board, snap, turns>>

AskReject(c, o) ==
    /\ call[c] = NoCall /\ CanName(o)
    /\ parked' = parked \ {o} /\ pending' = pending \ {o}
    /\ answered' = answered \cup {o}
    /\ call' = [call EXCEPT ![c] = [at |-> "rejecting", offer |-> o]]
    /\ UNCHANGED <<slot, met, queue, task, fetch, begun, standing, chan, side, board,
                   snap, turns>>

\* The answer also takes the row off the board of the window that asked.
AskEnds(c) ==
    /\ call[c].at # "none"
    /\ LET o == call[c].offer IN
        /\ IF call[c].at = "taking"
           THEN StartFetch(o) /\ parked' = parked \ {o}
           ELSE Ack({o}) /\ UNCHANGED <<parked, fetch, begun>>
        /\ Say("gone", o)
        /\ board' = board \ {o}
    /\ call' = [call EXCEPT ![c] = NoCall]
    /\ UNCHANGED <<met, pending, queue, task, answered, standing, chan, snap>>

-----------------------------------------------------------------------------
(* The window: Subscription::next polls its two channels in no particular  *)
(* order; applyEvent and reload.                                           *)

\* stamp_offer fills `auto` in as the event is delivered.
StampedTrusted(o) == Sender[o] \in Trusted                        \* mutant
Stamped(o) == AutoAccepts(o)

\* The row of an older post of the same file goes with the newer one's.
Drawn(o) == {x \in board : x = o \/ ~SamePost(x, o)}

WindowHears ==
    /\ chan # <<>>
    /\ chan' = Tail(chan)
    /\ board' = LET o == Head(chan) IN
                IF Stamped(o) THEN Drawn(o) \ {o} ELSE Drawn(o) \cup {o}
    /\ UNCHANGED <<slot, met, pending, parked, queue, task, call, fetch, begun, answered,
                   standing, side, snap, turns>>

WindowHearsSide ==
    /\ side # <<>>
    /\ side' = Tail(side)
    /\ board' = LET e == Head(side) IN
                IF e.kind = "gone" THEN board \ {e.offer} ELSE Drawn(e.offer) \cup {e.offer}
    /\ UNCHANGED <<slot, met, pending, parked, queue, task, call, fetch, begun, answered,
                   standing, chan, snap, turns>>

\* reload: the snapshot is taken at one moment and put on the board at another.
WindowAsks ==
    /\ turns < MaxTurns /\ turns' = turns + 1
    /\ snap = <<>> /\ snap' = <<parked>>
    /\ UNCHANGED <<slot, met, pending, parked, queue, task, call, fetch, begun, answered,
                   standing, chan, side, board>>

WindowLoads ==
    /\ snap # <<>>
    /\ board' = snap[1] /\ snap' = <<>>
    /\ UNCHANGED <<slot, met, pending, parked, queue, task, call, fetch, begun, answered,
                   standing, chan, side, turns>>

-----------------------------------------------------------------------------
(* The person, the downloads, and the end of the process.                  *)

EditBook(p, word) ==
    /\ turns < MaxTurns /\ standing[p] # word
    /\ turns' = turns + 1
    /\ standing' = [standing EXCEPT ![p] = word]
    /\ UNCHANGED <<slot, met, pending, parked, queue, task, call, fetch, begun, answered,
                   chan, side, board, snap>>

PauseFetch(o) ==
    /\ turns < MaxTurns /\ turns' = turns + 1
    /\ o \notin Mail /\ fetch[o] = "running"
    /\ fetch' = [fetch EXCEPT ![o] = "paused"]
    /\ UNCHANGED <<slot, met, pending, parked, queue, task, call, begun, answered,
                   standing, chan, side, board, snap>>

\* The file is written, or nothing is left to fetch: a mailbox offer is acked
\* now.  Any other failure leaves it on the relay, for the next process.
FetchEnds(o) ==
    /\ fetch[o] = "running"
    /\ \/ fetch' = [fetch EXCEPT ![o] = "done"] /\ Ack({o} \cap Mail)
       \/ fetch' = [fetch EXCEPT ![o] = "none"] /\ UNCHANGED <<slot, turns>>
    /\ UNCHANGED <<met, pending, parked, queue, task, call, begun, answered, standing,
                   chan, side, board, snap>>

\* Both maps are memory.  A live download comes back from its record, a
\* mailbox pickup does not: its offer is still on the relay.
Die ==
    /\ turns < MaxTurns /\ turns' = turns + 1
    /\ met' = {} /\ pending' = {} /\ parked' = {} /\ queue' = <<>> /\ task' = Resting
    /\ call' = [c \in Asker |-> NoCall]
    /\ fetch' = [o \in Offered |-> IF o \in Mail /\ fetch[o] = "running" THEN "none"
                                   ELSE fetch[o]]
    /\ begun' = [o \in Offered |-> 0]
    /\ chan' = <<>> /\ side' = <<>> /\ snap' = <<>> /\ board' = {}
    /\ answered' = {o \in answered : slot[o] # "listed" \/ fetch'[o] # "none"}
    /\ UNCHANGED <<slot, standing>>

-----------------------------------------------------------------------------
IntakeInit ==
    /\ slot = [o \in Offered |-> "unsent"]
    /\ met = {} /\ pending = {} /\ parked = {} /\ queue = <<>> /\ task = Resting
    /\ call = [c \in Asker |-> NoCall]
    /\ fetch = [o \in Offered |-> "none"] /\ begun = [o \in Offered |-> 0]
    /\ answered = {} /\ standing = [p \in Peer |-> "stranger"]
    /\ chan = <<>> /\ side = <<>> /\ board = {} /\ snap = <<>> /\ turns = 0

IntakeStep ==
    \/ IntakeTakes \/ IntakeDrops \/ IntakeRetires \/ IntakeRetired
    \/ IntakeDecides \/ IntakeTook \/ IntakeParks

IntakeNext ==
    \/ IntakeStep
    \/ \E o \in Offered : Send(o) \/ Arrive(o) \/ PauseFetch(o) \/ FetchEnds(o)
    \/ \E c \in Asker : AskEnds(c) \/ \E o \in Offered : AskAccept(c, o) \/ AskReject(c, o)
    \/ WindowHears \/ WindowHearsSide \/ WindowAsks \/ WindowLoads
    \/ \E p \in Peer, w \in {"stranger", "trusted", "blocked"} : EditBook(p, w)
    \/ Die

IntakeSpec == IntakeInit /\ [][IntakeNext]_intakeVars

\* The intake is one task, the poll and every request another; each goes on
\* whatever the person does.
IntakeFair ==
    /\ WF_intakeVars(IntakeStep)
    /\ \A o \in Offered : WF_intakeVars(Arrive(o))
    /\ \A c \in Asker : WF_intakeVars(AskEnds(c))

-----------------------------------------------------------------------------
(* Properties.                                                             *)

\* An offer starts at most one download, though the intake task and several
\* requests may take it at the same moment: the removal from the engine's map
\* (manager/mod.rs:2466) is the claim, and whoever comes second is told it is
\* no longer waiting.
TakenOnce == \A o \in Offered : begun[o] <= 1

\* A file somebody sent is never dropped unanswered.  As long as nobody has
\* taken, declined or blocked any post of it, one of its posts is still on the
\* relay: superseding (start.rs:238) only ever retires an older post of the
\* same file, and what a crash forgets is not acked.
NoFileLost ==
    \A o \in Offered : slot[o] # "unsent" =>
        \E x \in Offered : SamePost(x, o) /\ (x \in answered \/ slot[x] = "listed")

\* What our own devices send is taken without a question: neither the intake
\* nor a window asks about it, whichever of the two reads the rule first,
\* unless the automatic take was refused (stamp_offer, daemon.rs:1505).
OwnAsksNothing ==
    \A o \in board \cup parked : Sender[o] = Me => o \in Locked

\* Every offer is accounted for: taken at most once, never lost, and asked about
\* only when there is something to ask.
OffersAccounted == TakenOnce /\ NoFileLost /\ OwnAsksNothing

\* Every offer on the relay is put to the person or settled without them: a
\* crash, a lost ack, a refused automatic take or a block does not leave it in
\* the engine's map with nobody told (start.rs:294).
Put(o) ==
    \/ o \in parked \cup answered \/ slot[o] = "acked" \/ Known(o)
    \/ \E x \in Offered : SamePost(x, o) /\ x \in parked \cup answered
OfferIsPut == \A o \in Offered : slot[o] = "listed" ~> Put(o)

\* start.rs:244 says of a retired offer "so a row cannot outlive the offer it
\* stands for".  It can: the two channels have no order between them.
Settled == queue = <<>> /\ task = Resting /\ chan = <<>> /\ side = <<>> /\ snap = <<>>
               /\ \A c \in Asker : call[c] = NoCall
RowsHaveOffers == Settled => board \subseteq pending
=============================================================================
