------------------------------- MODULE Serve -------------------------------
(***************************************************************************)
(* A send being served: SendSession::serve and the control handler that    *)
(* feeds it, the receivers' control channels, and the relay's seeded       *)
(* chunks, which take over the tail a receiver that left still lacks.      *)
(*                                                                         *)
(* A control channel carries an ack for every piece the receiver holds,    *)
(* those unread being what the sender has not recorded, and ends in an     *)
(* EOF, an abort, or silence; after silence the old handler lingers        *)
(* (ghost) until its idle timeout, and the receiver may be back by then.   *)
(* The serve loop takes one event at a time and is deaf while it offloads. *)
(* The relay writes chunk files first and the rows that own them after.    *)
(* MaxFaults bounds drops, crashes, refusals and what users do.            *)
(***************************************************************************)
EXTENDS Naturals, FiniteSets, Sequences, FiniteSetsExt

CONSTANTS
    Recv,          \* receivers holding the ticket
    N,             \* pieces
    Kinds,         \* whether the ticket is sealed to one recipient: a subset of BOOLEAN
    Releasing,     \* receivers that do not swarm, and so release what they took
    SEED_BATCH,
    Cap,           \* max_session_relay_bytes, in pieces; 0 is unlimited
    MaxAttempts,   \* sessions served for the same file; each mints a seed token
    MaxFaults,
    None

Pieces == 1..N
Tokens == 1..MaxAttempts

ASSUME ServeConstants ==
    /\ {N, SEED_BATCH, MaxAttempts} \subseteq Nat \ {0}
    /\ {Cap, MaxFaults} \subseteq Nat
    /\ Kinds \subseteq BOOLEAN /\ Kinds # {} /\ Releasing \subseteq Recv
    /\ None \notin {"cancelled", "aborted", "offloaded"}

VARIABLES
    session,     \* the attempt served, how it ended, and for whom when offloaded
    delivered,   \* DeliveredByPeer
    reported,
    chan,        \* each receiver's control channel
    ghost,       \* handlers of channels that went silent
    gone, aborts,        \* what the handler tells the loop
    off,         \* the offload the loop is inside of
    recv,        \* each receiver: what it does and what it holds
    file, rows,  \* the relay's chunk files, and <<token, piece>> rows
    seed,        \* the seed request the relay is handling
    used,        \* session_bytes
    lapsed,      \* since the offload began: what a TTL, a release or a withdrawal took
    swept,       \* and what the sweep took
    faults

sender == <<session, delivered, reported>>
control == <<chan, ghost, gone, aborts>>
relay == <<file, rows, seed, used>>
history == <<lapsed, swept>>
vars == <<sender, control, off, recv, relay, history, faults>>

NoSeed == [batch |-> {}, written |-> {}]
NoOff == [who |-> None, todo |-> {}, st |-> "none"]

\* History is kept from the start of an offload, past the end of a session it ended.
Noted(set, new) ==
    IF off.st # "none" \/ session.why = "offloaded" THEN set \cup new ELSE {}

OffloadOver == off' = NoOff /\ lapsed' = {} /\ swept' = {}

Fault == faults < MaxFaults /\ faults' = faults + 1

Init ==
    /\ \E sealed \in Kinds :
        session = [up |-> TRUE, token |-> 1, why |-> None, for |-> None, sealed |-> sealed]
    /\ delivered = [r \in Recv |-> {}] /\ reported = {}
    /\ chan = [r \in Recv |-> "none"] /\ ghost = {} /\ gone = <<>> /\ aborts = {}
    /\ off = NoOff
    /\ recv = [r \in Recv |-> [st |-> "on", have |-> {}]]
    /\ file = {} /\ rows = {} /\ seed = NoSeed /\ used = 0
    /\ lapsed = {} /\ swept = {} /\ faults = 0

-----------------------------------------------------------------------------
(* The receiver's side of the control channel.                             *)

\* Everything held is replayed on every connect.
Connect(r) ==
    /\ session.up /\ recv[r].st = "on" /\ chan[r] = "none"
    /\ chan' = [chan EXCEPT ![r] = "open"]
    /\ UNCHANGED <<sender, ghost, gone, aborts, off, recv, relay, history, faults>>

\* Reading an ack shows only where delivered is looked at: at a drop some of what
\* was in flight has been read, at an EOF all of it, at a tick a copy's worth.
ReadBeforeDrop(r) ==
    \E read \in SUBSET (recv[r].have \ delivered[r]) :
        delivered' = [delivered EXCEPT ![r] = @ \cup read]

\* Silence: what was buffered may be lost, and the handler has yet to notice.
ChannelDrops(r) ==
    /\ chan[r] \in {"open", "eof"} /\ Fault
    /\ chan' = [chan EXCEPT ![r] = "none"]
    /\ ghost' = ghost \cup {r} /\ ReadBeforeDrop(r)
    /\ UNCHANGED <<session, reported, gone, aborts, off, recv, relay, history>>

\* A commit of a piece the sender served; the ack goes out at once.
Pull(r, i) ==
    /\ session.up /\ recv[r].st = "on" /\ chan[r] = "open" /\ i \notin recv[r].have
    /\ recv' = [recv EXCEPT ![r].have = @ \cup {i}]
    /\ UNCHANGED <<sender, control, off, relay, history, faults>>

ReleaseHex(set) == file \ set

DeleteSeedOne(tok, i) == rows \ {<<tok, i>>}

\* release_handler: the file goes, then the row, when the token owns one.
Released(r, i) ==
    IF r \in Releasing /\ <<session.token, i>> \in rows
    THEN /\ file' = ReleaseHex({i}) /\ rows' = DeleteSeedOne(session.token, i)
         /\ lapsed' = Noted(lapsed, {i})
    ELSE UNCHANGED <<file, rows, lapsed>>

\* A piece the relay holds: the receiver is told over the channel, and asks.
PullFromRelay(r, i) ==
    /\ recv[r].st = "on" /\ i \notin recv[r].have /\ i \in file
    /\ recv' = [recv EXCEPT ![r].have = @ \cup {i}]
    /\ Released(r, i)
    /\ UNCHANGED <<sender, control, off, seed, used, swept, faults>>

FinishDiscards == "none" \* mutant

\* finish() ends the stream after the acks in it.
FinishFlushes == "eof"

Complete(r) ==
    /\ recv[r].st = "on" /\ recv[r].have = Pieces
    /\ recv' = [recv EXCEPT ![r].st = "done"]
    /\ IF chan[r] = "open" THEN chan' = [chan EXCEPT ![r] = FinishFlushes]
       ELSE UNCHANGED chan
    /\ UNCHANGED <<sender, ghost, gone, aborts, off, relay, history, faults>>

\* A cancel says so on the way out, a pause slips away like a drop.
StopReceiving(r, kind) ==
    /\ recv[r].st = "on" /\ Fault
    /\ recv' = [recv EXCEPT ![r].st = kind]
    /\ IF chan[r] # "open" THEN UNCHANGED <<chan, ghost, delivered>>
       ELSE IF kind = "cancelled"
       THEN chan' = [chan EXCEPT ![r] = "abort"] /\ UNCHANGED <<ghost, delivered>>
       ELSE /\ chan' = [chan EXCEPT ![r] = "none"] /\ ghost' = ghost \cup {r}
            /\ ReadBeforeDrop(r)
    /\ UNCHANGED <<session, reported, gone, aborts, off, relay, history>>

Unpause(r) ==
    /\ recv[r].st = "paused" /\ recv' = [recv EXCEPT ![r].st = "on"]
    /\ UNCHANGED <<sender, control, off, relay, history, faults>>

-----------------------------------------------------------------------------
(* The sender's control handler.                                           *)

\* What a receiver lacks, once d is recorded as delivered to it.
Undelivered(d) == Pieces \ d

HandlerSeesEof(r) ==
    /\ session.up /\ chan[r] = "eof"
    /\ delivered' = [delivered EXCEPT ![r] = recv[r].have]
    /\ gone' = Append(gone, <<r, Undelivered(recv[r].have)>>)
    /\ chan' = [chan EXCEPT ![r] = "none"]
    /\ UNCHANGED <<session, reported, ghost, aborts, off, recv, relay, history, faults>>

\* CTRL_IDLE_SECS of silence.
HandlerTimesOut(r) ==
    /\ session.up /\ r \in ghost
    /\ gone' = Append(gone, <<r, Undelivered(delivered[r])>>)
    /\ ghost' = ghost \ {r}
    /\ UNCHANGED <<sender, chan, aborts, off, recv, relay, history, faults>>

HandlerSeesAbort(r) ==
    /\ session.up /\ chan[r] = "abort"
    /\ aborts' = aborts \cup {r}
    /\ chan' = [chan EXCEPT ![r] = "none"]
    /\ UNCHANGED <<sender, ghost, gone, off, recv, relay, history, faults>>

-----------------------------------------------------------------------------
(* The serve loop.                                                         *)

Listening == session.up /\ off.st = "none"

\* Shutdown closes the endpoint: channels, handlers and what they queued go.
TornDown(why) ==
    /\ session' = [session EXCEPT !.up = FALSE, !.why = why,
                               !.for = IF why = "offloaded" THEN off.who ELSE None]
    /\ delivered' = [r \in Recv |-> {}] /\ reported' = {}
    /\ chan' = [r \in Recv |-> "none"] /\ ghost' = {} /\ gone' = <<>> /\ aborts' = {}
    /\ off' = NoOff
    /\ IF why = "offloaded" THEN UNCHANGED history ELSE lapsed' = {} /\ swept' = {}

ReadUp(r) == IF chan[r] = "none" THEN delivered[r] ELSE recv[r].have

CompletedByAll == {r \in Recv : UNION {ReadUp(q) : q \in Recv} = Pieces} \* mutant

CompletedPeers == {r \in Recv : ReadUp(r) = Pieces}

Tick(r) ==
    /\ Listening /\ r \in CompletedPeers \ reported
    /\ reported' = reported \cup {r}
    /\ delivered' = [delivered EXCEPT ![r] = ReadUp(r)]
    /\ UNCHANGED <<session, control, off, recv, relay, history, faults>>

\* PeerCount::distinct: of the peers connected, those seen in the last ten seconds.
ActivePeers(r) == SUBSET ({q \in Recv : chan[q] = "open" /\ recv[q].have # Pieces} \cup {r})

\* The aborter may still be counted, so one active peer does not keep the send up.
ReceiverAborted(r) ==
    /\ Listening /\ r \in aborts
    /\ \E now \in ActivePeers(r) :
        IF session.sealed \/ (Cardinality(now) <= 1 /\ reported = {})
        THEN TornDown("aborted")
        ELSE aborts' = aborts \ {r} /\ UNCHANGED <<sender, chan, ghost, gone, off, history>>
    /\ UNCHANGED <<recv, relay, faults>>

\* An empty tail is one more copy; any other is what the relay must keep.
ReceiverGone ==
    /\ Listening /\ gone # <<>> /\ gone' = Tail(gone)
    /\ LET r == Head(gone)[1]
           tail == Head(gone)[2]
       IN  IF tail = {} THEN reported' = reported \cup {r} /\ UNCHANGED off
           ELSE off' = [who |-> r, todo |-> tail, st |-> "ask"] /\ UNCHANGED reported
    /\ UNCHANGED <<session, delivered, chan, ghost, aborts, recv, relay, history, faults>>

\* The user stops or pauses the send; a request in flight is dropped with it, and
\* the relay's handler with the request.
CancelSend ==
    /\ session.up /\ Fault /\ TornDown("cancelled") /\ seed' = NoSeed
    /\ UNCHANGED <<recv, file, rows, used>>

\* A further attempt at the same content: same pieces, a fresh memory, a fresh token.
ServeAgain ==
    /\ ~session.up /\ session.token < MaxAttempts
    /\ session' = [session EXCEPT !.up = TRUE, !.why = None, !.for = None, !.token = @ + 1]
    /\ lapsed' = {} /\ swept' = {}
    /\ UNCHANGED <<delivered, reported, control, off, recv, relay, faults>>

-----------------------------------------------------------------------------
(* Offloading: ask the relay what it has, then seed the rest by batches.   *)

HasChunks == file

\* have_handler answers for the pieces asked, one bit each.
HaveHandler(asked) == asked \cap HasChunks

AllOfIt(wanted) == wanted \* mutant

NotHeld(wanted) == wanted \ HaveHandler(wanted)

OffloadAsk ==
    /\ off.st = "ask"
    /\ off' = [off EXCEPT !.todo = NotHeld(@), !.st = "send"]
    /\ UNCHANGED <<session, delivered, reported, control, recv, relay, history, faults>>

Batches(todo) == {b \in SUBSET todo : Cardinality(b) = Min({SEED_BATCH, Cardinality(todo)})}

NoCap(b) == TRUE \* mutant

UnderCap(b) == Cap = 0 \/ used + Cardinality(b) <= Cap

RefusalIsDone == \* mutant
    /\ off.st = "send" /\ off.todo # {} /\ Fault
    /\ off' = [off EXCEPT !.todo = {}]
    /\ UNCHANGED <<sender, control, recv, relay, history>>

\* seed_handler refuses before it stores anything: 402, 507, or a plain error.
SeedRefused ==
    /\ off.st = "send" /\ off.todo # {}
    /\ \/ (\A b \in Batches(off.todo) : ~UnderCap(b)) /\ UNCHANGED faults
       \/ Fault
    /\ OffloadOver
    /\ UNCHANGED <<sender, control, recv, relay>>

\* seed_chunks: each piece fetched from the sender, verified and written, unless
\* it is there.  The rows come after the last.
SeedChunks ==
    /\ off.st = "send" /\ off.todo # {}
    /\ \E b \in Batches(off.todo) :
        UnderCap(b) /\ seed' = [batch |-> b, written |-> b \ file] /\ file' = file \cup b
    /\ off' = [off EXCEPT !.st = "wait"]
    /\ UNCHANGED <<sender, control, recv, rows, used, history, faults>>

\* One piece that cannot be fetched: what this request wrote is taken back.
SeedFails ==
    /\ off.st = "wait" /\ seed.written # {} /\ Fault
    /\ file' = file \ seed.written /\ seed' = NoSeed
    /\ OffloadOver
    /\ UNCHANGED <<sender, control, recv, rows, used>>

RecordSeed(batch) == rows \cup ({session.token} \X batch)

AddSessionBytes(batch) == used + Cardinality(batch)

SeedRecord ==
    /\ off.st = "wait"
    /\ rows' = RecordSeed(seed.batch)
    /\ used' = AddSessionBytes(seed.batch)
    /\ off' = [off EXCEPT !.todo = @ \ seed.batch, !.st = "send"]
    /\ seed' = NoSeed
    /\ UNCHANGED <<session, delivered, reported, control, recv, file, history, faults>>

\* The relay dies while it handles the request: the rows were not written.
RelayCrash ==
    /\ off.st = "wait" /\ Fault /\ seed' = NoSeed /\ OffloadOver
    /\ UNCHANGED <<sender, control, recv, file, rows, used>>

OffloadDone ==
    /\ off.st = "send" /\ off.todo = {}
    /\ \E now \in ActivePeers(off.who) :
        IF session.sealed /\ Cardinality(now) <= 1
        THEN TornDown("offloaded")
        ELSE OffloadOver /\ UNCHANGED <<sender, control>>
    /\ UNCHANGED <<recv, relay, faults>>

-----------------------------------------------------------------------------
(* What else takes chunks off the relay.                                   *)

\* The reaper: a row past its TTL takes its file along.
ReapSeed(tok, i) ==
    /\ <<tok, i>> \in rows /\ Fault
    /\ rows' = DeleteSeedOne(tok, i) /\ file' = ReleaseHex({i})
    /\ lapsed' = Noted(lapsed, {i})
    /\ UNCHANGED <<sender, control, off, recv, seed, used, swept>>

\* reap_session_bytes: nothing was charged for a seed TTL.
MeterLapses ==
    /\ used > 0 /\ Fault /\ used' = 0
    /\ UNCHANGED <<sender, control, off, recv, file, rows, seed, history>>

TakeSeedsByToken(tok) == rows \ ({tok} \X Pieces)

\* DELETE /v1/seeded/{token}, which revoke_seeded asks for.
Withdraw(tok) ==
    LET mine == {i \in Pieces : <<tok, i>> \in rows}
    IN  /\ mine # {} /\ ~session.up /\ Fault
        /\ rows' = TakeSeedsByToken(tok) /\ file' = ReleaseHex(mine)
        /\ lapsed' = Noted(lapsed, mine)
        /\ UNCHANGED <<sender, control, off, recv, seed, used, swept>>

Owned(i) == \E tok \in Tokens : <<tok, i>> \in rows

SparesAll == {} \* mutant

Orphans == {i \in file : ~Owned(i) /\ i \notin seed.written}

\* Past the grace period: older than any request still in hand.
SweepOrphanChunks ==
    /\ Orphans # {}
    /\ file' = file \ Orphans /\ swept' = Noted(swept, Orphans)
    /\ UNCHANGED <<sender, control, off, recv, rows, seed, used, lapsed, faults>>

-----------------------------------------------------------------------------
Receiver(r) ==
    \/ Connect(r) \/ ChannelDrops(r) \/ Complete(r) \/ Unpause(r)
    \/ \E i \in Pieces : Pull(r, i) \/ PullFromRelay(r, i)
    \/ \E kind \in {"paused", "cancelled"} : StopReceiving(r, kind)

Handler(r) == HandlerSeesEof(r) \/ HandlerTimesOut(r) \/ HandlerSeesAbort(r)

Loop == ReceiverGone \/ \E r \in Recv : Tick(r) \/ ReceiverAborted(r)

Offload == OffloadAsk \/ SeedRefused \/ SeedChunks \/ SeedRecord \/ OffloadDone

Next ==
    \/ \E r \in Recv : Receiver(r) \/ Handler(r)
    \/ Loop \/ CancelSend \/ ServeAgain
    \/ Offload \/ SeedFails \/ RelayCrash
    \/ \E tok \in Tokens, i \in Pieces : ReapSeed(tok, i)
    \/ \E tok \in Tokens : Withdraw(tok)
    \/ SweepOrphanChunks \/ MeterLapses

\* The handler, the loop, the relay and its hourly sweep run on their own; a
\* receiver that is done says so.
Fairness ==
    /\ \A r \in Recv : WF_vars(Handler(r)) /\ WF_vars(Complete(r))
    /\ WF_vars(Loop) /\ WF_vars(Offload)
    /\ WF_vars(SweepOrphanChunks)

Spec == Init /\ [][Next]_vars /\ Fairness

-----------------------------------------------------------------------------
(* Properties.                                                             *)

\* Types of the state; the loop offloads only while it is up, and the relay works
\* on a request only while the sender waits for it.
TypeOK ==
    /\ session.why \in {None, "cancelled", "aborted", "offloaded"}
    /\ delivered \in [Recv -> SUBSET Pieces] /\ reported \subseteq Recv
    /\ off.st # "none" => session.up /\ off.who \in Recv
    /\ seed # NoSeed => off.st = "wait"
    /\ rows \subseteq Tokens \X Pieces /\ file \subseteq Pieces
    /\ Cap = 0 \/ used <= Cap

\* A copy is counted only for a receiver that had every piece: acks of different
\* receivers never add up to a copy nobody holds.
CopiesAreReal ==
    \A r \in reported : recv[r].have = Pieces

\* What the sender believes of its receivers and of its budget is so.
CopiesAccounted == TypeOK /\ CopiesAreReal

\* When a send sealed to one recipient ends because the relay can finish it, the
\* receiver that left finds every piece it lacks there, until a TTL, a release, a
\* withdrawal or the sweep takes it.
TailIsHeld ==
    session.up /\ session'.why = "offloaded" =>
        \/ recv[off.who].st = "cancelled"
        \/ Pieces \ recv[off.who].have \subseteq file \cup lapsed \cup swept

\* The transfer's offload meter is charged only for pieces the relay did not have:
\* a receiver that comes and goes cannot use up the budget.
ChargedForNew ==
    used' > used => used' - used = Cardinality(seed.written)

\* An offload is sound: the relay has what it stands in for, and the transfer has
\* paid for what is new and no more.
OffloadIsSound == [][TailIsHeld /\ ChargedForNew]_vars

\* A chunk file no row names does not stay: a row is written for it or the sweep
\* takes it.
OrphansGo == \A i \in Pieces : (i \in file /\ ~Owned(i)) ~> (i \notin file \/ Owned(i))

\* A receiver that finishes with its channel up is counted, unless the channel
\* breaks or the session ends: the last acks are flushed before it leaves.
FinishIsNoticed ==
    \A r \in Recv :
        (recv[r].st = "on" /\ recv[r].have = Pieces /\ chan[r] = "open") ~>
            (r \in reported \/ ~session.up \/ r \in ghost \/ recv[r].st = "cancelled"
                \/ chan[r] = "abort")

\* What is done is settled: a finished receiver is counted, a file no row names goes.
ServeSettles == FinishIsNoticed /\ OrphansGo

\* Only a complete offload means the relay can finish the job without us (Offload).
TailIsKept ==
    session.why = "offloaded" =>
        \/ recv[session.for].st = "cancelled"
        \/ Pieces \ recv[session.for].have \subseteq file \cup lapsed

=============================================================================
