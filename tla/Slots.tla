------------------------------- MODULE Slots -------------------------------
(***************************************************************************)
(* The rotating inbox slots of one identity: where a notification is       *)
(* posted, where a reader looks for it and where it is settled, as the     *)
(* epochs pass under all three; and the bearer tokens that a reader proves *)
(* its slots with.                                                         *)
(*                                                                         *)
(* Inbox models the holding of a request on one slot; here a hold is the   *)
(* interval it takes.  Time is a count of ticks that all parties share.    *)
(* A request takes no time, save a post, whose slot is named when it is    *)
(* sent and whose expiry when it lands, at most Flight ticks later.        *)
(*                                                                         *)
(* A slot is its epoch: the blinded key of that epoch (slot_for_epoch).    *)
(***************************************************************************)
EXTENDS Integers, FiniteSets

CONSTANTS
    Notice,      \* notifications, each posted once
    Epoch,       \* INBOX_EPOCH_SECS
    DefaultTtl,  \* INBOX_TTL_SECS
    RelayTtl,    \* INBOX_MAX_TTL_SECS
    Ttl,         \* lifetimes that a caller asks for; 0 asks for none
    LongPoll,    \* LONG_POLL_SECS
    MinRound,    \* MIN_ROUND
    Backoff,     \* the pause after a failed round
    BackfillEvery,   \* BACKFILL_EVERY_SECS
    SessionTtl,  \* INBOX_SESSION_TTL
    SessionSlack,    \* a cached token this close to its end is not used
    MaxRowSlots, \* MAX_ROW_SLOTS
    Flight,      \* bound on the flight of a post
    MaxClock, MaxRelayRestarts, MaxRuns

\* A round is short beside an epoch, and the pause after a failed one beside
\* the backfill.
ASSUME SlotConstants ==
    /\ IsFiniteSet(Notice) /\ Ttl \subseteq Nat
    /\ {Epoch, MinRound, BackfillEvery} \subseteq Nat \ {0}
    /\ {DefaultTtl, RelayTtl, LongPoll, Backoff, SessionTtl, SessionSlack,
        MaxRowSlots, Flight, MaxClock, MaxRelayRestarts, MaxRuns} \subseteq Nat
    /\ DefaultTtl <= Epoch /\ Epoch <= RelayTtl
    /\ Flight < Epoch /\ SessionSlack < SessionTtl
    /\ MinRound + LongPoll < Epoch /\ Backoff < MinRound + BackfillEvery

VARIABLES
    time,
    note,      \* each notification: in flight, in the inbox table, settled
    secret,    \* AppState::auth_secret, by the relay's starts
    shaken,    \* when the relay last restarted
    sub,       \* the reader's InboxSubscription and where its run stands
    settled    \* what an ack or a retraction has answered for

slotVars == <<time, note, secret, shaken, sub, settled>>

-----------------------------------------------------------------------------
(* Epochs.                                                                 *)

EpochAt(t) == t \div Epoch

\* inbox_slots_at: the current slot first.
ReadSlots(t) == <<EpochAt(t), EpochAt(t) - 1>>
Readable(t) == {ReadSlots(t)[i] : i \in {1, 2}}

\* epoch_of: only a slot of the window can be signed for.
EpochOfNow(slot) == slot = EpochAt(time)                          \* mutant
EpochOf(slot) == slot \in Readable(time)

-----------------------------------------------------------------------------
(* The table.                                                              *)

Absent == [at |-> "none", slot |-> 0, asked |-> 0, sent |-> 0, exp |-> 0]

LiveNote(n) == note[n].at = "inbox" /\ time < note[n].exp
In(slot) == {n \in Notice : LiveNote(n) /\ note[n].slot = slot}

\* clamp_inbox_ttl, and the relay's own cap and default.
AsAsked(ttl) == ttl                                               \* mutant
ClampTtl(ttl) == IF ttl > Epoch THEN Epoch ELSE ttl
Lifetime(ttl) ==
    IF ttl = 0 THEN DefaultTtl ELSE IF ttl > RelayTtl THEN RelayTtl ELSE ttl

-----------------------------------------------------------------------------
(* Posting and retracting: post_offer and post_raw, retract_offer.         *)

SendPost(n, ttl) ==
    /\ note[n].at = "none"
    /\ note' = [note EXCEPT ![n] =
          [at |-> "flying", slot |-> EpochAt(time), asked |-> ClampTtl(ttl),
           sent |-> time, exp |-> 0]]
    /\ UNCHANGED <<time, secret, shaken, sub, settled>>

LandPost(n) ==
    /\ note[n].at = "flying"
    /\ note' = [note EXCEPT ![n] =
          [@ EXCEPT !.at = "inbox", !.sent = time,
                    !.exp = time + Lifetime(note[n].asked)]]
    /\ UNCHANGED <<time, secret, shaken, sub, settled>>

\* retract_offer walks the window and stops at the slot that answers.
RetractReach(slot) == slot \in Readable(time)
RetractNote(n) ==
    /\ note[n].at = "inbox" /\ n \notin settled
    /\ note' = [note EXCEPT ![n].at =
          IF RetractReach(note[n].slot) THEN "settled" ELSE @]
    /\ settled' = settled \cup {n}
    /\ UNCHANGED <<time, secret, shaken, sub>>

-----------------------------------------------------------------------------
(* Sessions: a bearer token names its slot, the secret it was issued under *)
(* and its end.                                                            *)

Token(slot) == [slot |-> slot, by |-> secret, exp |-> time + SessionTtl]

\* inbox_authorized
Authorized(token, slot) ==
    token.slot = slot /\ token.by = secret /\ time < token.exp

Cached(slot) ==
    {t \in sub.sessions : t.slot = slot /\ time + SessionSlack < t.exp}
Dropped(slot) == {t \in sub.sessions : t.slot # slot}

\* ensure_session: the tokens it may return; none when no epoch of ours
\* produces the slot.
Session(slot, force) ==
    IF ~force /\ Cached(slot) # {} THEN Cached(slot)
    ELSE IF EpochOf(slot) THEN {Token(slot)} ELSE {}

-----------------------------------------------------------------------------
(* A round of the poll loop: InboxSubscription::run, poll_wait and         *)
(* items_across_slots.  The first slot is held, the second is drained when *)
(* the backfill is due; each is asked with a token, and once more with a   *)
(* fresh one.                                                              *)

Off == [pc |-> "off", slots |-> <<0, 0>>, which |-> 1, force |-> FALSE,
        token |-> {}, began |-> 0, under |-> 0, until |-> 0, out |-> {},
        last |-> 0, sessions |-> {}, rowSlots |-> {}, held |-> {},
        seen |-> {}, since |-> 0, runs |-> 0]

\* A subscription starts with nothing in memory; last_backfill is 0.
SubStarts ==
    /\ sub.pc = "off" /\ sub.runs < MaxRuns
    /\ sub' = [Off EXCEPT !.pc = "rest", !.until = time, !.since = time,
                          !.last = time - BackfillEvery, !.runs = sub.runs + 1]
    /\ UNCHANGED <<time, note, secret, shaken, settled>>

SubStops ==
    /\ sub.pc # "off"
    /\ sub' = [Off EXCEPT !.runs = sub.runs]
    /\ UNCHANGED <<time, note, secret, shaken, settled>>

BeginRound ==
    /\ sub.pc \in {"rest", "backoff"} /\ time >= sub.until
    /\ sub' = [sub EXCEPT !.pc = "sign", !.slots = ReadSlots(time),
                          !.which = 1, !.force = FALSE,
                          !.began = time, !.under = secret]
    /\ UNCHANGED <<time, note, secret, shaken, settled>>

\* What outlives a round.
Between(s, pc) ==
    [Off EXCEPT !.pc = pc, !.last = s.last, !.sessions = s.sessions,
                !.rowSlots = s.rowSlots, !.held = s.held, !.seen = s.seen,
                !.since = s.since, !.runs = s.runs]

\* The round is over: run surfaces what it has not seen, and keeps the floor.
RoundOver(s) ==
    [Between(s, "rest") EXCEPT
              !.seen = @ \cup s.out,
              !.until = IF s.began + MinRound > time THEN s.began + MinRound
                                                      ELSE time]

\* A failure on the current slot is the round's; on the older one it is not.
RoundFails(s) ==
    IF s.which = 1
    THEN [Between(s, "backoff") EXCEPT !.until = time + Backoff]
    ELSE RoundOver(s)

Sign ==
    /\ sub.pc = "sign"
    /\ LET slot == sub.slots[sub.which]
       IN  \/ \E t \in Session(slot, sub.force) :
                sub' = [sub EXCEPT !.pc = "ask", !.token = {t},
                                   !.sessions = Dropped(slot) \cup {t}]
           \/ Session(slot, sub.force) = {} /\ sub' = RoundFails(sub)
    /\ UNCHANGED <<time, note, secret, shaken, settled>>

\* remember_rows: past the cap the memory is cleared first.
Remember(s, slot, ns) ==
    LET kept == IF Cardinality(s.rowSlots) > MaxRowSlots THEN {} ELSE s.rowSlots
    IN  {m \in kept : m.row \notin ns} \cup {[row |-> n, slot |-> slot] : n \in ns}

\* What an answer does to the subscription.
Read(s, slot, ns) ==
    IF ns = {} THEN s
    ELSE [s EXCEPT !.rowSlots = Remember(s, slot, ns),
                   !.held = IF s.which = 1 THEN ns ELSE @,
                   !.out = @ \cup ns]

\* backfill_due
Due(s) == time - s.last >= BackfillEvery

\* After the first slot: the older one, when it is due, else the round is over.
Onward(s) ==
    IF Due(s) THEN [s EXCEPT !.pc = "sign", !.which = 2, !.force = FALSE,
                             !.last = time]
              ELSE RoundOver(s)

\* authed: the stale token is dropped and the handshake run once more.
Retry(slot) ==
    [sub EXCEPT !.pc = "sign", !.force = TRUE, !.sessions = Dropped(slot)]

\* The relay's answer to the request.
Ask ==
    /\ sub.pc = "ask"
    /\ LET slot == sub.slots[sub.which]
           granted == \A t \in sub.token : Authorized(t, slot)
       IN  sub' = IF granted /\ sub.which = 1
                  THEN [sub EXCEPT !.pc = "hold", !.until = time + LongPoll]
                  ELSE IF granted THEN RoundOver(Read(sub, slot, In(slot)))
                  ELSE IF sub.force THEN RoundFails(sub)
                  ELSE Retry(slot)
    /\ UNCHANGED <<time, note, secret, shaken, settled>>

\* The relay ends its hold on a row the reader does not have, or on the timer.
News == In(sub.slots[1]) \ sub.held
HoldEnds ==
    /\ sub.pc = "hold"
    /\ \/ News # {} /\ sub' = Onward(Read(sub, sub.slots[1], In(sub.slots[1])))
       \/ News = {} /\ time >= sub.until /\ sub' = Onward(sub)
    /\ UNCHANGED <<time, note, secret, shaken, settled>>

-----------------------------------------------------------------------------
(* Acking what was surfaced, beside the loop.                              *)

\* The slot the row was read from; the current one for a row it has not read.
AckCurrent(n) == EpochAt(time)                                    \* mutant
AckSlot(n) ==
    IF \E m \in sub.rowSlots : m.row = n
    THEN (CHOOSE m \in sub.rowSlots : m.row = n).slot
    ELSE EpochAt(time)

\* authed again: a cached token the relay takes, else a fresh one.  The relay
\* answers 204 whether or not the slot has the row (inbox_mark_taken).
AckNote(n) ==
    /\ sub.pc # "off" /\ n \in sub.seen \ settled
    /\ LET slot == AckSlot(n)
           good == {t \in Session(slot, FALSE) : Authorized(t, slot)}
       IN  \E t \in IF good # {} THEN good ELSE Session(slot, TRUE) :
             /\ sub' = [sub EXCEPT !.sessions = Dropped(slot) \cup {t},
                                   !.rowSlots = {m \in @ : m.row # n}]
             /\ note' = [note EXCEPT ![n].at =
                   IF @ = "inbox" /\ note[n].slot = slot THEN "settled" ELSE @]
    /\ settled' = settled \cup {n}
    /\ UNCHANGED <<time, secret, shaken>>

-----------------------------------------------------------------------------
(* The relay restarts: a new session secret; a request that is in flight,  *)
(* as a held one always is, dies with the connection.                      *)

SlotRelayRestart ==
    /\ secret < MaxRelayRestarts
    /\ secret' = secret + 1 /\ shaken' = time
    /\ \/ sub.pc # "hold" /\ UNCHANGED sub
       \/ sub.pc \in {"sign", "ask", "hold"} /\ sub' = RoundFails(sub)
    /\ UNCHANGED <<time, note, settled>>

\* A tick passes when no one has something to do at once.
Busy ==
    \/ sub.pc \in {"sign", "ask"}
    \/ sub.pc \in {"rest", "backoff"} /\ time >= sub.until
    \/ sub.pc = "hold" /\ (News # {} \/ time >= sub.until)
    \/ \E n \in Notice : note[n].at = "flying" /\ time >= note[n].sent + Flight

SlotTick ==
    /\ time < MaxClock /\ ~Busy
    /\ time' = time + 1
    /\ UNCHANGED <<note, secret, shaken, sub, settled>>

SlotInit ==
    /\ time = Epoch
    /\ note = [n \in Notice |-> Absent]
    /\ secret = 0 /\ shaken = 0
    /\ sub = Off
    /\ settled = {}

SlotNext ==
    \/ \E n \in Notice : \/ \E ttl \in Ttl : SendPost(n, ttl)
                         \/ LandPost(n) \/ RetractNote(n) \/ AckNote(n)
    \/ SubStarts \/ SubStops \/ BeginRound \/ Sign \/ Ask \/ HoldEnds
    \/ SlotRelayRestart \/ SlotTick

SlotSpec == SlotInit /\ [][SlotNext]_slotVars

-----------------------------------------------------------------------------

Later(a, b) == IF a > b THEN a ELSE b

\* A live row is in a slot that its owner reads, but for the last ticks of a
\* row that was in flight across an epoch's end (presence.rs, clamp_inbox_ttl
\* and INBOX_EPOCH_SECS).
WithinReach ==
    \A n \in Notice :
        LiveNote(n) => \/ note[n].slot \in Readable(time)
                   \/ note[n].exp - time <= Flight

\* A reader that runs sees every offer that it can still reach within one
\* backfill and one round, whatever slot the offer is in, however often the
\* epoch has turned or the token has run out, and counting anew from a restart
\* of the relay (items_across_slots, backfill_due, epoch_of).
SeenInTime ==
    \A n \in Notice :
        (LiveNote(n) /\ note[n].slot \in Readable(time) /\ sub.pc # "off")
            => \/ n \in sub.seen
               \/ time - Later(note[n].sent, Later(sub.since, shaken))
                      < BackfillEvery + MinRound + LongPoll

\* What a reader has acked, or a sender retracted, no reader finds again:
\* the answer came from the slot that the row is in (ack, retract_offer).
SettledIsGone ==
    \A n \in settled : ~(LiveNote(n) /\ note[n].slot \in Readable(time))

\* An offer is where its owner looks, is seen in time, and once settled is not
\* found again.
OffersAreSeen == WithinReach /\ SeenInTime /\ SettledIsGone

=============================================================================
