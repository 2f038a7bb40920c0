---------------------------- MODULE PeersProofs ----------------------------
(***************************************************************************)
(* Proofs about finding a peer and serving it: the inbox slots of an       *)
(* identity and the beacon of its presence, both of which turn with an     *)
(* epoch (Slots, Beacons), and a send with its receivers (Serve).  No      *)
(* theorem here uses two of the three: they share the module, not their    *)
(* state.                                                                  *)
(*                                                                         *)
(* Slots: an offer is where its owner looks, is seen in time, and once     *)
(* settled is not found again.  `UnreadInv` says where an offer that was   *)
(* not read may be while a round is under way: in the slot being asked, in *)
(* the one still to ask, in one begun during the hold, or it came after    *)
(* the last backfill.  `RunInv` bounds how long the round may still take   *)
(* by the last backfill or the relay's last restart (`Horizon`), so that   *)
(* the two together bound how long an offer goes unread.  `MemoryInv` is   *)
(* that an ack goes to the slot that the row is in.                        *)
(*                                                                         *)
(* Beacons: whoever asks is told who listens.  The publisher's `next` and  *)
(* `missed` say when its last beacon arrived: `missed + 1` refreshes       *)
(* before `next`.  The invariant `LastBeaconStands` is that this beacon is *)
(* in the table as long as it lives.  The lifetime outlasts the refreshes  *)
(* that may be lost, so it does live; and its slot, named by a clock that  *)
(* is off and some time ago, is one of those the asker looks into, since   *)
(* both add up to no more than the grace.                                  *)
(***************************************************************************)
EXTENDS Slots, Beacons, Serve, FiniteSetTheorems, TLAPS

-----------------------------------------------------------------------------
(* The invariant of Slots.                                                 *)

NoteType == [at : {"none", "flying", "inbox", "settled"}, slot : Int, asked : Int,
             sent : Int, exp : Int]
TokenType == [slot : Int, by : Int, exp : Int]
SubType == [pc : {"off", "rest", "backoff", "sign", "ask", "hold"},
            slots : Int \X Int, which : {1, 2}, force : BOOLEAN,
            token : SUBSET TokenType, began : Int, under : Int, until : Int,
            out : SUBSET Notice, last : Int, sessions : SUBSET TokenType,
            rowSlots : SUBSET [row : Notice, slot : Int], held : SUBSET Notice,
            seen : SUBSET Notice, since : Int, runs : Int]

SlotTypeOK ==
    /\ time \in Int /\ secret \in Int /\ shaken \in Int /\ shaken <= time
    /\ note \in [Notice -> NoteType]
    /\ sub \in SubType
    /\ settled \in SUBSET Notice

\* When an epoch begins.
Begin(e) == e * Epoch

\* A notification is in the slot of a time when it was on its way, and lives for
\* an epoch at most from when it landed.
NotesInv ==
    \A n \in Notice :
        /\ note[n].at # "none" => note[n].slot <= EpochAt(time)
        /\ note[n].at = "flying" =>
              /\ note[n].slot = EpochAt(note[n].sent) /\ note[n].asked \in 0..Epoch
              /\ note[n].sent <= time /\ time <= note[n].sent + Flight
        /\ note[n].at = "inbox" =>
              /\ Begin(note[n].slot) <= note[n].sent /\ note[n].sent <= time
              /\ note[n].exp < Begin(note[n].slot) + Epoch + Epoch + Flight

\* The slot a row was read from is the one it is in, and is known of whatever is
\* surfaced and not settled.
MemoryInv ==
    /\ \A m \in sub.rowSlots :
          note[m.row].at \in {"inbox", "settled"} /\ m.slot = note[m.row].slot
    /\ \A n \in sub.seen \cup sub.out :
          n \in settled \/ \E m \in sub.rowSlots : m.row = n

\* What was settled is gone, or was left in a slot that nobody reads any more.
SettledInv ==
    \A n \in settled :
        \/ note[n].at = "settled"
        \/ note[n].at = "inbox" /\ note[n].slot < EpochAt(time) - 1

\* The first slot has been asked by then, at the latest.
Horizon == Later(sub.last, shaken) + BackfillEvery + MinRound + LongPoll - 1

\* Where a round stands and how long it may still take.
RunInv ==
    /\ sub.held \subseteq sub.seen \cup sub.out
    /\ sub.pc # "off" => sub.last <= time
    /\ sub.pc \in {"sign", "ask", "hold"} =>
          sub.slots[2] = sub.slots[1] - 1 /\ sub.began <= time
    /\ sub.pc \in {"sign", "ask"} /\ sub.which = 1 =>
          /\ sub.began = time /\ sub.slots[1] = EpochAt(time) /\ sub.out = {}
          /\ time + LongPoll <= Horizon
    /\ sub.pc \in {"sign", "ask"} /\ sub.which = 2 => sub.last = time
    /\ sub.pc = "ask" =>
          \E t \in TokenType :
              /\ sub.token = {t}
              /\ sub.force => Authorized(t, sub.slots[sub.which]) \/ shaken = time
    /\ sub.pc = "hold" =>
          /\ sub.which = 1 /\ sub.out = {} /\ sub.slots[1] = EpochAt(sub.began)
          /\ time <= sub.until /\ sub.until <= sub.began + LongPoll
          /\ sub.until <= Horizon
    /\ sub.pc \in {"rest", "backoff"} =>
          sub.out = {} /\ time <= sub.until /\ sub.until + LongPoll <= Horizon

\* From when on the reader could have seen a notification.
Since(n) == Later(note[n].sent, Later(sub.since, shaken))

Unread(n) == /\ LiveNote(n) /\ note[n].slot \in Readable(time) /\ sub.pc # "off"
             /\ n \notin sub.seen \cup sub.out

\* Where one that was not read may be: in the slot the round is asking or is about
\* to ask, in one that was begun during the last hold, or it came after the last
\* backfill.
UnreadInv ==
    \A n \in Notice : Unread(n) =>
        \/ Since(n) >= sub.last
        \/ /\ sub.pc = "hold" \/ (sub.pc \in {"sign", "ask"} /\ sub.which = 1)
           /\ note[n].slot = sub.slots[1]
        \/ /\ sub.pc \in {"sign", "ask"} /\ sub.which = 2
           /\ note[n].slot = sub.slots[2] \/ Begin(note[n].slot) >= sub.last - LongPoll
        \/ /\ sub.pc = "rest" /\ sub.until <= sub.last + MinRound
           /\ Begin(note[n].slot) >= sub.last - LongPoll

SlotInv == /\ SlotTypeOK /\ NotesInv /\ MemoryInv /\ SettledInv
           /\ RunInv /\ UnreadInv /\ SeenInTime

-----------------------------------------------------------------------------
(* Epochs.                                                                 *)

LEMMA SlotSizes ==
    /\ Epoch \in Nat /\ Epoch > 0 /\ MinRound \in Nat /\ MinRound > 0
    /\ BackfillEvery \in Nat /\ BackfillEvery > 0
    /\ DefaultTtl \in Nat /\ RelayTtl \in Nat /\ LongPoll \in Nat /\ Backoff \in Nat
    /\ SessionTtl \in Nat /\ SessionSlack \in Nat /\ MaxRowSlots \in Nat /\ Flight \in Nat
    /\ DefaultTtl <= Epoch /\ Epoch <= RelayTtl /\ Flight < Epoch
    /\ SessionSlack < SessionTtl /\ MinRound + LongPoll < Epoch
    /\ Backoff < MinRound + BackfillEvery /\ Ttl \subseteq Nat
BY SlotConstants DEF SlotConstants

\* An epoch is as long as the one before, and a moment is in its epoch.
LEMMA Epochs ==
    /\ \A e \in Int : Begin(e) \in Int
    /\ \A d, e \in Int : d < e => Begin(d) + Epoch <= Begin(e)
    /\ \A t \in Int : /\ EpochAt(t) \in Int /\ Begin(EpochAt(t)) <= t
                      /\ t < Begin(EpochAt(t)) + Epoch
<1>1. \A e \in Int : Begin(e) \in Int
  BY SlotSizes DEF Begin
<1>2. ASSUME NEW d \in Int, NEW e \in Int, d < e PROVE Begin(d) + Epoch <= Begin(e)
  <2>1. e * Epoch = d * Epoch + (e - d) * Epoch
    BY SlotSizes
  <2>2. (e - d) * Epoch >= Epoch
    <3>1. PICK k \in Nat : e - d = 1 + k
      <4>1. e - d - 1 \in Nat /\ e - d = 1 + (e - d - 1)  BY <1>2
      <4> QED  BY <4>1
    <3>2. (1 + k) * Epoch = Epoch + k * Epoch  BY SlotSizes
    <3>3. k * Epoch \in Nat  BY SlotSizes
    <3> QED  BY <3>1, <3>2, <3>3, SlotSizes
  <2>3. d * Epoch \in Int /\ e * Epoch \in Int /\ (e - d) * Epoch \in Int
    BY SlotSizes
  <2> QED  BY <2>1, <2>2, <2>3, SlotSizes DEF Begin
<1>3. ASSUME NEW t \in Int
      PROVE  EpochAt(t) \in Int /\ Begin(EpochAt(t)) <= t /\ t < Begin(EpochAt(t)) + Epoch
  <2>1. /\ t \div Epoch \in Int /\ t % Epoch \in 0..(Epoch - 1)
        /\ t = Epoch * (t \div Epoch) + (t % Epoch)
    BY SlotSizes
  <2>2. (t \div Epoch) * Epoch = Epoch * (t \div Epoch) /\ Epoch * (t \div Epoch) \in Int
    BY <2>1, SlotSizes
  <2> QED  BY <2>1, <2>2, SlotSizes DEF EpochAt, Begin
<1> QED  BY <1>1, <1>2, <1>3

LEMMA EpochsGoOn ==
    ASSUME NEW t \in Int, NEW u \in Int, t <= u
    PROVE  EpochAt(t) <= EpochAt(u)
BY Epochs, SlotSizes

LEMMA ReadableIs ==
    ASSUME NEW t \in Int, NEW s \in Int
    PROVE  s \in Readable(t) <=> (s = EpochAt(t) \/ s = EpochAt(t) - 1)
<1>1. ReadSlots(t)[1] = EpochAt(t) /\ ReadSlots(t)[2] = EpochAt(t) - 1
  BY DEF ReadSlots
<1> QED  BY <1>1 DEF Readable

LEMMA LaterIs ==
    ASSUME NEW a \in Int, NEW b \in Int
    PROVE  Later(a, b) \in Int /\ Later(a, b) >= a /\ Later(a, b) >= b
           /\ (Later(a, b) = a \/ Later(a, b) = b)
BY DEF Later

-----------------------------------------------------------------------------
(* What the helpers do to a subscription.                                  *)

\* What stays in memory from one round to the next.
Keeps(r, s) ==
    /\ r.last = s.last /\ r.sessions = s.sessions /\ r.rowSlots = s.rowSlots
    /\ r.held = s.held /\ r.since = s.since /\ r.runs = s.runs

LEMMA OffIs == Off \in SubType /\ Off.pc = "off" /\ Off.out = {} /\ Off.seen = {}
               /\ Off.held = {} /\ Off.rowSlots = {} /\ Off.until = 0
BY DEF Off, SubType

\* The fields of a subscription, for typing a change of some of them.
LEMMA SubFields ==
    ASSUME NEW s \in SubType
    PROVE  /\ s.pc \in {"off", "rest", "backoff", "sign", "ask", "hold"}
           /\ s.slots \in Int \X Int /\ s.slots[1] \in Int /\ s.slots[2] \in Int
           /\ s.which \in {1, 2} /\ s.force \in BOOLEAN
           /\ s.token \in SUBSET TokenType /\ s.began \in Int /\ s.under \in Int
           /\ s.until \in Int /\ s.out \in SUBSET Notice /\ s.last \in Int
           /\ s.sessions \in SUBSET TokenType
           /\ s.rowSlots \in SUBSET [row : Notice, slot : Int]
           /\ s.held \in SUBSET Notice /\ s.seen \in SUBSET Notice /\ s.since \in Int
           /\ s.runs \in Int
BY DEF SubType

LEMMA BetweenIs ==
    ASSUME NEW s \in SubType, NEW pc \in {"rest", "backoff"}
    PROVE  LET r == Between(s, pc)
           IN  r \in SubType /\ r.pc = pc /\ r.out = {} /\ r.seen = s.seen /\ Keeps(r, s)
<1> DEFINE mid == [Off EXCEPT !.pc = pc, !.last = s.last, !.sessions = s.sessions,
                           !.rowSlots = s.rowSlots]
<1>1. Between(s, pc) \in SubType
  <2>1. mid \in SubType
    BY ZenonT(60), OffIs, SubFields DEF SubType
  <2>2. Between(s, pc) = [mid EXCEPT !.held = s.held, !.seen = s.seen,
                                     !.since = s.since, !.runs = s.runs]
    BY OffIs DEF Between, SubType
  <2> HIDE DEF mid
  <2> QED  BY ZenonT(60), <2>1, <2>2, SubFields DEF SubType
<1>2. Between(s, pc).pc = pc /\ Between(s, pc).out = {} /\ Between(s, pc).seen = s.seen
  BY OffIs DEF Between, SubType
<1>3. Keeps(Between(s, pc), s)
  BY OffIs DEF Between, SubType, Keeps
<1> QED  BY <1>1, <1>2, <1>3

LEMMA RoundOverIs ==
    ASSUME NEW s \in SubType, time \in Int
    PROVE  LET r == RoundOver(s)
           IN  /\ r \in SubType /\ r.pc = "rest" /\ r.out = {} /\ r.seen = s.seen \cup s.out
               /\ r.until = Later(s.began + MinRound, time) /\ Keeps(r, s)
<1> DEFINE b == Between(s, "rest")
           u == Later(s.began + MinRound, time)
<1>1. u \in Int /\ s.seen \cup s.out \in SUBSET Notice
  BY SlotSizes, SubFields DEF Later
<1>2. b \in SubType /\ b.pc = "rest" /\ b.out = {} /\ b.seen = s.seen /\ Keeps(b, s)
  BY BetweenIs
<1>3. RoundOver(s) = [b EXCEPT !.seen = s.seen \cup s.out, !.until = u]
  BY <1>2 DEF RoundOver, Later
<1> HIDE DEF b, u
<1>4. RoundOver(s) \in SubType
  BY ZenonT(60), <1>1, <1>2, <1>3 DEF SubType
<1> QED  BY <1>1, <1>2, <1>3, <1>4 DEF SubType, Keeps, u

LEMMA RoundFailsIs ==
    ASSUME NEW s \in SubType, time \in Int, s.which = 1
    PROVE  LET r == RoundFails(s)
           IN  /\ r \in SubType /\ r.pc = "backoff" /\ r.out = {} /\ r.seen = s.seen
               /\ r.until = time + Backoff /\ Keeps(r, s)
<1> DEFINE b == Between(s, "backoff")
<1>1. time + Backoff \in Int
  BY SlotSizes
<1>2. b \in SubType /\ b.pc = "backoff" /\ b.out = {} /\ b.seen = s.seen /\ Keeps(b, s)
  BY BetweenIs
<1>3. RoundFails(s) = [b EXCEPT !.until = time + Backoff]
  BY DEF RoundFails
<1> HIDE DEF b
<1>4. RoundFails(s) \in SubType
  BY <1>1, <1>2, <1>3 DEF SubType
<1> QED  BY <1>1, <1>2, <1>3, <1>4 DEF SubType, Keeps

LEMMA RoundFailsLate ==
    ASSUME NEW s \in SubType, s.which = 2
    PROVE  RoundFails(s) = RoundOver(s)
BY DEF RoundFails

\* What a read changes.
LEMMA ReadIs ==
    ASSUME NEW s \in SubType, NEW slot \in Int, NEW ns \in SUBSET Notice
    PROVE  LET r == Read(s, slot, ns)
           IN  /\ r \in SubType /\ r.pc = s.pc /\ r.slots = s.slots /\ r.which = s.which
               /\ r.began = s.began /\ r.last = s.last /\ r.seen = s.seen /\ r.since = s.since
               /\ r.out = s.out \cup ns
               /\ r.held \in {s.held, ns}
               /\ ns = {} => r.rowSlots = s.rowSlots
               /\ ns # {} => r.rowSlots = Remember(s, slot, ns)
<1>1. CASE ns = {}
  BY <1>1 DEF Read
<1>2. CASE ns # {}
  <2> DEFINE h == IF s.which = 1 THEN ns ELSE s.held
  <2>1. Read(s, slot, ns) = [s EXCEPT !.rowSlots = Remember(s, slot, ns), !.held = h,
                                      !.out = s.out \cup ns]
    BY <1>2 DEF Read
  <2>2. Remember(s, slot, ns) \in SUBSET [row : Notice, slot : Int]
    BY SubFields DEF Remember
  <2>3. h \in SUBSET Notice /\ h \in {s.held, ns} /\ s.out \cup ns \in SUBSET Notice
    BY SubFields
  <2> HIDE DEF h
  <2>4. Read(s, slot, ns) \in SubType
    BY ZenonT(60), <2>1, <2>2, <2>3 DEF SubType
  <2> QED  BY <1>2, <2>1, <2>3, <2>4 DEF SubType
<1> QED  BY <1>1, <1>2

\* The older slot is next.
LEMMA OnwardIs ==
    ASSUME NEW s \in SubType, time \in Int, Due(s)
    PROVE  LET r == Onward(s)
           IN  /\ r \in SubType /\ r.pc = "sign" /\ r.which = 2 /\ r.last = time
               /\ r.slots = s.slots /\ r.began = s.began /\ r.out = s.out
               /\ r.seen = s.seen /\ r.held = s.held /\ r.since = s.since
               /\ r.rowSlots = s.rowSlots
<1>1. Onward(s) = [s EXCEPT !.pc = "sign", !.which = 2, !.force = FALSE, !.last = time]
  BY DEF Onward
<1> QED  BY ZenonT(60), <1>1 DEF SubType

LEMMA OnwardEnds ==
    ASSUME NEW s \in SubType, ~Due(s)
    PROVE  Onward(s) = RoundOver(s)
BY DEF Onward

-----------------------------------------------------------------------------
(* Notifications.                                                          *)

LEMMA NoteFields ==
    ASSUME SlotTypeOK, NEW n \in Notice
    PROVE  /\ note[n] \in NoteType /\ note[n].slot \in Int /\ note[n].asked \in Int
           /\ note[n].sent \in Int /\ note[n].exp \in Int
           /\ note[n].at \in {"none", "flying", "inbox", "settled"}
BY DEF SlotTypeOK, NoteType

\* A retraction or an ack at most settles the row.
LEMMA AtMoves ==
    ASSUME SlotTypeOK, NEW n \in Notice, NEW at \in {note[n].at, "settled"},
           note' = [note EXCEPT ![n].at = at]
    PROVE  /\ note' \in [Notice -> NoteType]
           /\ note'[n].at = at
           /\ \A k \in Notice : /\ k # n => note'[k] = note[k]
                                /\ note'[k].slot = note[k].slot /\ note'[k].sent = note[k].sent
                                /\ note'[k].exp = note[k].exp
                                /\ note'[k].asked = note[k].asked
                                /\ note'[k].at = note[k].at \/ note'[k].at = "settled"
<1>1. /\ note \in [Notice -> NoteType] /\ note[n] \in NoteType
  BY DEF SlotTypeOK
<1>2. note' = [note EXCEPT ![n] = [note[n] EXCEPT !.at = at]]
  BY <1>1
<1>3. [note[n] EXCEPT !.at = at] \in NoteType
  BY <1>1 DEF NoteType
<1>4. /\ note'[n] = [note[n] EXCEPT !.at = at] /\ \A k \in Notice : k # n => note'[k] = note[k]
      /\ note' \in [Notice -> NoteType]
  BY <1>1, <1>2, <1>3
<1>5. /\ note'[n].at = at /\ note'[n].slot = note[n].slot /\ note'[n].sent = note[n].sent
      /\ note'[n].exp = note[n].exp /\ note'[n].asked = note[n].asked
  BY <1>1, <1>4 DEF NoteType
<1> QED  BY <1>4, <1>5

\* Rows that only leave, or have just come, cost the reader no time.
Arrivals ==
    \A k \in Notice : LiveNote(k)' =>
        \/ LiveNote(k) /\ note'[k].slot = note[k].slot /\ note'[k].sent = note[k].sent
        \/ note'[k].sent = time

LEMMA SeenKept ==
    ASSUME SlotTypeOK, SlotTypeOK', SeenInTime, time' = time, shaken' \in {shaken, time},
           sub'.pc # "off" => sub.pc # "off" /\ sub'.since = sub.since /\ sub.seen \subseteq sub'.seen,
           Arrivals
    PROVE  SeenInTime'
<1> SUFFICES ASSUME NEW n \in Notice,
                    (LiveNote(n) /\ note[n].slot \in Readable(time) /\ sub.pc # "off")',
                    n \notin sub'.seen
             PROVE  (time - Later(note[n].sent, Later(sub.since, shaken))
                        < BackfillEvery + MinRound + LongPoll)'
  BY DEF SeenInTime
<1>1. /\ time \in Int /\ shaken \in Int /\ shaken <= time /\ sub.since \in Int
      /\ note[n].sent \in Int /\ note'[n].sent \in Int
  BY SubFields, NoteFields DEF SlotTypeOK, NoteType
<1>2. sub.pc # "off" /\ sub'.since = sub.since /\ n \notin sub.seen
  OBVIOUS
<1>3. CASE note'[n].sent = time
  BY <1>1, <1>2, <1>3, SlotSizes DEF Later
<1>4. CASE LiveNote(n) /\ note'[n].slot = note[n].slot /\ note'[n].sent = note[n].sent
  <2>1. note[n].slot \in Readable(time)
    BY <1>4 DEF Readable, ReadSlots
  <2>2. time - Later(note[n].sent, Later(sub.since, shaken)) < BackfillEvery + MinRound + LongPoll
    BY <1>2, <1>4, <2>1 DEF SeenInTime
  <2> QED  BY <1>1, <1>2, <1>4, <2>2, SlotSizes DEF Later
<1> QED  BY <1>3, <1>4 DEF Arrivals

LEMMA UnreadKept ==
    ASSUME SlotTypeOK, SlotTypeOK', UnreadInv, time' = time, shaken' = shaken,
           sub.pc # "off" => sub.last <= time, Arrivals,
           sub'.pc = sub.pc, sub'.which = sub.which, sub'.slots = sub.slots,
           sub'.last = sub.last, sub'.until = sub.until, sub'.since = sub.since,
           sub'.seen = sub.seen, sub'.out = sub.out
    PROVE  UnreadInv'
<1> SUFFICES ASSUME NEW n \in Notice, Unread(n)'
             PROVE  (\/ Since(n) >= sub.last
                     \/ /\ sub.pc = "hold" \/ (sub.pc \in {"sign", "ask"} /\ sub.which = 1)
                        /\ note[n].slot = sub.slots[1]
                     \/ /\ sub.pc \in {"sign", "ask"} /\ sub.which = 2
                        /\ note[n].slot = sub.slots[2] \/ Begin(note[n].slot) >= sub.last - LongPoll
                     \/ /\ sub.pc = "rest" /\ sub.until <= sub.last + MinRound
                        /\ Begin(note[n].slot) >= sub.last - LongPoll)'
  BY DEF UnreadInv
<1>1. /\ time \in Int /\ shaken \in Int /\ sub.since \in Int /\ sub.last \in Int
      /\ note[n].sent \in Int /\ note'[n].sent \in Int
  BY SubFields, NoteFields DEF SlotTypeOK, NoteType
<1>2. CASE note'[n].sent = time
  <2>1. sub.last <= time  BY DEF Unread
  <2>2. Since(n)' >= sub.last
    BY <1>1, <1>2, <2>1 DEF Since, Later
  <2> QED  BY <2>2
<1>3. CASE LiveNote(n) /\ note'[n].slot = note[n].slot /\ note'[n].sent = note[n].sent
  <2>1. Unread(n)
    BY <1>3 DEF Unread, Readable, ReadSlots
  <2>2. Since(n)' = Since(n)
    BY <1>3 DEF Since, Later
  <2> QED  BY <1>3, <2>1, <2>2 DEF UnreadInv, Begin
<1> QED  BY <1>2, <1>3 DEF Arrivals, Unread

\* Everything a step on the relay's table leaves alone.
LEMMA RunStays ==
    ASSUME RunInv, time' = time, shaken' = shaken, secret' = secret, sub' = sub
    PROVE  RunInv'
BY DEF RunInv, Horizon, Later, Authorized, EpochAt

LEMMA SendPostKeeps ==
    ASSUME SlotInv, NEW n \in Notice, NEW ttl \in Ttl, SendPost(n, ttl)
    PROVE  SlotInv'
<1> DEFINE new == [at |-> "flying", slot |-> EpochAt(time), asked |-> ClampTtl(ttl),
                   sent |-> time, exp |-> 0]
<1>1. /\ note[n].at = "none" /\ note' = [note EXCEPT ![n] = new]
      /\ UNCHANGED <<time, secret, shaken, sub, settled>>
      /\ SlotTypeOK /\ time \in Int /\ note \in [Notice -> NoteType]
  BY DEF SendPost, SlotInv, SlotTypeOK
<1>2. ClampTtl(ttl) \in 0..Epoch /\ EpochAt(time) \in Int
  BY <1>1, SlotSizes, Epochs DEF ClampTtl
<1>3. new \in NoteType
  BY <1>1, <1>2 DEF NoteType
<1>4. note' \in [Notice -> NoteType] /\ note'[n] = new /\ \A k \in Notice : k # n => note'[k] = note[k]
  BY <1>1, <1>3
<1>5. SlotTypeOK'
  BY <1>1, <1>4 DEF SlotTypeOK
<1>6. Arrivals
  BY <1>1, <1>4 DEF Arrivals, LiveNote
<1>7. NotesInv'
  <2>1. SUFFICES ASSUME NEW k \in Notice
        PROVE  (/\ note[k].at # "none" => note[k].slot <= EpochAt(time)
                /\ note[k].at = "flying" =>
                      /\ note[k].slot = EpochAt(note[k].sent) /\ note[k].asked \in 0..Epoch
                      /\ note[k].sent <= time /\ time <= note[k].sent + Flight
                /\ note[k].at = "inbox" =>
                      /\ Begin(note[k].slot) <= note[k].sent /\ note[k].sent <= time
                      /\ note[k].exp < Begin(note[k].slot) + Epoch + Epoch + Flight)'
    BY DEF NotesInv
  <2>2. CASE k # n
    BY <1>1, <1>4, <2>2 DEF SlotInv, NotesInv, EpochAt, Begin
  <2>3. CASE k = n
    <3>1. /\ note'[k].at = "flying" /\ note'[k].slot = EpochAt(time) /\ note'[k].sent = time
          /\ note'[k].asked \in 0..Epoch
      BY <1>2, <1>4, <2>3
    <3> QED  BY <1>1, <1>2, <3>1, SlotSizes DEF EpochAt
  <2> QED  BY <2>2, <2>3
<1>8. MemoryInv'
  BY <1>1, <1>4, SubFields DEF SlotInv, SlotTypeOK, MemoryInv
<1>9. SettledInv'
  BY <1>1, <1>4 DEF SlotInv, SlotTypeOK, SettledInv, EpochAt
<1>10. RunInv'
  BY <1>1, RunStays DEF SlotInv
<1>11. UnreadInv'
  BY <1>1, <1>5, <1>6, UnreadKept DEF SlotInv, RunInv
<1>12. SeenInTime'
  BY <1>1, <1>5, <1>6, SeenKept DEF SlotInv
<1> QED  BY <1>5, <1>7, <1>8, <1>9, <1>10, <1>11, <1>12 DEF SlotInv

LEMMA LandPostKeeps ==
    ASSUME SlotInv, NEW n \in Notice, LandPost(n)
    PROVE  SlotInv'
<1> DEFINE exp == time + Lifetime(note[n].asked)
           new == [note[n] EXCEPT !.at = "inbox", !.sent = time, !.exp = exp]
<1>1. /\ note[n].at = "flying" /\ note' = [note EXCEPT ![n] = new]
      /\ UNCHANGED <<time, secret, shaken, sub, settled>>
      /\ SlotTypeOK /\ time \in Int /\ note \in [Notice -> NoteType]
  BY DEF LandPost, SlotInv, SlotTypeOK
<1>2. /\ note[n] \in NoteType /\ note[n].slot \in Int /\ note[n].sent \in Int
      /\ note[n].slot <= EpochAt(time)
      /\ note[n].slot = EpochAt(note[n].sent) /\ note[n].asked \in 0..Epoch
      /\ note[n].sent <= time /\ time <= note[n].sent + Flight
  BY <1>1, NoteFields DEF SlotInv, NotesInv
<1>3. exp \in Int /\ exp <= time + Epoch
  BY <1>1, <1>2, SlotSizes DEF Lifetime
<1> HIDE DEF exp
<1>4. /\ new \in NoteType /\ new.at = "inbox" /\ new.sent = time /\ new.exp = exp
      /\ new.slot = note[n].slot
  BY <1>1, <1>2, <1>3 DEF NoteType
<1>5. note' \in [Notice -> NoteType] /\ note'[n] = new /\ \A k \in Notice : k # n => note'[k] = note[k]
  BY <1>1, <1>4
<1> HIDE DEF new
<1>6. SlotTypeOK'
  BY <1>1, <1>5 DEF SlotTypeOK
<1>7. Arrivals
  BY <1>1, <1>4, <1>5 DEF Arrivals, LiveNote
<1>8. NotesInv'
  <2>1. SUFFICES ASSUME NEW k \in Notice
        PROVE  (/\ note[k].at # "none" => note[k].slot <= EpochAt(time)
                /\ note[k].at = "flying" =>
                      /\ note[k].slot = EpochAt(note[k].sent) /\ note[k].asked \in 0..Epoch
                      /\ note[k].sent <= time /\ time <= note[k].sent + Flight
                /\ note[k].at = "inbox" =>
                      /\ Begin(note[k].slot) <= note[k].sent /\ note[k].sent <= time
                      /\ note[k].exp < Begin(note[k].slot) + Epoch + Epoch + Flight)'
    BY DEF NotesInv
  <2>2. CASE k # n
    BY <1>1, <1>5, <2>2 DEF SlotInv, NotesInv, EpochAt, Begin
  <2>3. CASE k = n
    <3>1. /\ note'[k].at = "inbox" /\ note'[k].slot = note[n].slot /\ note'[k].sent = time
          /\ note'[k].exp = exp
      BY <1>4, <1>5, <2>3
    <3>2. Begin(note[n].slot) \in Int /\ Begin(note[n].slot) <= note[n].sent
          /\ note[n].sent < Begin(note[n].slot) + Epoch
      BY <1>2, Epochs
    <3>3. exp < Begin(note[n].slot) + Epoch + Epoch + Flight /\ Begin(note[n].slot) <= time
      BY <1>1, <1>2, <1>3, <3>2, SlotSizes
    <3> QED  BY <1>1, <1>2, <3>1, <3>3 DEF EpochAt, Begin
  <2> QED  BY <2>2, <2>3
<1>9. MemoryInv'
  BY <1>1, <1>5, SubFields DEF SlotInv, SlotTypeOK, MemoryInv
<1>10. SettledInv'
  BY <1>1, <1>5 DEF SlotInv, SlotTypeOK, SettledInv, EpochAt
<1>11. RunInv'
  BY <1>1, RunStays DEF SlotInv
<1>12. UnreadInv'
  BY <1>1, <1>6, <1>7, UnreadKept DEF SlotInv, RunInv
<1>13. SeenInTime'
  BY <1>1, <1>6, <1>7, SeenKept DEF SlotInv
<1> QED  BY <1>6, <1>8, <1>9, <1>10, <1>11, <1>12, <1>13 DEF SlotInv

LEMMA NotesSettle ==
    ASSUME SlotTypeOK, SlotTypeOK', NotesInv, time' = time,
           \A k \in Notice : /\ note'[k].slot = note[k].slot /\ note'[k].sent = note[k].sent
                             /\ note'[k].exp = note[k].exp /\ note'[k].asked = note[k].asked
                             /\ note'[k].at = note[k].at \/ (note'[k].at = "settled" /\ note[k].at # "none")
    PROVE  NotesInv'
<1> SUFFICES ASSUME NEW k \in Notice
        PROVE  (/\ note[k].at # "none" => note[k].slot <= EpochAt(time)
                /\ note[k].at = "flying" =>
                      /\ note[k].slot = EpochAt(note[k].sent) /\ note[k].asked \in 0..Epoch
                      /\ note[k].sent <= time /\ time <= note[k].sent + Flight
                /\ note[k].at = "inbox" =>
                      /\ Begin(note[k].slot) <= note[k].sent /\ note[k].sent <= time
                      /\ note[k].exp < Begin(note[k].slot) + Epoch + Epoch + Flight)'
  BY DEF NotesInv
<1> QED  BY DEF NotesInv, EpochAt, Begin

LEMMA RetractKeeps ==
    ASSUME SlotInv, NEW n \in Notice, RetractNote(n)
    PROVE  SlotInv'
<1> DEFINE at == IF RetractReach(note[n].slot) THEN "settled" ELSE note[n].at
<1>1. /\ note[n].at = "inbox" /\ note' = [note EXCEPT ![n].at = at]
      /\ settled' = settled \cup {n}
      /\ UNCHANGED <<time, secret, shaken, sub>>
      /\ SlotTypeOK /\ time \in Int /\ note \in [Notice -> NoteType]
  BY DEF RetractNote, SlotInv, SlotTypeOK
<1>2. at \in {note[n].at, "settled"}
  OBVIOUS
<1> HIDE DEF at
<1>3. /\ note' \in [Notice -> NoteType]
      /\ note'[n].at = at
      /\ \A k \in Notice : /\ k # n => note'[k] = note[k]
                           /\ note'[k].slot = note[k].slot /\ note'[k].sent = note[k].sent
                           /\ note'[k].exp = note[k].exp
                           /\ note'[k].asked = note[k].asked
                           /\ note'[k].at = note[k].at \/ note'[k].at = "settled"
  BY <1>1, <1>2, AtMoves
<1>4. SlotTypeOK'
  BY <1>1, <1>3 DEF SlotTypeOK
<1>5. Arrivals
  BY <1>1, <1>3 DEF Arrivals, LiveNote
<1>6. \A k \in Notice : note'[k].at = note[k].at \/ (note'[k].at = "settled" /\ note[k].at # "none")
  BY <1>1, <1>3
<1>7. NotesInv'
  BY <1>1, <1>3, <1>4, <1>6, NotesSettle DEF SlotInv
<1>8. MemoryInv'
  BY <1>1, <1>3, SubFields DEF SlotInv, SlotTypeOK, MemoryInv
<1>9. SettledInv'
  <2>1. SUFFICES ASSUME NEW k \in settled'
        PROVE  (\/ note[k].at = "settled"
                \/ note[k].at = "inbox" /\ note[k].slot < EpochAt(time) - 1)'
    BY DEF SettledInv
  <2>2. CASE k \in settled
    BY <1>1, <1>3, <2>2 DEF SlotInv, SlotTypeOK, SettledInv, EpochAt
  <2>3. CASE k = n
    <3>1. note[n].slot \in Int /\ note[n].slot <= EpochAt(time) /\ EpochAt(time) \in Int
      BY <1>1, NoteFields, Epochs DEF SlotInv, NotesInv
    <3>2. CASE note[n].slot \in Readable(time)
      BY <1>3, <2>3, <3>2 DEF at, RetractReach
    <3>3. CASE note[n].slot \notin Readable(time)
      <4>1. note[n].slot < EpochAt(time) - 1
        BY <1>1, <3>1, <3>3, ReadableIs
      <4> QED  BY <1>1, <1>3, <2>3, <3>3, <4>1 DEF at, RetractReach, EpochAt
    <3> QED  BY <3>2, <3>3
  <2> QED  BY <1>1, <2>2, <2>3
<1>10. RunInv'
  BY <1>1, RunStays DEF SlotInv
<1>11. UnreadInv'
  BY <1>1, <1>4, <1>5, UnreadKept DEF SlotInv, RunInv
<1>12. SeenInTime'
  BY <1>1, <1>4, <1>5, SeenKept DEF SlotInv
<1> QED  BY <1>4, <1>7, <1>8, <1>9, <1>10, <1>11, <1>12 DEF SlotInv

\* An ack goes to the slot the row is in.
LEMMA AckSlotIs ==
    ASSUME SlotTypeOK, MemoryInv, NEW n \in sub.seen \ settled
    PROVE  AckSlot(n) = note[n].slot /\ note[n].at \in {"inbox", "settled"}
<1>1. \E m \in sub.rowSlots : m.row = n
  BY DEF MemoryInv
<1>2. PICK m \in sub.rowSlots : m.row = n /\ AckSlot(n) = m.slot
  BY <1>1 DEF AckSlot
<1> QED  BY <1>2 DEF MemoryInv

LEMMA SessionTyped ==
    ASSUME SlotTypeOK, NEW slot \in Int, NEW force \in BOOLEAN, NEW t \in Session(slot, force)
    PROVE  t \in TokenType
<1>1. sub.sessions \subseteq TokenType /\ time \in Int /\ secret \in Int
  BY SubFields DEF SlotTypeOK
<1>2. Token(slot) \in TokenType
  BY <1>1, SlotSizes DEF Token, TokenType
<1> QED  BY <1>1, <1>2 DEF Session, Cached

LEMMA AckKeeps ==
    ASSUME SlotInv, NEW n \in Notice, AckNote(n)
    PROVE  SlotInv'
<1> DEFINE slot == AckSlot(n)
           at == IF note[n].at = "inbox" /\ note[n].slot = slot THEN "settled" ELSE note[n].at
           kept == {m \in sub.rowSlots : m.row # n}
<1>1. PICK t : /\ \E f \in BOOLEAN : t \in Session(slot, f)
               /\ sub' = [sub EXCEPT !.sessions = Dropped(slot) \cup {t}, !.rowSlots = kept]
               /\ note' = [note EXCEPT ![n].at = at]
  BY DEF AckNote
<1>2. /\ sub.pc # "off" /\ n \in sub.seen \ settled /\ settled' = settled \cup {n}
      /\ UNCHANGED <<time, secret, shaken>>
      /\ SlotTypeOK /\ sub \in SubType /\ time \in Int
  BY DEF AckNote, SlotInv, SlotTypeOK
<1>3. /\ slot = note[n].slot /\ slot \in Int /\ note[n].at \in {"inbox", "settled"}
  BY <1>2, AckSlotIs, NoteFields DEF SlotInv
<1>4. at = "settled"
  BY <1>3
<1>5. t \in TokenType
  BY <1>1, <1>2, <1>3, SessionTyped
<1>6. Dropped(slot) \cup {t} \in SUBSET TokenType /\ kept \in SUBSET [row : Notice, slot : Int]
  BY <1>2, <1>5, SubFields DEF Dropped
<1> HIDE DEF at, kept, slot
<1>7. /\ sub' \in SubType /\ sub'.rowSlots = kept
      /\ sub'.pc = sub.pc /\ sub'.which = sub.which /\ sub'.slots = sub.slots
      /\ sub'.last = sub.last /\ sub'.until = sub.until /\ sub'.since = sub.since
      /\ sub'.seen = sub.seen /\ sub'.out = sub.out /\ sub'.held = sub.held
      /\ sub'.began = sub.began /\ sub'.force = sub.force /\ sub'.token = sub.token
  BY <1>1, <1>2, <1>6 DEF SubType
<1>8. /\ note' \in [Notice -> NoteType]
      /\ note'[n].at = "settled"
      /\ \A k \in Notice : /\ k # n => note'[k] = note[k]
                           /\ note'[k].slot = note[k].slot /\ note'[k].sent = note[k].sent
                           /\ note'[k].exp = note[k].exp
                           /\ note'[k].asked = note[k].asked
                           /\ note'[k].at = note[k].at \/ note'[k].at = "settled"
  BY <1>1, <1>2, <1>4, AtMoves
<1>9. SlotTypeOK'
  BY <1>2, <1>7, <1>8 DEF SlotTypeOK
<1>10. Arrivals
  BY <1>2, <1>8 DEF Arrivals, LiveNote
<1>11. \A k \in Notice : note'[k].at = note[k].at \/ (note'[k].at = "settled" /\ note[k].at # "none")
  BY <1>3, <1>8
<1>12. NotesInv'
  BY <1>2, <1>8, <1>9, <1>11, NotesSettle DEF SlotInv
<1>13. MemoryInv'
  <2>1. ASSUME NEW m \in kept
        PROVE  note'[m.row].at \in {"inbox", "settled"} /\ m.slot = note'[m.row].slot
    <3>1. m \in sub.rowSlots /\ m.row \in Notice
      BY <1>2, <2>1, SubFields DEF kept
    <3> QED  BY <1>8, <3>1 DEF SlotInv, MemoryInv
  <2>2. ASSUME NEW k \in sub.seen \cup sub.out
        PROVE  k \in settled' \/ \E m \in kept : m.row = k
    BY <1>2 DEF SlotInv, MemoryInv, kept
  <2> QED  BY <1>7, <2>1, <2>2 DEF MemoryInv
<1>14. SettledInv'
  <2>1. SUFFICES ASSUME NEW k \in settled'
        PROVE  (\/ note[k].at = "settled"
                \/ note[k].at = "inbox" /\ note[k].slot < EpochAt(time) - 1)'
    BY DEF SettledInv
  <2>2. CASE k \in settled
    BY <1>2, <1>8, <2>2 DEF SlotInv, SlotTypeOK, SettledInv, EpochAt
  <2> QED  BY <1>2, <1>8, <2>2
<1>15. RunInv'
  BY <1>2, <1>7 DEF SlotInv, RunInv, Horizon, Later, Authorized, EpochAt
<1>16. UnreadInv'
  BY <1>2, <1>7, <1>9, <1>10, UnreadKept DEF SlotInv, RunInv
<1>17. SeenInTime'
  BY <1>2, <1>7, <1>9, <1>10, SeenKept DEF SlotInv
<1> QED  BY <1>9, <1>12, <1>13, <1>14, <1>15, <1>16, <1>17 DEF SlotInv

-----------------------------------------------------------------------------
(* The reader.                                                             *)

\* As many rows as there may be are remembered.
MemoryHolds == Cardinality(Notice) <= MaxRowSlots

LEMMA TableStays ==
    ASSUME NotesInv, SettledInv, UNCHANGED <<time, note, settled>>
    PROVE  NotesInv' /\ SettledInv' /\ Arrivals
<1>1. NotesInv'
  BY DEF NotesInv, EpochAt, Begin
<1>2. SettledInv'
  BY DEF SettledInv, EpochAt
<1>3. Arrivals
  BY DEF Arrivals, LiveNote
<1> QED  BY <1>1, <1>2, <1>3

LEMMA MemoryStays ==
    ASSUME MemoryInv, UNCHANGED <<note, settled>>, sub'.rowSlots = sub.rowSlots,
           sub'.seen \cup sub'.out \subseteq sub.seen \cup sub.out
    PROVE  MemoryInv'
BY DEF MemoryInv

LEMMA MemoryFits ==
    ASSUME MemoryHolds, SlotTypeOK, MemoryInv
    PROVE  ~(Cardinality(sub.rowSlots) > MaxRowSlots)
<1> DEFINE R == sub.rowSlots
           f == [m \in R |-> m.row]
<1>1. R \subseteq [row : Notice, slot : Int]
  BY SubFields DEF SlotTypeOK
<1>2. f \in [R -> Notice]
  BY <1>1
<1>3. ASSUME NEW a \in R, NEW b \in R, f[a] = f[b] PROVE a = b
  <2>1. a.row = b.row  BY <1>3
  <2>2. a.slot = b.slot  BY <2>1 DEF MemoryInv
  <2>3. a \in [row : Notice, slot : Int] /\ b \in [row : Notice, slot : Int]  BY <1>1
  <2> HIDE DEF R, f
  <2> QED  BY <2>1, <2>2, <2>3
<1>4. f \in Injection(R, Notice)
  BY <1>2, <1>3 DEF Injection, IsInjective
<1> HIDE DEF f
<1>5. Cardinality(R) <= Cardinality(Notice) /\ IsFiniteSet(R)
  BY <1>4, FS_Injection, SlotConstants DEF SlotConstants
<1>6. Cardinality(R) \in Nat /\ Cardinality(Notice) \in Nat
  BY <1>5, FS_CardinalityType, SlotConstants DEF SlotConstants
<1> QED  BY <1>5, <1>6, SlotSizes DEF MemoryHolds

LEMMA MemoryReads ==
    ASSUME MemoryHolds, SlotTypeOK, MemoryInv, UNCHANGED <<note, settled>>,
           NEW slot \in Int, sub'.rowSlots = Read(sub, slot, In(slot)).rowSlots,
           sub'.seen \cup sub'.out \subseteq sub.seen \cup sub.out \cup In(slot)
    PROVE  MemoryInv'
<1> DEFINE ns == In(slot)
<1>1. ns \in SUBSET Notice /\ \A n \in ns : note[n].at = "inbox" /\ note[n].slot = slot
  BY DEF In, LiveNote
<1>2. CASE ns = {}
  <2>1. sub'.rowSlots = sub.rowSlots
    BY <1>2 DEF Read
  <2> QED  BY <1>2, <2>1 DEF MemoryInv
<1>3. CASE ns # {}
  <2> HIDE DEF ns
  <2>1. sub'.rowSlots = {m \in sub.rowSlots : m.row \notin ns}
                          \cup {[row |-> n, slot |-> slot] : n \in ns}
    <3>1. sub'.rowSlots = Remember(sub, slot, ns)
      BY <1>1, <1>3, ReadIs DEF SlotTypeOK, ns
    <3> QED  BY <3>1, MemoryFits DEF Remember
  <2>2. ASSUME NEW m \in sub'.rowSlots
        PROVE  note'[m.row].at \in {"inbox", "settled"} /\ m.slot = note'[m.row].slot
    BY <1>1, <2>1 DEF MemoryInv
  <2>3. ASSUME NEW n \in sub'.seen \cup sub'.out
        PROVE  n \in settled \/ \E m \in sub'.rowSlots : m.row = n
    <3>1. CASE n \in ns
      <4>1. [row |-> n, slot |-> slot] \in sub'.rowSlots  BY <2>1, <3>1
      <4> QED  BY <4>1
    <3>2. CASE n \notin ns
      <4>1. n \in settled \/ \E m \in sub.rowSlots : m.row = n
        BY <2>3, <3>2 DEF MemoryInv, ns
      <4> QED  BY <2>1, <3>2, <4>1
    <3> QED  BY <3>1, <3>2
  <2> QED  BY <2>2, <2>3 DEF MemoryInv
<1> QED  BY <1>2, <1>3

\* A round that ends leaves room for the next one before the backfill.
LEMMA RestAfter ==
    ASSUME SlotTypeOK, NEW s \in SubType, s.began <= time, s.last <= time,
           time - s.last < BackfillEvery, s.held \subseteq s.seen \cup s.out,
           sub' = RoundOver(s), time' = time, shaken' \in {shaken, time}
    PROVE  /\ sub' \in SubType /\ RunInv' /\ sub'.pc = "rest" /\ sub'.out = {}
           /\ sub'.seen = s.seen \cup s.out /\ sub'.last = s.last /\ sub'.since = s.since
           /\ sub'.rowSlots = s.rowSlots
           /\ s.last = time => sub'.until <= sub'.last + MinRound
<1>1. /\ sub' \in SubType /\ sub'.pc = "rest" /\ sub'.out = {} /\ sub'.seen = s.seen \cup s.out
      /\ sub'.until = Later(s.began + MinRound, time) /\ sub'.last = s.last
      /\ sub'.since = s.since /\ sub'.rowSlots = s.rowSlots /\ sub'.held = s.held
  BY RoundOverIs DEF SlotTypeOK, Keeps
<1>2. /\ s.began \in Int /\ s.last \in Int /\ time \in Int /\ shaken \in Int /\ shaken' \in Int
  BY SubFields DEF SlotTypeOK
<1>3. sub'.until >= time /\ sub'.until <= time + MinRound /\ sub'.until \in Int
  BY <1>1, <1>2, SlotSizes DEF Later
<1>4. Horizon' >= s.last + BackfillEvery + MinRound + LongPoll - 1
  BY <1>1, <1>2, SlotSizes DEF Horizon, Later
<1>5. Horizon' \in Int
  BY <1>1, <1>2, SlotSizes DEF Horizon, Later
<1>6. sub'.until + LongPoll <= Horizon'
  BY <1>2, <1>3, <1>4, <1>5, SlotSizes
<1>7. RunInv'
  BY <1>1, <1>3, <1>6 DEF RunInv
<1> QED  BY <1>1, <1>2, <1>3, <1>7

LEMMA SubStartsKeeps == ASSUME SlotInv, SubStarts PROVE SlotInv'
<1>1. /\ sub.pc = "off" /\ UNCHANGED <<time, note, secret, shaken, settled>>
      /\ sub' = [Off EXCEPT !.pc = "rest", !.until = time, !.since = time,
                          !.last = time - BackfillEvery, !.runs = sub.runs + 1]
      /\ SlotTypeOK /\ sub \in SubType /\ time \in Int /\ shaken \in Int /\ shaken <= time
  BY DEF SubStarts, SlotInv, SlotTypeOK
<1>2. time - BackfillEvery \in Int /\ sub.runs + 1 \in Int
  BY <1>1, SlotSizes, SubFields
<1>3. /\ sub' \in SubType /\ sub'.pc = "rest" /\ sub'.until = time /\ sub'.since = time
      /\ sub'.last = time - BackfillEvery /\ sub'.out = {} /\ sub'.seen = {}
      /\ sub'.held = {} /\ sub'.rowSlots = {}
  BY ZenonT(60), <1>1, <1>2, OffIs DEF SubType
<1>4. SlotTypeOK'
  BY <1>1, <1>3 DEF SlotTypeOK
<1>5. NotesInv' /\ SettledInv'
  BY <1>1, TableStays DEF SlotInv
<1>6. MemoryInv'
  BY <1>3 DEF MemoryInv
<1>7. RunInv'
  <2>1. sub'.until + LongPoll <= Horizon' /\ sub'.last <= time
    BY <1>1, <1>3, SlotSizes DEF Horizon, Later
  <2> QED  BY <1>1, <1>3, <2>1 DEF RunInv
<1>8. \A n \in Notice : Since(n)' >= time
  BY <1>1, <1>3, <1>4, NoteFields DEF Since, Later, SlotTypeOK, NoteType
<1>9. UnreadInv'
  BY <1>1, <1>2, <1>3, <1>4, <1>8, NoteFields, SlotSizes DEF UnreadInv, Since, Later, SlotTypeOK, NoteType
<1>10. SeenInTime'
  <2>1. ASSUME NEW n \in Notice
        PROVE  (time - Later(note[n].sent, Later(sub.since, shaken))
                        < BackfillEvery + MinRound + LongPoll)'
    BY <1>1, <1>3, <1>4, NoteFields, SlotSizes DEF Later, SlotTypeOK, NoteType
  <2> QED  BY <2>1 DEF SeenInTime
<1> QED  BY <1>4, <1>5, <1>6, <1>7, <1>9, <1>10 DEF SlotInv

LEMMA SubStopsKeeps == ASSUME SlotInv, SubStops PROVE SlotInv'
<1>1. /\ UNCHANGED <<time, note, secret, shaken, settled>>
      /\ sub' = [Off EXCEPT !.runs = sub.runs]
      /\ SlotTypeOK /\ sub \in SubType /\ sub.runs \in Int
  BY SubFields DEF SubStops, SlotInv, SlotTypeOK
<1>2. /\ sub' \in SubType /\ sub'.pc = "off" /\ sub'.out = {} /\ sub'.seen = {}
      /\ sub'.held = {} /\ sub'.rowSlots = {}
  BY <1>1, OffIs DEF SubType
<1>3. SlotTypeOK'
  BY <1>1, <1>2 DEF SlotTypeOK
<1>4. NotesInv' /\ SettledInv'
  BY <1>1, TableStays DEF SlotInv
<1>5. MemoryInv' /\ RunInv' /\ UnreadInv' /\ SeenInTime'
  BY <1>2 DEF MemoryInv, RunInv, UnreadInv, Unread, SeenInTime
<1> QED  BY <1>3, <1>4, <1>5 DEF SlotInv

LEMMA BeginRoundKeeps == ASSUME SlotInv, BeginRound PROVE SlotInv'
<1>1. /\ sub.pc \in {"rest", "backoff"} /\ time >= sub.until
      /\ UNCHANGED <<time, note, secret, shaken, settled>>
      /\ sub' = [sub EXCEPT !.pc = "sign", !.slots = ReadSlots(time), !.which = 1,
                            !.force = FALSE, !.began = time, !.under = secret]
      /\ SlotTypeOK /\ sub \in SubType /\ time \in Int /\ shaken \in Int /\ secret \in Int
  BY DEF BeginRound, SlotInv, SlotTypeOK
<1>2. /\ sub.out = {} /\ time <= sub.until /\ sub.until + LongPoll <= Horizon /\ sub.last <= time
      /\ sub.held \subseteq sub.seen /\ sub.until \in Int /\ sub.last \in Int
  BY <1>1, SubFields DEF SlotInv, RunInv
<1>3. /\ EpochAt(time) \in Int /\ ReadSlots(time) \in Int \X Int
      /\ ReadSlots(time)[1] = EpochAt(time) /\ ReadSlots(time)[2] = EpochAt(time) - 1
  BY <1>1, Epochs DEF ReadSlots
<1>4. /\ sub' \in SubType /\ sub'.pc = "sign" /\ sub'.slots = ReadSlots(time) /\ sub'.which = 1
      /\ sub'.force = FALSE /\ sub'.began = time /\ sub'.out = sub.out /\ sub'.seen = sub.seen
      /\ sub'.held = sub.held /\ sub'.last = sub.last /\ sub'.since = sub.since
      /\ sub'.rowSlots = sub.rowSlots
  BY <1>1, <1>3 DEF SubType
<1>5. SlotTypeOK'
  BY <1>1, <1>4 DEF SlotTypeOK
<1>6. NotesInv' /\ SettledInv' /\ Arrivals
  BY <1>1, TableStays DEF SlotInv
<1>7. MemoryInv'
  BY <1>1, <1>4, MemoryStays DEF SlotInv
<1>8. RunInv'
  <2>1. Horizon' = Horizon
    BY <1>1, <1>4 DEF Horizon, Later
  <2>2. time + LongPoll <= Horizon
    BY <1>1, <1>2, SlotSizes
  <2> QED  BY <1>1, <1>2, <1>3, <1>4, <2>1, <2>2 DEF RunInv, EpochAt
<1>9. UnreadInv'
  <2>1. SUFFICES ASSUME NEW n \in Notice, Unread(n), ~(Since(n) >= sub.last)
                 PROVE  note[n].slot = EpochAt(time)
    BY <1>1, <1>3, <1>4 DEF UnreadInv, Unread, Since, Later, LiveNote, Readable, ReadSlots, EpochAt
  <2>2. sub.until <= sub.last + MinRound /\ Begin(note[n].slot) >= sub.last - LongPoll
    BY <1>1, <2>1 DEF SlotInv, UnreadInv
  <2>3. note[n].slot \in Int /\ (note[n].slot = EpochAt(time) \/ note[n].slot = EpochAt(time) - 1)
    BY <1>1, <2>1, NoteFields, ReadableIs DEF Unread
  <2>4. CASE note[n].slot = EpochAt(time) - 1
    <3>1. Begin(note[n].slot) + Epoch <= Begin(EpochAt(time)) /\ Begin(EpochAt(time)) <= time
          /\ Begin(note[n].slot) \in Int /\ Begin(EpochAt(time)) \in Int
      BY <1>1, <1>3, <2>3, <2>4, Epochs
    <3> QED  BY <1>1, <1>2, <2>2, <3>1, SlotSizes
  <2> QED  BY <2>3, <2>4
<1>10. SeenInTime'
  BY <1>1, <1>4, <1>5, <1>6, SeenKept DEF SlotInv
<1> QED  BY <1>5, <1>6, <1>7, <1>8, <1>9, <1>10 DEF SlotInv

\* The older slot has been asked: what is not read is not in it.
LEMMA DrainOver ==
    ASSUME SlotTypeOK, UnreadInv, UNCHANGED <<time, note>>, shaken' \in {shaken, time},
           sub.pc \in {"sign", "ask"}, sub.which = 2, sub.last = time,
           sub'.pc = "rest", sub.seen \cup sub.out \subseteq sub'.seen \cup sub'.out,
           sub'.last = sub.last, sub'.since = sub.since, sub'.until <= sub'.last + MinRound,
           \A n \in Notice : Unread(n)' => note[n].slot # sub.slots[2] \/ Since(n)' >= sub.last
    PROVE  UnreadInv'
<1> SUFFICES ASSUME NEW n \in Notice, Unread(n)', ~(Since(n) >= sub.last)'
             PROVE  Begin(note[n].slot) >= sub.last - LongPoll
  BY DEF UnreadInv, Begin
<1>1. Unread(n)
  BY DEF Unread, LiveNote, Readable, ReadSlots, EpochAt
<1>2. /\ note[n].sent \in Int /\ sub.since \in Int /\ shaken \in Int /\ time \in Int
      /\ shaken <= time /\ sub.last \in Int
  BY NoteFields, SubFields DEF SlotTypeOK
<1>3. ~(Since(n) >= sub.last)
  BY <1>2 DEF Since, Later
<1> QED  BY <1>1, <1>3 DEF UnreadInv

\* After a restart of the relay nothing has been missed yet.
LEMMA Anew ==
    ASSUME SlotTypeOK, SlotTypeOK', UNCHANGED <<time, note>>, shaken' = time,
           sub'.pc # "off" => sub'.last <= time
    PROVE  UnreadInv'
<1>1. ASSUME NEW n \in Notice, sub'.pc # "off" PROVE Since(n)' >= sub'.last
  BY <1>1, NoteFields, SubFields DEF Since, Later, SlotTypeOK, NoteType
<1> QED  BY <1>1 DEF UnreadInv, Unread

LEMMA BackoffAfter ==
    ASSUME SlotTypeOK, RunInv, sub.pc \in {"sign", "ask", "hold"}, sub.which = 1,
           sub' = RoundFails(sub), time' = time, shaken' = time
    PROVE  /\ sub' \in SubType /\ RunInv' /\ sub'.pc = "backoff" /\ sub'.out = {}
           /\ sub'.seen = sub.seen /\ sub'.last = sub.last /\ sub'.since = sub.since
           /\ sub'.rowSlots = sub.rowSlots /\ sub.out = {}
<1>1. sub \in SubType /\ time \in Int /\ sub.last \in Int /\ sub.last <= time /\ sub.out = {}
      /\ sub.held \subseteq sub.seen
  BY SubFields DEF SlotTypeOK, RunInv
<1>2. /\ sub' \in SubType /\ sub'.pc = "backoff" /\ sub'.out = {} /\ sub'.seen = sub.seen
      /\ sub'.until = time + Backoff /\ sub'.last = sub.last /\ sub'.since = sub.since
      /\ sub'.held = sub.held /\ sub'.rowSlots = sub.rowSlots
  BY <1>1, RoundFailsIs DEF Keeps
<1>3. sub'.until + LongPoll <= Horizon' /\ time <= sub'.until
  BY <1>1, <1>2, SlotSizes DEF Horizon, Later
<1>4. RunInv'
  BY <1>1, <1>2, <1>3 DEF RunInv
<1> QED  BY <1>1, <1>2, <1>4

\* A round that fails for want of a relay.
LEMMA FailsAnew ==
    ASSUME SlotInv, sub.pc \in {"sign", "ask", "hold"}, sub' = RoundFails(sub),
           UNCHANGED <<time, note, settled>>, shaken' = time, secret' \in Int
    PROVE  SlotInv'
<1>1. /\ SlotTypeOK /\ sub \in SubType /\ sub.which \in {1, 2} /\ time \in Int
      /\ NotesInv /\ MemoryInv /\ SettledInv /\ RunInv /\ SeenInTime
      /\ sub.last <= time /\ sub.began <= time
  BY SubFields DEF SlotInv, SlotTypeOK, RunInv
<1>2. NotesInv' /\ SettledInv' /\ Arrivals
  BY <1>1, TableStays
<1>3. /\ sub' \in SubType /\ RunInv' /\ sub'.pc # "off" /\ sub'.out = {}
      /\ sub'.seen = sub.seen \cup sub.out /\ sub'.last = sub.last /\ sub'.since = sub.since
      /\ sub'.rowSlots = sub.rowSlots
  <2>1. CASE sub.which = 1
    <3>1. /\ sub' \in SubType /\ RunInv' /\ sub'.pc = "backoff" /\ sub'.out = {}
          /\ sub'.seen = sub.seen /\ sub'.last = sub.last /\ sub'.since = sub.since
          /\ sub'.rowSlots = sub.rowSlots /\ sub.out = {}
      BY <1>1, <2>1, BackoffAfter
    <3> QED  BY <3>1
  <2>2. CASE sub.which = 2
    <3>1. sub.pc # "hold" /\ sub.last = time /\ sub.held \subseteq sub.seen \cup sub.out
      BY <1>1, <2>2 DEF RunInv
    <3>2. sub' = RoundOver(sub) /\ time - sub.last < BackfillEvery
      BY <1>1, <2>2, <3>1, RoundFailsLate, SlotSizes
    <3> QED  BY <1>1, <3>1, <3>2, RestAfter
  <2> QED  BY <1>1, <2>1, <2>2
<1>4. SlotTypeOK'
  BY <1>1, <1>3 DEF SlotTypeOK
<1>5. MemoryInv'
  BY <1>1, <1>3, MemoryStays
<1>6. UnreadInv'
  BY <1>1, <1>3, <1>4, Anew
<1>7. SeenInTime'
  BY <1>1, <1>2, <1>3, <1>4, SeenKept
<1> QED  BY <1>2, <1>3, <1>4, <1>5, <1>6, <1>7 DEF SlotInv

LEMMA SignKeeps == ASSUME SlotInv, Sign PROVE SlotInv'
<1> DEFINE slot == sub.slots[sub.which]
<1>1. /\ sub.pc = "sign" /\ UNCHANGED <<time, note, secret, shaken, settled>>
      /\ SlotTypeOK /\ sub \in SubType /\ time \in Int /\ sub.which \in {1, 2} /\ slot \in Int
      /\ NotesInv /\ MemoryInv /\ SettledInv /\ RunInv /\ SeenInTime /\ UnreadInv
      /\ sub.last <= time /\ sub.began <= time /\ sub.force \in BOOLEAN
      /\ sub.slots[2] = sub.slots[1] - 1 /\ sub.slots[2] \in Int
  BY SubFields DEF Sign, SlotInv, SlotTypeOK, RunInv
<1>2. NotesInv' /\ SettledInv' /\ Arrivals
  BY <1>1, TableStays
<1>3. ASSUME NEW t \in Session(slot, sub.force),
             sub' = [sub EXCEPT !.pc = "ask", !.token = {t}, !.sessions = Dropped(slot) \cup {t}]
      PROVE  SlotInv'
  <2>1. t \in TokenType
    BY <1>1, <1>3, SessionTyped
  <2>2. {t} \in SUBSET TokenType /\ Dropped(slot) \cup {t} \in SUBSET TokenType
    BY <1>1, <2>1, SubFields DEF Dropped
  <2>3. /\ sub' \in SubType /\ sub'.pc = "ask" /\ sub'.token = {t}
        /\ sub'.which = sub.which /\ sub'.slots = sub.slots /\ sub'.force = sub.force
        /\ sub'.last = sub.last /\ sub'.until = sub.until /\ sub'.since = sub.since
        /\ sub'.seen = sub.seen /\ sub'.out = sub.out /\ sub'.held = sub.held
        /\ sub'.began = sub.began /\ sub'.rowSlots = sub.rowSlots
    BY <1>1, <1>3, <2>2 DEF SubType
  <2>4. SlotTypeOK'
    BY <1>1, <2>3 DEF SlotTypeOK
  <2>5. MemoryInv'
    BY <1>1, <2>3, MemoryStays
  <2>6. sub.force => Authorized(t, slot)
    <3>1. sub.force => t = Token(slot)
      BY <1>3 DEF Session
    <3> QED  BY <1>1, <3>1, SlotSizes DEF Token, Authorized
  <2>7. RunInv'
    <3>1. Horizon' = Horizon  BY <1>1, <2>3 DEF Horizon, Later
    <3>2. sub'.force => /\ t.slot = sub'.slots[sub'.which] /\ t.by = secret'
                        /\ time' < t.exp
      BY <1>1, <2>3, <2>6 DEF Authorized
    <3>3. \E u \in TokenType :
              /\ sub'.token = {u}
              /\ sub'.force => \/ u.slot = sub'.slots[sub'.which] /\ u.by = secret' /\ time' < u.exp
                              \/ shaken' = time'
      BY <2>1, <2>3, <3>2
    <3> QED  BY <1>1, <2>3, <3>1, <3>3 DEF RunInv, EpochAt, Authorized
  <2>8. UnreadInv'
    BY <1>1, <2>3 DEF UnreadInv, Unread, Since, Later, LiveNote, Readable, ReadSlots, EpochAt, Begin
  <2>9. SeenInTime'
    BY <1>1, <1>2, <2>3, <2>4, SeenKept
  <2> QED  BY <1>2, <2>4, <2>5, <2>7, <2>8, <2>9 DEF SlotInv
<1>4. ASSUME Session(slot, sub.force) = {}, sub' = RoundFails(sub)
      PROVE  SlotInv'
  <2>1. slot \notin Readable(time)
    BY <1>4 DEF Session, EpochOf
  <2>2. sub.which = 2
    <3>1. CASE sub.which = 1
      <4>1. sub.slots[1] = EpochAt(time)  BY <1>1, <3>1 DEF RunInv
      <4> QED  BY <1>1, <2>1, <3>1, <4>1, ReadableIs
    <3> QED  BY <1>1, <3>1
  <2>3. sub.last = time /\ sub.held \subseteq sub.seen \cup sub.out /\ slot = sub.slots[2]
    BY <1>1, <2>2 DEF RunInv
  <2>4. sub' = RoundOver(sub) /\ time - sub.last < BackfillEvery
    BY <1>1, <1>4, <2>2, <2>3, RoundFailsLate, SlotSizes
  <2>5. /\ sub' \in SubType /\ RunInv' /\ sub'.pc = "rest" /\ sub'.out = {}
        /\ sub'.seen = sub.seen \cup sub.out /\ sub'.last = sub.last /\ sub'.since = sub.since
        /\ sub'.rowSlots = sub.rowSlots /\ sub'.until <= sub'.last + MinRound
    BY <1>1, <2>3, <2>4, RestAfter
  <2>6. SlotTypeOK'
    BY <1>1, <2>5 DEF SlotTypeOK
  <2>7. MemoryInv'
    BY <1>1, <2>5, MemoryStays
  <2>8. \A n \in Notice : Unread(n)' => note[n].slot # sub.slots[2]
    BY <1>1, <2>1, <2>3 DEF Unread, Readable, ReadSlots, EpochAt
  <2>9. UnreadInv'
    BY <1>1, <2>2, <2>3, <2>5, <2>8, DrainOver
  <2>10. SeenInTime'
    BY <1>1, <1>2, <2>5, <2>6, SeenKept
  <2> QED  BY <1>2, <2>5, <2>6, <2>7, <2>9, <2>10 DEF SlotInv
<1> QED  BY <1>3, <1>4 DEF Sign


LEMMA AskKeeps == ASSUME SlotInv, MemoryHolds, Ask PROVE SlotInv'
<1> DEFINE slot == sub.slots[sub.which]
           granted == \A u \in sub.token : Authorized(u, slot)
<1>1. /\ sub.pc = "ask" /\ UNCHANGED <<time, note, secret, shaken, settled>>
      /\ SlotTypeOK /\ sub \in SubType /\ time \in Int /\ sub.which \in {1, 2} /\ slot \in Int
      /\ secret \in Int /\ NotesInv /\ MemoryInv /\ SettledInv /\ RunInv /\ SeenInTime /\ UnreadInv
      /\ sub.last <= time /\ sub.began <= time /\ sub.force \in BOOLEAN
      /\ sub.slots[2] = sub.slots[1] - 1 /\ sub.slots[2] \in Int
      /\ sub.held \subseteq sub.seen \cup sub.out
  BY SubFields DEF Ask, SlotInv, SlotTypeOK, RunInv
<1>2. NotesInv' /\ SettledInv' /\ Arrivals
  BY <1>1, TableStays
<1>3. sub' = IF granted /\ sub.which = 1
             THEN [sub EXCEPT !.pc = "hold", !.until = time + LongPoll]
             ELSE IF granted THEN RoundOver(Read(sub, slot, In(slot)))
             ELSE IF sub.force THEN RoundFails(sub)
             ELSE Retry(slot)
  BY DEF Ask
<1>4. sub.force /\ ~granted => shaken = time
  <2>1. PICK t \in TokenType : /\ sub.token = {t}
                               /\ sub.force => Authorized(t, slot) \/ shaken = time
    BY <1>1 DEF RunInv
  <2> QED  BY <2>1
<1> HIDE DEF granted
<1>5. CASE granted /\ sub.which = 1
  <2>1. sub' = [sub EXCEPT !.pc = "hold", !.until = time + LongPoll]
    BY <1>3, <1>5
  <2>2. time + LongPoll \in Int  BY <1>1, SlotSizes
  <2>3. /\ sub' \in SubType /\ sub'.pc = "hold" /\ sub'.until = time + LongPoll
        /\ sub'.which = sub.which /\ sub'.slots = sub.slots
        /\ sub'.last = sub.last /\ sub'.since = sub.since
        /\ sub'.seen = sub.seen /\ sub'.out = sub.out /\ sub'.held = sub.held
        /\ sub'.began = sub.began /\ sub'.rowSlots = sub.rowSlots
    BY <1>1, <2>1, <2>2 DEF SubType
  <2>4. SlotTypeOK'
    BY <1>1, <2>3 DEF SlotTypeOK
  <2>5. MemoryInv'
    BY <1>1, <2>3, MemoryStays
  <2>6. RunInv'
    <3>1. Horizon' = Horizon  BY <1>1, <2>3 DEF Horizon, Later
    <3>2. /\ sub.began = time /\ sub.slots[1] = EpochAt(time) /\ sub.out = {}
          /\ time + LongPoll <= Horizon
      BY <1>1, <1>5 DEF RunInv
    <3>3. time <= time + LongPoll  BY <1>1, SlotSizes
    <3>4. /\ sub'.held \subseteq sub'.seen \cup sub'.out /\ sub'.last <= time'
          /\ sub'.slots[2] = sub'.slots[1] - 1 /\ sub'.began <= time' /\ sub'.which = 1
          /\ sub'.out = {} /\ sub'.slots[1] = EpochAt(sub'.began) /\ time' <= sub'.until
          /\ sub'.until <= sub'.began + LongPoll /\ sub'.until <= Horizon'
      BY <1>1, <1>5, <2>3, <3>1, <3>2, <3>3, SlotSizes
    <3> QED  BY <2>3, <3>4 DEF RunInv, EpochAt
  <2>7. UnreadInv'
    BY <1>1, <1>5, <2>3
       DEF UnreadInv, Unread, Since, Later, LiveNote, Readable, ReadSlots, EpochAt, Begin
  <2>8. SeenInTime'
    BY <1>1, <1>2, <2>3, <2>4, SeenKept
  <2> QED  BY <1>2, <2>4, <2>5, <2>6, <2>7, <2>8 DEF SlotInv
<1>6. CASE granted /\ sub.which = 2
  <2>1. PICK r : r = Read(sub, slot, In(slot))
    OBVIOUS
  <2>2. sub' = RoundOver(r)
    BY <1>3, <1>6, <2>1
  <2>3. In(slot) \in SUBSET Notice
    BY DEF In
  <2>4. /\ r \in SubType /\ r.began = sub.began /\ r.last = sub.last /\ r.seen = sub.seen
        /\ r.since = sub.since /\ r.out = sub.out \cup In(slot) /\ r.held \in {sub.held, In(slot)}
    BY <1>1, <2>1, <2>3, ReadIs
  <2>5. sub.last = time /\ slot = sub.slots[2]
    BY <1>1, <1>6 DEF RunInv
  <2>6. r.held \subseteq r.seen \cup r.out /\ time - r.last < BackfillEvery
    BY <1>1, <2>4, <2>5, SlotSizes
  <2>7. /\ sub' \in SubType /\ RunInv' /\ sub'.pc = "rest" /\ sub'.out = {}
        /\ sub'.seen = sub.seen \cup sub.out \cup In(slot) /\ sub'.last = sub.last
        /\ sub'.since = sub.since /\ sub'.rowSlots = r.rowSlots
        /\ sub'.until <= sub'.last + MinRound
    BY <1>1, <2>2, <2>4, <2>5, <2>6, RestAfter
  <2>8. SlotTypeOK'
    BY <1>1, <2>7 DEF SlotTypeOK
  <2>9. MemoryInv'
    BY <1>1, <2>1, <2>7, MemoryReads
  <2>10. \A n \in Notice : Unread(n)' => note[n].slot # sub.slots[2]
    BY <1>1, <2>5, <2>7 DEF Unread, In, LiveNote
  <2>11. UnreadInv'
    BY <1>1, <1>6, <2>5, <2>7, <2>10, DrainOver
  <2>12. SeenInTime'
    BY <1>1, <1>2, <2>7, <2>8, SeenKept
  <2> QED  BY <1>2, <2>7, <2>8, <2>9, <2>11, <2>12 DEF SlotInv
<1>7. CASE ~granted /\ sub.force
  <2>1. sub' = RoundFails(sub) /\ shaken' = time /\ secret' \in Int
    BY <1>1, <1>3, <1>4, <1>7
  <2> QED  BY <1>1, <2>1, FailsAnew
<1>8. CASE ~granted /\ ~sub.force
  <2>1. sub' = [sub EXCEPT !.pc = "sign", !.force = TRUE, !.sessions = Dropped(slot)]
    BY <1>3, <1>8 DEF Retry
  <2>2. Dropped(slot) \in SUBSET TokenType
    BY <1>1, SubFields DEF Dropped
  <2>3. /\ sub' \in SubType /\ sub'.pc = "sign"
        /\ sub'.which = sub.which /\ sub'.slots = sub.slots
        /\ sub'.last = sub.last /\ sub'.until = sub.until /\ sub'.since = sub.since
        /\ sub'.seen = sub.seen /\ sub'.out = sub.out /\ sub'.held = sub.held
        /\ sub'.began = sub.began /\ sub'.rowSlots = sub.rowSlots
    BY <1>1, <2>1, <2>2 DEF SubType
  <2>4. SlotTypeOK'
    BY <1>1, <2>3 DEF SlotTypeOK
  <2>5. MemoryInv'
    BY <1>1, <2>3, MemoryStays
  <2>6. RunInv'
    <3>1. Horizon' = Horizon  BY <1>1, <2>3 DEF Horizon, Later
    <3> QED  BY <1>1, <2>3, <3>1 DEF RunInv, EpochAt
  <2>7. UnreadInv'
    BY <1>1, <2>3
       DEF UnreadInv, Unread, Since, Later, LiveNote, Readable, ReadSlots, EpochAt, Begin
  <2>8. SeenInTime'
    BY <1>1, <1>2, <2>3, <2>4, SeenKept
  <2> QED  BY <1>2, <2>4, <2>5, <2>6, <2>7, <2>8 DEF SlotInv
<1> QED  BY <1>1, <1>5, <1>6, <1>7, <1>8

\* A hold is over, and all that is in its slot is read: what is not read is in
\* the slot before, or in one that was begun during the hold.
LEMMA HoldOver ==
    ASSUME SlotInv, sub.pc = "hold", UNCHANGED <<time, note, secret, shaken, settled>>,
           NEW s \in SubType, sub' = Onward(s),
           s.slots = sub.slots, s.began = sub.began, s.last = sub.last, s.since = sub.since,
           s.seen = sub.seen, s.held \subseteq s.seen \cup s.out,
           In(sub.slots[1]) \subseteq s.seen \cup s.out
    PROVE  /\ SlotTypeOK' /\ RunInv' /\ UnreadInv' /\ SeenInTime'
           /\ sub'.rowSlots = s.rowSlots /\ sub'.seen \cup sub'.out = s.seen \cup s.out
<1>1. /\ SlotTypeOK /\ sub \in SubType /\ time \in Int /\ sub.which \in {1, 2}
      /\ NotesInv /\ SettledInv /\ RunInv /\ SeenInTime /\ UnreadInv
      /\ sub.last <= time /\ sub.began <= time /\ sub.last \in Int /\ sub.began \in Int
      /\ sub.slots[2] = sub.slots[1] - 1 /\ sub.slots[1] \in Int
      /\ sub.out = {} /\ sub.slots[1] = EpochAt(sub.began)
      /\ time <= sub.until /\ sub.until <= sub.began + LongPoll /\ sub.until \in Int
  BY SubFields DEF SlotInv, SlotTypeOK, RunInv
<1>2. Arrivals
  BY <1>1, TableStays
<1>3. ASSUME NEW n \in Notice, LiveNote(n), n \notin s.seen \cup s.out
      PROVE  note[n].slot # sub.slots[1]
  BY <1>3 DEF In
<1>4. CASE Due(s)
  <2>1. /\ sub' \in SubType /\ sub'.pc = "sign" /\ sub'.which = 2 /\ sub'.last = time
        /\ sub'.slots = s.slots /\ sub'.began = s.began /\ sub'.out = s.out
        /\ sub'.seen = s.seen /\ sub'.held = s.held /\ sub'.since = s.since
        /\ sub'.rowSlots = s.rowSlots
    BY <1>1, <1>4, OnwardIs
  <2>2. SlotTypeOK'
    BY <1>1, <2>1 DEF SlotTypeOK
  <2>3. RunInv'
    BY <1>1, <2>1 DEF RunInv
  <2>4. UnreadInv'
    <3>1. SUFFICES ASSUME NEW n \in Notice, Unread(n)'
                   PROVE  note[n].slot = sub.slots[2] \/ Begin(note[n].slot) >= time - LongPoll
      BY <2>1 DEF UnreadInv, Begin
    <3>2. LiveNote(n) /\ note[n].slot \in Readable(time) /\ n \notin s.seen \cup s.out
      BY <2>1, <3>1 DEF Unread, LiveNote, Readable, ReadSlots, EpochAt
    <3>3. note[n].slot \in Int /\ (note[n].slot = EpochAt(time) \/ note[n].slot = EpochAt(time) - 1)
      BY <1>1, <3>2, NoteFields, ReadableIs
    <3>4. note[n].slot # sub.slots[1] /\ sub.slots[1] <= EpochAt(time) /\ EpochAt(time) \in Int
      BY <1>1, <1>3, <3>2, EpochsGoOn, Epochs
    <3>5. CASE note[n].slot < sub.slots[1]
      BY <1>1, <3>3, <3>4, <3>5
    <3>6. CASE note[n].slot > sub.slots[1]
      <4>1. /\ Begin(sub.slots[1]) + Epoch <= Begin(note[n].slot)
            /\ sub.began < Begin(sub.slots[1]) + Epoch
            /\ Begin(sub.slots[1]) \in Int /\ Begin(note[n].slot) \in Int
        BY <1>1, <3>3, <3>6, Epochs
      <4> QED  BY <1>1, <4>1, SlotSizes
    <3> QED  BY <1>1, <3>3, <3>4, <3>5, <3>6
  <2>5. SeenInTime'
    BY <1>1, <1>2, <2>1, <2>2, SeenKept
  <2> QED  BY <2>1, <2>2, <2>3, <2>4, <2>5
<1>5. CASE ~Due(s)
  <2>1. sub' = RoundOver(s) /\ time - s.last < BackfillEvery
    BY <1>1, <1>5, OnwardEnds, SlotSizes DEF Due
  <2>2. /\ sub' \in SubType /\ RunInv' /\ sub'.pc = "rest" /\ sub'.out = {}
        /\ sub'.seen = s.seen \cup s.out /\ sub'.last = s.last /\ sub'.since = s.since
        /\ sub'.rowSlots = s.rowSlots
    BY <1>1, <2>1, RestAfter
  <2>3. SlotTypeOK'
    BY <1>1, <2>2 DEF SlotTypeOK
  <2>4. UnreadInv'
    <3>1. SUFFICES ASSUME NEW n \in Notice, Unread(n)' PROVE Since(n)' >= sub'.last
      BY DEF UnreadInv
    <3>2. Unread(n) /\ n \notin s.seen \cup s.out
      BY <1>1, <2>2, <3>1 DEF Unread, LiveNote, Readable, ReadSlots, EpochAt
    <3>3. note[n].slot # sub.slots[1]
      BY <1>3, <3>2 DEF Unread
    <3>4. Since(n) >= sub.last
      BY <1>1, <3>2, <3>3 DEF UnreadInv
    <3> QED  BY <2>2, <3>4 DEF Since, Later
  <2>5. SeenInTime'
    BY <1>1, <1>2, <2>2, <2>3, SeenKept
  <2> QED  BY <2>2, <2>3, <2>4, <2>5
<1> QED  BY <1>4, <1>5

LEMMA HoldEndsKeeps == ASSUME SlotInv, MemoryHolds, HoldEnds PROVE SlotInv'
<1> DEFINE slot == sub.slots[1]
<1>1. /\ sub.pc = "hold" /\ UNCHANGED <<time, note, secret, shaken, settled>>
      /\ SlotTypeOK /\ sub \in SubType /\ slot \in Int
      /\ NotesInv /\ MemoryInv /\ SettledInv /\ sub.held \subseteq sub.seen \cup sub.out
  BY SubFields DEF HoldEnds, SlotInv, SlotTypeOK, RunInv
<1>2. NotesInv' /\ SettledInv'
  BY <1>1, TableStays
<1>3. ASSUME sub' = Onward(Read(sub, slot, In(slot))) PROVE SlotInv'
  <2>1. PICK r : r = Read(sub, slot, In(slot))
    OBVIOUS
  <2>2. In(slot) \in SUBSET Notice
    BY DEF In
  <2>3. /\ r \in SubType /\ r.slots = sub.slots /\ r.began = sub.began /\ r.last = sub.last
        /\ r.seen = sub.seen /\ r.since = sub.since /\ r.out = sub.out \cup In(slot)
        /\ r.held \in {sub.held, In(slot)}
    BY <1>1, <2>1, <2>2, ReadIs
  <2>4. r.held \subseteq r.seen \cup r.out /\ In(slot) \subseteq r.seen \cup r.out
    BY <1>1, <2>3
  <2>5. sub' = Onward(r)
    BY <1>3, <2>1
  <2>6. /\ SlotTypeOK' /\ RunInv' /\ UnreadInv' /\ SeenInTime'
        /\ sub'.rowSlots = r.rowSlots /\ sub'.seen \cup sub'.out = r.seen \cup r.out
    BY <1>1, <2>3, <2>4, <2>5, HoldOver
  <2>7. MemoryInv'
    BY <1>1, <2>1, <2>3, <2>6, MemoryReads
  <2> QED  BY <1>2, <2>6, <2>7 DEF SlotInv
<1>4. ASSUME News = {}, sub' = Onward(sub) PROVE SlotInv'
  <2>1. In(slot) \subseteq sub.seen \cup sub.out
    BY <1>1, <1>4 DEF News
  <2>2. /\ SlotTypeOK' /\ RunInv' /\ UnreadInv' /\ SeenInTime'
        /\ sub'.rowSlots = sub.rowSlots /\ sub'.seen \cup sub'.out = sub.seen \cup sub.out
    BY <1>1, <1>4, <2>1, HoldOver
  <2>3. MemoryInv'
    BY <1>1, <2>2, MemoryStays
  <2> QED  BY <1>2, <2>2, <2>3 DEF SlotInv
<1> QED  BY <1>3, <1>4 DEF HoldEnds

LEMMA RestartKeeps == ASSUME SlotInv, SlotRelayRestart PROVE SlotInv'
<1>1. /\ UNCHANGED <<time, note, settled>> /\ shaken' = time /\ secret' = secret + 1
      /\ SlotTypeOK /\ sub \in SubType /\ time \in Int /\ secret' \in Int
      /\ NotesInv /\ MemoryInv /\ SettledInv /\ RunInv /\ SeenInTime /\ UnreadInv
      /\ shaken \in Int /\ shaken <= time /\ sub.last \in Int /\ sub.until \in Int
  BY SubFields DEF SlotRelayRestart, SlotInv, SlotTypeOK
<1>2. CASE sub.pc # "hold" /\ UNCHANGED sub
  <2>1. NotesInv' /\ SettledInv' /\ Arrivals
    BY <1>1, TableStays
  <2>2. SlotTypeOK'
    BY <1>1, <1>2 DEF SlotTypeOK
  <2>3. MemoryInv'
    BY <1>1, <1>2, MemoryStays
  <2>4. RunInv'
    <3>1. Horizon' \in Int /\ Horizon \in Int /\ Horizon <= Horizon'
      BY <1>1, <1>2, SlotSizes DEF Horizon, Later
    <3>2. sub.pc = "ask" => \E u \in TokenType : sub.token = {u}
      BY <1>1 DEF RunInv
    <3>3. sub.pc \in {"sign", "ask"} /\ sub.which = 1 => time + LongPoll <= Horizon'
      BY <1>1, <3>1, SlotSizes DEF RunInv
    <3>4. sub.pc \in {"rest", "backoff"} => sub.until + LongPoll <= Horizon'
      BY <1>1, <3>1, SlotSizes DEF RunInv
    <3> QED  BY <1>1, <1>2, <3>2, <3>3, <3>4 DEF RunInv, EpochAt
  <2>5. UnreadInv'
    BY <1>1, <1>2, <2>2, Anew DEF RunInv
  <2>6. SeenInTime'
    BY <1>1, <1>2, <2>1, <2>2, SeenKept
  <2> QED  BY <2>1, <2>2, <2>3, <2>4, <2>5, <2>6 DEF SlotInv
<1>3. CASE sub.pc \in {"sign", "ask", "hold"} /\ sub' = RoundFails(sub)
  BY <1>1, <1>3, FailsAnew
<1> QED  BY <1>2, <1>3 DEF SlotRelayRestart

LEMMA TickKeeps == ASSUME SlotInv, SlotTick PROVE SlotInv'
<1>1. /\ UNCHANGED <<note, secret, shaken, sub, settled>> /\ time' = time + 1 /\ ~Busy
      /\ SlotTypeOK /\ sub \in SubType /\ time \in Int /\ time' \in Int
      /\ NotesInv /\ MemoryInv /\ SettledInv /\ RunInv /\ SeenInTime /\ UnreadInv
      /\ shaken \in Int /\ shaken <= time /\ sub.last \in Int /\ sub.until \in Int
      /\ sub.since \in Int
  BY SubFields DEF SlotTick, SlotInv, SlotTypeOK
<1>2. /\ sub.pc \in {"off", "rest", "backoff", "hold"}
      /\ sub.pc \in {"rest", "backoff", "hold"} => time' <= sub.until
      /\ sub.pc = "hold" => News = {}
      /\ \A n \in Notice : note[n].at = "flying" => time < note[n].sent + Flight
  <2>1. sub.pc \notin {"sign", "ask"} /\ (sub.pc = "hold" => News = {})
    BY <1>1 DEF Busy
  <2>2. sub.pc \in {"rest", "backoff", "hold"} => ~(time >= sub.until)
    BY <1>1 DEF Busy
  <2>3. \A n \in Notice : note[n].at = "flying" => ~(time >= note[n].sent + Flight)
    BY <1>1 DEF Busy
  <2> QED  BY <1>1, <2>1, <2>2, <2>3, SubFields, NoteFields, SlotSizes
<1>3. /\ EpochAt(time) \in Int /\ EpochAt(time') \in Int /\ EpochAt(time) <= EpochAt(time')
  BY <1>1, Epochs, EpochsGoOn
<1>4. SlotTypeOK'
  BY <1>1 DEF SlotTypeOK
<1>5. NotesInv'
  <2>1. SUFFICES ASSUME NEW k \in Notice
        PROVE  (/\ note[k].at # "none" => note[k].slot <= EpochAt(time)
                /\ note[k].at = "flying" =>
                      /\ note[k].slot = EpochAt(note[k].sent) /\ note[k].asked \in 0..Epoch
                      /\ note[k].sent <= time /\ time <= note[k].sent + Flight
                /\ note[k].at = "inbox" =>
                      /\ Begin(note[k].slot) <= note[k].sent /\ note[k].sent <= time
                      /\ note[k].exp < Begin(note[k].slot) + Epoch + Epoch + Flight)'
    BY DEF NotesInv
  <2>2. note[k].slot \in Int /\ note[k].sent \in Int
    BY <1>1, NoteFields
  <2>3. note[k].at # "none" => note[k].slot <= EpochAt(time')
    BY <1>1, <1>3, <2>2 DEF NotesInv
  <2>4. note[k].at = "flying" =>
           /\ note[k].slot = EpochAt(note[k].sent) /\ note[k].asked \in 0..Epoch
           /\ note[k].sent <= time' /\ time' <= note[k].sent + Flight
    BY <1>1, <1>2, <2>2, SlotSizes DEF NotesInv
  <2>5. note[k].at = "inbox" =>
           /\ Begin(note[k].slot) <= note[k].sent /\ note[k].sent <= time'
           /\ note[k].exp < Begin(note[k].slot) + Epoch + Epoch + Flight
    BY <1>1, <2>2 DEF NotesInv
  <2> QED  BY <1>1, <2>3, <2>4, <2>5 DEF EpochAt, Begin
<1>6. MemoryInv'
  BY <1>1, MemoryStays
<1>7. SettledInv'
  <2>1. SUFFICES ASSUME NEW k \in settled
                 PROVE  \/ note[k].at = "settled"
                        \/ note[k].at = "inbox" /\ note[k].slot < EpochAt(time') - 1
    BY <1>1 DEF SettledInv, EpochAt
  <2>2. note[k].slot \in Int
    BY <1>1, <2>1, NoteFields DEF SlotTypeOK
  <2> QED  BY <1>1, <1>3, <2>1, <2>2 DEF SettledInv
<1>8. RunInv'
  <2>1. Horizon' = Horizon  BY <1>1 DEF Horizon, Later
  <2>2. sub.pc # "off" => sub.last <= time'
    BY <1>1 DEF RunInv
  <2>3. sub.pc = "hold" => sub.began <= time'
    BY <1>1, SubFields DEF RunInv
  <2> QED  BY <1>1, <1>2, <2>1, <2>2, <2>3 DEF RunInv, EpochAt
<1>9. ASSUME NEW n \in Notice, (LiveNote(n) /\ note[n].slot \in Readable(time))', sub.pc # "off",
             n \notin sub.seen
      PROVE  /\ Unread(n) /\ Since(n) \in Int
             /\ \/ Since(n) >= sub.last
                \/ /\ sub.pc = "rest" /\ sub.until <= sub.last + MinRound
                   /\ Begin(note[n].slot) >= sub.last - LongPoll
  <2>1. note[n].slot \in Int /\ note[n].exp \in Int /\ note[n].sent \in Int
    BY <1>1, NoteFields
  <2>2. note[n].at = "inbox" /\ time' < note[n].exp
    BY <1>1, <1>9 DEF LiveNote
  <2>3. LiveNote(n)
    BY <1>1, <2>1, <2>2 DEF LiveNote
  <2>4. note[n].slot \in Readable(time')
    BY <1>1, <1>9 DEF Readable, ReadSlots, EpochAt
  <2>5. note[n].slot = EpochAt(time') \/ note[n].slot = EpochAt(time') - 1
    BY <1>1, <2>1, <2>4, ReadableIs
  <2>6. note[n].slot <= EpochAt(time)
    BY <1>1, <2>2 DEF NotesInv
  <2>7. note[n].slot = EpochAt(time) \/ note[n].slot = EpochAt(time) - 1
    BY <1>3, <2>1, <2>5, <2>6
  <2>8. note[n].slot \in Readable(time)
    BY <1>1, <2>1, <2>7, ReadableIs
  <2>9. sub.out = {} /\ sub.held \subseteq sub.seen
    BY <1>1, <1>2, <1>9 DEF RunInv
  <2>10. Unread(n)
    BY <1>9, <2>3, <2>8, <2>9 DEF Unread
  <2>11. sub.pc = "hold" => note[n].slot # sub.slots[1]
    BY <1>2, <1>9, <2>3, <2>9 DEF News, In
  <2>12. Since(n) \in Int
    BY <1>1, <2>1 DEF Since, Later
  <2> QED  BY <1>1, <1>2, <2>10, <2>11, <2>12 DEF UnreadInv
<1>10. UnreadInv'
  <2>1. SUFFICES ASSUME NEW n \in Notice, Unread(n)'
                 PROVE  \/ Since(n) >= sub.last
                        \/ /\ sub.pc = "rest" /\ sub.until <= sub.last + MinRound
                           /\ Begin(note[n].slot) >= sub.last - LongPoll
    BY <1>1 DEF UnreadInv, Since, Later, Begin
  <2> QED  BY <1>1, <1>9, <2>1 DEF Unread
<1>11. SeenInTime'
  <2>1. SUFFICES ASSUME NEW n \in Notice, (LiveNote(n) /\ note[n].slot \in Readable(time))',
                        sub.pc # "off", n \notin sub.seen
                 PROVE  time' - Since(n) < BackfillEvery + MinRound + LongPoll
    BY <1>1 DEF SeenInTime, Since, Later
  <2>2. /\ Unread(n) /\ Since(n) \in Int
        /\ \/ Since(n) >= sub.last
           \/ /\ sub.pc = "rest" /\ sub.until <= sub.last + MinRound
              /\ Begin(note[n].slot) >= sub.last - LongPoll
    BY <1>9, <2>1
  <2>3. note[n].sent \in Int /\ note[n].slot \in Int
    BY <1>1, NoteFields
  <2>4. Since(n) >= shaken /\ Since(n) >= note[n].sent
    BY <1>1, <2>3 DEF Since, Later
  <2>5. time' <= sub.until
    BY <1>2, <2>1
  <2>6. CASE Since(n) >= sub.last
    <3>1. sub.until <= Horizon /\ Horizon \in Int
      BY <1>1, <1>2, <2>1, SlotSizes DEF RunInv, Horizon, Later
    <3>2. Since(n) >= Later(sub.last, shaken) /\ Later(sub.last, shaken) \in Int
      BY <1>1, <2>4, <2>6 DEF Later
    <3> QED  BY <1>1, <2>2, <2>5, <3>1, <3>2, SlotSizes DEF Horizon
  <2>7. CASE /\ sub.pc = "rest" /\ sub.until <= sub.last + MinRound
             /\ Begin(note[n].slot) >= sub.last - LongPoll
    <3>1. Begin(note[n].slot) <= note[n].sent /\ Begin(note[n].slot) \in Int
      BY <1>1, <2>2, <2>3, Epochs DEF NotesInv, Unread, LiveNote
    <3> QED  BY <1>1, <2>2, <2>3, <2>4, <2>5, <2>7, <3>1, SlotSizes
  <2> QED  BY <2>2, <2>6, <2>7
<1> QED  BY <1>4, <1>5, <1>6, <1>7, <1>8, <1>10, <1>11 DEF SlotInv

LEMMA SlotsBegin == SlotInit => SlotInv
<1> SUFFICES ASSUME SlotInit PROVE SlotInv
  OBVIOUS
<1>1. /\ time = Epoch /\ note = [n \in Notice |-> Absent] /\ secret = 0 /\ shaken = 0
      /\ sub = Off /\ settled = {}
  BY DEF SlotInit
<1>2. Absent \in NoteType /\ Absent.at = "none"
  BY DEF Absent, NoteType
<1>3. SlotTypeOK /\ sub.pc = "off" /\ \A n \in Notice : note[n].at = "none"
  BY <1>1, <1>2, OffIs, SlotSizes DEF SlotTypeOK
<1>4. NotesInv /\ SettledInv
  BY <1>1, <1>3 DEF NotesInv, SettledInv
<1>5. MemoryInv /\ RunInv /\ UnreadInv /\ SeenInTime
  BY <1>1, OffIs DEF MemoryInv, RunInv, UnreadInv, Unread, SeenInTime
<1> QED  BY <1>3, <1>4, <1>5 DEF SlotInv

LEMMA SlotsStay == ASSUME SlotInv, UNCHANGED slotVars PROVE SlotInv'
<1>1. UNCHANGED <<time, note, secret, shaken, sub, settled>> /\ SlotTypeOK'
  BY DEF slotVars, SlotInv, SlotTypeOK
<1>2. NotesInv' /\ SettledInv' /\ Arrivals
  BY <1>1, TableStays DEF SlotInv
<1>3. MemoryInv' /\ RunInv'
  BY <1>1, MemoryStays, RunStays DEF SlotInv
<1>4. UnreadInv' /\ SeenInTime'
  BY <1>1, <1>2, UnreadKept, SeenKept DEF SlotInv, RunInv
<1> QED  BY <1>1, <1>2, <1>3, <1>4 DEF SlotInv

LEMMA SlotsKeep == ASSUME SlotInv, MemoryHolds, [SlotNext]_slotVars PROVE SlotInv'
<1>1. ASSUME NEW n \in Notice, NEW ttl \in Ttl, SendPost(n, ttl) PROVE SlotInv'
  BY <1>1, SendPostKeeps
<1>2. ASSUME NEW n \in Notice, LandPost(n) \/ RetractNote(n) \/ AckNote(n) PROVE SlotInv'
  BY <1>2, LandPostKeeps, RetractKeeps, AckKeeps
<1>3. ASSUME SubStarts \/ SubStops \/ BeginRound \/ Sign PROVE SlotInv'
  BY <1>3, SubStartsKeeps, SubStopsKeeps, BeginRoundKeeps, SignKeeps
<1>4. ASSUME Ask \/ HoldEnds \/ SlotRelayRestart \/ SlotTick PROVE SlotInv'
  BY <1>4, AskKeeps, HoldEndsKeeps, RestartKeeps, TickKeeps
<1>5. CASE UNCHANGED slotVars
  BY <1>5, SlotsStay
<1> QED  BY <1>1, <1>2, <1>3, <1>4, <1>5 DEF SlotNext

\* The invariant says where an offer is and that the settled ones are gone.
LEMMA SlotsShow == SlotInv => OffersAreSeen
<1> SUFFICES ASSUME SlotInv PROVE OffersAreSeen
  OBVIOUS
<1>1. SlotTypeOK /\ NotesInv /\ SettledInv /\ SeenInTime /\ time \in Int
  BY DEF SlotInv, SlotTypeOK
<1>2. EpochAt(time) \in Int
  BY <1>1, Epochs
<1>3. ASSUME NEW n \in Notice, LiveNote(n), note[n].slot \notin Readable(time)
      PROVE  note[n].exp - time <= Flight
  <2>1. /\ note[n].slot \in Int /\ note[n].exp \in Int /\ note[n].slot <= EpochAt(time)
        /\ note[n].exp < Begin(note[n].slot) + Epoch + Epoch + Flight
    BY <1>1, <1>3, NoteFields DEF NotesInv, LiveNote
  <2>2. note[n].slot < EpochAt(time) - 1
    BY <1>1, <1>2, <1>3, <2>1, ReadableIs
  <2>3. /\ Begin(note[n].slot) + Epoch <= Begin(EpochAt(time) - 1)
        /\ Begin(EpochAt(time) - 1) + Epoch <= Begin(EpochAt(time))
        /\ Begin(EpochAt(time)) <= time
        /\ Begin(note[n].slot) \in Int /\ Begin(EpochAt(time) - 1) \in Int
        /\ Begin(EpochAt(time)) \in Int
    BY <1>1, <1>2, <2>1, <2>2, Epochs
  <2> QED  BY <1>1, <2>1, <2>3, SlotSizes
<1>4. WithinReach
  BY <1>3 DEF WithinReach
<1>5. SettledIsGone
  <2>1. SUFFICES ASSUME NEW n \in settled, LiveNote(n), note[n].slot \in Readable(time) PROVE FALSE
    BY DEF SettledIsGone
  <2>2. n \in Notice /\ note[n].slot \in Int
    BY <1>1, <2>1, NoteFields DEF SlotTypeOK
  <2>3. note[n].slot < EpochAt(time) - 1
    BY <1>1, <2>1 DEF SettledInv, LiveNote
  <2> QED  BY <1>1, <1>2, <2>1, <2>2, <2>3, ReadableIs
<1> QED  BY <1>1, <1>4, <1>5 DEF OffersAreSeen

\* An offer is in a slot that its owner reads, a reader that runs sees it within
\* one backfill and one round, and what an ack or a retraction has settled is not
\* found again: for every length of an epoch, of a hold, of a backfill and of the
\* pauses between rounds that fit one another as the code's do, however posts,
\* rounds, acks, restarts of the relay and of the reader and the passing of epochs
\* interleave, while the reader's memory of slots has room for its rows
\* (items_across_slots, backfill_due, remember_rows, ack, retract_offer).
THEOREM OffersSeen ==
    ASSUME MemoryHolds
    PROVE  SlotSpec => []OffersAreSeen
<1>1. SlotInit => SlotInv
  BY SlotsBegin
<1>2. SlotInv /\ [SlotNext]_slotVars => SlotInv'
  BY SlotsKeep
<1>3. SlotInv => OffersAreSeen
  BY SlotsShow
<1> QED  BY <1>1, <1>2, <1>3, PTL DEF SlotSpec

-----------------------------------------------------------------------------
(* Epochs.                                                                 *)

LEMMA Sizes ==
    /\ PresenceEpoch \in Nat /\ PresenceEpoch > 0
    /\ PresenceGrace \in Nat /\ 2 * PresenceGrace < PresenceEpoch
    /\ PresenceTtl \in Nat /\ Refresh \in Nat /\ MaxMissed \in Nat
    /\ Slow \in Int /\ Fast \in Int /\ Crowd \in Nat
BY BeaconConstants DEF BeaconConstants

LEMMA Division ==
    ASSUME NEW a \in Int, NEW e \in Nat, e > 0
    PROVE  a \div e \in Int /\ a % e \in 0..(e - 1) /\ a = e * (a \div e) + (a % e)
OBVIOUS

LEMMA QuotientIs ==
    ASSUME NEW a \in Int, NEW e \in Nat, e > 0,
           NEW q \in Int, NEW r \in 0..(e - 1), a = e * q + r
    PROVE  a \div e = q
<1> DEFINE d == q - (a \div e)
<1>1. a \div e \in Int /\ a % e \in 0..(e - 1) /\ a = e * (a \div e) + (a % e)
  BY Division
<1>2. d \in Int /\ d * e = (a % e) - r
  BY <1>1
<1>3. d * e < e /\ d * e > -e
  BY <1>1, <1>2
<1>4. d = 0
  <2> HIDE DEF d
  <2>1. CASE d >= 1
    <3>1. d * e >= e  BY <2>1, <1>2
    <3> QED  BY <3>1, <1>2, <1>3
  <2>2. CASE d <= -1
    <3>1. d * e <= -e  BY <2>2, <1>2
    <3> QED  BY <3>1, <1>2, <1>3
  <2> QED  BY <2>1, <2>2, <1>2
<1> QED  BY <1>1, <1>4

LEMMA DivisionIs ==
    ASSUME NEW a \in Int
    PROVE  /\ PresenceSlot(a) \in Int
           /\ a % PresenceEpoch \in 0..(PresenceEpoch - 1)
           /\ a = PresenceEpoch * PresenceSlot(a) + (a % PresenceEpoch)
BY Sizes, Division DEF PresenceSlot

LEMMA SlotIs ==
    ASSUME NEW a \in Int, NEW q \in Int, NEW r \in 0..(PresenceEpoch - 1),
           a = PresenceEpoch * q + r
    PROVE  PresenceSlot(a) = q
BY Sizes, QuotientIs DEF PresenceSlot

USE Sizes

\* The slot of any moment within the grace is one the asker looks into
\* (presence_slots_at).
LEMMA NearSlotsAreAsked ==
    ASSUME NEW t \in Int, NEW u \in Int,
           u - t <= PresenceGrace, t - u <= PresenceGrace
    PROVE  PresenceSlot(u) \in PresenceSlots(t)
<1> DEFINE e == PresenceSlot(t)
           into == t % PresenceEpoch
           at == into + (u - t)
<1>1. e \in Int /\ into \in 0..(PresenceEpoch - 1) /\ t = PresenceEpoch * e + into
  BY DivisionIs
<1>2. at \in Int /\ u = PresenceEpoch * e + at /\ at = into + (u - t)
  BY <1>1
<1>3. PresenceSlots(t) =
        {e} \cup (IF into < PresenceGrace THEN {e - 1}
                  ELSE IF PresenceEpoch - into <= PresenceGrace THEN {e + 1}
                  ELSE {})
  BY DEF PresenceSlots
<1>4. at \in (-PresenceGrace)..(PresenceEpoch - 1 + PresenceGrace)
  BY <1>1
<1> HIDE DEF e, into, at
<1>5. CASE at \in 0..(PresenceEpoch - 1)
  <2>1. PresenceSlot(u) = e  BY <1>1, <1>2, <1>5, SlotIs
  <2> QED  BY <2>1, <1>3
<1>6. CASE at < 0
  <2>1. u = PresenceEpoch * (e - 1) + (at + PresenceEpoch)
    BY <1>1, <1>2
  <2>2. at + PresenceEpoch \in 0..(PresenceEpoch - 1)
    BY <1>2, <1>4, <1>6
  <2>3. PresenceSlot(u) = e - 1
    <3>1. e - 1 \in Int  BY <1>1
    <3> QED  BY <3>1, <2>1, <2>2, SlotIs
  <2>4. into < PresenceGrace  BY <1>1, <1>2, <1>6
  <2> QED  BY <1>3, <2>3, <2>4
<1>7. CASE at >= PresenceEpoch
  <2>1. u = PresenceEpoch * (e + 1) + (at - PresenceEpoch)
    BY <1>1, <1>2
  <2>2. at - PresenceEpoch \in 0..(PresenceEpoch - 1)
    BY <1>2, <1>4, <1>7
  <2>3. PresenceSlot(u) = e + 1
    <3>1. e + 1 \in Int  BY <1>1
    <3> QED  BY <3>1, <2>1, <2>2, SlotIs
  <2>4. ~(into < PresenceGrace) /\ PresenceEpoch - into <= PresenceGrace
    BY <1>1, <1>2, <1>7
  <2> QED  BY <1>3, <2>3, <2>4
<1> QED  BY <1>2, <1>5, <1>6, <1>7

-----------------------------------------------------------------------------
(* The inductive invariant.                                                *)

PubType == [on : BOOLEAN, since : Int, next : Int, missed : 0..(MaxMissed + 1)]

BeaconTypeOK ==
    /\ tick \in Int /\ skew \in (-Slow)..Fast /\ crowd \in 0..Crowd
    /\ beacons \in SUBSET [slot : Int, exp : Int]
    /\ pub \in PubType

\* Every row was put there by our publisher's clock, no later than now, and,
\* if it listens no more, no later than it stopped.
RowsAreOurs ==
    \A b \in beacons :
        /\ b.slot = PresenceSlot(b.exp - PresenceTtl + skew)
        /\ b.exp <= tick + PresenceTtl
        /\ ~pub.on => b.exp <= pub.since + PresenceTtl

\* The beacon that arrived last is there for as long as it lives.
LastExp == pub.next - (pub.missed + 1) * Refresh + PresenceTtl
LastBeaconStands ==
    pub.on /\ pub.missed <= MaxMissed /\ LastExp > tick =>
        \E b \in beacons : b.exp = LastExp

BeaconInv ==
    /\ BeaconTypeOK
    /\ pub.on => tick <= pub.next
    /\ RowsAreOurs
    /\ LastBeaconStands

LEMMA MissesFit ==
    ASSUME NEW m \in 0..MaxMissed
    PROVE  (m + 1) * Refresh <= PresenceTtl
<1>1. (MaxMissed + 1) * Refresh = (m + 1) * Refresh + (MaxMissed - m) * Refresh
  OBVIOUS
<1>2. (MaxMissed - m) * Refresh >= 0
  OBVIOUS
<1>3. (m + 1) * Refresh \in Int /\ (MaxMissed + 1) * Refresh \in Int /\ (MaxMissed - m) * Refresh \in Int
  OBVIOUS
<1> QED  BY <1>1, <1>2, <1>3, BeaconConstants DEF BeaconConstants

LEMMA PubMoves ==
    ASSUME pub \in PubType, NEW n \in Int, NEW m \in 0..(MaxMissed + 1),
           pub' = [pub EXCEPT !.next = n, !.missed = m]
    PROVE  pub' \in PubType /\ pub'.on = pub.on /\ pub'.next = n /\ pub'.missed = m
<1>1. {"on", "since", "next", "missed"} = DOMAIN pub
  BY Zenon DEF PubType
<1>2. pub'.on = pub.on /\ pub'.since = pub.since /\ pub'.next = n /\ pub'.missed = m
  BY <1>1, Zenon
<1>3. pub' = [on |-> pub'.on, since |-> pub'.since, next |-> pub'.next, missed |-> pub'.missed]
  BY <1>1
<1>4. pub.on \in BOOLEAN /\ pub.since \in Int
  BY DEF PubType
<1> QED  BY <1>2, <1>3, <1>4, Zenon DEF PubType

LEMMA InitBeacons == BeaconInit => BeaconInv
BY DEF BeaconInit, BeaconInv, BeaconTypeOK, RowsAreOurs, LastBeaconStands, LastExp, Quiet, PubType

LEMMA PublishKeeps ==
    ASSUME BeaconInv, Publish
    PROVE  BeaconInv'
<1> DEFINE slot == PresenceSlot(tick + skew)
           failed == [pub EXCEPT !.next = tick + Refresh,
                                 !.missed = IF @ > MaxMissed THEN @ ELSE @ + 1]
           new == [slot |-> slot, exp |-> tick + PresenceTtl]
<1>1. /\ pub.on /\ tick = pub.next /\ UNCHANGED <<tick, skew, crowd>>
      /\ tick \in Int /\ skew \in Int /\ pub \in PubType
      /\ beacons \in SUBSET [slot : Int, exp : Int]
  BY DEF Publish, BeaconInv, BeaconTypeOK, PubType
<1>2. CASE /\ beacons' = BeaconPut(slot)
           /\ pub' = [pub EXCEPT !.next = tick + Refresh, !.missed = 0]
  <2>1. new \in [slot : Int, exp : Int]
    <3>1. tick + skew \in Int /\ tick + PresenceTtl \in Int  BY <1>1
    <3>2. slot \in Int  BY <3>1, DivisionIs
    <3> QED  BY <3>1, <3>2
  <2>2. beacons' \in SUBSET [slot : Int, exp : Int]
    BY <1>1, <1>2, <2>1 DEF BeaconPut
  <2>3. pub' \in PubType /\ pub'.on /\ pub'.next = tick + Refresh /\ pub'.missed = 0
    <3>1. tick + Refresh \in Int /\ 0 \in 0..(MaxMissed + 1)  BY <1>1
    <3>2. pub' = [pub EXCEPT !.next = tick + Refresh, !.missed = 0]  BY <1>2, Zenon
    <3>3. pub' \in PubType /\ pub'.on = pub.on /\ pub'.next = tick + Refresh /\ pub'.missed = 0
      BY <1>1, <3>1, <3>2, PubMoves, Zenon
    <3> QED  BY <1>1, <3>3, Zenon
  <2>4. RowsAreOurs'
    <3>1. SUFFICES ASSUME NEW b \in beacons'
                   PROVE  /\ b.slot = PresenceSlot(b.exp - PresenceTtl + skew)
                          /\ b.exp <= tick + PresenceTtl
      BY <1>1, <2>3 DEF RowsAreOurs, PresenceSlot
    <3>2. CASE b = new
      <4>1. b.exp = tick + PresenceTtl /\ b.slot = slot  BY <3>2
      <4>2. b.exp - PresenceTtl + skew = tick + skew  BY <4>1, <1>1
      <4> QED  BY <4>1, <4>2, <1>1
    <3>3. CASE b \in beacons
      BY <3>3 DEF BeaconInv, RowsAreOurs
    <3> QED  BY <1>2, <3>1, <3>2, <3>3 DEF BeaconPut
  <2>5. LastBeaconStands'
    <3>1. LastExp' = tick + PresenceTtl
      BY <1>1, <2>3 DEF LastExp
    <3>2. new \in beacons' /\ new.exp = tick + PresenceTtl
      BY <1>2 DEF BeaconPut
    <3> QED  BY <3>1, <3>2 DEF LastBeaconStands
  <2>6. (pub.on => tick <= pub.next)'
    BY <1>1, <2>3
  <2> QED  BY <1>1, <2>2, <2>3, <2>4, <2>5, <2>6 DEF BeaconInv, BeaconTypeOK
<1>3. CASE pub' = failed /\ UNCHANGED beacons
  <2>1. /\ pub' \in PubType /\ pub'.on /\ pub'.next = tick + Refresh
        /\ pub'.missed = IF pub.missed > MaxMissed THEN pub.missed ELSE pub.missed + 1
    <3> DEFINE m == IF pub.missed > MaxMissed THEN pub.missed ELSE pub.missed + 1
    <3>1. tick + Refresh \in Int /\ m \in 0..(MaxMissed + 1)  BY <1>1 DEF PubType
    <3>2. pub' = [pub EXCEPT !.next = tick + Refresh, !.missed = m]  BY <1>3, Zenon
    <3> HIDE DEF m
    <3>3. pub' \in PubType /\ pub'.on = pub.on /\ pub'.next = tick + Refresh /\ pub'.missed = m
      BY <1>1, <3>1, <3>2, PubMoves, Zenon
    <3> QED  BY <1>1, <3>3, Zenon DEF m
  <2>2. RowsAreOurs'
    BY <1>1, <1>3, <2>1 DEF BeaconInv, RowsAreOurs, PresenceSlot
  <2>3. LastBeaconStands'
    <3>1. SUFFICES ASSUME pub'.missed <= MaxMissed, LastExp' > tick
                   PROVE  \E b \in beacons : b.exp = LastExp'
      BY <1>1, <1>3, <2>1 DEF LastBeaconStands
    <3>2. pub.missed \in 0..MaxMissed /\ pub'.missed = pub.missed + 1
      BY <1>1, <2>1, <3>1 DEF PubType
    <3>3. pub'.next = pub.next + Refresh /\ pub.next \in Int
      BY <1>1, <2>1 DEF PubType
    <3>4. LastExp' = LastExp
      <4>1. (pub.missed + 1 + 1) * Refresh = (pub.missed + 1) * Refresh + Refresh
        BY <3>2
      <4> QED  BY <3>2, <3>3, <4>1 DEF LastExp
    <3> QED  BY <1>1, <3>1, <3>2, <3>4 DEF BeaconInv, LastBeaconStands
  <2>4. (pub.on => tick <= pub.next)'
    BY <1>1, <2>1
  <2> QED  BY <1>1, <1>3, <2>1, <2>2, <2>3, <2>4 DEF BeaconInv, BeaconTypeOK
<1> QED  BY <1>2, <1>3 DEF Publish

LEMMA NextBeacons ==
    ASSUME BeaconInv, [BeaconNext]_beaconVars
    PROVE  BeaconInv'
<1> USE DEF BeaconInv, BeaconTypeOK, RowsAreOurs, LastBeaconStands, LastExp, PubType, PresenceSlot
<1>1. CASE Listens
  BY <1>1 DEF Listens
<1>2. CASE StopsListening
  <2>1. pub' = [on |-> FALSE, since |-> tick, next |-> 0, missed |-> 0]
    BY <1>2 DEF StopsListening, Quiet
  <2>2. pub' \in PubType /\ pub'.on = FALSE /\ pub'.since = tick
    BY <2>1
  <2>3. UNCHANGED <<tick, skew, beacons, crowd>>
    BY <1>2 DEF StopsListening
  <2> HIDE DEF PubType
  <2>4. BeaconTypeOK'
    BY <2>2, <2>3
  <2>5. RowsAreOurs'
    BY <2>2, <2>3
  <2>6. LastBeaconStands' /\ (pub.on => tick <= pub.next)'
    BY <2>2
  <2> QED  BY <2>4, <2>5, <2>6
<1>3. CASE Publish
  BY <1>3, PublishKeeps
<1>4. CASE BeaconReap
  BY <1>4 DEF BeaconReap
<1>5. CASE CrowdMoves
  BY <1>5 DEF CrowdMoves
<1>6. CASE BeaconTick
  BY <1>6 DEF BeaconTick
<1>7. CASE UNCHANGED beaconVars
  BY <1>7 DEF beaconVars
<1> QED  BY <1>1, <1>2, <1>3, <1>4, <1>5, <1>6, <1>7 DEF BeaconNext

-----------------------------------------------------------------------------

LEMMA InvTellsPresence == BeaconInv => PresenceIsTold
<1> SUFFICES ASSUME BeaconInv PROVE PresenceIsTold
  OBVIOUS
<1>1. /\ tick \in Int /\ skew \in Int /\ -Slow <= skew /\ skew <= Fast
      /\ pub \in PubType /\ beacons \in SUBSET [slot : Int, exp : Int]
  BY DEF BeaconInv, BeaconTypeOK
<1>2. OnlineIsSeen
  <2>1. SUFFICES ASSUME pub.on, pub.missed <= MaxMissed, tick < pub.next
                 PROVE  CheckOnline
    BY <1>1 DEF OnlineIsSeen, PubType
  <2>2. pub.missed \in 0..MaxMissed /\ pub.next \in Int
    BY <1>1, <2>1 DEF PubType
  <2>3. (pub.missed + 1) * Refresh <= PresenceTtl /\ (pub.missed + 1) * Refresh \in Int
    BY <2>2, MissesFit
  <2>4. LastExp > tick
    BY <1>1, <2>1, <2>2, <2>3 DEF LastExp
  <2>5. PICK b \in beacons : b.exp = LastExp
    BY <2>1, <2>4 DEF BeaconInv, LastBeaconStands
  <2>6. b.exp \in Int /\ b.exp > tick /\ b.exp <= tick + PresenceTtl
    BY <1>1, <2>4, <2>5 DEF BeaconInv, RowsAreOurs
  <2>7. b.slot = PresenceSlot(b.exp - PresenceTtl + skew)
    BY DEF BeaconInv, RowsAreOurs
  <2>8. b.slot \in PresenceSlots(tick)
    <3> DEFINE u == b.exp - PresenceTtl + skew
    <3>1. u \in Int /\ u - tick <= PresenceGrace /\ tick - u <= PresenceGrace
      BY <1>1, <2>6, BeaconConstants DEF BeaconConstants
    <3> QED  BY <1>1, <2>7, <3>1, NearSlotsAreAsked
  <2> QED  BY <2>6, <2>8 DEF CheckOnline, BeaconAlive
<1>3. OfflineIsSeen
  <2>1. SUFFICES ASSUME ~pub.on, tick >= pub.since + PresenceTtl, NEW b \in beacons
                 PROVE  ~(b.exp > tick)
    BY DEF OfflineIsSeen, CheckOnline, BeaconAlive
  <2>2. b.exp <= pub.since + PresenceTtl
    BY <2>1 DEF BeaconInv, RowsAreOurs
  <2>3. b.exp \in Int /\ pub.since \in Int
    BY <1>1 DEF PubType
  <2> QED  BY <1>1, <2>1, <2>2, <2>3
<1> QED  BY <1>2, <1>3 DEF PresenceIsTold

\* Whoever asks is told who is there: a client that listens is online across
\* the turn of the slot and with a clock that is off, as long as it loses no
\* more beacons in a row than a lifetime covers, and one that stopped is
\* offline a lifetime later (publish_beacon, presence_slots_at, check_online).
THEOREM PresenceTold == BeaconSpec => []PresenceIsTold
<1>1. BeaconInv /\ [BeaconNext]_beaconVars => BeaconInv'
  BY NextBeacons
<1> QED  BY InitBeacons, <1>1, InvTellsPresence, PTL DEF BeaconSpec

-----------------------------------------------------------------------------
(***************************************************************************)
(* Serve, for any number of receivers, pieces, sessions and faults, any    *)
(* batch and any cap.                                                      *)
(*                                                                         *)
(* The inductive invariant has four parts beside the types.  `LoopInv`:    *)
(* the loop offloads while it serves, the relay works while the loop       *)
(* waits.  `AckInv`: what the sender has recorded of a receiver, and what  *)
(* a handler has queued about it, is behind what the receiver holds, never *)
(* ahead.  `BudgetInv`: what is still to be seeded is not on the relay, so *)
(* a request pays for exactly what it writes, and the cap was checked with *)
(* the batch it is charged for.  `TailInv`: a piece the receiver that left *)
(* lacks is to be seeded or was on the relay since the offload began.      *)
(***************************************************************************)

HIDE Sizes

-----------------------------------------------------------------------------
(* The inductive invariant.                                                *)

ChanType == [Recv -> {"none", "open", "eof", "abort"}]
RecvType == [Recv -> [st : {"on", "done", "paused", "cancelled"}, have : SUBSET Pieces]]
SessionType ==
    [up : BOOLEAN, token : Tokens, why : {None, "cancelled", "aborted", "offloaded"},
     for : Recv \cup {None}, sealed : BOOLEAN]
OffType == [who : Recv \cup {None}, todo : SUBSET Pieces, st : {"none", "ask", "send", "wait"}]
SeedType == [batch : SUBSET Pieces, written : SUBSET Pieces]

ServeTypeOK ==
    /\ session \in SessionType /\ delivered \in [Recv -> SUBSET Pieces] /\ reported \in SUBSET Recv
    /\ chan \in ChanType /\ ghost \in SUBSET Recv /\ aborts \in SUBSET Recv
    /\ gone \in Seq(Recv \X SUBSET Pieces)
    /\ off \in OffType /\ recv \in RecvType
    /\ file \in SUBSET Pieces /\ rows \in SUBSET (Tokens \X Pieces) /\ seed \in SeedType
    /\ used \in Nat /\ lapsed \in SUBSET Pieces /\ swept \in SUBSET Pieces

\* The loop offloads while it serves, and the relay works on a request while
\* the loop waits for it.
LoopInv ==
    /\ session.up => session.why = None
    /\ off.st # "none" => session.up /\ off.who \in Recv
    /\ off.st # "wait" => seed = NoSeed

\* The sender never believes more of a receiver than the receiver holds.
AckInv ==
    /\ \A r \in Recv : delivered[r] \subseteq recv[r].have
    /\ \A r \in reported : recv[r].have = Pieces
    /\ \A i \in 1..Len(gone) : Pieces \ recv[gone[i][1]].have \subseteq gone[i][2]

\* The pieces still to be seeded are the ones the relay does not have.
BudgetInv ==
    /\ Cap = 0 \/ used <= Cap
    /\ off.st = "send" => off.todo \cap file = {}
    /\ off.st = "wait" =>
        /\ seed.written = seed.batch /\ (off.todo \ seed.batch) \cap file = {}
        /\ Cap = 0 \/ used + Cardinality(seed.batch) <= Cap

Here == file \cup lapsed \cup swept

\* What the receiver that left still lacks is to be seeded, or was on the relay
\* at some moment since the offload began.
TailInv ==
    /\ off.st # "none" => Pieces \ recv[off.who].have \subseteq off.todo \cup Here
    /\ off.st = "wait" => seed.batch \subseteq Here

ServeInv == ServeTypeOK /\ LoopInv /\ AckInv /\ BudgetInv /\ TailInv

-----------------------------------------------------------------------------
(* The pieces, and where it all starts.                                    *)

LEMMA PiecesFinite ==
    /\ IsFiniteSet(Pieces)
    /\ \A s \in SUBSET Pieces : IsFiniteSet(s) /\ Cardinality(s) \in Nat
<1>1. IsFiniteSet(Pieces)
  BY FS_Interval, ServeConstants DEF ServeConstants, Pieces
<1> QED  BY <1>1, FS_Subset, FS_CardinalityType

LEMMA InitServe == Init => ServeInv
<1> SUFFICES ASSUME Init PROVE ServeInv  OBVIOUS
<1>1. /\ session \in SessionType /\ session.up = TRUE /\ session.why = None
  <2>1. 1 \in Tokens  BY ServeConstants DEF ServeConstants, Tokens
  <2>2. PICK sealed \in Kinds :
          session = [up |-> TRUE, token |-> 1, why |-> None, for |-> None, sealed |-> sealed]
    BY DEF Init
  <2>3. sealed \in BOOLEAN  BY ServeConstants DEF ServeConstants
  <2> QED  BY <2>1, <2>2, <2>3 DEF SessionType
<1>2. off \in OffType /\ off.st = "none" /\ seed = NoSeed /\ seed \in SeedType
  BY DEF Init, NoOff, OffType, NoSeed, SeedType
<1>3. /\ delivered = [r \in Recv |-> {}] /\ reported = {} /\ ghost = {} /\ aborts = {}
      /\ chan \in ChanType /\ gone \in Seq(Recv \X SUBSET Pieces) /\ Len(gone) = 0
      /\ recv \in RecvType /\ file = {} /\ rows = {} /\ used = 0 /\ lapsed = {} /\ swept = {}
  BY DEF Init, ChanType, RecvType
<1>4. ServeTypeOK
  BY <1>1, <1>2, <1>3 DEF ServeTypeOK
<1>5. LoopInv
  BY <1>1, <1>2 DEF LoopInv
<1>6. AckInv
  BY <1>3 DEF AckInv
<1>7. BudgetInv
  BY <1>2, <1>3, ServeConstants DEF BudgetInv, ServeConstants
<1>8. TailInv
  BY <1>2 DEF TailInv
<1> QED  BY <1>4, <1>5, <1>6, <1>7, <1>8 DEF ServeInv

-----------------------------------------------------------------------------
(* What a receiver holds only grows; the parts of the invariant that look  *)
(* at it stay true.                                                        *)

Grows ==
    /\ recv' \in RecvType
    /\ \A r \in Recv : recv[r].have \subseteq recv'[r].have /\ recv'[r].have \subseteq Pieces

LEMMA GrowsStill == ASSUME ServeTypeOK, UNCHANGED recv PROVE Grows
BY DEF Grows, ServeTypeOK, RecvType

LEMMA GoneIs ==
    ASSUME ServeTypeOK, NEW i \in 1..Len(gone)
    PROVE  gone[i] \in Recv \X SUBSET Pieces /\ gone[i][1] \in Recv /\ gone[i][2] \in SUBSET Pieces
<1>1. gone[i] \in Recv \X SUBSET Pieces  BY DEF ServeTypeOK
<1> QED  BY <1>1

LEMMA AcksStay ==
    ASSUME ServeTypeOK, AckInv, Grows,
           \A r \in Recv : delivered'[r] \subseteq delivered[r] \cup recv'[r].have,
           reported' \in SUBSET Recv, \A r \in reported' : r \in reported \/ recv'[r].have = Pieces,
           gone' = gone
    PROVE  AckInv'
<1>1. \A i \in 1..Len(gone) : gone[i][1] \in Recv  BY GoneIs
<1>2. \A r \in Recv : delivered'[r] \subseteq recv'[r].have
  BY DEF AckInv, Grows
<1>3. ASSUME NEW r \in reported' PROVE recv'[r].have = Pieces
  <2>1. CASE r \in reported
    <3>1. r \in Recv /\ recv[r].have = Pieces  BY <2>1 DEF AckInv, ServeTypeOK
    <3>2. Pieces \subseteq recv'[r].have /\ recv'[r].have \subseteq Pieces  BY <3>1 DEF Grows
    <3> QED  BY <3>2
  <2> QED  BY <1>3, <2>1
<1>4. \A i \in 1..Len(gone') : Pieces \ recv'[gone'[i][1]].have \subseteq gone'[i][2]
  BY <1>1 DEF AckInv, Grows
<1> QED  BY <1>2, <1>3, <1>4 DEF AckInv

\* The offload, the relay and the meter rest.
LEMMA OffloadStays ==
    ASSUME ServeInv, Grows, UNCHANGED <<off, file, seed, used, lapsed, swept>>
    PROVE  BudgetInv' /\ TailInv'
<1>1. BudgetInv'  BY DEF ServeInv, BudgetInv
<1>2. TailInv'  BY DEF ServeInv, TailInv, LoopInv, Grows, Here
<1> QED  BY <1>1, <1>2

\* There is no offload any more.
LEMMA NoOffload ==
    ASSUME ServeInv, off'.st = "none", used' <= used, used' \in Nat
    PROVE  BudgetInv' /\ TailInv'
<1>1. Cap \in Nat  BY ServeConstants DEF ServeConstants
<1>2. used \in Nat /\ (Cap = 0 \/ used <= Cap)
  BY DEF ServeInv, ServeTypeOK, BudgetInv
<1> QED  BY <1>1, <1>2 DEF BudgetInv, TailInv

-----------------------------------------------------------------------------
(* The receivers.                                                          *)

\* A receiver moves, and perhaps its channel; the loop does not.
LEMMA ReceiverMoves ==
    ASSUME ServeInv, Grows, UNCHANGED <<session, reported, gone, aborts, off, relay, history>>,
           delivered' \in [Recv -> SUBSET Pieces],
           \A r \in Recv : delivered'[r] \subseteq delivered[r] \cup recv[r].have,
           chan' \in ChanType, ghost' \in SUBSET Recv
    PROVE  ServeInv'
<1>1. ServeTypeOK /\ LoopInv /\ AckInv  BY DEF ServeInv
<1>2. UNCHANGED <<file, rows, seed, used, lapsed, swept>>  BY DEF relay, history
<1>3. ServeTypeOK'
  BY <1>1, <1>2 DEF ServeTypeOK, Grows
<1>4. LoopInv'
  BY <1>1, <1>2 DEF LoopInv
<1>5. AckInv'
  <2>1. \A r \in Recv : delivered'[r] \subseteq delivered[r] \cup recv'[r].have  BY DEF Grows
  <2>2. reported' \in SUBSET Recv /\ \A r \in reported' : r \in reported  BY <1>1 DEF ServeTypeOK
  <2> QED  BY <1>1, <2>1, <2>2, AcksStay
<1>6. BudgetInv' /\ TailInv'
  BY <1>2, OffloadStays
<1> QED  BY <1>3, <1>4, <1>5, <1>6 DEF ServeInv

LEMMA ChanIs ==
    ASSUME chan \in ChanType, NEW r \in Recv, NEW c \in {"none", "open", "eof", "abort"},
           chan' = [chan EXCEPT ![r] = c]
    PROVE  chan' \in ChanType
BY DEF ChanType

LEMMA StateIs ==
    ASSUME ServeTypeOK, NEW r \in Recv, NEW k \in {"on", "done", "paused", "cancelled"},
           recv' = [recv EXCEPT ![r].st = k]
    PROVE  Grows
BY DEF ServeTypeOK, RecvType, Grows

LEMMA HaveIs ==
    ASSUME ServeTypeOK, NEW r \in Recv, NEW i \in Pieces,
           recv' = [recv EXCEPT ![r].have = @ \cup {i}]
    PROVE  Grows
BY DEF ServeTypeOK, RecvType, Grows

LEMMA ServedRead ==
    ASSUME ServeTypeOK, NEW r \in Recv, ReadBeforeDrop(r)
    PROVE  /\ delivered' \in [Recv -> SUBSET Pieces]
           /\ \A q \in Recv : delivered'[q] \subseteq delivered[q] \cup recv[q].have
<1>1. PICK read \in SUBSET (recv[r].have \ delivered[r]) :
        delivered' = [delivered EXCEPT ![r] = @ \cup read]
  BY DEF ReadBeforeDrop
<1>2. recv[r].have \subseteq Pieces  BY DEF ServeTypeOK, RecvType
<1> QED  BY <1>1, <1>2 DEF ServeTypeOK

LEMMA SameDelivered ==
    ASSUME ServeTypeOK, UNCHANGED delivered
    PROVE  /\ delivered' \in [Recv -> SUBSET Pieces]
           /\ \A q \in Recv : delivered'[q] \subseteq delivered[q] \cup recv[q].have
BY DEF ServeTypeOK

LEMMA ConnectKeeps ==
    ASSUME ServeInv, NEW r \in Recv, Connect(r)
    PROVE  ServeInv'
<1>1. /\ chan' = [chan EXCEPT ![r] = "open"]
      /\ UNCHANGED <<sender, ghost, gone, aborts, off, recv, relay, history>>
  BY DEF Connect
<1>2. ServeTypeOK  BY DEF ServeInv
<1>3. chan' \in ChanType /\ ghost' \in SUBSET Recv  BY <1>1, <1>2, ChanIs DEF ServeTypeOK
<1>4. UNCHANGED <<session, delivered, reported, gone, aborts, off, relay, history>>
  BY <1>1 DEF sender
<1> QED  BY <1>1, <1>2, <1>3, <1>4, GrowsStill, SameDelivered, ReceiverMoves

LEMMA ChannelDropsKeeps ==
    ASSUME ServeInv, NEW r \in Recv, ChannelDrops(r)
    PROVE  ServeInv'
<1>1. /\ chan' = [chan EXCEPT ![r] = "none"] /\ ghost' = ghost \cup {r} /\ ReadBeforeDrop(r)
      /\ UNCHANGED <<session, reported, gone, aborts, off, recv, relay, history>>
  BY DEF ChannelDrops
<1>2. ServeTypeOK  BY DEF ServeInv
<1>3. chan' \in ChanType /\ ghost' \in SUBSET Recv  BY <1>1, <1>2, ChanIs DEF ServeTypeOK
<1> QED  BY <1>1, <1>2, <1>3, GrowsStill, ServedRead, ReceiverMoves

LEMMA PullKeeps ==
    ASSUME ServeInv, NEW r \in Recv, NEW i \in Pieces, Pull(r, i)
    PROVE  ServeInv'
<1>1. /\ recv' = [recv EXCEPT ![r].have = @ \cup {i}]
      /\ UNCHANGED <<sender, control, off, relay, history>>
  BY DEF Pull
<1>2. ServeTypeOK  BY DEF ServeInv
<1>3. UNCHANGED <<session, delivered, reported, chan, ghost, gone, aborts>>
  BY <1>1 DEF sender, control
<1>4. chan' \in ChanType /\ ghost' \in SUBSET Recv  BY <1>2, <1>3 DEF ServeTypeOK
<1> QED  BY <1>1, <1>2, <1>3, <1>4, HaveIs, SameDelivered, ReceiverMoves

LEMMA CompleteKeeps ==
    ASSUME ServeInv, NEW r \in Recv, Complete(r)
    PROVE  ServeInv'
<1>1. /\ recv' = [recv EXCEPT ![r].st = "done"]
      /\ chan' = [chan EXCEPT ![r] = "eof"] \/ chan' = chan
      /\ UNCHANGED <<sender, ghost, gone, aborts, off, relay, history>>
  BY DEF Complete, FinishFlushes
<1>2. ServeTypeOK  BY DEF ServeInv
<1>3. UNCHANGED <<session, delivered, reported>>  BY <1>1 DEF sender
<1>4. chan' \in ChanType /\ ghost' \in SUBSET Recv  BY <1>1, <1>2, ChanIs DEF ServeTypeOK
<1> QED  BY <1>1, <1>2, <1>3, <1>4, StateIs, SameDelivered, ReceiverMoves

LEMMA StopReceivingKeeps ==
    ASSUME ServeInv, NEW r \in Recv, NEW k \in {"paused", "cancelled"}, StopReceiving(r, k)
    PROVE  ServeInv'
<1>1. /\ recv' = [recv EXCEPT ![r].st = k]
      /\ UNCHANGED <<session, reported, gone, aborts, off, relay, history>>
      /\ \/ UNCHANGED <<chan, ghost, delivered>>
         \/ chan' = [chan EXCEPT ![r] = "abort"] /\ UNCHANGED <<ghost, delivered>>
         \/ chan' = [chan EXCEPT ![r] = "none"] /\ ghost' = ghost \cup {r} /\ ReadBeforeDrop(r)
  BY DEF StopReceiving
<1>2. ServeTypeOK  BY DEF ServeInv
<1>3. chan' \in ChanType /\ ghost' \in SUBSET Recv  BY <1>1, <1>2, ChanIs DEF ServeTypeOK
<1>4. /\ delivered' \in [Recv -> SUBSET Pieces]
      /\ \A q \in Recv : delivered'[q] \subseteq delivered[q] \cup recv[q].have
  BY <1>1, <1>2, ServedRead, SameDelivered
<1>5. Grows
  <2>1. k \in {"on", "done", "paused", "cancelled"}  OBVIOUS
  <2> QED  BY <1>1, <1>2, <2>1, StateIs
<1> QED  BY <1>1, <1>3, <1>4, <1>5, ReceiverMoves

LEMMA UnpauseKeeps ==
    ASSUME ServeInv, NEW r \in Recv, Unpause(r)
    PROVE  ServeInv'
<1>1. /\ recv' = [recv EXCEPT ![r].st = "on"] /\ UNCHANGED <<sender, control, off, relay, history>>
  BY DEF Unpause
<1>2. ServeTypeOK  BY DEF ServeInv
<1>3. UNCHANGED <<session, delivered, reported, chan, ghost, gone, aborts>>
  BY <1>1 DEF sender, control
<1>4. chan' \in ChanType /\ ghost' \in SUBSET Recv  BY <1>2, <1>3 DEF ServeTypeOK
<1> QED  BY <1>1, <1>2, <1>3, <1>4, StateIs, SameDelivered, ReceiverMoves

-----------------------------------------------------------------------------
(* Pieces leave the relay: what an offload counts on is noted.             *)

\* Only chunk files, their rows and the two histories move.
LEMMA ChunksGo ==
    ASSUME ServeInv, Grows, UNCHANGED <<sender, control, off, seed, used>>,
           file' \in SUBSET file, rows' \in SUBSET rows,
           lapsed' \in SUBSET Pieces, swept' \in SUBSET Pieces,
           off.st # "none" => Here \subseteq Here'
    PROVE  ServeInv'
<1>1. ServeTypeOK /\ LoopInv /\ AckInv /\ BudgetInv /\ TailInv  BY DEF ServeInv
<1>2. UNCHANGED <<session, delivered, reported, chan, ghost, gone, aborts>>
  BY DEF sender, control
<1>3. ServeTypeOK'
  BY <1>1, <1>2 DEF ServeTypeOK, Grows
<1>4. LoopInv'
  BY <1>1, <1>2 DEF LoopInv
<1>5. AckInv'
  <2>1. \A r \in Recv : delivered'[r] \subseteq delivered[r] \cup recv'[r].have  BY <1>2
  <2>2. reported' \in SUBSET Recv /\ \A r \in reported' : r \in reported
    BY <1>1, <1>2 DEF ServeTypeOK
  <2> QED  BY <1>1, <1>2, <2>1, <2>2, AcksStay
<1>6. BudgetInv'
  BY <1>1 DEF BudgetInv
<1>7. TailInv'
  <2>1. ASSUME off.st # "none" PROVE Pieces \ recv'[off.who].have \subseteq off.todo \cup Here'
    BY <1>1, <2>1 DEF TailInv, LoopInv, Grows
  <2>2. ASSUME off.st = "wait" PROVE seed.batch \subseteq Here'
    BY <1>1, <2>2 DEF TailInv
  <2> QED  BY <2>1, <2>2 DEF TailInv
<1> QED  BY <1>3, <1>4, <1>5, <1>6, <1>7 DEF ServeInv

LEMMA NotedIs ==
    ASSUME NEW a \in SUBSET Pieces, NEW b \in SUBSET Pieces
    PROVE  /\ Noted(a, b) \in SUBSET Pieces
           /\ off.st # "none" => Noted(a, b) = a \cup b
BY DEF Noted

LEMMA PullFromRelayKeeps ==
    ASSUME ServeInv, NEW r \in Recv, NEW i \in Pieces, PullFromRelay(r, i)
    PROVE  ServeInv'
<1>1. /\ recv' = [recv EXCEPT ![r].have = @ \cup {i}]
      /\ UNCHANGED <<sender, control, off, seed, used, swept>>
      /\ \/ UNCHANGED <<file, rows, lapsed>>
         \/ /\ file' = file \ {i} /\ rows' = rows \ {<<session.token, i>>}
            /\ lapsed' = Noted(lapsed, {i})
  BY DEF PullFromRelay, Released, ReleaseHex, DeleteSeedOne
<1>2. ServeTypeOK  BY DEF ServeInv
<1>3. lapsed \in SUBSET Pieces /\ swept \in SUBSET Pieces /\ {i} \in SUBSET Pieces
  BY <1>2 DEF ServeTypeOK
<1>4. lapsed' \in SUBSET Pieces /\ (off.st # "none" => Here \subseteq Here')
  BY <1>1, <1>3, NotedIs DEF Here
<1>5. Grows  BY <1>1, <1>2, HaveIs
<1> QED  BY <1>1, <1>3, <1>4, <1>5, ChunksGo

LEMMA ReapSeedKeeps ==
    ASSUME ServeInv, NEW tok \in Tokens, NEW i \in Pieces, ReapSeed(tok, i)
    PROVE  ServeInv'
<1>1. /\ file' = file \ {i} /\ rows' = rows \ {<<tok, i>>} /\ lapsed' = Noted(lapsed, {i})
      /\ UNCHANGED <<sender, control, off, recv, seed, used, swept>>
  BY DEF ReapSeed, ReleaseHex, DeleteSeedOne
<1>2. ServeTypeOK  BY DEF ServeInv
<1>3. lapsed \in SUBSET Pieces /\ swept \in SUBSET Pieces /\ {i} \in SUBSET Pieces
  BY <1>2 DEF ServeTypeOK
<1>4. lapsed' \in SUBSET Pieces /\ (off.st # "none" => Here \subseteq Here')
  BY <1>1, <1>3, NotedIs DEF Here
<1> QED  BY <1>1, <1>2, <1>3, <1>4, GrowsStill, ChunksGo

LEMMA WithdrawKeeps ==
    ASSUME ServeInv, NEW tok \in Tokens, Withdraw(tok)
    PROVE  ServeInv'
<1> DEFINE mine == {i \in Pieces : <<tok, i>> \in rows}
<1>1. /\ file' = file \ mine /\ rows' = rows \ ({tok} \X Pieces) /\ lapsed' = Noted(lapsed, mine)
      /\ UNCHANGED <<sender, control, off, recv, seed, used, swept>>
  BY DEF Withdraw, ReleaseHex, TakeSeedsByToken
<1>2. ServeTypeOK  BY DEF ServeInv
<1>3. lapsed \in SUBSET Pieces /\ swept \in SUBSET Pieces /\ mine \in SUBSET Pieces
  BY <1>2 DEF ServeTypeOK
<1> HIDE DEF mine
<1>4. lapsed' \in SUBSET Pieces /\ (off.st # "none" => Here \subseteq Here')
  BY <1>1, <1>3, NotedIs DEF Here
<1> QED  BY <1>1, <1>2, <1>3, <1>4, GrowsStill, ChunksGo

LEMMA SweepKeeps ==
    ASSUME ServeInv, SweepOrphanChunks
    PROVE  ServeInv'
<1>1. /\ file' = file \ Orphans /\ swept' = Noted(swept, Orphans)
      /\ UNCHANGED <<sender, control, off, recv, rows, seed, used, lapsed>>
  BY DEF SweepOrphanChunks
<1>2. ServeTypeOK  BY DEF ServeInv
<1>3. lapsed \in SUBSET Pieces /\ swept \in SUBSET Pieces /\ Orphans \in SUBSET Pieces
  BY <1>2 DEF ServeTypeOK, Orphans
<1>4. swept' \in SUBSET Pieces /\ (off.st # "none" => Here \subseteq Here')
  BY <1>1, <1>3, NotedIs DEF Here
<1> QED  BY <1>1, <1>2, <1>3, <1>4, GrowsStill, ChunksGo

-----------------------------------------------------------------------------
(* The control handler.                                                    *)

\* The handler tells the loop that a receiver left, and what it lacked at most.
LEMMA HandlerTells ==
    ASSUME ServeInv, UNCHANGED <<session, reported, aborts, off, recv, relay, history>>,
           delivered' \in [Recv -> SUBSET Pieces],
           \A r \in Recv : delivered'[r] \subseteq delivered[r] \cup recv[r].have,
           chan' \in ChanType, ghost' \in SUBSET Recv,
           NEW r \in Recv, NEW tail \in SUBSET Pieces, Pieces \ recv[r].have \subseteq tail,
           gone' = Append(gone, <<r, tail>>)
    PROVE  ServeInv'
<1>1. ServeTypeOK /\ LoopInv /\ AckInv  BY DEF ServeInv
<1>2. UNCHANGED <<file, rows, seed, used, lapsed, swept>>  BY DEF relay, history
<1> DEFINE e == <<r, tail>>
<1>3. e \in Recv \X SUBSET Pieces /\ e[1] = r /\ e[2] = tail  OBVIOUS
<1>4. gone' = Append(gone, e) /\ gone \in Seq(Recv \X SUBSET Pieces)  BY <1>1 DEF ServeTypeOK
<1> HIDE DEF e
<1>5. /\ gone' \in Seq(Recv \X SUBSET Pieces) /\ Len(gone) \in Nat /\ Len(gone') = Len(gone) + 1
      /\ \A i \in 1..Len(gone') : (i \in 1..Len(gone) /\ gone'[i] = gone[i]) \/ gone'[i] = e
  BY <1>3, <1>4
<1>6. ServeTypeOK'
  BY <1>1, <1>2, <1>5 DEF ServeTypeOK
<1>7. LoopInv'
  BY <1>1, <1>2 DEF LoopInv
<1>8. AckInv'
  <2>1. \A q \in Recv : delivered'[q] \subseteq recv[q].have  BY <1>1 DEF AckInv
  <2>2. ASSUME NEW i \in 1..Len(gone') PROVE Pieces \ recv[gone'[i][1]].have \subseteq gone'[i][2]
    BY <1>1, <1>3, <1>5 DEF AckInv
  <2>3. \A q \in reported : recv[q].have = Pieces  BY <1>1 DEF AckInv
  <2> QED  BY <2>1, <2>2, <2>3 DEF AckInv
<1>9. BudgetInv' /\ TailInv'
  BY <1>1, <1>2, GrowsStill, OffloadStays
<1> QED  BY <1>6, <1>7, <1>8, <1>9 DEF ServeInv

LEMMA HandlerSeesEofKeeps ==
    ASSUME ServeInv, NEW r \in Recv, HandlerSeesEof(r)
    PROVE  ServeInv'
<1> DEFINE tail == Pieces \ recv[r].have
<1>1. /\ delivered' = [delivered EXCEPT ![r] = recv[r].have] /\ gone' = Append(gone, <<r, tail>>)
      /\ chan' = [chan EXCEPT ![r] = "none"]
      /\ UNCHANGED <<session, reported, ghost, aborts, off, recv, relay, history>>
  BY DEF HandlerSeesEof, Undelivered
<1>2. ServeTypeOK  BY DEF ServeInv
<1>3. chan' \in ChanType /\ ghost' \in SUBSET Recv  BY <1>1, <1>2, ChanIs DEF ServeTypeOK
<1>4. recv[r].have \in SUBSET Pieces  BY <1>2 DEF ServeTypeOK, RecvType
<1>5. /\ delivered' \in [Recv -> SUBSET Pieces]
      /\ \A q \in Recv : delivered'[q] \subseteq delivered[q] \cup recv[q].have
  BY <1>1, <1>2, <1>4 DEF ServeTypeOK
<1>6. tail \in SUBSET Pieces /\ Pieces \ recv[r].have \subseteq tail  OBVIOUS
<1> HIDE DEF tail
<1> QED  BY <1>1, <1>3, <1>5, <1>6, HandlerTells

LEMMA HandlerTimesOutKeeps ==
    ASSUME ServeInv, NEW r \in Recv, HandlerTimesOut(r)
    PROVE  ServeInv'
<1> DEFINE tail == Pieces \ delivered[r]
<1>1. /\ gone' = Append(gone, <<r, tail>>) /\ ghost' = ghost \ {r}
      /\ UNCHANGED <<sender, chan, aborts, off, recv, relay, history>>
  BY DEF HandlerTimesOut, Undelivered
<1>2. ServeTypeOK /\ AckInv  BY DEF ServeInv
<1>3. UNCHANGED <<session, delivered, reported>>  BY <1>1 DEF sender
<1>4. chan' \in ChanType /\ ghost' \in SUBSET Recv  BY <1>1, <1>2 DEF ServeTypeOK
<1>5. tail \in SUBSET Pieces /\ Pieces \ recv[r].have \subseteq tail  BY <1>2 DEF AckInv
<1> HIDE DEF tail
<1> QED  BY <1>1, <1>2, <1>3, <1>4, <1>5, SameDelivered, HandlerTells

\* The control channels rest, or only an abort is noted.
LEMMA LoopMoves ==
    ASSUME ServeInv, UNCHANGED <<session, ghost, gone, off, recv, relay, history>>,
           delivered' \in [Recv -> SUBSET Pieces],
           \A r \in Recv : delivered'[r] \subseteq delivered[r] \cup recv[r].have,
           reported' \in SUBSET Recv, \A r \in reported' : r \in reported \/ recv[r].have = Pieces,
           chan' \in ChanType, aborts' \in SUBSET Recv
    PROVE  ServeInv'
<1>1. ServeTypeOK /\ LoopInv /\ AckInv  BY DEF ServeInv
<1>2. UNCHANGED <<file, rows, seed, used, lapsed, swept>>  BY DEF relay, history
<1>3. ServeTypeOK'
  BY <1>1, <1>2 DEF ServeTypeOK
<1>4. LoopInv'
  BY <1>1, <1>2 DEF LoopInv
<1>5. AckInv'
  BY <1>1, GrowsStill, AcksStay
<1>6. BudgetInv' /\ TailInv'
  BY <1>1, <1>2, GrowsStill, OffloadStays
<1> QED  BY <1>3, <1>4, <1>5, <1>6 DEF ServeInv

LEMMA HandlerSeesAbortKeeps ==
    ASSUME ServeInv, NEW r \in Recv, HandlerSeesAbort(r)
    PROVE  ServeInv'
<1>1. /\ aborts' = aborts \cup {r} /\ chan' = [chan EXCEPT ![r] = "none"]
      /\ UNCHANGED <<sender, ghost, gone, off, recv, relay, history>>
  BY DEF HandlerSeesAbort
<1>2. ServeTypeOK  BY DEF ServeInv
<1>3. UNCHANGED <<session, delivered, reported>>  BY <1>1 DEF sender
<1>4. chan' \in ChanType /\ aborts' \in SUBSET Recv /\ reported' \in SUBSET Recv
  BY <1>1, <1>2, <1>3, ChanIs DEF ServeTypeOK
<1>5. \A q \in reported' : q \in reported  BY <1>3
<1> QED  BY <1>1, <1>2, <1>3, <1>4, <1>5, SameDelivered, LoopMoves

-----------------------------------------------------------------------------
(* The serve loop.                                                         *)

LEMMA LoopTickKeeps ==
    ASSUME ServeInv, NEW r \in Recv, Tick(r)
    PROVE  ServeInv'
<1>1. /\ ReadUp(r) = Pieces /\ reported' = reported \cup {r}
      /\ delivered' = [delivered EXCEPT ![r] = ReadUp(r)]
      /\ UNCHANGED <<session, control, off, recv, relay, history>>
  BY DEF Tick, CompletedPeers
<1>2. ServeTypeOK /\ AckInv  BY DEF ServeInv
<1>3. recv[r].have = Pieces
  <2>1. recv[r].have \subseteq Pieces /\ delivered[r] \subseteq recv[r].have
    BY <1>2 DEF ServeTypeOK, RecvType, AckInv
  <2>2. ReadUp(r) \subseteq recv[r].have  BY <2>1 DEF ReadUp
  <2> QED  BY <1>1, <2>1, <2>2
<1>4. UNCHANGED <<chan, ghost, gone, aborts>>  BY <1>1 DEF control
<1>5. delivered' = [delivered EXCEPT ![r] = Pieces]  BY <1>1
<1>6. /\ delivered' \in [Recv -> SUBSET Pieces]
      /\ \A q \in Recv : delivered'[q] \subseteq delivered[q] \cup recv[q].have
  BY <1>2, <1>3, <1>5 DEF ServeTypeOK
<1>7. /\ reported' \in SUBSET Recv /\ chan' \in ChanType /\ aborts' \in SUBSET Recv
      /\ \A q \in reported' : q \in reported \/ recv[q].have = Pieces
  BY <1>1, <1>2, <1>3, <1>4 DEF ServeTypeOK
<1> QED  BY <1>1, <1>4, <1>6, <1>7, LoopMoves

\* The session ends.
LEMMA EndKeeps ==
    ASSUME ServeInv, NEW why \in {"cancelled", "aborted", "offloaded"}, TornDown(why),
           seed' = NoSeed, UNCHANGED <<recv, file, rows, used>>
    PROVE  ServeInv'
<1>1. ServeTypeOK /\ BudgetInv  BY DEF ServeInv
<1>2. session' \in SessionType /\ session'.up = FALSE
  <2>1. off.who \in Recv \cup {None}  BY <1>1 DEF ServeTypeOK, OffType
  <2> DEFINE f == IF why = "offloaded" THEN off.who ELSE None
  <2>2. f \in Recv \cup {None}  BY <2>1
  <2>3. session' = [session EXCEPT !.up = FALSE, !.why = why, !.for = f]  BY DEF TornDown
  <2> HIDE DEF f
  <2> QED  BY <1>1, <2>2, <2>3 DEF ServeTypeOK, SessionType
<1>3. /\ delivered' = [r \in Recv |-> {}] /\ reported' = {} /\ ghost' = {} /\ aborts' = {}
      /\ chan' = [r \in Recv |-> "none"]
      /\ gone' \in Seq(Recv \X SUBSET Pieces) /\ Len(gone') = 0
  BY DEF TornDown
<1>4. off' \in OffType /\ off'.st = "none" /\ seed' \in SeedType
  BY DEF TornDown, NoOff, OffType, NoSeed, SeedType
<1>5. lapsed' \in SUBSET Pieces /\ swept' \in SUBSET Pieces
  BY <1>1 DEF TornDown, history, ServeTypeOK
<1>6. ServeTypeOK'
  BY <1>1, <1>2, <1>3, <1>4, <1>5 DEF ServeTypeOK, ChanType
<1>7. LoopInv'
  BY <1>2, <1>4 DEF LoopInv
<1>8. AckInv'
  BY <1>3 DEF AckInv
<1>9. BudgetInv' /\ TailInv'
  <2>1. used' <= used /\ used' \in Nat  BY <1>1 DEF ServeTypeOK
  <2> QED  BY <1>4, <2>1, NoOffload
<1> QED  BY <1>6, <1>7, <1>8, <1>9 DEF ServeInv

LEMMA ReceiverAbortedKeeps ==
    ASSUME ServeInv, NEW r \in Recv, ReceiverAborted(r)
    PROVE  ServeInv'
<1>1. /\ off.st = "none" /\ UNCHANGED <<recv, relay>>
      /\ \/ TornDown("aborted")
         \/ aborts' = aborts \ {r} /\ UNCHANGED <<sender, chan, ghost, gone, off, history>>
  BY DEF ReceiverAborted, Listening
<1>2. ServeTypeOK /\ LoopInv  BY DEF ServeInv
<1>3. UNCHANGED <<file, rows, seed, used>>  BY <1>1 DEF relay
<1>4. CASE TornDown("aborted")
  <2>1. seed' = NoSeed  BY <1>1, <1>2, <1>3 DEF LoopInv
  <2> QED  BY <1>1, <1>3, <1>4, <2>1, EndKeeps
<1>5. CASE aborts' = aborts \ {r} /\ UNCHANGED <<sender, chan, ghost, gone, off, history>>
  <2>1. UNCHANGED <<session, delivered, reported>>  BY <1>5 DEF sender
  <2>2. /\ reported' \in SUBSET Recv /\ chan' \in ChanType /\ aborts' \in SUBSET Recv
        /\ \A q \in reported' : q \in reported
    BY <1>2, <1>5, <2>1 DEF ServeTypeOK
  <2> QED  BY <1>1, <1>2, <1>5, <2>1, <2>2, SameDelivered, LoopMoves
<1> QED  BY <1>1, <1>4, <1>5

LEMMA ReceiverGoneKeeps ==
    ASSUME ServeInv, ReceiverGone
    PROVE  ServeInv'
<1> DEFINE r == Head(gone)[1]
           tail == Head(gone)[2]
<1>1. /\ session.up /\ off.st = "none" /\ gone # <<>> /\ gone' = Tail(gone)
      /\ UNCHANGED <<session, delivered, chan, ghost, aborts, recv, relay, history>>
      /\ \/ tail = {} /\ reported' = reported \cup {r} /\ UNCHANGED off
         \/ off' = [who |-> r, todo |-> tail, st |-> "ask"] /\ UNCHANGED reported
  BY DEF ReceiverGone, Listening
<1>2. ServeTypeOK /\ LoopInv /\ AckInv /\ BudgetInv  BY DEF ServeInv
<1>3. UNCHANGED <<file, rows, seed, used, lapsed, swept>>  BY <1>1 DEF relay, history
<1>4. /\ 1 \in 1..Len(gone) /\ Head(gone) = gone[1] /\ gone' \in Seq(Recv \X SUBSET Pieces)
      /\ \A i \in 1..Len(gone') : i + 1 \in 1..Len(gone) /\ gone'[i] = gone[i + 1]
  BY <1>1, <1>2 DEF ServeTypeOK
<1>5. r \in Recv /\ tail \in SUBSET Pieces  BY <1>2, <1>4, GoneIs
<1>6. Pieces \ recv[r].have \subseteq tail  BY <1>2, <1>4 DEF AckInv
<1> HIDE DEF r, tail
<1>7. recv[r].have \subseteq Pieces  BY <1>2, <1>5 DEF ServeTypeOK, RecvType
<1>8. /\ reported' \in SUBSET Recv
      /\ \A q \in reported' : q \in reported \/ recv[q].have = Pieces
  <2>1. tail = {} => recv[r].have = Pieces  BY <1>6, <1>7
  <2> QED  BY <1>1, <1>2, <1>5, <2>1 DEF ServeTypeOK
<1>9. /\ off' \in OffType
      /\ off' = off \/ (off'.who = r /\ off'.todo = tail /\ off'.st = "ask")
  BY <1>1, <1>2, <1>5 DEF ServeTypeOK, OffType
<1>10. ServeTypeOK'
  BY <1>1, <1>2, <1>3, <1>4, <1>8, <1>9 DEF ServeTypeOK
<1>11. LoopInv'
  BY <1>1, <1>2, <1>3, <1>5, <1>9 DEF LoopInv
<1>12. AckInv'
  BY ZenonT(60), <1>1, <1>2, <1>4, <1>8 DEF AckInv
<1>13. BudgetInv'
  BY <1>1, <1>2, <1>3, <1>9 DEF BudgetInv
<1>14. TailInv'
  BY <1>1, <1>6, <1>9 DEF TailInv
<1> QED  BY <1>10, <1>11, <1>12, <1>13, <1>14 DEF ServeInv

LEMMA CancelSendKeeps ==
    ASSUME ServeInv, CancelSend
    PROVE  ServeInv'
<1>1. TornDown("cancelled") /\ seed' = NoSeed /\ UNCHANGED <<recv, file, rows, used>>
  BY DEF CancelSend
<1> QED  BY <1>1, EndKeeps

LEMMA ServeAgainKeeps ==
    ASSUME ServeInv, ServeAgain
    PROVE  ServeInv'
<1>1. /\ ~session.up /\ session.token < MaxAttempts /\ lapsed' = {} /\ swept' = {}
      /\ session' = [session EXCEPT !.up = TRUE, !.why = None, !.for = None, !.token = @ + 1]
      /\ UNCHANGED <<delivered, reported, control, off, recv, relay>>
  BY DEF ServeAgain
<1>2. ServeTypeOK /\ LoopInv /\ AckInv  BY DEF ServeInv
<1>3. UNCHANGED <<chan, ghost, gone, aborts, file, rows, seed, used>>  BY <1>1 DEF control, relay
<1>4. off.st = "none"  BY <1>1, <1>2 DEF LoopInv
<1>5. session' \in SessionType /\ session'.up /\ session'.why = None
  <2>1. session.token + 1 \in Tokens
    BY <1>1, <1>2, ServeConstants DEF ServeTypeOK, SessionType, Tokens, ServeConstants
  <2>2. session' = [session EXCEPT !.up = TRUE, !.why = None, !.for = None,
                                   !.token = session.token + 1]
    BY <1>1, <1>2 DEF ServeTypeOK, SessionType
  <2> QED  BY <1>2, <2>1, <2>2 DEF ServeTypeOK, SessionType
<1>6. ServeTypeOK'
  BY <1>1, <1>2, <1>3, <1>5 DEF ServeTypeOK
<1>7. LoopInv'
  BY <1>1, <1>2, <1>3, <1>4, <1>5 DEF LoopInv
<1>8. AckInv'
  BY <1>1, <1>2, <1>3 DEF AckInv
<1>9. BudgetInv' /\ TailInv'
  <2>1. used' <= used /\ used' \in Nat  BY <1>2, <1>3 DEF ServeTypeOK
  <2> QED  BY <1>1, <1>4, <2>1, NoOffload
<1> QED  BY <1>6, <1>7, <1>8, <1>9 DEF ServeInv

-----------------------------------------------------------------------------
(* The offload.                                                            *)

\* Neither the receivers nor what the sender knows of them move.
LEMMA OffloadMoves ==
    ASSUME ServeInv, UNCHANGED <<sender, control, recv, history>>,
           off' \in OffType, off'.st # "none" => off.st # "none" /\ off'.who = off.who,
           file' \in SUBSET Pieces, rows' \in SUBSET (Tokens \X Pieces), seed' \in SeedType,
           used' \in Nat, off'.st # "wait" => seed' = NoSeed
    PROVE  ServeTypeOK' /\ LoopInv' /\ AckInv'
<1>1. ServeTypeOK /\ LoopInv /\ AckInv  BY DEF ServeInv
<1>2. UNCHANGED <<session, delivered, reported, chan, ghost, gone, aborts, lapsed, swept>>
  BY DEF sender, control, history
<1>3. ServeTypeOK'  BY <1>1, <1>2 DEF ServeTypeOK
<1>4. LoopInv'  BY <1>1, <1>2 DEF LoopInv
<1>5. AckInv'  BY <1>1, <1>2 DEF AckInv
<1> QED  BY <1>3, <1>4, <1>5

\* The offload is given up or done, and the session goes on.
LEMMA OverKeeps ==
    ASSUME ServeInv, OffloadOver, UNCHANGED <<sender, control, recv, rows, used>>,
           file' \in SUBSET Pieces, seed' = NoSeed
    PROVE  ServeInv'
<1>1. ServeTypeOK /\ LoopInv /\ AckInv  BY DEF ServeInv
<1>2. UNCHANGED <<session, delivered, reported, chan, ghost, gone, aborts>>
  BY DEF sender, control
<1>3. off' \in OffType /\ off'.st = "none" /\ lapsed' = {} /\ swept' = {} /\ seed' \in SeedType
  BY DEF OffloadOver, NoOff, OffType, NoSeed, SeedType
<1>4. ServeTypeOK'  BY <1>1, <1>2, <1>3 DEF ServeTypeOK
<1>5. LoopInv'  BY <1>1, <1>2, <1>3 DEF LoopInv
<1>6. AckInv'  BY <1>1, <1>2 DEF AckInv
<1>7. BudgetInv' /\ TailInv'
  <2>1. used' <= used /\ used' \in Nat  BY <1>1 DEF ServeTypeOK
  <2> QED  BY <1>3, <2>1, NoOffload
<1> QED  BY <1>4, <1>5, <1>6, <1>7 DEF ServeInv

LEMMA OffloadAskKeeps ==
    ASSUME ServeInv, OffloadAsk
    PROVE  ServeInv'
<1>1. /\ off.st = "ask" /\ off' = [off EXCEPT !.todo = NotHeld(@), !.st = "send"]
      /\ UNCHANGED <<session, delivered, reported, control, recv, relay, history>>
  BY DEF OffloadAsk
<1>2. ServeTypeOK /\ LoopInv /\ BudgetInv /\ TailInv  BY DEF ServeInv
<1>3. /\ UNCHANGED <<file, rows, seed, used, lapsed, swept>>
      /\ UNCHANGED <<sender, control, recv, history>>
  BY <1>1 DEF relay, history, sender
<1>4. NotHeld(off.todo) = off.todo \ file  BY DEF NotHeld, HaveHandler, HasChunks
<1>5. /\ off' \in OffType /\ off'.who = off.who /\ off'.st = "send" /\ off'.todo = off.todo \ file
  <2>1. off' = [off EXCEPT !.todo = off.todo \ file, !.st = "send"]
    BY <1>1, <1>2, <1>4 DEF ServeTypeOK, OffType
  <2> QED  BY <1>2, <2>1 DEF ServeTypeOK, OffType
<1>6. ServeTypeOK' /\ LoopInv' /\ AckInv'
  <2>1. seed' = NoSeed  BY <1>1, <1>2, <1>3 DEF LoopInv
  <2>2. file' \in SUBSET Pieces /\ rows' \in SUBSET (Tokens \X Pieces) /\ seed' \in SeedType
          /\ used' \in Nat
    BY <1>2, <1>3 DEF ServeTypeOK
  <2> QED  BY <1>1, <1>3, <1>5, <2>1, <2>2, OffloadMoves
<1>7. BudgetInv'
  BY <1>2, <1>3, <1>5 DEF BudgetInv
<1>8. TailInv'
  BY <1>1, <1>2, <1>3, <1>5 DEF TailInv, Here
<1> QED  BY <1>6, <1>7, <1>8 DEF ServeInv

LEMMA SeedRefusedKeeps ==
    ASSUME ServeInv, SeedRefused
    PROVE  ServeInv'
<1>1. off.st = "send" /\ OffloadOver /\ UNCHANGED <<sender, control, recv, relay>>
  BY DEF SeedRefused
<1>2. ServeTypeOK /\ LoopInv  BY DEF ServeInv
<1>3. UNCHANGED <<file, rows, seed, used>>  BY <1>1 DEF relay
<1>4. seed' = NoSeed /\ file' \in SUBSET Pieces  BY <1>1, <1>2, <1>3 DEF LoopInv, ServeTypeOK
<1> QED  BY <1>1, <1>3, <1>4, OverKeeps

LEMMA SeedFailsKeeps ==
    ASSUME ServeInv, SeedFails
    PROVE  ServeInv'
<1>1. /\ file' = file \ seed.written /\ seed' = NoSeed /\ OffloadOver
      /\ UNCHANGED <<sender, control, recv, rows, used>>
  BY DEF SeedFails
<1>2. file' \in SUBSET Pieces  BY <1>1 DEF ServeInv, ServeTypeOK
<1> QED  BY <1>1, <1>2, OverKeeps

LEMMA RelayCrashKeeps ==
    ASSUME ServeInv, RelayCrash
    PROVE  ServeInv'
<1>1. seed' = NoSeed /\ OffloadOver /\ UNCHANGED <<sender, control, recv, file, rows, used>>
  BY DEF RelayCrash
<1>2. file' \in SUBSET Pieces  BY <1>1 DEF ServeInv, ServeTypeOK
<1> QED  BY <1>1, <1>2, OverKeeps

LEMMA OffloadDoneKeeps ==
    ASSUME ServeInv, OffloadDone
    PROVE  ServeInv'
<1>1. /\ off.st = "send" /\ UNCHANGED <<recv, relay>>
      /\ TornDown("offloaded") \/ (OffloadOver /\ UNCHANGED <<sender, control>>)
  BY DEF OffloadDone
<1>2. ServeTypeOK /\ LoopInv  BY DEF ServeInv
<1>3. UNCHANGED <<file, rows, seed, used>>  BY <1>1 DEF relay
<1>4. seed' = NoSeed /\ file' \in SUBSET Pieces  BY <1>1, <1>2, <1>3 DEF LoopInv, ServeTypeOK
<1>5. CASE TornDown("offloaded")
  BY <1>1, <1>3, <1>4, <1>5, EndKeeps
<1>6. CASE OffloadOver /\ UNCHANGED <<sender, control>>
  BY <1>1, <1>3, <1>4, <1>6, OverKeeps
<1> QED  BY <1>1, <1>5, <1>6

\* What the relay is asked to fetch, it did not have, and is allowed to take.
LEMMA SeedChunksKeeps ==
    ASSUME ServeInv, SeedChunks
    PROVE  ServeInv'
<1>1. off.st = "send" /\ UNCHANGED <<sender, control, recv, rows, used, history>>
  BY DEF SeedChunks
<1>2. PICK b \in Batches(off.todo) :
        /\ UnderCap(b) /\ seed' = [batch |-> b, written |-> b \ file] /\ file' = file \cup b
        /\ off' = [off EXCEPT !.st = "wait"]
  BY DEF SeedChunks
<1>3. ServeTypeOK /\ LoopInv /\ BudgetInv /\ TailInv  BY DEF ServeInv
<1>4. b \in SUBSET off.todo /\ off.todo \in SUBSET Pieces  BY <1>3 DEF Batches, ServeTypeOK, OffType
<1>5. off.todo \cap file = {}  BY <1>1, <1>3 DEF BudgetInv
<1>6. b \ file = b  BY <1>4, <1>5
<1>7. seed' \in SeedType /\ seed'.batch = b /\ seed'.written = b
  BY <1>2, <1>4, <1>6 DEF SeedType
<1>8. off' \in OffType /\ off'.who = off.who /\ off'.todo = off.todo /\ off'.st = "wait"
  BY <1>2, <1>3 DEF ServeTypeOK, OffType
<1>9. UNCHANGED <<rows, used, lapsed, swept>>  BY <1>1 DEF history
<1>10. ServeTypeOK' /\ LoopInv' /\ AckInv'
  <2>1. file' \in SUBSET Pieces /\ rows' \in SUBSET (Tokens \X Pieces) /\ used' \in Nat
    BY <1>2, <1>3, <1>4, <1>9 DEF ServeTypeOK
  <2> QED  BY <1>1, <1>7, <1>8, <2>1, OffloadMoves
<1>11. BudgetInv'
  <2>1. (off'.todo \ seed'.batch) \cap file' = {}  BY <1>2, <1>5, <1>7, <1>8
  <2>2. Cap = 0 \/ used' + Cardinality(seed'.batch) <= Cap  BY <1>2, <1>7, <1>9 DEF UnderCap
  <2>3. Cap = 0 \/ used' <= Cap  BY <1>3, <1>9 DEF BudgetInv
  <2> QED  BY <1>7, <1>8, <2>1, <2>2, <2>3 DEF BudgetInv
<1>12. TailInv'
  BY <1>1, <1>2, <1>3, <1>7, <1>8, <1>9 DEF TailInv, Here
<1> QED  BY <1>10, <1>11, <1>12 DEF ServeInv

LEMMA SeedRecordKeeps ==
    ASSUME ServeInv, SeedRecord
    PROVE  /\ ServeInv'
           /\ used' = used + Cardinality(seed.written)
<1>1. /\ off.st = "wait" /\ rows' = rows \cup ({session.token} \X seed.batch)
      /\ used' = used + Cardinality(seed.batch)
      /\ off' = [off EXCEPT !.todo = @ \ seed.batch, !.st = "send"] /\ seed' = NoSeed
      /\ UNCHANGED <<session, delivered, reported, control, recv, file, history>>
  BY DEF SeedRecord, RecordSeed, AddSessionBytes
<1>2. ServeTypeOK /\ LoopInv /\ BudgetInv /\ TailInv  BY DEF ServeInv
<1>3. UNCHANGED <<sender, control, recv, history>> /\ UNCHANGED <<lapsed, swept>>
  BY <1>1 DEF sender, history
<1>4. /\ off' \in OffType /\ off'.who = off.who /\ off'.st = "send"
      /\ off'.todo = off.todo \ seed.batch
  <2>1. off' = [off EXCEPT !.todo = off.todo \ seed.batch, !.st = "send"]
    BY <1>1, <1>2 DEF ServeTypeOK, OffType
  <2> QED  BY <1>2, <2>1 DEF ServeTypeOK, OffType
<1>5. seed.batch \in SUBSET Pieces /\ session.token \in Tokens
  BY <1>2 DEF ServeTypeOK, SeedType, SessionType
<1>6. Cardinality(seed.batch) \in Nat  BY <1>5, PiecesFinite
<1>7. ServeTypeOK' /\ LoopInv' /\ AckInv'
  <2>1. file' \in SUBSET Pieces /\ rows' \in SUBSET (Tokens \X Pieces) /\ used' \in Nat
    BY <1>1, <1>2, <1>5, <1>6 DEF ServeTypeOK
  <2>2. seed' \in SeedType  BY <1>1 DEF NoSeed, SeedType
  <2> QED  BY <1>1, <1>3, <1>4, <2>1, <2>2, OffloadMoves
<1>8. BudgetInv'
  BY <1>1, <1>2, <1>4 DEF BudgetInv
<1>9. TailInv'
  BY <1>1, <1>2, <1>3, <1>4 DEF TailInv, Here
<1>10. seed.written = seed.batch  BY <1>1, <1>2 DEF BudgetInv
<1> QED  BY <1>1, <1>7, <1>8, <1>9, <1>10 DEF ServeInv

LEMMA MeterLapsesKeeps ==
    ASSUME ServeInv, MeterLapses
    PROVE  ServeInv'
<1>1. used' = 0 /\ UNCHANGED <<sender, control, off, recv, file, rows, seed, history>>
  BY DEF MeterLapses
<1>2. ServeTypeOK /\ LoopInv /\ BudgetInv /\ TailInv  BY DEF ServeInv
<1>3. UNCHANGED <<lapsed, swept>>  BY <1>1 DEF history
<1>4. used \in Nat /\ Cap \in Nat /\ Cardinality(seed.batch) \in Nat
  <2>1. seed.batch \in SUBSET Pieces  BY <1>2 DEF ServeTypeOK, SeedType
  <2> QED  BY <1>2, <2>1, PiecesFinite, ServeConstants DEF ServeConstants, ServeTypeOK
<1>5. ServeTypeOK' /\ LoopInv' /\ AckInv'
  <2>1. /\ off' \in OffType /\ file' \in SUBSET Pieces /\ rows' \in SUBSET (Tokens \X Pieces)
        /\ seed' \in SeedType /\ used' \in Nat
    BY <1>1, <1>2 DEF ServeTypeOK
  <2>2. off'.st # "wait" => seed' = NoSeed  BY <1>1, <1>2 DEF LoopInv
  <2> QED  BY <1>1, <2>1, <2>2, OffloadMoves
<1>6. BudgetInv'
  <2>1. Cap = 0 \/ used' <= Cap  BY <1>1, <1>4
  <2>2. off.st = "wait" => (Cap = 0 \/ used' + Cardinality(seed.batch) <= Cap)
    <3>1. off.st = "wait" => (Cap = 0 \/ used + Cardinality(seed.batch) <= Cap)
      BY <1>2 DEF BudgetInv
    <3> QED  BY <1>1, <1>4, <3>1
  <2> QED  BY <1>1, <1>2, <2>1, <2>2 DEF BudgetInv
<1>7. TailInv'
  BY <1>1, <1>2, <1>3 DEF TailInv, Here
<1> QED  BY <1>5, <1>6, <1>7 DEF ServeInv

-----------------------------------------------------------------------------
(* The theorems.                                                           *)

LEMMA StutterServe == ASSUME ServeInv, UNCHANGED vars PROVE ServeInv'
<1>1. ServeTypeOK  BY DEF ServeInv
<1>2. /\ UNCHANGED <<session, delivered, reported, chan, ghost, gone, aborts, off, recv>>
      /\ UNCHANGED <<relay, history>>
  BY DEF vars, sender, control
<1>3. chan' \in ChanType /\ ghost' \in SUBSET Recv  BY <1>1, <1>2 DEF ServeTypeOK
<1> QED  BY <1>1, <1>2, <1>3, GrowsStill, SameDelivered, ReceiverMoves

LEMMA NextServe == ASSUME ServeInv, [Next]_vars PROVE ServeInv'
<1>1. ASSUME NEW r \in Recv, Receiver(r) PROVE ServeInv'
  BY <1>1, ConnectKeeps, ChannelDropsKeeps, CompleteKeeps, UnpauseKeeps, PullKeeps,
     PullFromRelayKeeps, StopReceivingKeeps DEF Receiver
<1>2. ASSUME NEW r \in Recv, Handler(r) PROVE ServeInv'
  BY <1>2, HandlerSeesEofKeeps, HandlerTimesOutKeeps, HandlerSeesAbortKeeps DEF Handler
<1>3. CASE Loop
  BY <1>3, ReceiverGoneKeeps, LoopTickKeeps, ReceiverAbortedKeeps DEF Loop
<1>4. CASE Offload
  BY <1>4, OffloadAskKeeps, SeedRefusedKeeps, SeedChunksKeeps, SeedRecordKeeps, OffloadDoneKeeps
     DEF Offload
<1> QED  BY <1>1, <1>2, <1>3, <1>4, CancelSendKeeps, ServeAgainKeeps, SeedFailsKeeps,
            RelayCrashKeeps, ReapSeedKeeps, WithdrawKeeps, SweepKeeps, MeterLapsesKeeps, StutterServe DEF Next

\* What the serve loop, the handlers and the relay know of each other holds for
\* any number of receivers, pieces and sessions (SendSession::serve).
THEOREM ServeInvHolds == Spec => []ServeInv
BY InitServe, NextServe, PTL DEF Spec

\* A copy is counted only for a receiver that held every piece, and the relay
\* is never given more than the transfer may keep there: whichever channels go
\* silent, come back and are replayed (DeliveredByPeer, completed_peers,
\* max_session_relay_bytes).
THEOREM CopiesAreAccounted == Spec => []CopiesAccounted
<1>1. ServeInv => CopiesAccounted
  <2> SUFFICES ASSUME ServeInv PROVE CopiesAccounted  OBVIOUS
  <2>1. TypeOK
    BY DEF ServeInv, ServeTypeOK, LoopInv, BudgetInv, TypeOK, SessionType
  <2>2. CopiesAreReal
    BY DEF ServeInv, AckInv, CopiesAreReal
  <2> QED  BY <2>1, <2>2 DEF CopiesAccounted
<1> QED  BY <1>1, ServeInvHolds, PTL

\* Nothing but a seed request that was recorded adds to the meter.
LEMMA MeterMoves ==
    ASSUME ServeInv, Next
    PROVE  SeedRecord \/ used' = used \/ used' = 0
<1>1. ASSUME NEW r \in Recv, Receiver(r) \/ Handler(r) PROVE used' = used
  BY <1>1 DEF Receiver, Handler, Connect, ChannelDrops, Complete, Unpause, Pull, PullFromRelay,
     StopReceiving, HandlerSeesEof, HandlerTimesOut, HandlerSeesAbort, relay
<1>2. CASE Loop \/ CancelSend \/ ServeAgain
  BY <1>2 DEF Loop, CancelSend, ServeAgain, ReceiverGone, Tick, ReceiverAborted, relay
<1>3. CASE Offload \/ SeedFails \/ RelayCrash
  BY <1>3 DEF Offload, OffloadAsk, SeedRefused, SeedChunks, OffloadDone, SeedFails, RelayCrash,
              relay
<1>4. CASE SweepOrphanChunks \/ MeterLapses
  BY <1>4 DEF SweepOrphanChunks, MeterLapses
<1>5. ASSUME NEW tok \in Tokens, Withdraw(tok) \/ \E i \in Pieces : ReapSeed(tok, i)
      PROVE  used' = used
  BY <1>5 DEF Withdraw, ReapSeed
<1> QED  BY <1>1, <1>2, <1>3, <1>4, <1>5 DEF Next

\* A session that is up ends by a cancel, an abort or an offload that is done.
LEMMA SessionMoves ==
    ASSUME ServeInv, Next, session.up
    PROVE  \/ session' = session \/ session'.why \in {"cancelled", "aborted"}
           \/ OffloadDone /\ off.st = "send" /\ off.todo = {}
<1>0. session \in SessionType  BY DEF ServeInv, ServeTypeOK
<1>1. ASSUME NEW r \in Recv, Receiver(r) \/ Handler(r) PROVE session' = session
  BY <1>1 DEF Receiver, Handler, Connect, ChannelDrops, Complete, Unpause, Pull, PullFromRelay,
     StopReceiving, HandlerSeesEof, HandlerTimesOut, HandlerSeesAbort, sender
<1>2. ASSUME NEW why \in {"cancelled", "aborted"}, TornDown(why)
      PROVE  session'.why \in {"cancelled", "aborted"}
  BY <1>0, <1>2 DEF TornDown, SessionType
<1>3. CASE Loop \/ CancelSend \/ ServeAgain
  BY <1>2, <1>3 DEF Loop, CancelSend, ServeAgain, ReceiverGone, Tick, ReceiverAborted, sender
<1>4. CASE Offload \/ SeedFails \/ RelayCrash
  BY <1>4 DEF Offload, OffloadAsk, SeedRefused, SeedChunks, SeedRecord, OffloadDone, SeedFails,
     RelayCrash, sender
<1>5. CASE SweepOrphanChunks \/ MeterLapses
  BY <1>5 DEF SweepOrphanChunks, MeterLapses, sender
<1>6. ASSUME NEW tok \in Tokens, Withdraw(tok) \/ \E i \in Pieces : ReapSeed(tok, i)
      PROVE  session' = session
  BY <1>6 DEF Withdraw, ReapSeed, sender
<1> QED  BY <1>1, <1>3, <1>4, <1>5, <1>6 DEF Next

LEMMA OffloadStep == ASSUME ServeInv, Next PROVE TailIsHeld /\ ChargedForNew
<1>1. ChargedForNew
  <2>1. used \in Nat  BY DEF ServeInv, ServeTypeOK
  <2>2. CASE SeedRecord
    <3>1. used' = used + Cardinality(seed.written)  BY <2>2, SeedRecordKeeps
    <3>2. Cardinality(seed.written) \in Nat
      BY PiecesFinite DEF ServeInv, ServeTypeOK, SeedType
    <3> QED  BY <2>1, <3>1, <3>2 DEF ChargedForNew
  <2>3. CASE used' = used \/ used' = 0
    BY <2>1, <2>3 DEF ChargedForNew
  <2> QED  BY <2>2, <2>3, MeterMoves
<1>2. TailIsHeld
  <2> SUFFICES ASSUME session.up, session'.why = "offloaded"
               PROVE  Pieces \ recv[off.who].have \subseteq file \cup lapsed \cup swept
    BY DEF TailIsHeld
  <2>1. session.why = None /\ None # "offloaded"
    BY ServeConstants DEF ServeInv, LoopInv, ServeConstants
  <2>2. off.st = "send" /\ off.todo = {}
    BY <2>1, SessionMoves
  <2> QED  BY <2>2 DEF ServeInv, TailInv, Here
<1> QED  BY <1>1, <1>2

\* When a sealed send ends because the relay can finish it, the relay has had
\* every piece the receiver that left lacks; and the transfer is charged for
\* the pieces the relay did not have, once each (offload, seed_handler).
THEOREM OffloadsAreSound == Spec => OffloadIsSound
<1>1. ServeInv /\ [Next]_vars => [TailIsHeld /\ ChargedForNew]_vars
  BY OffloadStep
<1> QED  BY <1>1, ServeInvHolds, PTL DEF Spec, OffloadIsSound

=============================================================================
