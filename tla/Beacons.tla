------------------------------ MODULE Beacons ------------------------------
(***************************************************************************)
(* Presence: a listening client publishes a beacon every few seconds into  *)
(* a slot that turns over hourly, and a contact asks the relay for it.     *)
(*                                                                         *)
(* The relay's clock is the one that ticks.  The publisher's is off by     *)
(* `skew` from the asker's, which agrees with the relay's: a slot is named *)
(* by the clock of whoever names it, and an expiry by the relay's.         *)
(***************************************************************************)
EXTENDS Integers, FiniteSets

CONSTANTS
    PresenceEpoch,   \* PRESENCE_EPOCH_SECS
    PresenceGrace,   \* PRESENCE_GRACE_SECS
    PresenceTtl,     \* PRESENCE_TTL_SECS
    Refresh,         \* BEACON_REFRESH_SECS
    Slow, Fast,      \* how far a publisher's clock may be off
    MaxBeacons,      \* ARVOLO_MAX_PRESENCE_ROWS
    Crowd,           \* bound on the beacons of everyone else
    MaxMissed,       \* publications that may be lost in a row
    BeaconEnd        \* bound on the clock

\* A refresh and what may be lost before it fit into a beacon's lifetime, and
\* a beacon's age and the skew into the grace.
ASSUME BeaconConstants ==
    /\ PresenceEpoch \in Nat \ {0} /\ PresenceGrace \in Nat /\ PresenceTtl \in Nat
    /\ Refresh \in Nat /\ MaxMissed \in Nat /\ Crowd \in Nat
    /\ Slow \in Int /\ Fast \in Int /\ BeaconEnd \in Nat /\ MaxBeacons \in Nat
    /\ (MaxMissed + 1) * Refresh <= PresenceTtl
    /\ 2 * PresenceGrace < PresenceEpoch
    /\ Slow <= PresenceGrace + 1 - PresenceTtl /\ Fast <= PresenceGrace

VARIABLES
    tick,
    skew,
    beacons,   \* the beacon table, our publisher's rows
    crowd,     \* how many rows of the table are someone else's
    pub        \* the publisher: listening, its next beacon, what it missed

beaconVars == <<tick, skew, beacons, crowd, pub>>

-----------------------------------------------------------------------------
(* The relay.                                                              *)

\* beacon_alive and beacon_count: an expired row counts until it is reaped.
AliveIfThere(slot) == \E b \in beacons : b.slot = slot            \* mutant
BeaconAlive(slot) == \E b \in beacons : b.slot = slot /\ b.exp > tick
BeaconCount == Cardinality(beacons) + crowd

\* presence_post_handler: at capacity only a slot that is alive is refreshed.
BeaconRefused(slot) == BeaconCount >= MaxBeacons /\ ~BeaconAlive(slot)
BeaconPut(slot) ==
    {b \in beacons : b.slot # slot}
        \cup {[slot |-> slot, exp |-> tick + PresenceTtl]}

BeaconReap ==
    /\ \E b \in beacons : b.exp <= tick
    /\ beacons' = {b \in beacons : b.exp > tick}
    /\ UNCHANGED <<tick, skew, crowd, pub>>

CrowdMoves ==
    /\ crowd' \in (0..Crowd) \ {crowd}
    /\ UNCHANGED <<tick, skew, beacons, pub>>

-----------------------------------------------------------------------------
(* The publisher: the beacon task of listen.                               *)

PresenceSlot(t) == t \div PresenceEpoch

Quiet == [on |-> FALSE, since |-> 0, next |-> 0, missed |-> 0]

Listens ==
    /\ ~pub.on
    /\ pub' = [on |-> TRUE, since |-> 0, next |-> tick,
               missed |-> MaxMissed + 1]
    /\ UNCHANGED <<tick, skew, beacons, crowd>>

StopsListening ==
    /\ pub.on
    /\ pub' = [Quiet EXCEPT !.since = tick]
    /\ UNCHANGED <<tick, skew, beacons, crowd>>

\* publish_beacon; its failure is ignored and the next one is due as ever.
Publish ==
    /\ pub.on /\ tick >= pub.next
    /\ LET slot == PresenceSlot(tick + skew)
           failed == [pub EXCEPT !.next = tick + Refresh,
                                 !.missed = IF @ > MaxMissed THEN @ ELSE @ + 1]
       IN  \/ /\ ~BeaconRefused(slot)
              /\ beacons' = BeaconPut(slot)
              /\ pub' = [pub EXCEPT !.next = tick + Refresh, !.missed = 0]
           \/ /\ BeaconRefused(slot)
              /\ pub' = failed /\ UNCHANGED beacons
           \/ /\ pub.missed # MaxMissed
              /\ pub' = failed /\ UNCHANGED beacons
    /\ UNCHANGED <<tick, skew, crowd>>

-----------------------------------------------------------------------------
(* The asker: presence_slots_at and check_online.                          *)

SlotsOneSided(t) ==                                               \* mutant
    LET e == PresenceSlot(t)
        into == t % PresenceEpoch
    IN  {e} \cup (IF into < PresenceGrace THEN {e - 1} ELSE {})
PresenceSlots(t) ==
    LET e == PresenceSlot(t)
        into == t % PresenceEpoch
    IN  {e} \cup (IF into < PresenceGrace THEN {e - 1}
                  ELSE IF PresenceEpoch - into <= PresenceGrace THEN {e + 1}
                  ELSE {})

CheckOnline == \E slot \in PresenceSlots(tick) : BeaconAlive(slot)

-----------------------------------------------------------------------------

BeaconTick ==
    /\ tick < BeaconEnd
    /\ ~(pub.on /\ tick >= pub.next)
    /\ tick' = tick + 1
    /\ UNCHANGED <<skew, beacons, crowd, pub>>

BeaconInit ==
    /\ tick = PresenceEpoch /\ skew \in (-Slow)..Fast
    /\ beacons = {} /\ crowd = 0
    /\ pub = Quiet

BeaconNext ==
    \/ Listens \/ StopsListening \/ Publish
    \/ BeaconReap \/ CrowdMoves \/ BeaconTick

BeaconSpec == BeaconInit /\ [][BeaconNext]_beaconVars

-----------------------------------------------------------------------------

\* A client that listens, and has not lost more beacons in a row than its
\* refreshes allow for, is online to whoever asks: across the turn of the
\* slot, on either side of it, and with a clock that is off by as much as the
\* grace leaves room for (work.rs, "so it never lapses while online").
OnlineIsSeen ==
    pub.on /\ pub.missed <= MaxMissed => CheckOnline \/ tick >= pub.next

\* One that stopped listening is offline to everyone a beacon's life later.
OfflineIsSeen ==
    ~pub.on /\ tick >= pub.since + PresenceTtl => ~CheckOnline

\* Whoever asks is told who is there: those who listen and nobody else
\* (check_online).
PresenceIsTold == OnlineIsSeen /\ OfflineIsSeen
=============================================================================
