----------------------------- MODULE Rendezvous -----------------------------
(***************************************************************************)
(* Short codes: the relay's rendezvous rows, the sender that shows a code  *)
(* and answers whoever types it, and the receivers.  A sender's kind says  *)
(* which command it runs: "send" is the daemon hosting a code for a share  *)
(* (written to disk, restored after a restart), "contact" a mutual         *)
(* exchange of public ids, "device" the hand-over of an identity.          *)
(*                                                                         *)
(* A POST is two steps, as in the handler: the checks, then the insert,    *)
(* each under its own lock.  An answer may be lost, and so may a request.  *)
(* SPAKE2 is what it promises: both sides have the same key exactly when   *)
(* they used the same words and each other's message.  The words of a code *)
(* are therefore the sender that drew them, or None where a receiver       *)
(* misspelt them.  Every deadline of a client is a choice.                 *)
(***************************************************************************)
EXTENDS Naturals, FiniteSets, FiniteSetsExt

CONSTANTS
    Slot,         \* nameplates
    Sender, Receiver,
    Kinds,        \* the commands a sender may run
    None,
    MaxSessions, MaxFailures,
    Lease, Ceiling, Ttl,      \* RZ_V2_LEASE_SECS, RZ_MAX_SLOT_LIFETIME, RZ_TTL
    MaxKeys,      \* MAX_RZ_KEYS_PER_SLOT
    MaxTries,     \* MAX_CLAIM_ATTEMPTS
    Versions,     \* what relay_rz_version may answer
    Commands,     \* what a user may do: "cancel"
    MaxTime, MaxFaults, MaxRestarts   \* bounds of the model

ASSUME RendezvousConstants ==
    /\ Kinds \subseteq {"send", "contact", "device"}
    /\ None \notin Sender \cup Receiver \cup Slot
    /\ Sender \cap Receiver = {}
    /\ {MaxSessions, MaxFailures, Lease, Ttl, MaxKeys, MaxTries} \subseteq Nat \ {0}
    /\ Ceiling \in Nat /\ Ceiling >= Lease
    /\ Versions \subseteq {"v1", "v2"}
    /\ {MaxTime, MaxFaults, MaxRestarts} \subseteq Nat

VARIABLES
    rows,      \* the relay's rendezvous table
    now,
    req,       \* a party's POST between its checks and its insert
    snd, rcv,  \* the two sides
    disk,      \* the daemon's code records
    book,      \* <<p, q>>: p has saved q as a verified contact
    faults, restarts,
    given,     \* sessions a sender has put a sealed payload up for
    guesses,   \* wrong confirmations it has answered
    lost       \* answers whose outcome it never got to write down

relay == <<rows, req>>
world == <<now, faults, restarts>>
history == <<given, guesses, lost>>
vars == <<relay, world, snd, rcv, disk, book, history>>

-----------------------------------------------------------------------------
(* The relay.                                                              *)

Party == Sender \cup Receiver

SessionKeys == {"r", "s", "c", "t", "b", "x"}

\* One row; `at` is the creation stamp that rides in an own row, `code` the
\* words behind a PAKE message, a confirmation or a sealed value, `peer` the
\* party it was made for.
Row(slot, key, sid, by, code, peer) ==
    [slot |-> slot, key |-> key, sid |-> sid, by |-> by, code |-> code, peer |-> peer,
     at |-> 0, exp |-> 0]

Live(row) == row.exp > now

\* rz_get: at most one row.
Get(slot, key, sid) ==
    {row \in rows : row.slot = slot /\ row.key = key /\ row.sid = sid /\ Live(row)}

OwnRow(slot) == Get(slot, "own", None)

\* rz_owner
Owns(p, slot) == \E own \in OwnRow(slot) : own.by = p

\* mutant
NoCeiling(created) == now + Lease

RzV2Expiry(created) == Min({now + Lease, created + Ceiling})

Created(slot) == Max({own.at : own \in OwnRow(slot)})

\* mutant
StatusSkipsOwner(row) ==
    CASE row.key = "own" -> IF Get(row.slot, "ms", None) # {} THEN "conflict" ELSE "ok"
      [] row.key \in SessionKeys ->
            IF OwnRow(row.slot) = {} THEN "notfound"
            ELSE IF RzV2Expiry(Created(row.slot)) <= now THEN "gone" ELSE "ok"
      [] OTHER -> "ok"

\* rz_post_handler, up to the insert.
PostStatus(row) ==
    IF Cardinality({q \in rows : q.slot = row.slot /\ Live(q)}) >= MaxKeys THEN "full" ELSE
    CASE row.key = "own" ->
            IF Get(row.slot, "ms", None) # {} THEN "conflict" ELSE "ok"
      [] row.key \in SessionKeys ->
            IF OwnRow(row.slot) = {} THEN "notfound"
            ELSE IF row.key \in {"s", "t"} /\ ~Owns(row.by, row.slot) THEN "forbidden"
            ELSE IF RzV2Expiry(Created(row.slot)) <= now THEN "gone" ELSE "ok"
      [] OTHER -> IF OwnRow(row.slot) # {} THEN "conflict" ELSE "ok"

Stamped(row) ==
    IF row.key = "own" THEN [row EXCEPT !.at = now, !.exp = now + Lease]
    ELSE IF row.key \in SessionKeys
         THEN [row EXCEPT !.exp = RzV2Expiry(Created(row.slot))]
         ELSE [row EXCEPT !.exp = now + Ttl]

\* The checks of p's POST.
Check(p, row) ==
    /\ req[p] = None
    /\ LET status == PostStatus(row) IN
       req' = [req EXCEPT ![p] =
                [status |-> status, row |-> IF status = "ok" THEN Stamped(row) ELSE row]]

SameKey(p) ==
    {row \in rows : /\ row.slot = req[p].row.slot
                    /\ row.key = req[p].row.key
                    /\ row.sid = req[p].row.sid}

\* mutant
InsertAlways(p) == IF req[p].status = "ok" THEN rows \cup {req[p].row} ELSE rows

\* rz_claim: INSERT OR IGNORE, so an expired row is in the way until it is reaped.
RzClaim(p) ==
    IF req[p].status = "ok" /\ SameKey(p) = {} THEN rows \cup {req[p].row} ELSE rows

\* p's POST is answered; "lost" is a request or an answer that never arrived.
Answer(p, verdict) ==
    /\ req[p] # None
    /\ req' = [req EXCEPT ![p] = None]
    /\ \/ /\ verdict = IF req[p].status # "ok" THEN req[p].status
                       ELSE IF SameKey(p) = {} THEN "ok" ELSE "conflict"
          /\ rows' = RzClaim(p)
          /\ UNCHANGED faults
       \/ /\ verdict = "lost"
          /\ faults < MaxFaults
          /\ faults' = faults + 1
          /\ rows' \in {rows, RzClaim(p)}

Answers == {"ok", "conflict", "notfound", "forbidden", "gone", "full", "lost"}

\* A GET of p's may fail the same way.
Lose == faults < MaxFaults /\ faults' = faults + 1 /\ UNCHANGED relay

\* rz_delete_keys, rz_delete_slot
Without(slot, keys, sid) ==
    rows \ {row \in rows : row.slot = slot /\ row.key \in keys /\ row.sid = sid}

WithoutSlot(slot) == {row \in rows : row.slot # slot}

\* rz_touch_slot
Touched(slot) ==
    LET exp == RzV2Expiry(Created(slot)) IN
    {IF row.slot = slot /\ Live(row) /\ row.exp < exp THEN [row EXCEPT !.exp = exp] ELSE row
        : row \in rows}

\* rz_sessions: receivers that have shown up and have no answer yet.
Pending(slot) ==
    {row.sid : row \in {q \in rows : q.slot = slot /\ q.key = "r" /\ Live(q)}}
        \ {row.sid : row \in {q \in rows : q.slot = slot /\ q.key = "s" /\ Live(q)}}

\* The maintenance task.
RzReap ==
    /\ \E row \in rows : ~Live(row)
    /\ rows' = {row \in rows : Live(row)}
    /\ UNCHANGED <<req, world, snd, rcv, disk, book, history>>

\* A tick is a good part of a lease; no handler takes that long.
Tick ==
    /\ now < MaxTime
    /\ \A p \in Party : req[p] = None
    /\ now' = now + 1
    /\ UNCHANGED <<relay, faults, restarts, snd, rcv, disk, book, history>>

-----------------------------------------------------------------------------
(* The sender: CodeHost for a v2 slot, PairComplete for a v1 one.          *)

IdleSender ==
    [pc |-> "idle", kind |-> "send", ver |-> "v2", slot |-> None, sid |-> None, todo |-> {}, out |-> {},
     done |-> 0, fail |-> 0, tries |-> 0, cancel |-> FALSE, reply |-> None, why |-> "none"]

Go(s, pc) == snd' = [snd EXCEPT ![s].pc = pc]

Quiet(s) == UNCHANGED <<rcv, disk, book, history, now, restarts>>

\* on_state: only the daemon has a state directory to write to.
Persist(s, state) ==
    disk' = IF snd[s].kind = "send"
            THEN [disk EXCEPT ![s] = [slot |-> state.slot, done |-> state.done, fail |-> state.fail]]
            ELSE disk

\* publish_auto: which protocol the relay speaks is asked first, and an answer
\* that does not come means v1.
Publish(s, kind, accepted) ==
    /\ kind \in Kinds
    /\ snd[s].pc = "idle"
    /\ \E ver \in Versions, slot \in Slot :
        snd' = [snd EXCEPT ![s] = [@ EXCEPT !.kind = kind, !.ver = ver, !.slot = slot,
                                   !.pc = IF ver \in accepted THEN "claim" ELSE "failed"]]
    /\ UNCHANGED <<relay, faults>> /\ Quiet(s)

\* The daemon's share, the two mutual exchanges (daemon session and terminal)
\* and the device hand-over.  Only the last makes do with a v1 relay.
ServeCode(s) == Publish(s, "send", {"v2"})
ContactHost(s) == Publish(s, "contact", {"v2"})
PairHost(s) == Publish(s, "contact", {"v2"})
DeviceHost(s) == Publish(s, "device", {"v1", "v2"})

\* What a sender has to POST where it stands.
ToPost(s) ==
    LET me == snd[s] IN
    CASE me.pc = "claim" /\ me.ver = "v1" -> Row(me.slot, "ms", None, s, s, None)
      [] me.pc = "reclaim" \/ (me.pc = "claim" /\ me.ver # "v1") -> Row(me.slot, "own", None, s, None, None)
      [] me.pc = "answer" -> Row(me.slot, "s", me.sid, s, s, me.sid)
      [] me.pc = "seal"   -> Row(me.slot, "t", me.sid, s, s, me.sid)
      [] me.pc = "noise"  -> Row(me.slot, "t", me.sid, s, None, None)
      [] me.pc = "v1seal" -> Row(me.slot, "tkt", None, s, s, me.sid)

SenderPost(s) ==
    /\ snd[s].pc \in {"claim", "reclaim", "answer", "seal", "noise", "v1seal"}
    /\ Check(s, ToPost(s))
    /\ UNCHANGED <<rows, snd, faults>> /\ Quiet(s)

\* claim_code / publish_bytes: a conflict draws another nameplate.
Claimed(s) ==
    /\ snd[s].pc = "claim"
    /\ \E v \in Answers :
        /\ Answer(s, v)
        /\ CASE v = "ok" ->
                /\ snd' = [snd EXCEPT ![s].pc = IF snd[s].ver = "v1" THEN "v1wait" ELSE "listen"]
                /\ Persist(s, snd[s])
             [] v = "conflict" /\ (snd[s].ver = "v1" \/ snd[s].tries + 1 < MaxTries) ->
                /\ \E slot \in Slot :
                    snd' = [snd EXCEPT ![s] = [@ EXCEPT !.slot = slot,
                              !.tries = snd[s].tries + IF snd[s].ver = "v1" THEN 0 ELSE 1]]
                /\ UNCHANGED disk
             [] OTHER -> Go(s, "failed") /\ UNCHANGED disk
    /\ UNCHANGED <<rcv, book, history, now, restarts>>

Spent(s) == snd[s].done >= MaxSessions \/ snd[s].fail >= MaxFailures

\* The code stops being served: code_host_task forgets it.
Retire(s, why) ==
    /\ snd' = [snd EXCEPT ![s] = [@ EXCEPT !.pc = "closed", !.why = why, !.todo = {}, !.out = {}]]
    /\ disk' = [disk EXCEPT ![s] = None]

\* poll_sessions
Poll(s) ==
    /\ snd[s].pc = "listen" /\ snd[s].todo = {} /\ ~snd[s].cancel /\ ~Spent(s)
    /\ LET slot == snd[s].slot IN
       \/ /\ Owns(s, slot) /\ RzV2Expiry(Created(slot)) > now
          /\ rows' = Touched(slot)
          /\ snd' = [snd EXCEPT ![s].todo = Pending(slot)]
          /\ UNCHANGED <<disk, req, faults>>
       \/ /\ Owns(s, slot) => RzV2Expiry(Created(slot)) <= now
          /\ Retire(s, IF OwnRow(slot) = {} \/ Owns(s, slot) THEN "expired" ELSE "taken")
          /\ UNCHANGED <<relay, faults>>
       \/ Retire(s, "error") /\ Lose
    /\ UNCHANGED <<rcv, book, history, now, restarts>>

\* answer: the receiver's message, then a fresh PAKE run of our own.
TakeSession(s, sid) ==
    /\ snd[s].pc = "listen" /\ sid \in snd[s].todo /\ ~snd[s].cancel /\ ~Spent(s)
    /\ snd' = [snd EXCEPT ![s] =
         [@ EXCEPT !.todo = snd[s].todo \ {sid}, !.sid = sid,
                   !.pc = IF Owns(s, snd[s].slot) /\ Get(snd[s].slot, "r", sid) # {}
                          THEN "answer" ELSE "listen"]]
    /\ UNCHANGED <<relay, faults>> /\ Quiet(s)

Answered(s) ==
    /\ snd[s].pc = "answer"
    /\ \E v \in Answers : Answer(s, v) /\ Go(s, IF v = "ok" THEN "await_c" ELSE "listen")
    /\ Quiet(s)

\* mutant
SealsUnproven(s, conf) == "seal"

AfterProof(s, conf) == IF conf.code = s /\ conf.peer = s THEN "seal" ELSE "noise"

\* The receiver's proof, or its absence: walking away is not a guess.
Confirmed(s) ==
    /\ snd[s].pc = "await_c"
    /\ \/ \E conf \in Get(snd[s].slot, "c", snd[s].sid) :
            Owns(s, snd[s].slot) /\ Go(s, AfterProof(s, conf))
       \/ Go(s, "listen")
    /\ UNCHANGED <<relay, faults>> /\ Quiet(s)

BadCode(s) ==
    /\ snd' = [snd EXCEPT ![s] = [@ EXCEPT !.pc = "listen", !.fail = snd[s].fail + 1]]
    /\ Persist(s, [snd[s] EXCEPT !.fail = @ + 1])

\* A wrong proof is answered with noise, and counted, however that went.
Refused(s) ==
    /\ snd[s].pc = "noise"
    /\ \E v \in Answers : Answer(s, v)
    /\ BadCode(s)
    /\ guesses' = [guesses EXCEPT ![s] = @ + 1]
    /\ UNCHANGED <<rcv, book, given, lost, now, restarts>>

Paired(s, reply) ==
    /\ snd' = [snd EXCEPT ![s] = [@ EXCEPT !.pc = "listen", !.done = snd[s].done + 1,
                                           !.reply = reply, !.out = snd[s].out \cup {snd[s].sid}]]
    /\ Persist(s, [snd[s] EXCEPT !.done = @ + 1])

\* The sealed payload is up.  An answer that never came counts for nothing.
Sealed(s) ==
    /\ snd[s].pc = "seal"
    /\ \E v \in Answers :
        /\ Answer(s, v)
        /\ IF v # "ok" THEN Go(s, "listen") /\ UNCHANGED disk
           ELSE IF snd[s].kind = "contact" THEN Go(s, "await_b") /\ UNCHANGED disk
           ELSE Paired(s, None)
        /\ given' = [given EXCEPT ![s] = @ + IF rows' # rows THEN 1 ELSE 0]
        /\ lost' = [lost EXCEPT ![s] = @ + IF rows' # rows /\ v # "ok" THEN 1 ELSE 0]
    /\ UNCHANGED <<rcv, book, guesses, now, restarts>>

\* The reply and the routing extras of a mutual exchange; reading burns them.
GotReply(s) ==
    /\ snd[s].pc = "await_b"
    /\ LET slot == snd[s].slot  sid == snd[s].sid IN
       \/ /\ Owns(s, slot)
          /\ \E b \in Get(slot, "b", sid) : Paired(s, IF b.code = s THEN b.by ELSE None)
          /\ rows' = Without(slot, {"b", "x"}, sid)
       \/ /\ Paired(s, None)
          /\ rows' = IF Owns(s, slot) THEN Without(slot, {"x"}, sid) ELSE rows
    /\ UNCHANGED <<req, faults, rcv, book, history, now, restarts>>

\* mutant
DrainedAtOnce(s) == TRUE

\* drain: `r` is watched, since reading `t` would collect it.
Drained(s) ==
    \A sid \in snd[s].out : ~Owns(s, snd[s].slot) \/ Get(snd[s].slot, "r", sid) = {}

\* contact_host: what came back is saved; nothing came back, nothing is.
SaveReply(s) ==
    book' = IF snd[s].kind = "contact" /\ snd[s].reply # None
            THEN book \cup {<<s, snd[s].reply>>} ELSE book

\* finish: the slot is given back.  `patient` is false when drain ran out of
\* time; the DELETE is best effort.
CloseCode(s, patient) ==
    /\ snd[s].pc = "listen"
    /\ \/ snd[s].cancel
       \/ snd[s].done >= MaxSessions /\ (patient => Drained(s))
       \/ snd[s].done < MaxSessions /\ snd[s].fail >= MaxFailures
    /\ Retire(s, IF snd[s].cancel THEN "cancelled"
                 ELSE IF snd[s].done < MaxSessions THEN "failures"
                 ELSE IF patient THEN "served" ELSE "impatient")
    /\ \/ /\ rows' = IF Owns(s, snd[s].slot) THEN WithoutSlot(snd[s].slot) ELSE rows
          /\ UNCHANGED <<req, faults>>
       \/ Lose
    /\ SaveReply(s)
    /\ UNCHANGED <<rcv, history, now, restarts>>

Cancel(s) ==
    /\ "cancel" \in Commands
    /\ snd[s].pc \notin {"idle", "closed", "failed", "down", "v1wait"} /\ ~snd[s].cancel
    /\ snd' = [snd EXCEPT ![s].cancel = TRUE]
    /\ UNCHANGED <<relay, faults>> /\ Quiet(s)

\* A v1 sender waits for one message, seals once and is done.
V1Wait(s) ==
    /\ snd[s].pc = "v1wait"
    /\ \/ \E mr \in Get(snd[s].slot, "mr", None) :
            snd' = [snd EXCEPT ![s] = [@ EXCEPT !.pc = "v1seal", !.sid = mr.by]]
       \/ Go(s, "failed")
    /\ UNCHANGED <<relay, faults>> /\ Quiet(s)

V1Sealed(s) ==
    /\ snd[s].pc = "v1seal"
    /\ \E v \in Answers : Answer(s, v) /\ Go(s, IF v = "ok" THEN "closed" ELSE "failed")
    /\ Quiet(s)

\* The daemon goes down.  What it had answered and not written down is lost.
Crash(s) ==
    /\ restarts < MaxRestarts
    /\ snd[s].kind = "send"
    /\ snd[s].pc \notin {"idle", "closed", "failed", "down"}
    /\ restarts' = restarts + 1
    /\ snd' = [snd EXCEPT ![s] = [IdleSender EXCEPT !.pc = "down", !.slot = snd[s].slot]]
    /\ req' = [req EXCEPT ![s] = None]
    /\ \E landed \in BOOLEAN :
        /\ rows' = IF landed /\ req[s] # None THEN RzClaim(s) ELSE rows
        /\ LET up == snd[s].pc = "seal" /\ rows' # rows
               no == snd[s].pc = "noise" /\ rows' # rows IN
           /\ given' = [given EXCEPT ![s] = @ + IF up THEN 1 ELSE 0]
           /\ guesses' = [guesses EXCEPT ![s] = @ + IF no THEN 1 ELSE 0]
           /\ lost' = [lost EXCEPT ![s] = @ + IF up \/ no THEN 1 ELSE 0]
    /\ UNCHANGED <<now, faults, rcv, disk, book>>

\* mutant
ResumeResets(s) ==
    snd' = [snd EXCEPT ![s] = [@ EXCEPT !.pc = "reattach", !.slot = disk[s].slot,
                                        !.done = disk[s].done]]

ResumeCounters(s) ==
    snd' = [snd EXCEPT ![s] = [@ EXCEPT !.pc = "reattach", !.slot = disk[s].slot,
                                        !.done = disk[s].done, !.fail = disk[s].fail]]

\* resume_incomplete takes the record off the disk; the counters go on.
ResumeCode(s) ==
    /\ snd[s].pc = "down"
    /\ disk[s] # None
    /\ ResumeCounters(s)
    /\ disk' = [disk EXCEPT ![s] = None]
    /\ UNCHANGED <<relay, world, rcv, book, history>>

\* reattach: the listing, once.
Reattach(s) ==
    /\ snd[s].pc = "reattach"
    /\ LET slot == snd[s].slot IN
       \/ /\ Owns(s, slot) /\ RzV2Expiry(Created(slot)) > now
          /\ rows' = Touched(slot)
          /\ Go(s, "listen")
          /\ UNCHANGED <<disk, req, faults>>
       \/ /\ OwnRow(slot) = {} \/ (Owns(s, slot) /\ RzV2Expiry(Created(slot)) <= now)
          /\ Go(s, "reclaim")
          /\ UNCHANGED <<disk, relay, faults>>
       \/ OwnRow(slot) # {} /\ ~Owns(s, slot) /\ Retire(s, "taken") /\ UNCHANGED <<relay, faults>>
       \/ Retire(s, "error") /\ Lose
    /\ UNCHANGED <<rcv, book, history, now, restarts>>

\* reclaim: the same nameplate under the same token.
Reclaimed(s) ==
    /\ snd[s].pc = "reclaim"
    /\ \E v \in Answers :
        /\ Answer(s, v)
        /\ CASE v = "ok" -> Go(s, "listen") /\ UNCHANGED disk
             [] v = "conflict" -> Retire(s, "taken")
             [] OTHER -> Retire(s, "error")
    /\ UNCHANGED <<rcv, book, history, now, restarts>>

-----------------------------------------------------------------------------
(* The receiver.                                                           *)

IdleReceiver ==
    [pc |-> "idle", kind |-> "send", slot |-> None, words |-> None, peer |-> None,
     got |-> None, replied |-> FALSE]

Words(r) == rcv[r].words

GoR(r, pc) == rcv' = [rcv EXCEPT ![r].pc = pc]

Calm == UNCHANGED <<now, restarts, snd, disk, book, history>>

\* parse_code: the nameplate is in the code, and the code can only be typed
\* once it has been shown.
Type(r, kind) ==
    /\ rcv[r].pc = "idle"
    /\ \E s \in Sender :
        /\ snd[s].kind = kind /\ snd[s].pc \notin {"idle", "claim"}
        /\ \E words \in {s, None} :
            rcv' = [rcv EXCEPT ![r] = [@ EXCEPT !.pc = "probe", !.kind = kind,
                                                !.slot = snd[s].slot, !.words = words]]
    /\ UNCHANGED <<relay, faults>> /\ Calm

ReceiveCode(r) == Type(r, "send")
ContactJoin(r) == Type(r, "contact")
PairJoin(r) == Type(r, "contact")
DeviceJoin(r) == Type(r, "device")

\* detect_version
Probe(r) ==
    /\ rcv[r].pc = "probe"
    /\ \/ OwnRow(rcv[r].slot) # {} /\ GoR(r, "open")
       \/ /\ OwnRow(rcv[r].slot) = {} /\ Get(rcv[r].slot, "ms", None) # {}
          /\ GoR(r, "v1ms")
    /\ UNCHANGED <<relay, faults>> /\ Calm

ToPostR(r) ==
    LET me == rcv[r] IN
    CASE me.pc = "open"    -> Row(me.slot, "r", r, r, Words(r), None)
      [] me.pc = "confirm" -> Row(me.slot, "c", r, r, Words(r), me.peer)
      [] me.pc = "back"    -> Row(me.slot, "b", r, r, Words(r), me.peer)
      [] me.pc = "xtra"    -> Row(me.slot, "x", r, r, Words(r), me.peer)
      [] me.pc = "mr"      -> Row(me.slot, "mr", None, r, Words(r), me.peer)

ReceiverPost(r) ==
    /\ rcv[r].pc \in {"open", "confirm", "back", "xtra", "mr"}
    /\ Check(r, ToPostR(r))
    /\ UNCHANGED <<rows, rcv, faults>> /\ Calm

\* resolve_v2's two POSTs that must succeed, and resolve_v1's one.
Posted(r) ==
    /\ rcv[r].pc \in {"open", "confirm", "mr"}
    /\ \E v \in Answers :
        /\ Answer(r, v)
        /\ GoR(r, IF v # "ok" THEN "failed"
                  ELSE CASE rcv[r].pc = "open" -> "wait_s"
                         [] rcv[r].pc = "confirm" -> "wait_t"
                         [] rcv[r].pc = "mr" -> "v1t")
    /\ Calm

GotAnswer(r) ==
    /\ rcv[r].pc = "wait_s"
    /\ \E s \in Get(rcv[r].slot, "s", r) :
        rcv' = [rcv EXCEPT ![r] = [@ EXCEPT !.pc = "confirm", !.peer = s.by]]
    /\ UNCHANGED <<relay, faults>> /\ Calm

Burnt(slot, sid) == Without(slot, {"r", "s", "c", "t"}, sid)

\* A sealed value opens under the key both derived, or not at all: the same
\* words, and each other's message.
Opens(row, r) == row.code = Words(r) /\ row.code # None /\ row.by = rcv[r].peer

\* The payload: reading it burns the session.
GotTicket(r) ==
    /\ rcv[r].pc = "wait_t"
    /\ \E t \in Get(rcv[r].slot, "t", r) :
        IF Opens(t, r)
        THEN rcv' = [rcv EXCEPT ![r] =
                [@ EXCEPT !.got = t.by,
                          !.pc = IF rcv[r].kind = "contact" THEN "back" ELSE "done"]]
        ELSE GoR(r, "failed")
    /\ rows' = Burnt(rcv[r].slot, r)
    /\ UNCHANGED <<req, faults>> /\ Calm

\* The reply: whether the relay took it is what the exchange turns on.
Replied(r) ==
    /\ rcv[r].pc = "back"
    /\ \E v \in Answers :
        /\ Answer(r, v)
        /\ rcv' = [rcv EXCEPT ![r] = [@ EXCEPT !.pc = "xtra", !.replied = (v = "ok")]]
    /\ Calm

\* mutant
SavesUnreplied(r) == IF ~rcv[r].replied THEN book \cup {<<r, rcv[r].got>>} ELSE book

\* contact_join: half an exchange is not saved.
SaveSender(r) == IF rcv[r].replied THEN book \cup {<<r, rcv[r].got>>} ELSE book

Exchanged(r) ==
    /\ rcv[r].pc = "xtra"
    /\ \E v \in Answers : Answer(r, v)
    /\ GoR(r, "done")
    /\ book' = SaveSender(r)
    /\ UNCHANGED <<now, restarts, snd, disk, history>>

\* resolve_v1; a slot that turned into a v2 one answers 410.
V1Message(r) ==
    /\ rcv[r].pc = "v1ms"
    /\ IF OwnRow(rcv[r].slot) # {} THEN GoR(r, "failed")
       ELSE \E ms \in Get(rcv[r].slot, "ms", None) :
                rcv' = [rcv EXCEPT ![r] = [@ EXCEPT !.pc = "mr", !.peer = ms.by]]
    /\ UNCHANGED <<relay, faults>> /\ Calm

V1Ticket(r) ==
    /\ rcv[r].pc = "v1t"
    /\ \E t \in Get(rcv[r].slot, "tkt", None) :
        IF Opens(t, r) /\ t.peer = r
        THEN rcv' = [rcv EXCEPT ![r] = [@ EXCEPT !.pc = "done", !.got = t.by]]
        ELSE GoR(r, "failed")
    /\ rows' = WithoutSlot(rcv[r].slot)
    /\ UNCHANGED <<req, faults>> /\ Calm

\* poll_get_for's deadline.
GiveUp(r) ==
    /\ rcv[r].pc \in {"probe", "wait_s", "wait_t", "v1ms", "v1t"}
    /\ GoR(r, "failed")
    /\ UNCHANGED <<relay, faults>> /\ Calm

-----------------------------------------------------------------------------
Init ==
    /\ rows = {} /\ now = 0
    /\ req = [p \in Party |-> None]
    /\ snd = [s \in Sender |-> IdleSender]
    /\ rcv = [r \in Receiver |-> IdleReceiver]
    /\ disk = [s \in Sender |-> None]
    /\ book = {}
    /\ faults = 0 /\ restarts = 0
    /\ given = [s \in Sender |-> 0]
    /\ guesses = [s \in Sender |-> 0]
    /\ lost = [s \in Sender |-> 0]

SenderStep(s) ==
    \/ ServeCode(s) \/ ContactHost(s) \/ PairHost(s) \/ DeviceHost(s) \/ SenderPost(s) \/ Claimed(s) \/ Poll(s)
    \/ \E sid \in Receiver : TakeSession(s, sid)
    \/ Answered(s) \/ Confirmed(s) \/ Refused(s) \/ Sealed(s)
    \/ GotReply(s) \/ V1Wait(s) \/ V1Sealed(s)
    \/ \E patient \in BOOLEAN : CloseCode(s, patient)
    \/ ResumeCode(s) \/ Reattach(s) \/ Reclaimed(s)

ReceiverStep(r) ==
    \/ ReceiveCode(r) \/ ContactJoin(r) \/ PairJoin(r) \/ DeviceJoin(r) \/ Probe(r) \/ ReceiverPost(r) \/ Posted(r) \/ GotAnswer(r) \/ GotTicket(r)
    \/ Replied(r) \/ Exchanged(r) \/ V1Message(r) \/ V1Ticket(r) \/ GiveUp(r)

Next ==
    \/ \E s \in Sender : SenderStep(s) \/ Cancel(s) \/ Crash(s)
    \/ \E r \in Receiver : ReceiverStep(r)
    \/ RzReap \/ Tick

Spec == Init /\ [][Next]_vars
-----------------------------------------------------------------------------
(* Properties.                                                             *)

SenderPcs ==
    {"idle", "claim", "listen", "answer", "await_c", "seal", "noise", "await_b", "closed",
     "failed", "v1wait", "v1seal", "down", "reattach", "reclaim"}

ReceiverPcs ==
    {"idle", "probe", "open", "wait_s", "confirm", "wait_t", "back", "xtra", "done", "failed",
     "v1ms", "mr", "v1t"}

\* Every piece of state has the shape the code gives it, and the table never
\* holds two rows under one key (its primary key).
TypeOK ==
    /\ \A row \in rows :
        /\ row.slot \in Slot /\ row.key \in SessionKeys \cup {"own", "ms", "mr", "tkt"}
        /\ row.sid \in Receiver \cup {None} /\ row.by \in Party
        /\ \A q \in rows :
            (q.slot = row.slot /\ q.key = row.key /\ q.sid = row.sid) => q = row
    /\ \A s \in Sender :
        /\ snd[s].pc \in SenderPcs /\ snd[s].kind \in Kinds \cup {"send"}
        /\ snd[s].slot \in Slot \cup {None}
        /\ snd[s].todo \subseteq Receiver /\ snd[s].out \subseteq Receiver
        /\ snd[s].done \in Nat /\ snd[s].fail \in Nat
    /\ \A r \in Receiver : rcv[r].pc \in ReceiverPcs /\ rcv[r].got \in Sender \cup {None}
    /\ book \subseteq Party \X Party
    /\ now \in 0..MaxTime

\* The counters that retire a code account for every payload it has put up and
\* every wrong proof it has answered, across restarts: what they miss is an
\* answer whose POST was never confirmed or that died with the daemon (run,
\* on_state, persist_code, resume_code).
CountersKeepUp ==
    \A s \in Sender :
        LET kept == IF snd[s].pc = "down"
                    THEN IF disk[s] = None THEN {} ELSE {disk[s].done + disk[s].fail}
                    ELSE {snd[s].done + snd[s].fail} IN
        \A n \in kept :
            given[s] + guesses[s] <= n + lost[s] + IF snd[s].pc = "await_b" THEN 1 ELSE 0

\* A payload is only ever sealed for a session whose receiver has proved that
\* it knows the words (answer, confirm_mac).
SealedForTheProven ==
    \A row \in rows : (row.key = "t" /\ row.code # None) => Words(row.sid) = row.code

\* A v1 pairing got as far as its payload under this nameplate: whoever reads
\* that payload burns the slot, whosever it is by then (rz_get_handler).
V1Spoken(slot) ==
    \E s \in Sender : snd[s].ver = "v1" /\ snd[s].slot = slot /\ snd[s].sid # None

\* Whoever puts up an answer or a payload holds the slot at that moment: a
\* sender whose nameplate has lapsed and gone to somebody else cannot speak for
\* the new owner (rz_owner on `s.` and `t.`).  Except where a v1 pairing can
\* still take the slot away between the check and the insert.
OnlyTheOwnerAnswers ==
    (\A row \in rows' :
         (/\ row.key \in {"s", "t"}
          /\ ~\E q \in rows : q.slot = row.slot /\ q.key = row.key /\ q.sid = row.sid)
         => Owns(row.by, row.slot) \/ V1Spoken(row.slot))

\* No renewal carries a slot, or anything in it, past the ceiling of its life
\* (rz_v2_expiry, rz_touch_slot).
CeilingHolds ==
    \A row \in rows : row.key \in SessionKeys \cup {"own"} =>
        \A own \in OwnRow(row.slot) : row.exp <= own.at + Ceiling

\* In a mutual exchange the sender saves nobody who comes away without having
\* saved the sender, unless an answer was lost on the way (contact_host,
\* contact_join).
NoHalfExchange ==
    \A s \in Sender, r \in Receiver :
        (<<s, r>> \in book /\ rcv[r].pc = "done" /\ faults = 0) => <<r, s>> \in book

\* A slot speaks one protocol: a v2 claim is refused over a live v1 one, and a
\* v1 key over a live v2 slot (rz_post_handler).
OneProtocolPerSlot ==
    \A slot \in Slot : OwnRow(slot) = {} \/ Get(slot, "ms", None) = {}

\* A code the daemon is hosting has its record on disk, so that it comes back
\* after a restart (CodeRecord, resume_code).
LiveCodeIsOnDisk ==
    \A s \in Sender : (snd[s].kind = "send" /\ snd[s].pc = "listen") => disk[s] # None

\* While its slot is the sender's and its session has not lapsed, a sealed
\* payload leaves the relay because its receiver has read it, or because the
\* sender would not wait any longer: a code that has served its receivers lets
\* them collect before it gives the slot back (drain).  A restart forgets whom
\* to wait for, a payload whose POST was not confirmed is not waited for, and a
\* v1 pairing of the same nameplate may burn the slot.
TicketsAreCollected ==
    (\A t \in rows :
         (/\ t.key = "t" /\ t.code # None
          /\ Owns(t.by, t.slot) /\ Get(t.slot, "r", t.sid) # {}
          /\ ~\E q \in rows' : q.slot = t.slot /\ q.key = "t" /\ q.sid = t.sid)
         => \/ rcv'[t.sid].got = t.by
            \/ snd'[t.by].why \in {"cancelled", "impatient", "failures"}
            \/ restarts > 0 \/ lost[t.by] > 0
            \/ V1Spoken(t.slot))

\* A slot is its owner's: nobody else answers in it, and it keeps what its
\* owner put up until that is collected.
SlotIsTheOwners == [][OnlyTheOwnerAnswers /\ TicketsAreCollected]_vars

\* A code's budgets hold: its uses and wrong guesses, over restarts, and the
\* length of its life, over renewals.
BudgetsHold == TypeOK /\ CountersKeepUp /\ CeilingHolds

\* An exchange is sound: sealed for somebody who knows the words, and saved on
\* both sides or by whom it is of no use to.
ExchangesAreSound == SealedForTheProven /\ NoHalfExchange
=============================================================================
