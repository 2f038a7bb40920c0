-------------------------- MODULE RendezvousProofs --------------------------
(***************************************************************************)
(* Proofs about Rendezvous, for any number of nameplates, senders and      *)
(* receivers, any budgets, leases and ceilings, any number of ticks, lost  *)
(* messages and restarts.                                                  *)
(*                                                                         *)
(* The inductive invariant says, beside the types, what every row of the   *)
(* relay tells of the parties (`RowsInv`), that a POST under way carries   *)
(* what its party has to say where it stands (`PendingInv`), where a       *)
(* sender and a receiver may stand (`SenderInv`, `ReceiverInv`), how long  *)
(* rows live (`LivesInv`), whom a sender still waits for (`WaitInv`), what *)
(* its record says (`DiskInv`) and what an exchange without a lost message *)
(* has left behind (`HalvesInv`).  A step of anybody is first reduced to   *)
(* what it does to the table, to the senders and to the receivers          *)
(* (`RowsMove`, `SendersMove`, `ReceiversMove`).                           *)
(***************************************************************************)
EXTENDS Rendezvous, TLAPS

-----------------------------------------------------------------------------
(* The inductive invariant.                                                *)

Whys == {"none", "expired", "taken", "error", "cancelled", "failures", "served", "impatient"}
AllKeys == SessionKeys \cup {"own", "ms", "mr", "tkt"}
Early == {"idle", "probe", "open"}
Late == {"confirm", "wait_t", "back", "xtra", "done", "failed", "mr", "v1t"}
PostPcs == {"claim", "reclaim", "answer", "seal", "noise", "v1seal"}
PostPcsR == {"open", "confirm", "back", "xtra", "mr"}
SessionPcs == {"answer", "await_c", "seal", "noise", "await_b"}

SndT ==
    [pc : SenderPcs, kind : Kinds \cup {"send"}, ver : {"v1", "v2"}, slot : Slot \cup {None},
     sid : Receiver \cup {None}, todo : SUBSET Receiver, out : SUBSET Receiver,
     done : Nat, fail : Nat, tries : Nat, cancel : BOOLEAN, reply : Receiver \cup {None},
     why : Whys]
RcvT ==
    [pc : ReceiverPcs, kind : {"send", "contact", "device"}, slot : Slot \cup {None},
     words : Sender \cup {None}, peer : Sender \cup {None}, got : Sender \cup {None},
     replied : BOOLEAN]
RowT ==
    [slot : Slot, key : AllKeys, sid : Receiver \cup {None}, by : Party,
     code : Sender \cup {None}, peer : Party \cup {None}, at : Nat, exp : Nat]
ReqT == [status : Answers \ {"lost"}, row : RowT]
DiskT == [slot : Slot, done : Nat, fail : Nat]

Types ==
    /\ rows \subseteq RowT /\ req \in [Party -> ReqT \cup {None}]
    /\ snd \in [Sender -> SndT] /\ rcv \in [Receiver -> RcvT]
    /\ disk \in [Sender -> DiskT \cup {None}]
    /\ book \subseteq Party \X Party
    /\ now \in 0..MaxTime /\ faults \in Nat /\ restarts \in Nat
    /\ given \in [Sender -> Nat] /\ guesses \in [Sender -> Nat] /\ lost \in [Sender -> Nat]

SameId(a, b) == a.slot = b.slot /\ a.key = b.key /\ a.sid = b.sid
Like(a, b) == SameId(a, b) /\ a.by = b.by /\ a.code = b.code /\ a.peer = b.peer

\* Who writes which key, and in whose words.
RowShape(row) ==
    /\ row.key \in {"r", "c", "b", "x"} => row.by = row.sid /\ row.sid \in Receiver
    /\ row.key \in {"s", "t", "own", "ms", "tkt"} => row.by \in Sender
    /\ row.key \in {"s", "t"} => row.sid \in Receiver
    /\ row.key \in {"t", "tkt"} /\ row.code # None => row.code = row.by
    /\ row.key \in {"own", "ms", "mr", "tkt"} => row.sid = None
    /\ row.key = "mr" => row.by \in Receiver

\* The receiver of a session knows s's words and has answered s's message.
Proven(s, r) == Words(r) = s /\ rcv[r].peer = s /\ rcv[r].pc \in Late

\* What a row tells of the parties.
RowTrue(row) ==
    /\ row.key \in {"r", "c", "b", "x"} => row.code = Words(row.by)
    /\ row.key = "c" => rcv[row.by].peer = row.peer /\ rcv[row.by].pc \in Late
    /\ row.key = "t" /\ row.code # None => Proven(row.code, row.sid)
    /\ row.key = "tkt" => V1Spoken(row.slot)

RowsInv ==
    /\ \A a, b \in rows : SameId(a, b) => a = b
    /\ \A row \in rows : RowShape(row) /\ RowTrue(row)
    /\ \A row \in rows : row.sid # None => rcv[row.sid].pc \notin Early

\* A POST under way is the one its party has to make where it stands.
PendingInv ==
    /\ \A s \in Sender : req[s] # None => snd[s].pc \in PostPcs /\ Like(req[s].row, ToPost(s))
    /\ \A r \in Receiver : req[r] # None => rcv[r].pc \in PostPcsR /\ Like(req[r].row, ToPostR(r))

SenderShape(s) ==
    /\ snd[s].pc # "idle" => snd[s].slot \in Slot
    /\ snd[s].pc \in SessionPcs => snd[s].sid \in Receiver /\ rcv[snd[s].sid].pc \notin Early
    /\ \A sid \in snd[s].todo : rcv[sid].pc \notin Early
    /\ snd[s].pc = "seal" => Proven(s, snd[s].sid)
    /\ snd[s].pc = "await_b" => snd[s].kind = "contact"
    /\ snd[s].pc = "idle" => snd[s].sid = None
    /\ snd[s].ver = "v1" => /\ snd[s].pc \in {"claim", "failed", "v1wait", "v1seal", "closed"}
                            /\ snd[s].pc # "failed" => snd[s].kind = "device"
                            /\ snd[s].pc \in {"claim", "v1wait"} => snd[s].sid = None
    /\ snd[s].pc \in {"v1wait", "v1seal"} => snd[s].ver = "v1"
    /\ snd[s].pc = "v1seal" => snd[s].sid # None
SenderInv == \A s \in Sender : SenderShape(s)

ReceiverShape(r) ==
    /\ rcv[r].pc # "idle" => rcv[r].slot \in Slot
    /\ rcv[r].pc \in {"back", "xtra"} => rcv[r].got \in Sender
    /\ rcv[r].pc = "idle" => rcv[r].got = None
    /\ rcv[r].got # None => rcv[r].got = Words(r)
    /\ rcv[r].replied => rcv[r].pc \in {"xtra", "done"} /\ rcv[r].got # None
    /\ rcv[r].pc = "done" /\ rcv[r].replied => <<r, rcv[r].got>> \in book
ReceiverInv == \A r \in Receiver : ReceiverShape(r)

\* s and r have each other, as far as r can see.
Mutual(s, r) == Words(r) = s /\ rcv[r].replied

HalvesInv == faults = 0 =>
    /\ \A row \in rows : row.key = "b" => rcv[row.by].replied
    /\ \A s \in Sender : snd[s].reply # None => Mutual(s, snd[s].reply)
    /\ \A s \in Sender, r \in Receiver : <<s, r>> \in book => Mutual(s, r)

\* A row in a slot does not outlive what the slot's owner may have.
Fits(row) ==
    /\ row.exp <= now + Lease
    /\ \A own \in OwnRow(row.slot) : row.exp <= own.at + Ceiling

\* A request that has passed its checks is stamped for this moment, and one
\* that only the owner may make is the owner's.
PassedInv ==
    \A p \in Party : req[p] # None => (req[p].status = "ok" =>
        /\ req[p].row.key = "own" => req[p].row.at = now /\ req[p].row.exp = now + Lease
        /\ req[p].row.key \in SessionKeys => Fits(req[p].row)
        /\ req[p].row.key \in {"s", "t"} =>
             \/ V1Spoken(req[p].row.slot)
             \/ \E own \in OwnRow(req[p].row.slot) :
                  own.by = p /\ req[p].row.exp \in {now + Lease, own.at + Ceiling})

\* A payload stays at least as long as the session it was sealed for.
LivesInv ==
    /\ \A row \in rows : row.key \in SessionKeys \cup {"own"} => Fits(row)
    /\ \A t, q \in rows : (t.key = "t" /\ q.key = "r" /\ t.slot = q.slot /\ t.sid = q.sid)
                            => V1Spoken(t.slot) \/ q.exp <= t.exp

\* A sender that has put up a payload is waiting for its receiver, has stopped
\* serving, or was never told.
Waits(s, sid) ==
    \/ snd[s].pc = "closed" \/ sid \in snd[s].out
    \/ snd[s].pc = "await_b" /\ snd[s].sid = sid
    \/ lost[s] > 0 \/ restarts > 0
WaitInv == \A t \in rows : t.key = "t" /\ t.code # None => Waits(t.by, t.sid)

\* Only the daemon writes records, and a record has its sender's counters.
DiskInv == \A s \in Sender : disk[s] # None =>
    /\ snd[s].kind = "send" /\ snd[s].pc # "idle"
    /\ snd[s].pc # "down" => disk[s].done = snd[s].done /\ disk[s].fail = snd[s].fail

\* The counters account for what has been put up (CountersKeepUp).
Counted(s) ==
    /\ snd[s].pc \notin {"down", "await_b"} => given[s] + guesses[s] <= snd[s].done + snd[s].fail + lost[s]
    /\ snd[s].pc = "await_b" => given[s] + guesses[s] <= snd[s].done + snd[s].fail + lost[s] + 1
    /\ snd[s].pc = "down" /\ disk[s] # None =>
         given[s] + guesses[s] <= disk[s].done + disk[s].fail + lost[s]
CountedInv == \A s \in Sender : Counted(s)

RendezvousInv ==
    /\ Types /\ RowsInv /\ PendingInv /\ SenderInv /\ ReceiverInv /\ HalvesInv
    /\ PassedInv /\ LivesInv /\ WaitInv /\ DiskInv /\ CountedInv

-----------------------------------------------------------------------------
(* What the operators do.                                                  *)

LEMMA Consts ==
    /\ None \notin Sender /\ None \notin Receiver /\ None \notin Slot /\ Sender \cap Receiver = {}
    /\ Lease \in Nat /\ Ceiling \in Nat /\ Lease <= Ceiling /\ Ttl \in Nat /\ MaxTime \in Nat
    /\ MaxFaults \in Nat /\ MaxRestarts \in Nat /\ Kinds \subseteq {"send", "contact", "device"}
    /\ Versions \subseteq {"v1", "v2"}
  BY RendezvousConstants DEF RendezvousConstants

\* The lesser of the lease and the ceiling.
LEMMA ExpiryIs ==
    ASSUME NEW c \in Nat, now \in Nat
    PROVE  /\ RzV2Expiry(c) \in {now + Lease, c + Ceiling} /\ RzV2Expiry(c) \in Nat
           /\ RzV2Expiry(c) <= now + Lease /\ RzV2Expiry(c) <= c + Ceiling
<1> DEFINE S == {now + Lease, c + Ceiling}
<1>1. now + Lease \in Nat /\ c + Ceiling \in Nat  BY Consts
<1>2. \E x \in S : \A y \in S : x =< y
  <2>1. CASE now + Lease <= c + Ceiling  BY <1>1, <2>1
  <2>2. CASE ~(now + Lease <= c + Ceiling)  BY <1>1, <2>2
  <2> QED  BY <2>1, <2>2
<1>3. Min(S) \in S /\ \A y \in S : Min(S) =< y  BY <1>2 DEF Min
<1> QED  BY <1>1, <1>3 DEF RzV2Expiry

\* A slot has one owner, and its life counts from that owner's claim.
LEMMA OneOwner ==
    ASSUME Types, RowsInv, NEW slot, NEW own \in OwnRow(slot)
    PROVE  /\ OwnRow(slot) = {own} /\ Created(slot) = own.at /\ own \in RowT /\ own \in rows
           /\ own.slot = slot /\ own.key = "own" /\ own.sid = None /\ own.exp > now
           /\ own.at \in Nat /\ own.by \in Sender
<1>1. own \in rows /\ own.slot = slot /\ own.key = "own" /\ own.sid = None /\ own.exp > now
  BY DEF OwnRow, Get, Live
<1>2. \A q \in OwnRow(slot) : q = own
  BY <1>1 DEF OwnRow, Get, RowsInv, SameId
<1>3. OwnRow(slot) = {own}  BY <1>2
<1>4. own \in RowT /\ own.at \in Nat  BY <1>1 DEF Types, RowT
<1>5. {q.at : q \in OwnRow(slot)} = {own.at}  BY <1>3
<1>6. Max({own.at}) = own.at
  <2>1. own.at >= own.at  BY <1>4
  <2> QED  BY <2>1 DEF Max
<1>7. own.by \in Sender  BY <1>1 DEF RowsInv, RowShape
<1> QED  BY <1>1, <1>3, <1>4, <1>5, <1>6, <1>7 DEF Created

LEMMA NowType == ASSUME Types PROVE now \in Nat /\ now <= MaxTime
  BY Consts DEF Types

\* What a sender has to say where it stands.
LEMMA ToPostIs ==
    ASSUME Types, SenderInv, NEW s \in Sender, snd[s].pc \in PostPcs
    PROVE  /\ ToPost(s) \in RowT /\ ToPost(s).by = s /\ ToPost(s).slot = snd[s].slot
           /\ snd[s].pc \in {"claim", "reclaim"} =>
                ToPost(s).key \in {"own", "ms"} /\ ToPost(s).sid = None
           /\ snd[s].pc = "answer" => ToPost(s).key = "s" /\ ToPost(s).sid = snd[s].sid
           /\ snd[s].pc = "seal" => /\ ToPost(s).key = "t" /\ ToPost(s).sid = snd[s].sid
                                    /\ ToPost(s).code = s
           /\ snd[s].pc = "noise" => /\ ToPost(s).key = "t" /\ ToPost(s).sid = snd[s].sid
                                     /\ ToPost(s).code = None
           /\ snd[s].pc = "v1seal" => /\ ToPost(s).key = "tkt" /\ ToPost(s).sid = None
                                      /\ ToPost(s).code = s
<1>1. snd[s] \in SndT  BY DEF Types
<1>2. SenderShape(s)  BY DEF SenderInv
<1>3. snd[s].slot \in Slot  BY <1>2 DEF SenderShape, PostPcs
<1>4. s \in Party /\ s \in Party \cup {None} /\ s \in Sender \cup {None} /\ None \in Party \cup {None}
      /\ None \in Sender \cup {None} /\ None \in Receiver \cup {None}
  BY DEF Party
<1>5. {"own", "ms", "s", "t", "tkt"} \subseteq AllKeys  BY DEF AllKeys, SessionKeys
<1>6. CASE snd[s].pc = "claim" /\ snd[s].ver = "v1"
  <2>1. ToPost(s) = Row(snd[s].slot, "ms", None, s, s, None)  BY <1>6 DEF ToPost
  <2> QED  BY <1>3, <1>4, <1>5, <1>6, <2>1 DEF Row, RowT
<1>7. CASE snd[s].pc = "reclaim" \/ (snd[s].pc = "claim" /\ snd[s].ver # "v1")
  <2>1. ToPost(s) = Row(snd[s].slot, "own", None, s, None, None)  BY <1>7 DEF ToPost
  <2> QED  BY <1>3, <1>4, <1>5, <1>7, <2>1 DEF Row, RowT
<1>8. CASE snd[s].pc = "v1seal"
  <2>1. ToPost(s) = Row(snd[s].slot, "tkt", None, s, s, snd[s].sid)  BY <1>8 DEF ToPost
  <2>2. snd[s].sid \in Party \cup {None}  BY <1>1 DEF SndT, Party
  <2> QED  BY <1>3, <1>4, <1>5, <1>8, <2>1, <2>2 DEF Row, RowT
<1>9. CASE snd[s].pc \in {"answer", "seal", "noise"}
  <2>1. snd[s].sid \in Receiver \cup {None} /\ snd[s].sid \in Party \cup {None}
    BY <1>1 DEF SndT, Party
  <2>2. CASE snd[s].pc = "answer"
    <3>1. ToPost(s) = Row(snd[s].slot, "s", snd[s].sid, s, s, snd[s].sid)  BY <2>2 DEF ToPost
    <3> QED  BY <1>3, <1>4, <1>5, <2>1, <2>2, <3>1 DEF Row, RowT
  <2>3. CASE snd[s].pc = "seal"
    <3>1. ToPost(s) = Row(snd[s].slot, "t", snd[s].sid, s, s, snd[s].sid)  BY <2>3 DEF ToPost
    <3> QED  BY <1>3, <1>4, <1>5, <2>1, <2>3, <3>1 DEF Row, RowT
  <2>4. CASE snd[s].pc = "noise"
    <3>1. ToPost(s) = Row(snd[s].slot, "t", snd[s].sid, s, None, None)  BY <2>4 DEF ToPost
    <3> QED  BY <1>3, <1>4, <1>5, <2>1, <2>4, <3>1 DEF Row, RowT
  <2> QED  BY <1>9, <2>2, <2>3, <2>4
<1> QED  BY <1>6, <1>7, <1>8, <1>9 DEF PostPcs

\* What a receiver has to say where it stands.
LEMMA ToPostRIs ==
    ASSUME Types, ReceiverInv, NEW r \in Receiver, rcv[r].pc \in PostPcsR
    PROVE  /\ ToPostR(r) \in RowT /\ ToPostR(r).by = r /\ ToPostR(r).slot = rcv[r].slot
           /\ ToPostR(r).code = Words(r)
           /\ rcv[r].pc = "open" => ToPostR(r).key = "r" /\ ToPostR(r).sid = r
           /\ rcv[r].pc = "confirm" => /\ ToPostR(r).key = "c" /\ ToPostR(r).sid = r
                                       /\ ToPostR(r).peer = rcv[r].peer
           /\ rcv[r].pc = "back" => ToPostR(r).key = "b" /\ ToPostR(r).sid = r
           /\ rcv[r].pc = "xtra" => ToPostR(r).key = "x" /\ ToPostR(r).sid = r
           /\ rcv[r].pc = "mr" => ToPostR(r).key = "mr" /\ ToPostR(r).sid = None
<1>1. rcv[r] \in RcvT  BY DEF Types
<1>2. rcv[r].slot \in Slot  BY DEF ReceiverInv, ReceiverShape, PostPcsR
<1>3. r \in Party /\ r \in Receiver \cup {None} /\ None \in Receiver \cup {None}
      /\ None \in Party \cup {None} /\ Words(r) \in Sender \cup {None}
      /\ rcv[r].peer \in Party \cup {None}
  BY <1>1 DEF Party, Words, RcvT
<1>4. {"r", "c", "b", "x", "mr"} \subseteq AllKeys  BY DEF AllKeys, SessionKeys
<1>5. CASE rcv[r].pc = "open"
  <2>1. ToPostR(r) = Row(rcv[r].slot, "r", r, r, Words(r), None)  BY <1>5 DEF ToPostR
  <2> QED  BY <1>2, <1>3, <1>4, <1>5, <2>1 DEF Row, RowT
<1>6. CASE rcv[r].pc = "confirm"
  <2>1. ToPostR(r) = Row(rcv[r].slot, "c", r, r, Words(r), rcv[r].peer)  BY <1>6 DEF ToPostR
  <2> QED  BY <1>2, <1>3, <1>4, <1>6, <2>1 DEF Row, RowT
<1>7. CASE rcv[r].pc = "back"
  <2>1. ToPostR(r) = Row(rcv[r].slot, "b", r, r, Words(r), rcv[r].peer)  BY <1>7 DEF ToPostR
  <2> QED  BY <1>2, <1>3, <1>4, <1>7, <2>1 DEF Row, RowT
<1>8. CASE rcv[r].pc = "xtra"
  <2>1. ToPostR(r) = Row(rcv[r].slot, "x", r, r, Words(r), rcv[r].peer)  BY <1>8 DEF ToPostR
  <2> QED  BY <1>2, <1>3, <1>4, <1>8, <2>1 DEF Row, RowT
<1>9. CASE rcv[r].pc = "mr"
  <2>1. ToPostR(r) = Row(rcv[r].slot, "mr", None, r, Words(r), rcv[r].peer)  BY <1>9 DEF ToPostR
  <2> QED  BY <1>2, <1>3, <1>4, <1>9, <2>1 DEF Row, RowT
<1> QED  BY <1>5, <1>6, <1>7, <1>8, <1>9 DEF PostPcsR

\* A POST under way, read as a row of the table.
LEMMA PendingRow ==
    ASSUME Types, SenderInv, ReceiverInv, PendingInv, NEW p \in Party, req[p] # None
    PROVE  /\ req[p] \in ReqT /\ req[p].row \in RowT /\ req[p].row.by = p
           /\ RowShape(req[p].row) /\ RowTrue(req[p].row)
           /\ p \in Sender /\ req[p].row.sid # None => rcv[req[p].row.sid].pc \notin Early
           /\ p \in Receiver => req[p].row.sid \in {p, None}
           /\ p \in Receiver /\ req[p].row.key \in {"r", "s", "t"} => req[p].row.key = "r"
           /\ p \in Receiver /\ req[p].row.key = "b" => rcv[p].pc = "back"
           /\ p \in Sender => req[p].row.key \in {"own", "ms", "s", "t", "tkt"}
<1>1. req[p] \in ReqT /\ req[p].row \in RowT  BY DEF Types, ReqT
<1>2. CASE p \in Sender
  <2>1. snd[p].pc \in PostPcs /\ Like(req[p].row, ToPost(p))  BY <1>2 DEF PendingInv
  <2>2. p \notin Receiver /\ p # None /\ None \notin Receiver  BY <1>2, Consts
  <2>3. SenderShape(p) /\ snd[p] \in SndT  BY <1>2 DEF SenderInv, Types
  <2>4. CASE snd[p].pc \in {"claim", "reclaim"}
    <3>1. req[p].row.key \in {"own", "ms"} /\ req[p].row.sid = None /\ req[p].row.by = p
      BY <1>2, <2>1, <2>4, ToPostIs DEF Like, SameId
    <3> QED  BY <1>1, <1>2, <2>2, <3>1 DEF RowShape, RowTrue
  <2>5. CASE snd[p].pc = "answer"
    <3>1. req[p].row.key = "s" /\ req[p].row.sid = snd[p].sid /\ req[p].row.by = p
      BY <1>2, <2>1, <2>5, ToPostIs DEF Like, SameId
    <3>2. snd[p].sid \in Receiver /\ rcv[snd[p].sid].pc \notin Early
      BY <2>3, <2>5 DEF SenderShape, SessionPcs
    <3> QED  BY <1>1, <1>2, <2>2, <3>1, <3>2 DEF RowShape, RowTrue
  <2>6. CASE snd[p].pc \in {"seal", "noise"}
    <3>1. /\ req[p].row.key = "t" /\ req[p].row.sid = snd[p].sid /\ req[p].row.by = p
          /\ req[p].row.code # None => snd[p].pc = "seal" /\ req[p].row.code = p
      BY <1>2, <2>1, <2>6, ToPostIs DEF Like, SameId
    <3>2. snd[p].sid \in Receiver /\ rcv[snd[p].sid].pc \notin Early
      BY <2>3, <2>6 DEF SenderShape, SessionPcs
    <3>3. snd[p].pc = "seal" => Proven(p, snd[p].sid)  BY <2>3 DEF SenderShape
    <3> QED  BY <1>1, <1>2, <2>2, <3>1, <3>2, <3>3 DEF RowShape, RowTrue
  <2>7. CASE snd[p].pc = "v1seal"
    <3>1. /\ req[p].row.key = "tkt" /\ req[p].row.sid = None /\ req[p].row.by = p
          /\ req[p].row.code = p /\ req[p].row.slot = snd[p].slot
      BY <1>2, <2>1, <2>7, ToPostIs DEF Like, SameId
    <3>2. snd[p].ver = "v1" /\ snd[p].sid # None  BY <2>3, <2>7 DEF SenderShape
    <3>3. V1Spoken(req[p].row.slot)  BY <1>2, <3>1, <3>2 DEF V1Spoken
    <3> QED  BY <1>1, <1>2, <2>2, <3>1, <3>3 DEF RowShape, RowTrue
  <2> QED  BY <2>1, <2>4, <2>5, <2>6, <2>7 DEF PostPcs
<1>3. CASE p \in Receiver
  <2>1. rcv[p].pc \in PostPcsR /\ Like(req[p].row, ToPostR(p))  BY <1>3 DEF PendingInv
  <2>2. p \notin Sender /\ p # None  BY <1>3, Consts
  <2>3. req[p].row.by = p /\ req[p].row.code = Words(p)
    BY <1>3, <2>1, ToPostRIs DEF Like, SameId
  <2>4. CASE rcv[p].pc = "mr"
    <3>1. req[p].row.key = "mr" /\ req[p].row.sid = None
      BY <1>3, <2>1, <2>4, ToPostRIs DEF Like, SameId
    <3> QED  BY <1>1, <1>3, <2>2, <2>3, <3>1 DEF RowShape, RowTrue
  <2>5. CASE rcv[p].pc \in {"open", "confirm", "back", "xtra"}
    <3>1. /\ req[p].row.key \in {"r", "c", "b", "x"} /\ req[p].row.sid = p
          /\ req[p].row.key = "b" => rcv[p].pc = "back"
          /\ req[p].row.key = "c" => rcv[p].pc = "confirm" /\ req[p].row.peer = rcv[p].peer
      BY <1>3, <2>1, <2>5, ToPostRIs DEF Like, SameId
    <3> QED  BY <1>1, <1>3, <2>2, <2>3, <3>1 DEF RowShape, RowTrue, Late
  <2> QED  BY <2>1, <2>4, <2>5 DEF PostPcsR
<1> QED  BY <1>2, <1>3 DEF Party

\* A row that passes the checks gets its stamp.
LEMMA StampedIs ==
    ASSUME Types, RowsInv, NEW row \in RowT, row.key \in SessionKeys => OwnRow(row.slot) # {}
    PROVE  /\ Stamped(row) \in RowT /\ Like(Stamped(row), row)
           /\ row.key = "own" => Stamped(row).at = now /\ Stamped(row).exp = now + Lease
           /\ row.key \in SessionKeys => Stamped(row).exp = RzV2Expiry(Created(row.slot))
<1>1. now \in Nat /\ Lease \in Nat /\ Ttl \in Nat  BY NowType, Consts
<1>2. CASE row.key = "own"
  <2>1. "own" \notin SessionKeys  BY DEF SessionKeys
  <2>2. now + Lease \in Nat  BY <1>1
  <2>3. Stamped(row) = [row EXCEPT !.at = now, !.exp = now + Lease]  BY <1>2 DEF Stamped
  <2> QED  BY <1>1, <1>2, <2>1, <2>2, <2>3 DEF RowT, Like, SameId
<1>3. CASE row.key \in SessionKeys
  <2>1. PICK own : own \in OwnRow(row.slot)  BY <1>3
  <2>2. Created(row.slot) = own.at /\ own.at \in Nat  BY <2>1, OneOwner
  <2>3. RzV2Expiry(Created(row.slot)) \in Nat  BY <1>1, <2>2, ExpiryIs
  <2>4. row.key # "own"  BY <1>3 DEF SessionKeys
  <2>5. Stamped(row) = [row EXCEPT !.exp = RzV2Expiry(Created(row.slot))]
    BY <1>3, <2>4 DEF Stamped
  <2> QED  BY <1>3, <2>3, <2>4, <2>5 DEF RowT, Like, SameId
<1>4. CASE row.key # "own" /\ row.key \notin SessionKeys
  <2>1. now + Ttl \in Nat  BY <1>1
  <2>2. Stamped(row) = [row EXCEPT !.exp = now + Ttl]  BY <1>4 DEF Stamped
  <2> QED  BY <1>4, <2>1, <2>2 DEF RowT, Like, SameId
<1> QED  BY <1>2, <1>3, <1>4

LEMMA StatusOk ==
    ASSUME NEW row \in RowT
    PROVE  /\ PostStatus(row) \in Answers \ {"lost"}
           /\ PostStatus(row) = "ok" /\ row.key \in SessionKeys => OwnRow(row.slot) # {}
           /\ PostStatus(row) = "ok" /\ row.key \in {"s", "t"} => Owns(row.by, row.slot)
<1>1. CASE row.key = "own"
  <2>1. PostStatus(row) \in {"full", "conflict", "ok"}  BY <1>1 DEF PostStatus, SessionKeys
  <2>2. row.key \notin SessionKeys /\ row.key \notin {"s", "t"}  BY <1>1 DEF SessionKeys
  <2> QED  BY <2>1, <2>2 DEF Answers
<1>2. CASE row.key \in SessionKeys
  <2>1. row.key # "own"  BY <1>2 DEF SessionKeys
  <2>2. PostStatus(row) \in {"full", "notfound", "forbidden", "gone", "ok"}
    BY <1>2, <2>1 DEF PostStatus
  <2>3. PostStatus(row) = "ok" =>
          OwnRow(row.slot) # {} /\ (row.key \in {"s", "t"} => Owns(row.by, row.slot))
    BY <1>2, <2>1 DEF PostStatus
  <2> QED  BY <2>2, <2>3 DEF Answers
<1>3. CASE row.key # "own" /\ row.key \notin SessionKeys
  <2>1. PostStatus(row) \in {"full", "conflict", "ok"}  BY <1>3 DEF PostStatus
  <2>2. row.key \notin {"s", "t"}  BY <1>3 DEF SessionKeys
  <2> QED  BY <1>3, <2>1, <2>2 DEF Answers
<1> QED  BY <1>1, <1>2, <1>3

-----------------------------------------------------------------------------
(* The steps of the table, of the receivers and of the senders.            *)

\* p's POST goes in.
Lands(p) ==
    /\ req[p] # None /\ req[p].status = "ok" /\ SameKey(p) = {}
    /\ rows' = rows \cup {req[p].row}

\* A payload that its receiver may still come for, and what excuses its going.
Wanted(t) == t.key = "t" /\ t.code # None /\ Owns(t.by, t.slot) /\ Get(t.slot, "r", t.sid) # {}
Collected(t) ==
    \/ rcv'[t.sid].got = t.by
    \/ snd'[t.by].why \in {"cancelled", "impatient", "failures"}
    \/ restarts > 0 \/ lost[t.by] > 0
    \/ V1Spoken(t.slot)

\* Rows go; the claim of a party with a POST under way stays, and so does a
\* payload that is wanted.
Drops ==
    /\ rows' \subseteq rows
    /\ \A own \in rows \ rows' :
         own.key = "own" /\ Live(own) => V1Spoken(own.slot) \/ req[own.by] = None
    /\ \A t \in rows \ rows' : Wanted(t) => Collected(t)

RowsMove ==
    \/ Drops
    \/ \E p \in Party :
         /\ Lands(p)
         /\ p \in Receiver => rcv'[p].pc \notin Early
         /\ p \in Receiver /\ req[p].row.key = "b" /\ faults' = 0 => rcv'[p].replied
         /\ \A sid \in Receiver :
              p \in Sender /\ req[p].row.key = "t" /\ req[p].row.code # None /\ sid = req[p].row.sid
                => Waits(p, sid)'
    \/ \E slot \in Slot : OwnRow(slot) # {} /\ rows' = Touched(slot)

\* Words once typed stay, and so does the peer once it is answered.
ReceiversMove == \A r \in Receiver :
    /\ rcv[r].pc # "idle" => rcv'[r].pc # "idle" /\ rcv'[r].words = rcv[r].words
    /\ rcv[r].pc \notin Early => rcv'[r].pc \notin Early
    /\ rcv[r].pc \in Late => rcv'[r].pc \in Late /\ rcv'[r].peer = rcv[r].peer
    /\ rcv[r].replied => rcv'[r].replied

\* What a v1 sender has done stays done, and a sender that waits for a receiver
\* goes on waiting, or stops serving.
SendersMove == \A s \in Sender :
    /\ snd[s].ver = "v1" /\ snd[s].sid # None =>
         snd'[s].ver = "v1" /\ snd'[s].slot = snd[s].slot /\ snd'[s].sid = snd[s].sid
    /\ \A sid \in Receiver : Waits(s, sid) => Waits(s, sid)'

\* p's POST passes its checks, or not.
Asks(p) ==
    /\ \E row \in RowT :
         /\ row.by = p
         /\ req'[p] = [status |-> PostStatus(row),
                       row |-> IF PostStatus(row) = "ok" THEN Stamped(row) ELSE row]
    /\ rows' = rows /\ now' = now /\ snd' = snd /\ rcv' = rcv

RequestsMove == \A p \in Party : req'[p] # None => req'[p] = req[p] \/ Asks(p)

\* Time moves when no POST is under way.
ClockMoves == now' = now \/ (now' = now + 1 /\ rows' = rows /\ \A p \in Party : req'[p] = None)

\* What an answer does to the table.
LEMMA AnswerIs ==
    ASSUME Types, NEW p \in Party, NEW v, Answer(p, v)
    PROVE  /\ req[p] # None /\ req' = [req EXCEPT ![p] = None]
           /\ rows' = rows \/ Lands(p)
           /\ v = "ok" => Lands(p)
           /\ faults' \in Nat /\ faults <= faults'
           /\ faults' = 0 => faults = 0 /\ (v # "ok" => rows' = rows)
<1>1. req[p] # None /\ req' = [req EXCEPT ![p] = None] /\ faults \in Nat
  BY DEF Answer, Types
<1>2. req[p].status # "lost"  BY <1>1 DEF Types, ReqT
<1>3. RzClaim(p) = rows \/ (RzClaim(p) = rows \cup {req[p].row} /\ req[p].status = "ok" /\ SameKey(p) = {})
  BY DEF RzClaim
<1>4. CASE /\ v = IF req[p].status # "ok" THEN req[p].status
                  ELSE IF SameKey(p) = {} THEN "ok" ELSE "conflict"
           /\ rows' = RzClaim(p) /\ UNCHANGED faults
  <2>1. v = "ok" => req[p].status = "ok" /\ SameKey(p) = {}  BY <1>4
  <2>2. v # "ok" => rows' = rows  BY <1>4 DEF RzClaim
  <2>3. v = "ok" => rows' = rows \cup {req[p].row}  BY <1>4, <2>1 DEF RzClaim
  <2> QED  BY <1>1, <1>4, <2>1, <2>2, <2>3 DEF Lands
<1>5. CASE v = "lost" /\ faults' = faults + 1 /\ rows' \in {rows, RzClaim(p)}
  <2>1. rows' = rows \/ Lands(p)  BY <1>1, <1>3, <1>5 DEF Lands
  <2> QED  BY <1>1, <1>5, <2>1
<1> QED  BY <1>4, <1>5 DEF Answer

TouchedRow(row, slot, e) ==
    IF row.slot = slot /\ Live(row) /\ row.exp < e THEN [row EXCEPT !.exp = e] ELSE row

LEMMA TouchedRowIs ==
    ASSUME NEW row \in RowT, NEW slot, NEW e \in Nat
    PROVE  LET x == TouchedRow(row, slot, e) IN
           /\ x \in RowT /\ Like(x, row) /\ x.at = row.at /\ row.exp <= x.exp
           /\ x.exp = row.exp \/ (x.exp = e /\ row.slot = slot /\ Live(row))
           /\ row.slot = slot /\ Live(row) => e <= x.exp
<1>1. row.exp \in Nat  BY DEF RowT
<1>2. CASE row.slot = slot /\ Live(row) /\ row.exp < e
  <2>1. TouchedRow(row, slot, e) = [row EXCEPT !.exp = e]  BY <1>2 DEF TouchedRow
  <2> QED  BY <1>1, <1>2, <2>1 DEF RowT, Like, SameId
<1>3. CASE ~(row.slot = slot /\ Live(row) /\ row.exp < e)
  <2>1. TouchedRow(row, slot, e) = row  BY <1>3 DEF TouchedRow
  <2> QED  BY <1>1, <1>3, <2>1 DEF Like, SameId
<1> QED  BY <1>2, <1>3

\* A renewal: every row is still there, under the same name, and none is
\* carried past the ceiling of the slot's owner.
LEMMA TouchIs ==
    ASSUME Types, RowsInv, NEW slot \in Slot, OwnRow(slot) # {}, rows' = Touched(slot)
    PROVE  \E own \in OwnRow(slot), e \in Nat :
             /\ rows' = {TouchedRow(row, slot, e) : row \in rows}
             /\ e <= now + Lease /\ e <= own.at + Ceiling
             /\ e \in {now + Lease, own.at + Ceiling}
<1>1. PICK own : own \in OwnRow(slot)  OBVIOUS
<1>2. Created(slot) = own.at /\ own.at \in Nat  BY <1>1, OneOwner
<1>3. PICK e : e = RzV2Expiry(Created(slot))  OBVIOUS
<1>4. /\ e \in Nat /\ e <= now + Lease /\ e <= own.at + Ceiling
      /\ e \in {now + Lease, own.at + Ceiling}
  BY <1>2, <1>3, ExpiryIs, NowType
<1>5. Touched(slot) = {TouchedRow(row, slot, e) : row \in rows}
  BY <1>3 DEF Touched, TouchedRow
<1> QED  BY <1>1, <1>4, <1>5

\* What a row tells of the parties stays true.
LEMMA TruthStays ==
    ASSUME ReceiversMove, SendersMove, NEW row \in RowT, RowShape(row), RowTrue(row),
           row.key \in {"r", "c", "b", "x"} => rcv[row.by].pc # "idle"
    PROVE  RowTrue(row)'
<1>1. row.key \in {"r", "c", "b", "x"} => row.code = Words(row.by)'
  BY DEF RowTrue, RowShape, ReceiversMove, Words
<1>2. row.key = "c" => rcv'[row.by].peer = row.peer /\ rcv'[row.by].pc \in Late
  BY DEF RowTrue, RowShape, ReceiversMove
<1>3. row.key = "t" /\ row.code # None => Proven(row.code, row.sid)'
  <2>1. SUFFICES ASSUME row.key = "t", row.code # None PROVE Proven(row.code, row.sid)'
    OBVIOUS
  <2>2. row.sid \in Receiver /\ Proven(row.code, row.sid)  BY <2>1 DEF RowTrue, RowShape
  <2> QED  BY <2>2 DEF Proven, Words, ReceiversMove, Late
<1>4. row.key = "tkt" => V1Spoken(row.slot)'
  BY DEF RowTrue, SendersMove, V1Spoken
<1> QED  BY <1>1, <1>2, <1>3, <1>4 DEF RowTrue

LEMMA SpokenStays ==
    ASSUME SendersMove, NEW slot, V1Spoken(slot) PROVE V1Spoken(slot)'
  BY DEF SendersMove, V1Spoken

\* The row that lands, by the name it had as a request.
LEMMA LandsAs ==
    ASSUME Types, SenderInv, ReceiverInv, PendingInv, PassedInv, NEW p \in Party, Lands(p)
    PROVE  \E x \in RowT :
             /\ x = req[p].row /\ rows' = rows \cup {x} /\ x.by = p
             /\ RowShape(x) /\ RowTrue(x)
             /\ \A q \in rows : ~SameId(q, x)
             /\ p \in Sender /\ x.sid # None => rcv[x.sid].pc \notin Early
             /\ p \in Receiver => x.sid \in {p, None} /\ rcv[p].pc # "idle"
             /\ p \in Receiver /\ x.key \in {"r", "s", "t"} => x.key = "r"
             /\ x.key = "own" => x.at = now /\ x.exp = now + Lease
             /\ x.key \in SessionKeys => Fits(x)
             /\ x.key \in {"s", "t"} =>
                  \/ V1Spoken(x.slot)
                  \/ \E own \in OwnRow(x.slot) : own.by = p /\ x.exp \in {now + Lease, own.at + Ceiling}
<1>1. PICK x : x = req[p].row  OBVIOUS
<1>2. req[p] # None /\ req[p].status = "ok" /\ SameKey(p) = {} /\ rows' = rows \cup {x}
  BY <1>1 DEF Lands
<1>3. /\ x \in RowT /\ x.by = p /\ RowShape(x) /\ RowTrue(x)
      /\ p \in Sender /\ x.sid # None => rcv[x.sid].pc \notin Early
      /\ p \in Receiver => x.sid \in {p, None}
      /\ p \in Receiver /\ x.key \in {"r", "s", "t"} => x.key = "r"
  BY <1>1, <1>2, PendingRow
<1>4. \A q \in rows : ~SameId(q, x)  BY <1>1, <1>2 DEF SameKey, SameId
<1>5. p \in Receiver => rcv[p].pc # "idle"  BY <1>2 DEF PendingInv, PostPcsR
<1>6. /\ x.key = "own" => x.at = now /\ x.exp = now + Lease
      /\ x.key \in SessionKeys => Fits(x)
      /\ x.key \in {"s", "t"} =>
           \/ V1Spoken(x.slot)
           \/ \E own \in OwnRow(x.slot) : own.by = p /\ x.exp \in {now + Lease, own.at + Ceiling}
  BY <1>1, <1>2 DEF PassedInv
<1> QED  BY <1>1, <1>2, <1>3, <1>4, <1>5, <1>6

-----------------------------------------------------------------------------
(* The parts of the invariant that rest on the moves alone.                *)

Base == Types /\ RowsInv /\ SenderInv /\ ReceiverInv /\ PendingInv /\ PassedInv

LEMMA RowsKept ==
    ASSUME Base, RowsMove, ReceiversMove, SendersMove
    PROVE  rows' \subseteq RowT /\ RowsInv'
<1> USE DEF Base
<1>1. \A row \in rows : row \in RowT /\ RowTrue(row)' /\ (row.sid # None => rcv'[row.sid].pc \notin Early)
  <2> SUFFICES ASSUME NEW row \in rows
               PROVE  row \in RowT /\ RowTrue(row)' /\ (row.sid # None => rcv'[row.sid].pc \notin Early)
    OBVIOUS
  <2>1. row \in RowT /\ RowShape(row) /\ RowTrue(row)  BY DEF Types, RowsInv
  <2>2. row.sid # None => row.sid \in Receiver /\ rcv[row.sid].pc \notin Early
    BY <2>1 DEF RowsInv, RowT
  <2>3. row.key \in {"r", "c", "b", "x"} => rcv[row.by].pc # "idle"
    BY <2>1, <2>2, Consts DEF RowShape, Early
  <2> QED  BY <2>1, <2>2, <2>3, TruthStays DEF ReceiversMove
<1>2. \A row \in rows : RowShape(row)  BY DEF RowsInv
<1>3. CASE Drops
  BY <1>1, <1>2, <1>3 DEF Drops, RowsInv
<1>4. ASSUME NEW p \in Party, Lands(p), p \in Receiver => rcv'[p].pc \notin Early
      PROVE  rows' \subseteq RowT /\ RowsInv'
  <2>1. PICK x \in RowT :
             /\ rows' = rows \cup {x} /\ x.by = p
             /\ RowShape(x) /\ RowTrue(x)
             /\ \A q \in rows : ~SameId(q, x)
             /\ p \in Sender /\ x.sid # None => rcv[x.sid].pc \notin Early
             /\ p \in Receiver => x.sid \in {p, None} /\ rcv[p].pc # "idle"
    BY <1>4, LandsAs
  <2>2. x.key \in {"r", "c", "b", "x"} => rcv[x.by].pc # "idle"
    <3>1. SUFFICES ASSUME x.key \in {"r", "c", "b", "x"} PROVE rcv[x.by].pc # "idle"  OBVIOUS
    <3>2. x.by \in Receiver  BY <2>1, <3>1 DEF RowShape
    <3> QED  BY <2>1, <3>2
  <2>3. RowTrue(x)'  BY <2>1, <2>2, TruthStays
  <2>4. x.sid # None => rcv'[x.sid].pc \notin Early
    <3>1. SUFFICES ASSUME x.sid # None PROVE rcv'[x.sid].pc \notin Early  OBVIOUS
    <3>2. x.sid \in Receiver  BY <3>1 DEF RowT
    <3>3. CASE p \in Sender  BY <2>1, <3>1, <3>2, <3>3 DEF ReceiversMove
    <3>4. CASE p \in Receiver  BY <1>4, <2>1, <3>1, <3>4
    <3> QED  BY <3>3, <3>4 DEF Party
  <2>5. \A a, b \in rows' : SameId(a, b) => a = b
    BY <2>1 DEF RowsInv, SameId
  <2> QED  BY <1>1, <1>2, <2>1, <2>3, <2>4, <2>5 DEF RowsInv
<1>5. ASSUME NEW slot \in Slot, OwnRow(slot) # {}, rows' = Touched(slot)
      PROVE  rows' \subseteq RowT /\ RowsInv'
  <2>1. PICK e \in Nat : rows' = {TouchedRow(row, slot, e) : row \in rows}  BY <1>5, TouchIs
  <2>2. \A row \in rows : TouchedRow(row, slot, e) \in RowT /\ Like(TouchedRow(row, slot, e), row)
    BY <1>1, TouchedRowIs
  <2>3. \A x \in rows' : \E row \in rows : x = TouchedRow(row, slot, e) /\ x \in RowT /\ Like(x, row)
    BY <2>1, <2>2
  <2>4. \A a, b \in rows' : SameId(a, b) => a = b
    <3> SUFFICES ASSUME NEW a \in rows', NEW b \in rows', SameId(a, b) PROVE a = b  OBVIOUS
    <3>1. PICK ra \in rows : a = TouchedRow(ra, slot, e) /\ Like(a, ra)  BY <2>3
    <3>2. PICK rb \in rows : b = TouchedRow(rb, slot, e) /\ Like(b, rb)  BY <2>3
    <3>3. SameId(ra, rb)  BY <3>1, <3>2 DEF Like, SameId
    <3>4. ra = rb  BY <3>3 DEF RowsInv
    <3> QED  BY <3>1, <3>2, <3>4
  <2>5. \A x \in rows' : RowShape(x) /\ RowTrue(x)' /\ (x.sid # None => rcv'[x.sid].pc \notin Early)
    <3> SUFFICES ASSUME NEW x \in rows'
                 PROVE  RowShape(x) /\ RowTrue(x)' /\ (x.sid # None => rcv'[x.sid].pc \notin Early)
      OBVIOUS
    <3>1. PICK row \in rows : x \in RowT /\ Like(x, row)  BY <2>3
    <3>2. RowShape(x)  BY <1>2, <3>1 DEF Like, SameId, RowShape
    <3>3. RowTrue(x)'  BY <1>1, <3>1 DEF Like, SameId, RowTrue
    <3> QED  BY <1>1, <3>1, <3>2, <3>3 DEF Like, SameId
  <2> QED  BY <2>3, <2>4, <2>5 DEF RowsInv
<1> QED  BY <1>3, <1>4, <1>5 DEF RowsMove

\* The live claims after a step: one that was there, or the one that has just
\* been made.
LEMMA ClaimsAfter ==
    ASSUME Base, RowsMove, ClockMoves, now' \in Nat, NEW slot, NEW own \in OwnRow(slot)'
    PROVE  \/ \E o \in OwnRow(slot) : o.at = own.at
           \/ own.at = now /\ now' = now
<1> USE DEF Base
<1>1. own \in rows' /\ own.slot = slot /\ own.key = "own" /\ own.sid = None /\ own.exp > now'
  BY DEF OwnRow, Get, Live
<1>2. now \in Nat /\ now <= now'  BY NowType DEF ClockMoves
<1>3. own \in rows => own \in OwnRow(slot)
  <2>1. SUFFICES ASSUME own \in rows PROVE own \in OwnRow(slot)  OBVIOUS
  <2>2. own.exp \in Nat  BY <2>1 DEF Types, RowT
  <2> QED  BY <1>1, <1>2, <2>1, <2>2 DEF OwnRow, Get, Live
<1>4. CASE own \in rows  BY <1>3, <1>4
<1>5. ASSUME NEW p \in Party, Lands(p), own \notin rows
      PROVE  own.at = now /\ now' = now
  <2>1. PICK x \in RowT : rows' = rows \cup {x} /\ (x.key = "own" => x.at = now /\ x.exp = now + Lease)
    BY <1>5, LandsAs
  <2>2. own = x /\ rows' # rows  BY <1>1, <1>5, <2>1
  <2> QED  BY <1>1, <1>2, <2>1, <2>2 DEF ClockMoves
<1>6. ASSUME NEW sl \in Slot, OwnRow(sl) # {}, rows' = Touched(sl)
      PROVE  \E o \in OwnRow(slot) : o.at = own.at
  <2>1. PICK e \in Nat : rows' = {TouchedRow(row, sl, e) : row \in rows}  BY <1>6, TouchIs
  <2>2. PICK o \in rows : own = TouchedRow(o, sl, e)  BY <1>1, <2>1
  <2>3. o \in RowT  BY DEF Types
  <2>4. /\ Like(own, o) /\ own.at = o.at
        /\ own.exp = o.exp \/ Live(o)
    BY <2>2, <2>3, TouchedRowIs
  <2>5. Live(o)  BY <1>1, <1>2, <2>3, <2>4 DEF Live, RowT
  <2>6. o \in OwnRow(slot)  BY <1>1, <2>4, <2>5 DEF OwnRow, Get, Like, SameId
  <2> QED  BY <2>4, <2>6
<1>7. CASE Drops
  <2>1. own \in rows  BY <1>1, <1>7 DEF Drops
  <2> QED  BY <1>4, <2>1
<1>8. CASE own \notin rows
  BY <1>5, <1>6, <1>7, <1>8 DEF RowsMove
<1> QED  BY <1>4, <1>8

LEMMA FitsStays ==
    ASSUME Base, RowsMove, ClockMoves, now' \in Nat, NEW row \in RowT, Fits(row)
    PROVE  Fits(row)'
<1>1. now \in Nat /\ now <= now' /\ row.exp \in Nat  BY NowType DEF ClockMoves, Base, RowT
<1>2. row.exp <= now' + Lease  BY <1>1, Consts DEF Fits
<1>3. ASSUME NEW own \in OwnRow(row.slot)' PROVE row.exp <= own.at + Ceiling
  <2>1. CASE \E o \in OwnRow(row.slot) : o.at = own.at  BY <2>1 DEF Fits
  <2>2. CASE own.at = now  BY <1>1, <2>2, Consts DEF Fits
  <2> QED  BY <2>1, <2>2, ClaimsAfter
<1> QED  BY <1>2, <1>3 DEF Fits

LEMMA LivesKept ==
    ASSUME Base, LivesInv, RowsMove, SendersMove, ClockMoves, now' \in Nat
    PROVE  LivesInv'
<1> USE DEF Base
<1>1. now \in Nat /\ now <= now'  BY NowType DEF ClockMoves
<1>2. \A row \in rows : row \in RowT /\ row.exp \in Nat  BY DEF Types, RowT
<1>3. \A row \in rows : row.key \in SessionKeys \cup {"own"} => Fits(row)'
  BY <1>2, FitsStays DEF LivesInv
<1>4. \A t, q \in rows : (t.key = "t" /\ q.key = "r" /\ t.slot = q.slot /\ t.sid = q.sid)
                            => V1Spoken(t.slot)' \/ q.exp <= t.exp
  BY SpokenStays DEF LivesInv
<1>5. CASE Drops
  BY <1>3, <1>4, <1>5 DEF Drops, LivesInv
<1>6. ASSUME NEW p \in Party, Lands(p) PROVE LivesInv'
  <2>1. PICK x \in RowT :
             /\ rows' = rows \cup {x} /\ x.by = p /\ RowShape(x)
             /\ \A q \in rows : ~SameId(q, x)
             /\ p \in Receiver => x.sid \in {p, None} /\ rcv[p].pc # "idle"
             /\ p \in Receiver /\ x.key \in {"r", "s", "t"} => x.key = "r"
             /\ x = req[p].row
             /\ x.key = "own" => x.at = now /\ x.exp = now + Lease
             /\ x.key \in SessionKeys => Fits(x)
             /\ x.key \in {"s", "t"} =>
                  \/ V1Spoken(x.slot)
                  \/ \E own \in OwnRow(x.slot) : own.by = p /\ x.exp \in {now + Lease, own.at + Ceiling}
    BY <1>6, LandsAs
  <2>2. x.key \in SessionKeys => Fits(x)'  BY <2>1, FitsStays
  <2>3. x.key = "own" => Fits(x)'
    <3>1. SUFFICES ASSUME x.key = "own" PROVE Fits(x)'  OBVIOUS
    <3>2. x.sid = None /\ x.exp \in Nat  BY <2>1, <3>1 DEF RowShape, RowT
    <3>3. \A o \in OwnRow(x.slot) : FALSE
      BY <2>1, <3>1, <3>2 DEF OwnRow, Get, SameId
    <3>4. \A own \in OwnRow(x.slot)' : own.at = now  BY <3>3, ClaimsAfter
    <3> QED  BY <1>1, <2>1, <3>1, <3>2, <3>4, Consts DEF Fits
  <2>4. \A q \in rows : (x.key = "t" /\ q.key = "r" /\ x.slot = q.slot /\ x.sid = q.sid)
                            => V1Spoken(x.slot)' \/ q.exp <= x.exp
    <3> SUFFICES ASSUME NEW q \in rows, x.key = "t", q.key = "r", x.slot = q.slot,
                        ~V1Spoken(x.slot)'
                 PROVE  q.exp <= x.exp
      OBVIOUS
    <3>1. ~V1Spoken(x.slot)  BY SpokenStays
    <3>2. PICK own \in OwnRow(x.slot) : x.exp \in {now + Lease, own.at + Ceiling}
      BY <2>1, <3>1
    <3>3. Fits(q)  BY DEF LivesInv, SessionKeys
    <3>4. q.exp <= now + Lease /\ q.exp <= own.at + Ceiling  BY <3>2, <3>3 DEF Fits
    <3> QED  BY <3>2, <3>4
  <2>5. \A t \in rows : ~(t.key = "t" /\ x.key = "r" /\ t.sid = x.sid)
    <3> SUFFICES ASSUME NEW t \in rows, t.key = "t", x.key = "r", t.sid = x.sid PROVE FALSE
      OBVIOUS
    <3>1. x.sid = p /\ p \in Receiver  BY <2>1 DEF RowShape
    <3>2. rcv[p].pc = "open"
      <4>1. req[p] # None  BY <1>6 DEF Lands
      <4>2. rcv[p].pc \in PostPcsR /\ x.key = ToPostR(p).key
        BY <2>1, <3>1, <4>1 DEF PendingInv, Like, SameId
      <4> QED  BY <3>1, <4>2, ToPostRIs DEF PostPcsR
    <3>3. rcv[p].pc \notin Early  BY <3>1, Consts DEF RowsInv
    <3> QED  BY <3>2, <3>3 DEF Early
  <2> QED  BY <1>3, <1>4, <2>1, <2>2, <2>3, <2>4, <2>5 DEF LivesInv
<1>7. ASSUME NEW slot \in Slot, OwnRow(slot) # {}, rows' = Touched(slot) PROVE LivesInv'
  <2>1. PICK own \in OwnRow(slot), e \in Nat :
             /\ rows' = {TouchedRow(row, slot, e) : row \in rows}
             /\ e <= now + Lease /\ e <= own.at + Ceiling
    BY <1>7, TouchIs
  <2>2. \A x \in rows' : \E row \in rows :
          /\ x = TouchedRow(row, slot, e) /\ x \in RowT /\ Like(x, row) /\ row.exp <= x.exp
          /\ x.exp = row.exp \/ (x.exp = e /\ row.slot = slot /\ Live(row))
          /\ row.slot = slot /\ Live(row) => e <= x.exp
    BY <1>2, <2>1, TouchedRowIs
  <2>3. OwnRow(slot) = {own}  BY OneOwner
  <2>4. \A x \in rows' : x.key \in SessionKeys \cup {"own"} => Fits(x)'
    <3> SUFFICES ASSUME NEW x \in rows', x.key \in SessionKeys \cup {"own"} PROVE Fits(x)'
      OBVIOUS
    <3>1. PICK row \in rows : /\ x \in RowT /\ Like(x, row)
                              /\ x.exp = row.exp \/ (x.exp = e /\ row.slot = slot)
      BY <2>2
    <3>2. Fits(row)  BY <3>1 DEF LivesInv, Like, SameId
    <3>3. Fits(x)
      <4>1. CASE x.exp = row.exp  BY <3>1, <3>2, <4>1 DEF Fits, Like, SameId
      <4>2. CASE x.exp = e /\ row.slot = slot
        BY <2>1, <2>3, <3>1, <4>2 DEF Fits, Like, SameId
      <4> QED  BY <3>1, <4>1, <4>2
    <3> QED  BY <3>1, <3>3, FitsStays
  <2>5. \A t, q \in rows' : (t.key = "t" /\ q.key = "r" /\ t.slot = q.slot /\ t.sid = q.sid)
                            => V1Spoken(t.slot)' \/ q.exp <= t.exp
    <3> SUFFICES ASSUME NEW t \in rows', NEW q \in rows', t.key = "t", q.key = "r",
                        t.slot = q.slot, t.sid = q.sid, ~V1Spoken(t.slot)'
                 PROVE  q.exp <= t.exp
      OBVIOUS
    <3>1. PICK rt \in rows : /\ Like(t, rt) /\ rt.exp <= t.exp /\ t.exp \in Nat
                             /\ rt.slot = slot /\ Live(rt) => e <= t.exp
      BY <2>2 DEF RowT
    <3>2. PICK rq \in rows : /\ Like(q, rq) /\ q.exp \in Nat
                             /\ q.exp = rq.exp \/ (q.exp = e /\ rq.slot = slot /\ Live(rq))
      BY <2>2 DEF RowT
    <3>3. rq.exp <= rt.exp  BY <1>4, <3>1, <3>2 DEF Like, SameId
    <3>4. CASE q.exp = rq.exp  BY <1>2, <3>1, <3>2, <3>3, <3>4
    <3>5. CASE q.exp = e /\ rq.slot = slot /\ Live(rq)
      <4>1. rt.slot = slot /\ Live(rt)
        <5>1. rt.slot = slot  BY <3>1, <3>2, <3>5 DEF Like, SameId
        <5>2. rt.exp \in Nat /\ rq.exp \in Nat /\ rq.exp > now  BY <1>2, <3>5 DEF Live
        <5>3. rt.exp > now  BY <1>1, <3>3, <5>2
        <5> QED  BY <5>1, <5>3 DEF Live
      <4> QED  BY <3>1, <3>5, <4>1
    <3> QED  BY <3>2, <3>4, <3>5
  <2> QED  BY <2>4, <2>5 DEF LivesInv
<1> QED  BY <1>5, <1>6, <1>7 DEF RowsMove

\* The claim of a party with a POST under way is still there after the step.
LEMMA ClaimStays ==
    ASSUME Base, RowsMove, now' = now, NEW slot, NEW own \in OwnRow(slot), req[own.by] # None
    PROVE  V1Spoken(slot) \/ \E o \in OwnRow(slot)' : o.by = own.by /\ o.at = own.at
<1> USE DEF Base
<1>1. /\ own \in rows /\ own \in RowT /\ own.slot = slot /\ own.key = "own" /\ own.sid = None
      /\ own.exp > now
  BY OneOwner
<1>2. own \in rows' => own \in OwnRow(slot)'
  BY <1>1 DEF OwnRow, Get, Live
<1>3. CASE Drops  BY <1>1, <1>2, <1>3 DEF Drops, Live
<1>4. ASSUME NEW p \in Party, Lands(p) PROVE own \in rows'  BY <1>1, <1>4 DEF Lands
<1>5. ASSUME NEW sl \in Slot, OwnRow(sl) # {}, rows' = Touched(sl)
      PROVE  \E o \in OwnRow(slot)' : o.by = own.by /\ o.at = own.at
  <2>1. PICK e \in Nat : rows' = {TouchedRow(row, sl, e) : row \in rows}  BY <1>5, TouchIs
  <2>2. PICK o : o = TouchedRow(own, sl, e)  OBVIOUS
  <2>3. o \in rows'  BY <1>1, <2>1, <2>2
  <2>4. o \in RowT /\ Like(o, own) /\ o.at = own.at /\ own.exp <= o.exp  BY <1>1, <2>2, TouchedRowIs
  <2>5. o.exp > now'
    <3>1. o.exp \in Nat /\ own.exp \in Nat /\ now \in Nat  BY <1>1, <2>4, NowType DEF RowT
    <3> QED  BY <1>1, <2>4, <3>1
  <2>6. o \in OwnRow(slot)'  BY <1>1, <2>3, <2>4, <2>5 DEF OwnRow, Get, Live, Like, SameId
  <2> QED  BY <2>4, <2>6 DEF Like
<1> QED  BY <1>2, <1>3, <1>4, <1>5 DEF RowsMove

LEMMA PassedKept ==
    ASSUME Base, RowsMove, SendersMove, RequestsMove, ClockMoves, now' \in Nat
    PROVE  PassedInv'
<1> USE DEF Base
<1> DEFINE Passed(q, row) ==
      /\ row.key = "own" => row.at = now /\ row.exp = now + Lease
      /\ row.key \in SessionKeys => Fits(row)
      /\ row.key \in {"s", "t"} =>
           \/ V1Spoken(row.slot)
           \/ \E own \in OwnRow(row.slot) : own.by = q /\ row.exp \in {now + Lease, own.at + Ceiling}
<1>1. SUFFICES ASSUME NEW p \in Party, req'[p] # None, req'[p].status = "ok"
               PROVE  Passed(p, req[p].row)'
  BY DEF PassedInv
<1>2. now' = now  BY <1>1 DEF ClockMoves
<1>3. CASE req'[p] = req[p]
  <2>1. PICK x : x = req[p].row  OBVIOUS
  <2>2. req[p] # None /\ req[p].status = "ok" /\ x \in RowT
    BY <1>1, <1>3, <2>1 DEF Types, ReqT
  <2>3. Passed(p, x)  BY <2>1, <2>2 DEF PassedInv
  <2>4. x.key \in SessionKeys => Fits(x)'  BY <2>2, <2>3, FitsStays
  <2>5. x.key \in {"s", "t"} =>
           \/ V1Spoken(x.slot)'
           \/ \E own \in OwnRow(x.slot)' : own.by = p /\ x.exp \in {now' + Lease, own.at + Ceiling}
    <3> SUFFICES ASSUME x.key \in {"s", "t"}, ~V1Spoken(x.slot)'
                 PROVE  \E own \in OwnRow(x.slot)' : own.by = p /\ x.exp \in {now' + Lease, own.at + Ceiling}
      OBVIOUS
    <3>1. ~V1Spoken(x.slot)  BY SpokenStays
    <3>2. PICK own \in OwnRow(x.slot) : own.by = p /\ x.exp \in {now + Lease, own.at + Ceiling}
      BY <2>3, <3>1
    <3>3. PICK o \in OwnRow(x.slot)' : o.by = own.by /\ o.at = own.at
      BY <1>2, <2>2, <3>1, <3>2, ClaimStays
    <3> QED  BY <1>2, <3>2, <3>3
  <2>6. Passed(p, x)'  BY <1>2, <2>3, <2>4, <2>5
  <2>7. req'[p].row = x  BY <1>3, <2>1
  <2> QED  BY <2>6, <2>7
<1>4. CASE Asks(p)
  <2>1. PICK row \in RowT :
         /\ row.by = p
         /\ req'[p] = [status |-> PostStatus(row),
                       row |-> IF PostStatus(row) = "ok" THEN Stamped(row) ELSE row]
    BY <1>4 DEF Asks
  <2>2. rows' = rows /\ now' = now /\ snd' = snd  BY <1>4 DEF Asks
  <2>3. PICK x : x = Stamped(row)  OBVIOUS
  <2>4. PostStatus(row) = "ok" /\ req'[p].row = x  BY <1>1, <2>1, <2>3
  <2>5. row.key \in SessionKeys => OwnRow(row.slot) # {}  BY <2>4, StatusOk
  <2>6. /\ x \in RowT /\ Like(x, row)
        /\ row.key = "own" => x.at = now /\ x.exp = now + Lease
        /\ row.key \in SessionKeys => x.exp = RzV2Expiry(Created(row.slot))
    BY <2>3, <2>5, StampedIs
  <2>7. row.key \in SessionKeys =>
          \E own \in OwnRow(row.slot) :
            /\ OwnRow(row.slot) = {own} /\ x.exp <= now + Lease /\ x.exp <= own.at + Ceiling
            /\ x.exp \in {now + Lease, own.at + Ceiling}
    <3> SUFFICES ASSUME row.key \in SessionKeys
                 PROVE  \E own \in OwnRow(row.slot) :
            /\ OwnRow(row.slot) = {own} /\ x.exp <= now + Lease /\ x.exp <= own.at + Ceiling
            /\ x.exp \in {now + Lease, own.at + Ceiling}
      OBVIOUS
    <3>1. PICK own : own \in OwnRow(row.slot)  BY <2>5
    <3>2. OwnRow(row.slot) = {own} /\ Created(row.slot) = own.at /\ own.at \in Nat
      BY <3>1, OneOwner
    <3> QED  BY <2>6, <3>1, <3>2, ExpiryIs, NowType
  <2>8. row.key \in {"s", "t"} => Owns(p, row.slot)  BY <2>1, <2>4, StatusOk
  <2>9. Passed(p, x)
    <3>1. x.key = row.key /\ x.slot = row.slot  BY <2>6 DEF Like, SameId
    <3>2. x.key \in SessionKeys => Fits(x)  BY <2>7, <3>1 DEF Fits
    <3>3. x.key \in {"s", "t"} =>
            \E own \in OwnRow(x.slot) : own.by = p /\ x.exp \in {now + Lease, own.at + Ceiling}
      BY <2>7, <2>8, <3>1 DEF Owns, SessionKeys
    <3> QED  BY <2>6, <3>1, <3>2, <3>3
  <2>10. Fits(x) => Fits(x)'  BY <2>2 DEF Fits, OwnRow, Get, Live
  <2>11. V1Spoken(x.slot) => V1Spoken(x.slot)'  BY <2>2 DEF V1Spoken
  <2>12. OwnRow(x.slot)' = OwnRow(x.slot)  BY <2>2 DEF OwnRow, Get, Live
  <2>13. Passed(p, x)'  BY <2>2, <2>9, <2>10, <2>11, <2>12
  <2> QED  BY <2>4, <2>13
<1> QED  BY <1>1, <1>3, <1>4 DEF RequestsMove

LEMMA WaitKept ==
    ASSUME Base, WaitInv, RowsMove, SendersMove
    PROVE  WaitInv'
<1> USE DEF Base
<1>1. \A t \in rows : t.key = "t" /\ t.code # None => Waits(t.by, t.sid)'
  BY DEF WaitInv, SendersMove, RowsInv, RowShape
<1>2. CASE Drops  BY <1>1, <1>2 DEF Drops, WaitInv
<1>3. ASSUME NEW p \in Party, Lands(p),
             \A sid \in Receiver :
               p \in Sender /\ req[p].row.key = "t" /\ req[p].row.code # None /\ sid = req[p].row.sid
                 => Waits(p, sid)'
      PROVE  WaitInv'
  <2>1. PICK x \in RowT : x = req[p].row /\ rows' = rows \cup {x} /\ x.by = p /\ RowShape(x)
    BY <1>3, LandsAs
  <2>2. x.key = "t" /\ x.code # None => Waits(x.by, x.sid)'
    BY <1>3, <2>1 DEF RowShape
  <2> QED  BY <1>1, <2>1, <2>2 DEF WaitInv
<1>4. ASSUME NEW slot \in Slot, OwnRow(slot) # {}, rows' = Touched(slot) PROVE WaitInv'
  <2>1. PICK e \in Nat : rows' = {TouchedRow(row, slot, e) : row \in rows}  BY <1>4, TouchIs
  <2>2. \A row \in rows : Like(TouchedRow(row, slot, e), row)
    BY TouchedRowIs DEF Types
  <2> QED  BY <1>1, <2>1, <2>2 DEF WaitInv, Like, SameId
<1> QED  BY <1>2, <1>3, <1>4 DEF RowsMove

\* The replies on the relay are those of receivers who know they were taken.
LEMMA RepliesKept ==
    ASSUME Base, HalvesInv, RowsMove, ReceiversMove, faults' = 0 => faults = 0
    PROVE  faults' = 0 => \A row \in rows' : row.key = "b" => rcv'[row.by].replied
<1> USE DEF Base
<1> SUFFICES ASSUME faults' = 0 PROVE \A row \in rows' : row.key = "b" => rcv'[row.by].replied
  OBVIOUS
<1>1. \A row \in rows : row.key = "b" => rcv'[row.by].replied
  BY DEF HalvesInv, ReceiversMove, RowsInv, RowShape
<1>2. CASE Drops  BY <1>1, <1>2 DEF Drops
<1>3. ASSUME NEW p \in Party, Lands(p),
             p \in Receiver /\ req[p].row.key = "b" /\ faults' = 0 => rcv'[p].replied
      PROVE  \A row \in rows' : row.key = "b" => rcv'[row.by].replied
  <2>1. PICK x \in RowT : x = req[p].row /\ rows' = rows \cup {x} /\ x.by = p /\ RowShape(x)
    BY <1>3, LandsAs
  <2>2. x.key = "b" => rcv'[x.by].replied  BY <1>3, <2>1 DEF RowShape
  <2> QED  BY <1>1, <2>1, <2>2
<1>4. ASSUME NEW slot \in Slot, OwnRow(slot) # {}, rows' = Touched(slot)
      PROVE  \A row \in rows' : row.key = "b" => rcv'[row.by].replied
  <2>1. PICK e \in Nat : rows' = {TouchedRow(row, slot, e) : row \in rows}  BY <1>4, TouchIs
  <2>2. \A row \in rows : Like(TouchedRow(row, slot, e), row)
    BY TouchedRowIs DEF Types
  <2> QED  BY <1>1, <2>1, <2>2 DEF Like, SameId
<1> QED  BY <1>2, <1>3, <1>4 DEF RowsMove

\* An answer or a payload comes from the owner of its slot.
LEMMA OwnersAnswer ==
    ASSUME Base, RowsMove
    PROVE  OnlyTheOwnerAnswers
<1> USE DEF Base
<1> SUFFICES ASSUME NEW row \in rows', row.key \in {"s", "t"},
                    ~\E q \in rows : q.slot = row.slot /\ q.key = row.key /\ q.sid = row.sid
             PROVE  Owns(row.by, row.slot) \/ V1Spoken(row.slot)
  BY DEF OnlyTheOwnerAnswers
<1>1. row \notin rows  OBVIOUS
<1>2. ~Drops  BY <1>1 DEF Drops
<1>3. ASSUME NEW p \in Party, Lands(p) PROVE Owns(row.by, row.slot) \/ V1Spoken(row.slot)
  <2>1. PICK x \in RowT :
             /\ rows' = rows \cup {x} /\ x.by = p
             /\ x.key \in {"s", "t"} =>
                  \/ V1Spoken(x.slot)
                  \/ \E own \in OwnRow(x.slot) : own.by = p /\ x.exp \in {now + Lease, own.at + Ceiling}
    BY <1>3, LandsAs
  <2>2. row = x  BY <1>1, <2>1
  <2> QED  BY <2>1, <2>2 DEF Owns
<1>4. ASSUME NEW slot \in Slot, OwnRow(slot) # {}, rows' = Touched(slot) PROVE FALSE
  <2>1. PICK e \in Nat : rows' = {TouchedRow(q, slot, e) : q \in rows}  BY <1>4, TouchIs
  <2>2. \A q \in rows : Like(TouchedRow(q, slot, e), q)
    BY TouchedRowIs DEF Types
  <2> QED  BY <2>1, <2>2 DEF Like, SameId
<1> QED  BY <1>2, <1>3, <1>4 DEF RowsMove

-----------------------------------------------------------------------------
(* What a step of one sender, or of one receiver, has to show.             *)

LEMMA CountedIs ==
    ASSUME Types, CountedInv PROVE CountersKeepUp
<1> SUFFICES ASSUME NEW s \in Sender, NEW n,
                    n \in IF snd[s].pc = "down"
                          THEN IF disk[s] = None THEN {} ELSE {disk[s].done + disk[s].fail}
                          ELSE {snd[s].done + snd[s].fail}
             PROVE  given[s] + guesses[s] <= n + lost[s] + IF snd[s].pc = "await_b" THEN 1 ELSE 0
  BY DEF CountersKeepUp
<1>1. /\ snd[s].done \in Nat /\ snd[s].fail \in Nat /\ given[s] \in Nat /\ guesses[s] \in Nat
      /\ lost[s] \in Nat
      /\ disk[s] # None => disk[s].done \in Nat /\ disk[s].fail \in Nat
  <2>1. snd[s] \in SndT /\ (disk[s] # None => disk[s] \in DiskT)  BY DEF Types
  <2> QED  BY <2>1 DEF Types, SndT, DiskT
<1>2. Counted(s)  BY DEF CountedInv
<1>3. CASE snd[s].pc = "down"
  <2>1. n = disk[s].done + disk[s].fail /\ disk[s] # None  BY <1>3
  <2>2. n \in Nat /\ given[s] + guesses[s] <= n + lost[s]  BY <1>1, <1>2, <1>3, <2>1 DEF Counted
  <2> QED  BY <1>1, <1>3, <2>2
<1>4. CASE snd[s].pc = "await_b"
  <2>1. n = snd[s].done + snd[s].fail  BY <1>4
  <2> QED  BY <1>1, <1>2, <1>4, <2>1 DEF Counted
<1>5. CASE snd[s].pc \notin {"down", "await_b"}
  <2>1. n = snd[s].done + snd[s].fail  BY <1>5
  <2>2. n \in Nat /\ given[s] + guesses[s] <= n + lost[s]  BY <1>1, <1>2, <1>5, <2>1 DEF Counted
  <2> QED  BY <1>1, <1>5, <2>2
<1> QED  BY <1>3, <1>4, <1>5

DiskOf(s) == disk[s] # None =>
    /\ snd[s].kind = "send" /\ snd[s].pc # "idle"
    /\ snd[s].pc # "down" => disk[s].done = snd[s].done /\ disk[s].fail = snd[s].fail

Histories ==
    /\ given \in [Sender -> Nat] /\ guesses \in [Sender -> Nat] /\ lost \in [Sender -> Nat]
    /\ faults \in Nat /\ restarts \in Nat

\* A step of sender s leaves the others, and every receiver, alone.
SenderActs(s) ==
    /\ rcv' = rcv /\ now' = now
    /\ snd' \in [Sender -> SndT] /\ \A q \in Sender : q # s => snd'[q] = snd[q]
    /\ req' \in [Party -> ReqT \cup {None}] /\ \A p \in Party : p # s => req'[p] = req[p]
    /\ disk' \in [Sender -> DiskT \cup {None}] /\ \A q \in Sender : q # s => disk'[q] = disk[q]
    /\ Histories'
    /\ \A q \in Sender : q # s => given'[q] = given[q] /\ guesses'[q] = guesses[q] /\ lost'[q] = lost[q]
    /\ restarts <= restarts' /\ faults <= faults'
    /\ book' = book \/ (snd[s].reply # None /\ book' = book \cup {<<s, snd[s].reply>>})

\* The obligations of sender s itself.
SenderOwes(s) ==
    /\ SenderShape(s)'
    /\ snd[s].ver = "v1" /\ snd[s].sid # None =>
         snd'[s].ver = "v1" /\ snd'[s].slot = snd[s].slot /\ snd'[s].sid = snd[s].sid
    /\ \A sid \in Receiver : Waits(s, sid) => Waits(s, sid)'
    /\ req'[s] # None => /\ snd'[s].pc \in PostPcs /\ Like(req[s].row, ToPost(s))'
                         /\ req'[s] = req[s] \/ Asks(s)
    /\ snd'[s].reply \in {None, snd[s].reply} \/ (faults' = 0 => Mutual(s, snd[s].reply)')
    /\ DiskOf(s)' /\ Counted(s)'

\* The invariant is kept, by one of the steps of the table.
Keeps == RendezvousInv' /\ RowsMove

LEMMA SenderKeeps ==
    ASSUME RendezvousInv, NEW s \in Sender, SenderActs(s), RowsMove, SenderOwes(s)
    PROVE  Keeps
<1>1. Base /\ LivesInv /\ WaitInv /\ HalvesInv /\ DiskInv /\ CountedInv
  BY DEF RendezvousInv, Base
<1>2. ReceiversMove  BY DEF SenderActs, ReceiversMove
<1>3. SendersMove
  <2>1. \A q \in Sender : q # s => \A sid \in Receiver : Waits(q, sid) => Waits(q, sid)'
    <3> SUFFICES ASSUME NEW q \in Sender, q # s, NEW sid \in Receiver, Waits(q, sid)
                 PROVE  Waits(q, sid)'
      OBVIOUS
    <3>1. snd'[q] = snd[q] /\ lost'[q] = lost[q] /\ restarts \in Nat /\ restarts' \in Nat
          /\ restarts <= restarts'
      BY <1>1 DEF SenderActs, Histories, Base, Types
    <3> QED  BY <3>1 DEF Waits
  <2>2. \A q \in Sender : q # s => snd'[q] = snd[q]  BY DEF SenderActs
  <2> QED  BY <2>1, <2>2 DEF SendersMove, SenderOwes
<1>4. RequestsMove  BY DEF RequestsMove, SenderActs, SenderOwes
<1>5. ClockMoves /\ now' \in Nat  BY <1>1, NowType DEF ClockMoves, SenderActs, Base
<1>6. rows' \subseteq RowT /\ RowsInv'  BY <1>1, <1>2, <1>3, RowsKept
<1>7. book' \subseteq Party \X Party /\ book \subseteq book'
  <2>1. snd[s].reply \in Receiver \cup {None}  BY <1>1 DEF Base, Types, SndT
  <2>2. snd[s].reply # None => <<s, snd[s].reply>> \in Party \X Party  BY <2>1 DEF Party
  <2>3. book \subseteq Party \X Party  BY <1>1 DEF Base, Types
  <2> QED  BY <2>2, <2>3 DEF SenderActs
<1>8. Types'
  <2>1. now' \in 0..MaxTime /\ rcv' \in [Receiver -> RcvT]  BY <1>1 DEF Base, Types, SenderActs
  <2> QED  BY <1>6, <1>7, <2>1 DEF Types, SenderActs, Histories
<1>9. SenderInv'
  <2>1. \A q \in Sender : q # s => SenderShape(q)'
    <3> SUFFICES ASSUME NEW q \in Sender, q # s PROVE SenderShape(q)'  OBVIOUS
    <3>1. SenderShape(q) /\ snd'[q] = snd[q] /\ rcv' = rcv
      BY <1>1 DEF Base, SenderInv, SenderActs
    <3> QED  BY <3>1 DEF SenderShape, Proven, Words
  <2> QED  BY <2>1 DEF SenderInv, SenderOwes
<1>10. ReceiverInv'
  <2>1. rcv' = rcv  BY DEF SenderActs
  <2>2. \A r \in Receiver : ReceiverShape(r)  BY <1>1 DEF Base, ReceiverInv
  <2> QED  BY <1>7, <2>1, <2>2 DEF ReceiverInv, ReceiverShape, Words
<1>11. PendingInv'
  <2>1. \A q \in Sender : q # s /\ req'[q] # None => snd'[q].pc \in PostPcs /\ Like(req[q].row, ToPost(q))'
    <3> SUFFICES ASSUME NEW q \in Sender, q # s, req'[q] # None
                 PROVE  snd'[q].pc \in PostPcs /\ Like(req[q].row, ToPost(q))'
      OBVIOUS
    <3>1. snd'[q] = snd[q] /\ req'[q] = req[q]  BY DEF SenderActs, Party
    <3>2. ToPost(q)' = ToPost(q)  BY <3>1 DEF ToPost
    <3> QED  BY <1>1, <3>1, <3>2 DEF Base, PendingInv, Like, SameId
  <2>2. \A r \in Receiver : req'[r] # None => rcv'[r].pc \in PostPcsR /\ Like(req[r].row, ToPostR(r))'
    <3> SUFFICES ASSUME NEW r \in Receiver, req'[r] # None
                 PROVE  rcv'[r].pc \in PostPcsR /\ Like(req[r].row, ToPostR(r))'
      OBVIOUS
    <3>1. rcv' = rcv /\ req'[r] = req[r]  BY Consts DEF SenderActs, Party
    <3>2. ToPostR(r)' = ToPostR(r)  BY <3>1 DEF ToPostR, Words
    <3> QED  BY <1>1, <3>1, <3>2 DEF Base, PendingInv, Like, SameId
  <2> QED  BY <2>1, <2>2 DEF PendingInv, SenderOwes
<1>12. HalvesInv'
  <2> SUFFICES ASSUME faults' = 0 PROVE HalvesInv'  BY DEF HalvesInv
  <2>1. faults = 0  BY <1>1 DEF SenderActs, Base, Types, Histories
  <2>2. \A row \in rows' : row.key = "b" => rcv'[row.by].replied
    BY <1>1, <1>2, <2>1, RepliesKept
  <2>3. \A q \in Sender : snd[q].reply # None => Mutual(q, snd[q].reply)
    BY <1>1, <2>1 DEF HalvesInv
  <2>4. ASSUME NEW q \in Sender, snd'[q].reply # None PROVE Mutual(q, snd[q].reply)'
    <3>1. CASE snd'[q].reply = snd[q].reply
      BY <2>3, <2>4, <3>1 DEF Mutual, Words, SenderActs
    <3>2. CASE q = s  BY <2>4, <3>1, <3>2 DEF SenderOwes
    <3> QED  BY <3>1, <3>2 DEF SenderActs
  <2>5. ASSUME NEW q \in Sender, NEW r \in Receiver, <<q, r>> \in book' PROVE Mutual(q, r)'
    <3>1. Mutual(q, r)
      <4>1. CASE <<q, r>> \in book  BY <1>1, <2>1, <4>1 DEF HalvesInv
      <4>2. CASE <<q, r>> \notin book
        <5>1. snd[s].reply # None /\ <<q, r>> = <<s, snd[s].reply>>  BY <2>5, <4>2 DEF SenderActs
        <5> QED  BY <2>3, <5>1
      <4> QED  BY <4>1, <4>2
    <3> QED  BY <3>1 DEF Mutual, Words, SenderActs
  <2> QED  BY <2>2, <2>4, <2>5 DEF HalvesInv
<1>13. PassedInv'  BY <1>1, <1>3, <1>4, <1>5, PassedKept
<1>14. LivesInv'  BY <1>1, <1>3, <1>5, LivesKept
<1>15. WaitInv'  BY <1>1, <1>3, WaitKept
<1>16. DiskInv'
  <2>1. \A q \in Sender : q # s => DiskOf(q)'  BY <1>1 DEF DiskInv, DiskOf, SenderActs
  <2> QED  BY <2>1 DEF DiskInv, DiskOf, SenderOwes
<1>17. CountedInv'
  <2>1. \A q \in Sender : q # s => Counted(q)'  BY <1>1 DEF CountedInv, Counted, SenderActs
  <2> QED  BY <2>1 DEF CountedInv, SenderOwes
<1> QED
  BY <1>6, <1>8, <1>9, <1>10, <1>11, <1>12, <1>13, <1>14, <1>15, <1>16, <1>17 DEF RendezvousInv, Keeps

\* A step of receiver r leaves the others, and every sender, alone.
ReceiverActs(r) ==
    /\ snd' = snd /\ now' = now /\ disk' = disk /\ restarts' = restarts
    /\ given' = given /\ guesses' = guesses /\ lost' = lost
    /\ rcv' \in [Receiver -> RcvT] /\ \A q \in Receiver : q # r => rcv'[q] = rcv[q]
    /\ req' \in [Party -> ReqT \cup {None}] /\ \A p \in Party : p # r => req'[p] = req[p]
    /\ faults' \in Nat /\ faults <= faults'
    /\ book' = book \/ (rcv[r].got \in Sender /\ book' = book \cup {<<r, rcv[r].got>>})

ReceiverOwes(r) ==
    /\ ReceiverShape(r)'
    /\ rcv[r].pc # "idle" => rcv'[r].pc # "idle" /\ rcv'[r].words = rcv[r].words
    /\ rcv[r].pc \notin Early => rcv'[r].pc \notin Early
    /\ rcv[r].pc \in Late => rcv'[r].pc \in Late /\ rcv'[r].peer = rcv[r].peer
    /\ rcv[r].replied => rcv'[r].replied
    /\ req'[r] # None => /\ rcv'[r].pc \in PostPcsR /\ Like(req[r].row, ToPostR(r))'
                         /\ req'[r] = req[r] \/ Asks(r)

LEMMA ReceiverKeeps ==
    ASSUME RendezvousInv, NEW r \in Receiver, ReceiverActs(r), RowsMove, ReceiverOwes(r)
    PROVE  Keeps
<1>1. Base /\ LivesInv /\ WaitInv /\ HalvesInv /\ DiskInv /\ CountedInv
  BY DEF RendezvousInv, Base
<1>2. ReceiversMove  BY DEF ReceiverActs, ReceiverOwes, ReceiversMove
<1>3. SendersMove  BY DEF SendersMove, ReceiverActs, Waits
<1>4. RequestsMove  BY DEF RequestsMove, ReceiverActs, ReceiverOwes
<1>5. ClockMoves /\ now' \in Nat  BY <1>1, NowType DEF ClockMoves, ReceiverActs, Base
<1>6. rows' \subseteq RowT /\ RowsInv'  BY <1>1, <1>2, <1>3, RowsKept
<1>7. book' \subseteq Party \X Party /\ book \subseteq book'
  <2>1. rcv[r].got \in Sender => <<r, rcv[r].got>> \in Party \X Party  BY DEF Party
  <2>2. book \subseteq Party \X Party  BY <1>1 DEF Base, Types
  <2> QED  BY <2>1, <2>2 DEF ReceiverActs
<1>8. Types'
  BY <1>1, <1>6, <1>7 DEF Base, Types, ReceiverActs
<1>9. SenderInv'
  <2> SUFFICES ASSUME NEW s \in Sender PROVE SenderShape(s)'  BY DEF SenderInv
  <2>1. SenderShape(s) /\ snd'[s] = snd[s] /\ snd[s] \in SndT
    BY <1>1 DEF Base, SenderInv, ReceiverActs, Types
  <2>2. snd[s].pc = "seal" => Proven(s, snd[s].sid)'
    <3>1. snd[s].pc = "seal" => Proven(s, snd[s].sid) /\ snd[s].sid \in Receiver
      BY <2>1 DEF SenderShape, SessionPcs
    <3> QED  BY <1>2, <2>1, <3>1 DEF Proven, Words, ReceiversMove, Late
  <2>3. \A sid \in snd[s].todo : rcv'[sid].pc \notin Early
    BY <1>2, <2>1 DEF SenderShape, ReceiversMove, SndT
  <2>4. snd[s].pc \in SessionPcs => snd[s].sid \in Receiver /\ rcv'[snd[s].sid].pc \notin Early
    BY <1>2, <2>1 DEF SenderShape, ReceiversMove
  <2> QED  BY <2>1, <2>2, <2>3, <2>4 DEF SenderShape
<1>10. ReceiverInv'
  <2>1. \A q \in Receiver : q # r => ReceiverShape(q)'
    <3> SUFFICES ASSUME NEW q \in Receiver, q # r PROVE ReceiverShape(q)'  OBVIOUS
    <3>1. ReceiverShape(q) /\ rcv'[q] = rcv[q]  BY <1>1 DEF Base, ReceiverInv, ReceiverActs
    <3> QED  BY <1>7, <3>1 DEF ReceiverShape, Words
  <2> QED  BY <2>1 DEF ReceiverInv, ReceiverOwes
<1>11. PendingInv'
  <2>1. \A q \in Receiver : q # r /\ req'[q] # None => rcv'[q].pc \in PostPcsR /\ Like(req[q].row, ToPostR(q))'
    <3> SUFFICES ASSUME NEW q \in Receiver, q # r, req'[q] # None
                 PROVE  rcv'[q].pc \in PostPcsR /\ Like(req[q].row, ToPostR(q))'
      OBVIOUS
    <3>1. rcv'[q] = rcv[q] /\ req'[q] = req[q]  BY DEF ReceiverActs, Party
    <3>2. ToPostR(q)' = ToPostR(q)  BY <3>1 DEF ToPostR, Words
    <3> QED  BY <1>1, <3>1, <3>2 DEF Base, PendingInv, Like, SameId
  <2>2. \A s \in Sender : req'[s] # None => snd'[s].pc \in PostPcs /\ Like(req[s].row, ToPost(s))'
    <3> SUFFICES ASSUME NEW s \in Sender, req'[s] # None
                 PROVE  snd'[s].pc \in PostPcs /\ Like(req[s].row, ToPost(s))'
      OBVIOUS
    <3>1. snd' = snd /\ req'[s] = req[s]  BY Consts DEF ReceiverActs, Party
    <3>2. ToPost(s)' = ToPost(s)  BY <3>1 DEF ToPost
    <3> QED  BY <1>1, <3>1, <3>2 DEF Base, PendingInv, Like, SameId
  <2> QED  BY <2>1, <2>2 DEF PendingInv, ReceiverOwes
<1>12. HalvesInv'
  <2> SUFFICES ASSUME faults' = 0 PROVE HalvesInv'  BY DEF HalvesInv
  <2>1. faults = 0  BY <1>1 DEF ReceiverActs, Base, Types
  <2>2. \A row \in rows' : row.key = "b" => rcv'[row.by].replied
    BY <1>1, <1>2, <2>1, RepliesKept
  <2>3. \A s \in Sender, q \in Receiver : Mutual(s, q) => Mutual(s, q)'
    <3> SUFFICES ASSUME NEW s \in Sender, NEW q \in Receiver, Mutual(s, q) PROVE Mutual(s, q)'
      OBVIOUS
    <3>1. rcv[q].pc # "idle"  BY <1>1 DEF Mutual, Base, ReceiverInv, ReceiverShape
    <3> QED  BY <1>2, <3>1 DEF Mutual, Words, ReceiversMove
  <2>4. \A s \in Sender : snd'[s].reply # None => Mutual(s, snd[s].reply)'
    <3> SUFFICES ASSUME NEW s \in Sender, snd'[s].reply # None PROVE Mutual(s, snd[s].reply)'
      OBVIOUS
    <3>1. snd' = snd  BY DEF ReceiverActs
    <3>2. PICK q : q = snd[s].reply  OBVIOUS
    <3>3. q \in Receiver  BY <1>1, <3>1, <3>2 DEF Base, Types, SndT
    <3>4. Mutual(s, q)  BY <1>1, <2>1, <3>1, <3>2 DEF HalvesInv
    <3>5. Mutual(s, q)'  BY <2>3, <3>3, <3>4
    <3> QED  BY <3>1, <3>2, <3>5 DEF Mutual, Words
  <2>5. \A s \in Sender, q \in Receiver : <<s, q>> \in book' => Mutual(s, q)'
    <3> SUFFICES ASSUME NEW s \in Sender, NEW q \in Receiver, <<s, q>> \in book' PROVE Mutual(s, q)'
      OBVIOUS
    <3>1. s # r  BY Consts
    <3>2. <<s, q>> \in book  BY <3>1 DEF ReceiverActs
    <3> QED  BY <1>1, <2>1, <2>3, <3>2 DEF HalvesInv
  <2> QED  BY <2>2, <2>4, <2>5 DEF HalvesInv
<1>13. PassedInv'  BY <1>1, <1>3, <1>4, <1>5, PassedKept
<1>14. LivesInv'  BY <1>1, <1>3, <1>5, LivesKept
<1>15. WaitInv'  BY <1>1, <1>3, WaitKept
<1>16. DiskInv'  BY <1>1 DEF DiskInv, ReceiverActs
<1>17. CountedInv'  BY <1>1 DEF CountedInv, Counted, ReceiverActs
<1> QED
  BY <1>6, <1>8, <1>9, <1>10, <1>11, <1>12, <1>13, <1>14, <1>15, <1>16, <1>17 DEF RendezvousInv, Keeps

-----------------------------------------------------------------------------
(* How a sender's record changes.                                          *)

SndMoves(s) == snd' \in [Sender -> SndT] /\ \A q \in Sender : q # s => snd'[q] = snd[q]
ReqMoves(s) == req' \in [Party -> ReqT \cup {None}] /\ \A p \in Party : p # s => req'[p] = req[p]

\* What b has of a: everything but where it stands and whom it has yet to take.
Kept(a, b) ==
    /\ b.kind = a.kind /\ b.ver = a.ver /\ b.slot = a.slot /\ b.sid = a.sid
    /\ b.out = a.out /\ b.done = a.done /\ b.fail = a.fail /\ b.reply = a.reply

LEMMA SndIs ==
    ASSUME Types, NEW s \in Sender, NEW x \in SndT, snd' = [snd EXCEPT ![s] = x]
    PROVE  SndMoves(s) /\ snd'[s] = x
  BY DEF Types, SndMoves

LEMMA GoIs ==
    ASSUME Types, NEW s \in Sender, NEW c \in SenderPcs, Go(s, c)
    PROVE  /\ SndMoves(s) /\ snd'[s].pc = c /\ Kept(snd[s], snd'[s])
           /\ snd'[s].todo = snd[s].todo
<1>1. snd[s] \in SndT  BY DEF Types
<1>2. PICK x : x = [snd[s] EXCEPT !.pc = c]  OBVIOUS
<1>3. x \in SndT /\ x.pc = c /\ Kept(snd[s], x) /\ x.todo = snd[s].todo
  BY <1>1, <1>2 DEF SndT, Kept
<1>4. snd' = [snd EXCEPT ![s] = x]  BY <1>2 DEF Go
<1> QED  BY <1>3, <1>4, SndIs

LEMMA RetireIs ==
    ASSUME Types, NEW s \in Sender, NEW why \in Whys, Retire(s, why)
    PROVE  /\ SndMoves(s)
           /\ snd'[s].pc = "closed" /\ snd'[s].why = why /\ snd'[s].todo = {} /\ snd'[s].out = {}
           /\ snd'[s].kind = snd[s].kind /\ snd'[s].ver = snd[s].ver /\ snd'[s].slot = snd[s].slot
           /\ snd'[s].sid = snd[s].sid /\ snd'[s].done = snd[s].done /\ snd'[s].fail = snd[s].fail
           /\ snd'[s].reply = snd[s].reply
           /\ disk' = [disk EXCEPT ![s] = None]
<1>1. snd[s] \in SndT  BY DEF Types
<1>2. PICK x : x = [snd[s] EXCEPT !.pc = "closed", !.why = why, !.todo = {}, !.out = {}]  OBVIOUS
<1>3. x \in SndT  BY <1>1, <1>2 DEF SndT, SenderPcs
<1>4. snd' = [snd EXCEPT ![s] = x]  BY <1>2 DEF Retire
<1>5. snd'[s] = x /\ SndMoves(s)  BY <1>3, <1>4, SndIs
<1>6. disk' = [disk EXCEPT ![s] = None]  BY DEF Retire
<1> QED  BY <1>1, <1>2, <1>5, <1>6 DEF SndT

LEMMA PairedIs ==
    ASSUME Types, NEW s \in Sender, NEW reply \in Receiver \cup {None}, Paired(s, reply),
           snd[s].sid \in Receiver
    PROVE  /\ SndMoves(s)
           /\ snd'[s].pc = "listen" /\ snd'[s].done = snd[s].done + 1 /\ snd'[s].reply = reply
           /\ snd'[s].out = snd[s].out \cup {snd[s].sid} /\ snd'[s].todo = snd[s].todo
           /\ snd'[s].kind = snd[s].kind /\ snd'[s].ver = snd[s].ver /\ snd'[s].slot = snd[s].slot
           /\ snd'[s].sid = snd[s].sid /\ snd'[s].fail = snd[s].fail
           /\ disk' = IF snd[s].kind = "send"
                      THEN [disk EXCEPT ![s] = [slot |-> snd[s].slot, done |-> snd[s].done + 1,
                                                fail |-> snd[s].fail]]
                      ELSE disk
<1>1. snd[s] \in SndT  BY DEF Types
<1>2. snd[s].done + 1 \in Nat /\ snd[s].out \cup {snd[s].sid} \in SUBSET Receiver
  BY <1>1 DEF SndT
<1>3. PICK x : x = [snd[s] EXCEPT !.pc = "listen", !.done = snd[s].done + 1, !.reply = reply,
                                  !.out = snd[s].out \cup {snd[s].sid}]  OBVIOUS
<1>4. x \in SndT  BY <1>1, <1>2, <1>3 DEF SndT, SenderPcs
<1>5. snd' = [snd EXCEPT ![s] = x]  BY <1>3, Zenon DEF Paired
<1>6. snd'[s] = x /\ SndMoves(s)  BY <1>4, <1>5, SndIs
<1>7. PICK y : y = [snd[s] EXCEPT !.done = snd[s].done + 1]  OBVIOUS
<1>8. y.slot = snd[s].slot /\ y.done = snd[s].done + 1 /\ y.fail = snd[s].fail
  BY <1>1, <1>7 DEF SndT
<1>9. Persist(s, y)  BY <1>1, <1>7 DEF Paired, SndT
<1> QED  BY <1>1, <1>3, <1>6, <1>8, <1>9 DEF SndT, Persist

LEMMA BadCodeIs ==
    ASSUME Types, NEW s \in Sender, BadCode(s)
    PROVE  /\ SndMoves(s)
           /\ snd'[s].pc = "listen" /\ snd'[s].fail = snd[s].fail + 1
           /\ snd'[s].out = snd[s].out /\ snd'[s].todo = snd[s].todo /\ snd'[s].reply = snd[s].reply
           /\ snd'[s].kind = snd[s].kind /\ snd'[s].ver = snd[s].ver /\ snd'[s].slot = snd[s].slot
           /\ snd'[s].sid = snd[s].sid /\ snd'[s].done = snd[s].done
           /\ disk' = IF snd[s].kind = "send"
                      THEN [disk EXCEPT ![s] = [slot |-> snd[s].slot, done |-> snd[s].done,
                                                fail |-> snd[s].fail + 1]]
                      ELSE disk
<1>1. snd[s] \in SndT  BY DEF Types
<1>2. snd[s].fail + 1 \in Nat  BY <1>1 DEF SndT
<1>3. PICK x : x = [snd[s] EXCEPT !.pc = "listen", !.fail = snd[s].fail + 1]  OBVIOUS
<1>4. x \in SndT  BY <1>1, <1>2, <1>3 DEF SndT, SenderPcs
<1>5. snd' = [snd EXCEPT ![s] = x]  BY <1>3, Zenon DEF BadCode
<1>6. snd'[s] = x /\ SndMoves(s)  BY <1>4, <1>5, SndIs
<1>7. PICK y : y = [snd[s] EXCEPT !.fail = snd[s].fail + 1]  OBVIOUS
<1>8. y.slot = snd[s].slot /\ y.done = snd[s].done /\ y.fail = snd[s].fail + 1
  BY <1>1, <1>7 DEF SndT
<1>9. Persist(s, y)  BY <1>1, <1>7 DEF BadCode, SndT
<1> QED  BY <1>1, <1>3, <1>6, <1>8, <1>9 DEF SndT, Persist

\* A record is written, or taken away.
LEMMA DiskIs ==
    ASSUME Types, NEW s \in Sender,
           \/ disk' = disk
           \/ disk' = [disk EXCEPT ![s] = None]
           \/ \E slot \in Slot, done \in Nat, fail \in Nat :
                disk' = [disk EXCEPT ![s] = [slot |-> slot, done |-> done, fail |-> fail]]
    PROVE  disk' \in [Sender -> DiskT \cup {None}] /\ \A q \in Sender : q # s => disk'[q] = disk[q]
<1>1. CASE disk' = disk  BY <1>1 DEF Types
<1>2. CASE disk' = [disk EXCEPT ![s] = None]  BY <1>2 DEF Types
<1>3. CASE \E slot \in Slot, done \in Nat, fail \in Nat :
             disk' = [disk EXCEPT ![s] = [slot |-> slot, done |-> done, fail |-> fail]]
  <2>1. PICK d \in DiskT : disk' = [disk EXCEPT ![s] = d]  BY <1>3 DEF DiskT
  <2> QED  BY <2>1 DEF Types
<1> QED  BY <1>1, <1>2, <1>3

\* An answered POST is no longer under way.
LEMMA ReqIs ==
    ASSUME Types, NEW p \in Party,
           req' = [req EXCEPT ![p] = None] \/ (req' = req /\ req[p] = None)
    PROVE  ReqMoves(p) /\ req'[p] = None
  BY DEF Types, ReqMoves

-----------------------------------------------------------------------------
(* A step of a sender.                                                     *)

LEMMA Resting ==
    ASSUME RendezvousInv, NEW s \in Sender, snd[s].pc \notin PostPcs
    PROVE  req[s] = None
  BY DEF RendezvousInv, PendingInv

LEMMA AllTyped ==
    ASSUME RendezvousInv, NEW s \in Sender
    PROVE  /\ Types /\ Base /\ snd[s] \in SndT /\ SenderShape(s) /\ DiskOf(s) /\ Counted(s)
           /\ s \in Party /\ Histories
           /\ given[s] \in Nat /\ guesses[s] \in Nat /\ lost[s] \in Nat
           /\ snd[s].done \in Nat /\ snd[s].fail \in Nat
<1>1. Types /\ Base /\ snd[s] \in SndT /\ SenderShape(s) /\ DiskOf(s) /\ Counted(s)
  BY DEF RendezvousInv, Base, SenderInv, DiskInv, DiskOf, CountedInv, Types
<1> QED  BY <1>1 DEF Types, Histories, Party, SndT

\* A step that writes nothing down.
LEMMA PlainStep ==
    ASSUME RendezvousInv, NEW s \in Sender, SndMoves(s), ReqMoves(s), req'[s] = None, RowsMove,
           rcv' = rcv, now' = now, book' = book, restarts' = restarts,
           \/ disk' = disk
           \/ snd[s].kind = "send" /\ snd[s].pc # "idle" /\
              disk' = [disk EXCEPT ![s] = [slot |-> snd[s].slot, done |-> snd[s].done, fail |-> snd[s].fail]],
           given' = given, guesses' = guesses, lost' = lost, faults' \in Nat, faults <= faults',
           SenderShape(s)',
           snd[s].pc \notin {"closed", "down", "await_b"},
           snd'[s].pc \notin {"idle", "down", "await_b"},
           snd[s].pc = "idle" \/ snd'[s].kind = snd[s].kind,
           snd'[s].done = snd[s].done, snd'[s].fail = snd[s].fail, snd'[s].out = snd[s].out,
           snd'[s].reply = snd[s].reply,
           snd[s].ver = "v1" /\ snd[s].sid # None =>
              snd'[s].ver = "v1" /\ snd'[s].slot = snd[s].slot /\ snd'[s].sid = snd[s].sid
    PROVE  Keeps
<1>1. Types /\ DiskOf(s) /\ Counted(s) /\ restarts \in Nat /\ lost[s] \in Nat
  BY AllTyped DEF Histories
<1>d. disk' \in [Sender -> DiskT \cup {None}] /\ (\A q \in Sender : q # s => disk'[q] = disk[q])
  <2>1. (snd[s].pc # "idle" => snd[s].slot \in Slot) /\ snd[s].done \in Nat /\ snd[s].fail \in Nat
    BY AllTyped DEF SenderShape
  <2> QED  BY <1>1, <2>1, DiskIs
<1>2. SenderActs(s)
  BY <1>1, <1>d DEF Types, SenderActs, Histories, SndMoves, ReqMoves
<1>3. \A sid \in Receiver : Waits(s, sid) => Waits(s, sid)'
  BY DEF Waits
<1>4. DiskOf(s)'
  <2>1. CASE disk' = disk  BY <1>1, <2>1 DEF DiskOf
  <2>2. CASE disk' # disk
    <3>1. disk'[s] = [slot |-> snd[s].slot, done |-> snd[s].done, fail |-> snd[s].fail]
      BY <1>1, <2>2 DEF Types
    <3> QED  BY <2>2, <3>1 DEF DiskOf
  <2> QED  BY <2>1, <2>2
<1>5. Counted(s)'  BY <1>1 DEF Counted
<1>6. SenderOwes(s)  BY <1>3, <1>4, <1>5 DEF SenderOwes
<1> QED  BY <1>2, <1>6, SenderKeeps

\* The code stops being served.
LEMMA RetireStep ==
    ASSUME RendezvousInv, NEW s \in Sender, NEW why \in Whys, Retire(s, why),
           ReqMoves(s), req'[s] = None, RowsMove,
           rcv' = rcv, now' = now, restarts' = restarts,
           book' = book \/ (snd[s].reply # None /\ book' = book \cup {<<s, snd[s].reply>>}),
           given' = given, guesses' = guesses, lost' = lost, faults' \in Nat, faults <= faults',
           snd[s].pc \in {"listen", "reattach", "reclaim"}
    PROVE  Keeps
<1>1. Types /\ DiskOf(s) /\ Counted(s) /\ SenderShape(s)  BY AllTyped
<1>2. /\ SndMoves(s)
      /\ snd'[s].pc = "closed" /\ snd'[s].why = why /\ snd'[s].todo = {} /\ snd'[s].out = {}
      /\ snd'[s].kind = snd[s].kind /\ snd'[s].ver = snd[s].ver /\ snd'[s].slot = snd[s].slot
      /\ snd'[s].sid = snd[s].sid /\ snd'[s].done = snd[s].done /\ snd'[s].fail = snd[s].fail
      /\ snd'[s].reply = snd[s].reply
      /\ disk' = [disk EXCEPT ![s] = None]
  BY <1>1, RetireIs
<1>3. disk' \in [Sender -> DiskT \cup {None}] /\ (\A q \in Sender : q # s => disk'[q] = disk[q])
  BY <1>1, <1>2, DiskIs
<1>4. SenderActs(s)
  BY <1>1, <1>2, <1>3 DEF Types, SenderActs, Histories, SndMoves, ReqMoves
<1>5. SenderShape(s)'
  BY <1>1, <1>2 DEF SenderShape, SessionPcs
<1>6. \A sid \in Receiver : Waits(s, sid)'  BY <1>2 DEF Waits
<1>7. disk'[s] = None  BY <1>1, <1>2 DEF Types
<1>8. Counted(s)'  BY <1>1, <1>2 DEF Counted
<1>9. SenderOwes(s)  BY <1>1, <1>2, <1>5, <1>6, <1>7, <1>8 DEF SenderOwes, DiskOf, SenderShape
<1> QED  BY <1>4, <1>9, SenderKeeps

LEMMA StillRows == ASSUME rows' = rows PROVE RowsMove
  BY DEF RowsMove, Drops

\* An answered POST of a sender: only a payload's has something to show.
LEMMA AnsweredRows ==
    ASSUME RendezvousInv, NEW s \in Sender, rows' = rows \/ Lands(s),
           \A sid \in Receiver : snd[s].pc = "seal" /\ sid = snd[s].sid /\ Lands(s) => Waits(s, sid)'
    PROVE  RowsMove
<1>1. CASE rows' = rows  BY <1>1, StillRows
<1>2. CASE Lands(s)
  <2>1. Types /\ SenderInv /\ PendingInv /\ s \in Party /\ s \notin Receiver
    BY Consts DEF RendezvousInv, Party
  <2>2. snd[s].pc \in PostPcs /\ Like(req[s].row, ToPost(s))  BY <1>2, <2>1 DEF PendingInv, Lands
  <2>3. req[s].row.key = "t" /\ req[s].row.code # None => snd[s].pc = "seal" /\ req[s].row.sid = snd[s].sid
    BY <2>1, <2>2, ToPostIs DEF Like, SameId, PostPcs
  <2> QED  BY <1>2, <2>1, <2>3 DEF RowsMove
<1> QED  BY <1>1, <1>2

\* A sender at rest, before and after: the table is as it was.
LEMMA RestingStep ==
    ASSUME RendezvousInv, NEW s \in Sender, snd[s].pc \notin PostPcs, UNCHANGED <<relay, faults>>
    PROVE  /\ ReqMoves(s) /\ req'[s] = None /\ RowsMove /\ rows' = rows
           /\ faults' \in Nat /\ faults <= faults'
<1>1. Types /\ s \in Party /\ faults \in Nat /\ req[s] = None  BY AllTyped, Resting DEF Types
<1>2. rows' = rows /\ req' = req /\ faults' = faults  BY DEF relay
<1> QED  BY <1>1, <1>2, ReqIs, StillRows

LEMMA PublishKeeps ==
    ASSUME RendezvousInv, NEW s \in Sender, NEW kind, NEW accepted,
           "v1" \in accepted => kind = "device", Publish(s, kind, accepted)
    PROVE  Keeps
<1>1. Types /\ snd[s] \in SndT /\ SenderShape(s)  BY AllTyped
<1>2. snd[s].pc = "idle" /\ snd[s].sid = None /\ kind \in Kinds /\ UNCHANGED <<relay, faults>>
  BY <1>1 DEF Publish, SenderShape
<1>3. rcv' = rcv /\ disk' = disk /\ book' = book /\ now' = now /\ restarts' = restarts
      /\ given' = given /\ guesses' = guesses /\ lost' = lost
  BY DEF Publish, Quiet, history
<1>4. PICK ver \in Versions, slot \in Slot, c \in {"claim", "failed"} :
        /\ snd' = [snd EXCEPT ![s] = [snd[s] EXCEPT !.kind = kind, !.ver = ver, !.slot = slot, !.pc = c]]
        /\ c = "claim" => ver \in accepted
  BY DEF Publish
<1>5. PICK x : x = [snd[s] EXCEPT !.kind = kind, !.ver = ver, !.slot = slot, !.pc = c]  OBVIOUS
<1>6. ver \in {"v1", "v2"}  BY Consts
<1>7. /\ x \in SndT /\ x.kind = kind /\ x.ver = ver /\ x.slot = slot /\ x.pc = c /\ x.sid = None
      /\ x.todo = snd[s].todo /\ x.out = snd[s].out /\ x.done = snd[s].done /\ x.fail = snd[s].fail
      /\ x.reply = snd[s].reply
  BY ZenonT(60), <1>1, <1>2, <1>5, <1>6 DEF SndT, SenderPcs
<1>8. SndMoves(s) /\ snd'[s] = x  BY <1>1, <1>4, <1>5, <1>7, SndIs
<1>9. SenderShape(s)'
  BY <1>1, <1>2, <1>3, <1>4, <1>6, <1>7, <1>8 DEF SenderShape, SessionPcs
<1>10. ReqMoves(s) /\ req'[s] = None /\ RowsMove /\ faults' \in Nat /\ faults <= faults'
  BY <1>2, RestingStep DEF PostPcs
<1> QED  BY <1>2, <1>3, <1>7, <1>8, <1>9, <1>10, PlainStep

LEMMA TakeSessionKeeps ==
    ASSUME RendezvousInv, NEW s \in Sender, NEW sid \in Receiver, TakeSession(s, sid)
    PROVE  Keeps
<1>1. Types /\ snd[s] \in SndT /\ SenderShape(s)  BY AllTyped
<1>2. snd[s].pc = "listen" /\ sid \in snd[s].todo /\ UNCHANGED <<relay, faults>>
  BY DEF TakeSession
<1>3. rcv' = rcv /\ disk' = disk /\ book' = book /\ now' = now /\ restarts' = restarts
      /\ given' = given /\ guesses' = guesses /\ lost' = lost
  BY DEF TakeSession, Quiet, history
<1>4. PICK c \in {"answer", "listen"} :
        snd' = [snd EXCEPT ![s] = [snd[s] EXCEPT !.todo = snd[s].todo \ {sid}, !.sid = sid, !.pc = c]]
  BY DEF TakeSession
<1>5. PICK todo \in SUBSET Receiver : todo = snd[s].todo \ {sid}  BY <1>1 DEF SndT
<1>6. PICK x : x = [snd[s] EXCEPT !.todo = todo, !.sid = sid, !.pc = c]  OBVIOUS
<1>7. c \in SenderPcs /\ sid \in Receiver \cup {None}  BY DEF SenderPcs
<1>8. /\ x \in SndT /\ x.pc = c /\ x.sid = sid /\ x.todo = todo /\ x.kind = snd[s].kind
      /\ x.ver = snd[s].ver /\ x.slot = snd[s].slot /\ x.out = snd[s].out /\ x.done = snd[s].done
      /\ x.fail = snd[s].fail /\ x.reply = snd[s].reply
  BY <1>1, <1>6, <1>7 DEF SndT
<1>9. SndMoves(s) /\ snd'[s] = x  BY <1>1, <1>4, <1>5, <1>6, <1>8, SndIs
<1>10. snd[s].ver # "v1"  BY <1>1, <1>2 DEF SenderShape
<1>11. SenderShape(s)'
  BY <1>1, <1>2, <1>3, <1>4, <1>5, <1>8, <1>9, <1>10 DEF SenderShape, SessionPcs
<1>12. ReqMoves(s) /\ req'[s] = None /\ RowsMove /\ faults' \in Nat /\ faults <= faults'
  BY <1>2, RestingStep DEF PostPcs
<1> QED  BY <1>2, <1>3, <1>8, <1>9, <1>10, <1>11, <1>12, PlainStep

LEMMA ConfirmedKeeps ==
    ASSUME RendezvousInv, NEW s \in Sender, Confirmed(s)
    PROVE  Keeps
<1>1. Types /\ snd[s] \in SndT /\ SenderShape(s) /\ RowsInv  BY AllTyped DEF RendezvousInv
<1>2. snd[s].pc = "await_c" /\ UNCHANGED <<relay, faults>>  BY DEF Confirmed
<1>3. rcv' = rcv /\ disk' = disk /\ book' = book /\ now' = now /\ restarts' = restarts
      /\ given' = given /\ guesses' = guesses /\ lost' = lost
  BY DEF Confirmed, Quiet, history
<1>4. snd[s].sid \in Receiver /\ rcv[snd[s].sid].pc \notin Early /\ snd[s].slot \in Slot /\ snd[s].ver # "v1"
  BY <1>1, <1>2 DEF SenderShape, SessionPcs
<1>5. ASSUME NEW conf \in Get(snd[s].slot, "c", snd[s].sid), conf.code = s, conf.peer = s
      PROVE  Proven(s, snd[s].sid)
  <2>1. conf \in rows /\ conf.key = "c" /\ conf.sid = snd[s].sid  BY DEF Get
  <2>2. conf.by = conf.sid /\ RowTrue(conf)  BY <1>1, <2>1 DEF RowsInv, RowShape
  <2> QED  BY <1>5, <2>1, <2>2 DEF RowTrue, Proven
<1>6. PICK c \in {"seal", "noise", "listen"} : Go(s, c) /\ (c = "seal" => Proven(s, snd[s].sid))
  BY <1>5 DEF Confirmed, AfterProof
<1>7. /\ SndMoves(s) /\ snd'[s].pc = c /\ Kept(snd[s], snd'[s]) /\ snd'[s].todo = snd[s].todo
  BY <1>1, <1>6, GoIs DEF SenderPcs
<1>8. SenderShape(s)'
  BY <1>1, <1>2, <1>3, <1>4, <1>6, <1>7 DEF SenderShape, SessionPcs, Kept, Proven, Words
<1>9. ReqMoves(s) /\ req'[s] = None /\ RowsMove /\ faults' \in Nat /\ faults <= faults'
  BY <1>2, RestingStep DEF PostPcs
<1> QED  BY <1>2, <1>3, <1>4, <1>6, <1>7, <1>8, <1>9, PlainStep DEF Kept

LEMMA V1WaitKeeps ==
    ASSUME RendezvousInv, NEW s \in Sender, V1Wait(s)
    PROVE  Keeps
<1>1. Types /\ snd[s] \in SndT /\ SenderShape(s) /\ RowsInv  BY AllTyped DEF RendezvousInv
<1>2. snd[s].pc = "v1wait" /\ UNCHANGED <<relay, faults>>  BY DEF V1Wait
<1>3. rcv' = rcv /\ disk' = disk /\ book' = book /\ now' = now /\ restarts' = restarts
      /\ given' = given /\ guesses' = guesses /\ lost' = lost
  BY DEF V1Wait, Quiet, history
<1>4. snd[s].ver = "v1" /\ snd[s].sid = None /\ snd[s].kind = "device" /\ snd[s].slot \in Slot
  BY <1>1, <1>2 DEF SenderShape
<1>5. ReqMoves(s) /\ req'[s] = None /\ RowsMove /\ faults' \in Nat /\ faults <= faults'
  BY <1>2, RestingStep DEF PostPcs
<1>6. CASE Go(s, "failed")
  <2>1. /\ SndMoves(s) /\ snd'[s].pc = "failed" /\ Kept(snd[s], snd'[s]) /\ snd'[s].todo = snd[s].todo
    BY <1>1, <1>6, GoIs DEF SenderPcs
  <2>2. SenderShape(s)'
    BY <1>1, <1>2, <1>3, <1>4, <2>1 DEF SenderShape, SessionPcs, Kept
  <2> QED  BY <1>2, <1>3, <1>4, <1>5, <2>1, <2>2, PlainStep DEF Kept
<1>7. ASSUME NEW mr \in Get(snd[s].slot, "mr", None),
             snd' = [snd EXCEPT ![s] = [snd[s] EXCEPT !.pc = "v1seal", !.sid = mr.by]]
      PROVE  Keeps
  <2>1. mr.by \in Receiver  BY <1>1 DEF Get, RowsInv, RowShape
  <2>2. PICK x : x = [snd[s] EXCEPT !.pc = "v1seal", !.sid = mr.by]  OBVIOUS
  <2>3. /\ x \in SndT /\ x.pc = "v1seal" /\ x.sid = mr.by /\ x.todo = snd[s].todo /\ x.kind = snd[s].kind
        /\ x.ver = snd[s].ver /\ x.slot = snd[s].slot /\ x.out = snd[s].out /\ x.done = snd[s].done
        /\ x.fail = snd[s].fail /\ x.reply = snd[s].reply
    BY <1>1, <2>1, <2>2 DEF SndT, SenderPcs
  <2>4. SndMoves(s) /\ snd'[s] = x  BY <1>1, <1>7, <2>2, <2>3, SndIs
  <2>5. SenderShape(s)'
    BY <1>1, <1>2, <1>3, <1>4, <2>1, <2>3, <2>4, Consts DEF SenderShape, SessionPcs
  <2> QED  BY <1>2, <1>3, <1>4, <1>5, <2>3, <2>4, <2>5, PlainStep
<1> QED  BY <1>6, <1>7 DEF V1Wait

\* What every answered POST of a sender leaves behind.
LEMMA AnsweredStep ==
    ASSUME RendezvousInv, NEW s \in Sender, NEW v, Answer(s, v)
    PROVE  /\ ReqMoves(s) /\ req'[s] = None /\ faults' \in Nat /\ faults <= faults'
           /\ rows' = rows \/ Lands(s)
           /\ v = "ok" => Lands(s)
           /\ snd[s].pc # "seal" => RowsMove
<1>1. Types /\ s \in Party  BY AllTyped
<1>2. /\ req' = [req EXCEPT ![s] = None] /\ (rows' = rows \/ Lands(s)) /\ (v = "ok" => Lands(s))
      /\ faults' \in Nat /\ faults <= faults'
  BY <1>1, AnswerIs
<1>3. snd[s].pc # "seal" => RowsMove  BY <1>2, AnsweredRows
<1> QED  BY <1>1, <1>2, <1>3, ReqIs

LEMMA AnsweredKeeps ==
    ASSUME RendezvousInv, NEW s \in Sender, Answered(s) \/ V1Sealed(s)
    PROVE  Keeps
<1>1. Types /\ snd[s] \in SndT /\ SenderShape(s)  BY AllTyped
<1>2. rcv' = rcv /\ disk' = disk /\ book' = book /\ now' = now /\ restarts' = restarts
      /\ given' = given /\ guesses' = guesses /\ lost' = lost
  BY DEF Answered, V1Sealed, Quiet, history
<1>3. PICK v \in Answers : Answer(s, v) /\
        (\/ snd[s].pc = "answer" /\ (Go(s, "await_c") \/ Go(s, "listen"))
         \/ snd[s].pc = "v1seal" /\ (Go(s, "closed") \/ Go(s, "failed")))
  BY DEF Answered, V1Sealed
<1>c. PICK c \in {"await_c", "listen", "closed", "failed"} : Go(s, c) /\
        (\/ snd[s].pc = "answer" /\ c \in {"await_c", "listen"}
         \/ snd[s].pc = "v1seal" /\ c \in {"closed", "failed"})
  BY <1>3
<1>4. ReqMoves(s) /\ req'[s] = None /\ faults' \in Nat /\ faults <= faults' /\ RowsMove
  BY <1>3, AnsweredStep
<1>5. /\ SndMoves(s) /\ snd'[s].pc = c /\ Kept(snd[s], snd'[s]) /\ snd'[s].todo = snd[s].todo
  BY <1>1, <1>c, GoIs DEF SenderPcs
<1>6. SenderShape(s)'
  BY <1>1, <1>2, <1>c, <1>5 DEF SenderShape, SessionPcs, Kept
<1> QED  BY <1>2, <1>c, <1>4, <1>5, <1>6, PlainStep DEF Kept

LEMMA ClaimedKeeps ==
    ASSUME RendezvousInv, NEW s \in Sender, Claimed(s)
    PROVE  Keeps
<1>1. Types /\ snd[s] \in SndT /\ SenderShape(s)  BY AllTyped
<1>2. rcv' = rcv /\ book' = book /\ now' = now /\ restarts' = restarts
      /\ given' = given /\ guesses' = guesses /\ lost' = lost
  BY DEF Claimed, history
<1>3. snd[s].pc = "claim" /\ snd[s].slot \in Slot  BY <1>1 DEF Claimed, SenderShape
<1>4. PICK v \in Answers :
        /\ Answer(s, v)
        /\ \/ /\ Go(s, IF snd[s].ver = "v1" THEN "v1wait" ELSE "listen")
              /\ Persist(s, snd[s])
           \/ /\ \E slot \in Slot :
                   snd' = [snd EXCEPT ![s] = [snd[s] EXCEPT !.slot = slot,
                              !.tries = snd[s].tries + IF snd[s].ver = "v1" THEN 0 ELSE 1]]
              /\ disk' = disk
           \/ Go(s, "failed") /\ disk' = disk
  BY DEF Claimed, Go
<1>5. ReqMoves(s) /\ req'[s] = None /\ faults' \in Nat /\ faults <= faults' /\ RowsMove
  BY <1>3, <1>4, AnsweredStep
<1>6. snd[s].ver = "v1" => snd[s].sid = None /\ snd[s].kind = "device"  BY <1>1, <1>3 DEF SenderShape
<1>7. ASSUME NEW c \in {"v1wait", "listen", "failed"}, Go(s, c),
             c = "listen" => snd[s].ver # "v1", c = "v1wait" => snd[s].ver = "v1",
             \/ disk' = disk
             \/ snd[s].kind = "send" /\ snd[s].pc # "idle" /\
                disk' = [disk EXCEPT ![s] = [slot |-> snd[s].slot, done |-> snd[s].done, fail |-> snd[s].fail]]
      PROVE  Keeps
  <2>1. /\ SndMoves(s) /\ snd'[s].pc = c /\ Kept(snd[s], snd'[s]) /\ snd'[s].todo = snd[s].todo
    BY <1>1, <1>7, GoIs DEF SenderPcs
  <2>2. SenderShape(s)'
    BY <1>1, <1>2, <1>3, <1>6, <1>7, <2>1 DEF SenderShape, SessionPcs, Kept
  <2> QED  BY <1>2, <1>3, <1>5, <1>6, <1>7, <2>1, <2>2, PlainStep DEF Kept
<1>8. ASSUME NEW slot \in Slot, disk' = disk,
             snd' = [snd EXCEPT ![s] = [snd[s] EXCEPT !.slot = slot,
                              !.tries = snd[s].tries + IF snd[s].ver = "v1" THEN 0 ELSE 1]]
      PROVE  Keeps
  <2>1. PICK n \in Nat : n = snd[s].tries + IF snd[s].ver = "v1" THEN 0 ELSE 1  BY <1>1 DEF SndT
  <2>2. PICK x : x = [snd[s] EXCEPT !.slot = slot, !.tries = n]  OBVIOUS
  <2>3. /\ x \in SndT /\ x.pc = "claim" /\ x.sid = snd[s].sid /\ x.todo = snd[s].todo /\ x.kind = snd[s].kind
        /\ x.ver = snd[s].ver /\ x.slot = slot /\ x.out = snd[s].out /\ x.done = snd[s].done
        /\ x.fail = snd[s].fail /\ x.reply = snd[s].reply
    BY <1>1, <1>3, <2>2 DEF SndT
  <2>4. SndMoves(s) /\ snd'[s] = x  BY <1>1, <1>8, <2>1, <2>2, <2>3, SndIs
  <2>5. SenderShape(s)'
    BY <1>1, <1>2, <1>3, <1>6, <2>3, <2>4 DEF SenderShape, SessionPcs
  <2> QED  BY <1>2, <1>3, <1>5, <1>6, <1>8, <2>3, <2>4, <2>5, PlainStep
<1>9. CASE Go(s, IF snd[s].ver = "v1" THEN "v1wait" ELSE "listen") /\ Persist(s, snd[s])
  <2>1. PICK c \in {"v1wait", "listen", "failed"} : c = IF snd[s].ver = "v1" THEN "v1wait" ELSE "listen"
    OBVIOUS
  <2>2. Go(s, c) /\ (c = "listen" => snd[s].ver # "v1") /\ (c = "v1wait" => snd[s].ver = "v1")
    BY <1>9, <2>1
  <2>3. \/ disk' = disk
        \/ snd[s].kind = "send" /\ snd[s].pc # "idle" /\
           disk' = [disk EXCEPT ![s] = [slot |-> snd[s].slot, done |-> snd[s].done, fail |-> snd[s].fail]]
    BY <1>3, <1>9 DEF Persist
  <2> QED  BY <1>7, <2>2, <2>3
<1>10. CASE Go(s, "failed") /\ disk' = disk  BY <1>7, <1>10
<1> QED  BY <1>4, <1>8, <1>9, <1>10

\* What a renewing sender may leave: somebody else's claim is not touched.
LEMMA TouchMoves ==
    ASSUME RendezvousInv, NEW s \in Sender, snd[s].pc \in {"listen", "reattach"}, Owns(s, snd[s].slot),
           rows' = Touched(snd[s].slot), UNCHANGED <<req, faults>>
    PROVE  ReqMoves(s) /\ req'[s] = None /\ RowsMove /\ faults' \in Nat /\ faults <= faults'
<1>1. Types /\ SenderShape(s) /\ s \in Party /\ faults \in Nat  BY AllTyped DEF Types
<1>2. snd[s].slot \in Slot  BY <1>1 DEF SenderShape
<1>3. RowsMove  BY <1>2 DEF RowsMove, Owns
<1>4. req[s] = None  BY Resting DEF PostPcs
<1> QED  BY <1>1, <1>3, <1>4, ReqIs

LEMMA LoseMoves ==
    ASSUME RendezvousInv, NEW s \in Sender, snd[s].pc \notin PostPcs, Lose
    PROVE  ReqMoves(s) /\ req'[s] = None /\ RowsMove /\ rows' = rows /\ faults' \in Nat /\ faults <= faults'
<1>1. Types /\ s \in Party /\ faults \in Nat /\ req[s] = None  BY AllTyped, Resting DEF Types
<1>2. rows' = rows /\ req' = req /\ faults' = faults + 1  BY DEF Lose, relay
<1> QED  BY <1>1, <1>2, ReqIs, StillRows

LEMMA PollKeeps ==
    ASSUME RendezvousInv, NEW s \in Sender, Poll(s)
    PROVE  Keeps
<1>1. Types /\ snd[s] \in SndT /\ SenderShape(s) /\ RowsInv  BY AllTyped DEF RendezvousInv
<1>2. rcv' = rcv /\ book' = book /\ now' = now /\ restarts' = restarts
      /\ given' = given /\ guesses' = guesses /\ lost' = lost
  BY DEF Poll, history
<1>3. snd[s].pc = "listen" /\ snd[s].slot \in Slot /\ snd[s].ver # "v1"
  BY <1>1 DEF Poll, SenderShape
<1>4. CASE /\ Owns(s, snd[s].slot) /\ rows' = Touched(snd[s].slot)
           /\ snd' = [snd EXCEPT ![s].todo = Pending(snd[s].slot)]
           /\ UNCHANGED <<disk, req, faults>>
  <2>1. PICK todo : todo = Pending(snd[s].slot)  OBVIOUS
  <2>2. \A sid \in todo : sid \in Receiver /\ rcv[sid].pc \notin Early
    <3> SUFFICES ASSUME NEW sid \in todo PROVE sid \in Receiver /\ rcv[sid].pc \notin Early
      OBVIOUS
    <3>1. PICK row \in rows : row.key = "r" /\ sid = row.sid  BY <2>1 DEF Pending
    <3> QED  BY <1>1, <3>1, Consts DEF RowsInv, RowShape
  <2>3. PICK x : x = [snd[s] EXCEPT !.todo = todo]  OBVIOUS
  <2>4. /\ x \in SndT /\ x.pc = "listen" /\ x.sid = snd[s].sid /\ x.todo = todo /\ x.kind = snd[s].kind
        /\ x.ver = snd[s].ver /\ x.slot = snd[s].slot /\ x.out = snd[s].out /\ x.done = snd[s].done
        /\ x.fail = snd[s].fail /\ x.reply = snd[s].reply
    BY <1>1, <1>3, <2>2, <2>3 DEF SndT
  <2>5. snd' = [snd EXCEPT ![s] = x]  BY <1>4, <2>1, <2>3
  <2>6. SndMoves(s) /\ snd'[s] = x  BY <1>1, <2>4, <2>5, SndIs
  <2>7. SenderShape(s)'
    BY <1>1, <1>2, <1>3, <2>2, <2>4, <2>6 DEF SenderShape, SessionPcs
  <2>8. ReqMoves(s) /\ req'[s] = None /\ RowsMove /\ faults' \in Nat /\ faults <= faults'
    BY <1>3, <1>4, TouchMoves
  <2> QED  BY <1>2, <1>3, <1>4, <2>4, <2>6, <2>7, <2>8, PlainStep
<1>5. ASSUME NEW why \in Whys, Retire(s, why), UNCHANGED <<relay, faults>> \/ Lose
      PROVE  Keeps
  <2>1. ReqMoves(s) /\ req'[s] = None /\ RowsMove /\ faults' \in Nat /\ faults <= faults'
    BY <1>3, <1>5, RestingStep, LoseMoves DEF PostPcs
  <2> QED  BY <1>2, <1>3, <1>5, <2>1, RetireStep
<1>6. PICK why \in Whys : why = IF OwnRow(snd[s].slot) = {} \/ Owns(s, snd[s].slot) THEN "expired" ELSE "taken"
  BY DEF Whys
<1>7. CASE Retire(s, IF OwnRow(snd[s].slot) = {} \/ Owns(s, snd[s].slot) THEN "expired" ELSE "taken")
           /\ UNCHANGED <<relay, faults>>
  BY <1>5, <1>6, <1>7
<1>8. CASE Retire(s, "error") /\ Lose  BY <1>5, <1>8 DEF Whys
<1> QED  BY <1>4, <1>7, <1>8 DEF Poll

LEMMA ReattachKeeps ==
    ASSUME RendezvousInv, NEW s \in Sender, Reattach(s)
    PROVE  Keeps
<1>1. Types /\ snd[s] \in SndT /\ SenderShape(s)  BY AllTyped
<1>2. rcv' = rcv /\ book' = book /\ now' = now /\ restarts' = restarts
      /\ given' = given /\ guesses' = guesses /\ lost' = lost
  BY DEF Reattach, history
<1>3. snd[s].pc = "reattach" /\ snd[s].slot \in Slot /\ snd[s].ver # "v1"
  BY <1>1 DEF Reattach, SenderShape
<1>4. ASSUME NEW c \in {"listen", "reclaim"}, Go(s, c), disk' = disk,
             ReqMoves(s) /\ req'[s] = None /\ RowsMove /\ faults' \in Nat /\ faults <= faults'
      PROVE  Keeps
  <2>1. /\ SndMoves(s) /\ snd'[s].pc = c /\ Kept(snd[s], snd'[s]) /\ snd'[s].todo = snd[s].todo
    BY <1>1, <1>4, GoIs DEF SenderPcs
  <2>2. SenderShape(s)'
    BY <1>1, <1>2, <1>3, <1>4, <2>1 DEF SenderShape, SessionPcs, Kept
  <2> QED  BY <1>2, <1>3, <1>4, <2>1, <2>2, PlainStep DEF Kept
<1>5. CASE /\ Owns(s, snd[s].slot) /\ rows' = Touched(snd[s].slot) /\ Go(s, "listen")
           /\ UNCHANGED <<disk, req, faults>>
  <2>1. ReqMoves(s) /\ req'[s] = None /\ RowsMove /\ faults' \in Nat /\ faults <= faults'
    BY <1>3, <1>5, TouchMoves
  <2> QED  BY <1>4, <1>5, <2>1
<1>6. CASE Go(s, "reclaim") /\ UNCHANGED <<disk, relay, faults>>
  <2>1. UNCHANGED <<relay, faults>> /\ disk' = disk  BY <1>6
  <2>2. ReqMoves(s) /\ req'[s] = None /\ RowsMove /\ faults' \in Nat /\ faults <= faults'
    BY <1>3, <2>1, RestingStep DEF PostPcs
  <2> QED  BY <1>4, <1>6, <2>1, <2>2
<1>7. ASSUME NEW why \in Whys, Retire(s, why), UNCHANGED <<relay, faults>> \/ Lose
      PROVE  Keeps
  <2>1. ReqMoves(s) /\ req'[s] = None /\ RowsMove /\ faults' \in Nat /\ faults <= faults'
    BY <1>3, <1>7, RestingStep, LoseMoves DEF PostPcs
  <2> QED  BY <1>2, <1>3, <1>7, <2>1, RetireStep
<1>8. "taken" \in Whys /\ "error" \in Whys  BY DEF Whys
<1> QED  BY <1>5, <1>6, <1>7, <1>8 DEF Reattach

LEMMA ReclaimedKeeps ==
    ASSUME RendezvousInv, NEW s \in Sender, Reclaimed(s)
    PROVE  Keeps
<1>1. Types /\ snd[s] \in SndT /\ SenderShape(s)  BY AllTyped
<1>2. rcv' = rcv /\ book' = book /\ now' = now /\ restarts' = restarts
      /\ given' = given /\ guesses' = guesses /\ lost' = lost
  BY DEF Reclaimed, history
<1>3. snd[s].pc = "reclaim" /\ snd[s].slot \in Slot /\ snd[s].ver # "v1"
  BY <1>1 DEF Reclaimed, SenderShape
<1>4. PICK v \in Answers :
        /\ Answer(s, v)
        /\ \/ Go(s, "listen") /\ disk' = disk
           \/ Retire(s, "taken") \/ Retire(s, "error")
  BY DEF Reclaimed
<1>5. ReqMoves(s) /\ req'[s] = None /\ faults' \in Nat /\ faults <= faults' /\ RowsMove
  BY <1>3, <1>4, AnsweredStep
<1>6. CASE Go(s, "listen") /\ disk' = disk
  <2>1. /\ SndMoves(s) /\ snd'[s].pc = "listen" /\ Kept(snd[s], snd'[s]) /\ snd'[s].todo = snd[s].todo
    BY <1>1, <1>6, GoIs DEF SenderPcs
  <2>2. SenderShape(s)'
    BY <1>1, <1>2, <1>3, <1>6, <2>1 DEF SenderShape, SessionPcs, Kept
  <2> QED  BY <1>2, <1>3, <1>5, <1>6, <2>1, <2>2, PlainStep DEF Kept
<1>7. ASSUME NEW why \in Whys, Retire(s, why) PROVE Keeps
  BY <1>2, <1>3, <1>5, <1>7, RetireStep
<1>8. "taken" \in Whys /\ "error" \in Whys  BY DEF Whys
<1> QED  BY <1>4, <1>6, <1>7, <1>8

LEMMA CheckIs ==
    ASSUME Types, RowsInv, NEW p \in Party, NEW row \in RowT, row.by = p, Check(p, row),
           rows' = rows, now' = now, snd' = snd, rcv' = rcv
    PROVE  ReqMoves(p) /\ Asks(p) /\ Like(req'[p].row, row)
<1>1. PICK st : st = PostStatus(row)  OBVIOUS
<1>2. st \in Answers \ {"lost"} /\ (st = "ok" /\ row.key \in SessionKeys => OwnRow(row.slot) # {})
  BY <1>1, StatusOk
<1>3. PICK x : x = IF st = "ok" THEN Stamped(row) ELSE row  OBVIOUS
<1>4. x \in RowT /\ Like(x, row)
  <2>1. CASE st = "ok"  BY <1>2, <1>3, <2>1, StampedIs
  <2>2. CASE st # "ok"  BY <1>3, <2>2 DEF Like, SameId
  <2> QED  BY <2>1, <2>2
<1>5. req' = [req EXCEPT ![p] = [status |-> st, row |-> x]]  BY <1>1, <1>3 DEF Check
<1>6. [status |-> st, row |-> x] \in ReqT  BY <1>2, <1>4 DEF ReqT
<1>7. ReqMoves(p) /\ req'[p] = [status |-> st, row |-> x]  BY <1>5, <1>6 DEF Types, ReqMoves
<1>8. Asks(p)  BY <1>1, <1>3, <1>7 DEF Asks
<1> QED  BY <1>4, <1>7, <1>8

LEMMA SenderPostKeeps ==
    ASSUME RendezvousInv, NEW s \in Sender, SenderPost(s)
    PROVE  Keeps
<1>1. /\ Types /\ snd[s] \in SndT /\ SenderShape(s) /\ DiskOf(s) /\ Counted(s) /\ s \in Party /\ Histories
      /\ RowsInv /\ SenderInv
  BY AllTyped DEF RendezvousInv
<1>2. /\ rcv' = rcv /\ disk' = disk /\ book' = book /\ now' = now /\ restarts' = restarts
      /\ given' = given /\ guesses' = guesses /\ lost' = lost
      /\ rows' = rows /\ snd' = snd /\ faults' = faults
  BY DEF SenderPost, Quiet, history
<1>3. snd[s].pc \in PostPcs /\ Check(s, ToPost(s))  BY DEF SenderPost, PostPcs
<1>4. PICK row : row = ToPost(s)  OBVIOUS
<1>5. row \in RowT /\ row.by = s  BY <1>1, <1>3, <1>4, ToPostIs
<1>6. ReqMoves(s) /\ Asks(s) /\ Like(req'[s].row, row)  BY <1>1, <1>2, <1>3, <1>4, <1>5, CheckIs
<1>7. ToPost(s)' = row  BY <1>2, <1>4 DEF ToPost
<1>8. RowsMove  BY <1>2, StillRows
<1>9. SenderActs(s)
  BY <1>1, <1>2, <1>6 DEF Types, SenderActs, Histories, ReqMoves
<1>10. SenderOwes(s)
  <2>1. SenderShape(s)'  BY <1>1, <1>2 DEF SenderShape, Proven, Words
  <2>2. \A sid \in Receiver : Waits(s, sid) => Waits(s, sid)'  BY <1>2 DEF Waits
  <2>3. DiskOf(s)' /\ Counted(s)'  BY <1>1, <1>2 DEF DiskOf, Counted
  <2> QED  BY <1>2, <1>3, <1>6, <1>7, <2>1, <2>2, <2>3 DEF SenderOwes
<1> QED  BY <1>8, <1>9, <1>10, SenderKeeps

LEMMA CancelKeeps ==
    ASSUME RendezvousInv, NEW s \in Sender, Cancel(s)
    PROVE  Keeps
<1>1. /\ Types /\ snd[s] \in SndT /\ SenderShape(s) /\ DiskOf(s) /\ Counted(s) /\ s \in Party /\ Histories
      /\ PendingInv
  BY AllTyped DEF RendezvousInv
<1>2. /\ rcv' = rcv /\ disk' = disk /\ book' = book /\ now' = now /\ restarts' = restarts
      /\ given' = given /\ guesses' = guesses /\ lost' = lost
      /\ rows' = rows /\ req' = req /\ faults' = faults
  BY DEF Cancel, Quiet, history, relay
<1>3. PICK x : x = [snd[s] EXCEPT !.cancel = TRUE]  OBVIOUS
<1>4. x \in SndT /\ x.pc = snd[s].pc /\ Kept(snd[s], x) /\ x.todo = snd[s].todo
  BY <1>1, <1>3 DEF SndT, Kept
<1>5. snd' = [snd EXCEPT ![s] = x]  BY <1>3 DEF Cancel
<1>6. SndMoves(s) /\ snd'[s] = x  BY <1>1, <1>4, <1>5, SndIs
<1>7. ToPost(s)' = ToPost(s)  BY <1>4, <1>6 DEF ToPost, Kept
<1>8. RowsMove  BY <1>2, StillRows
<1>9. SenderActs(s)
  BY <1>1, <1>2, <1>6 DEF Types, SenderActs, Histories, SndMoves
<1>10. SenderOwes(s)
  <2>1. SenderShape(s)'  BY <1>1, <1>2, <1>4, <1>6 DEF SenderShape, Proven, Words, Kept
  <2>2. \A sid \in Receiver : Waits(s, sid) => Waits(s, sid)'  BY <1>2, <1>4, <1>6 DEF Waits, Kept
  <2>3. DiskOf(s)' /\ Counted(s)'  BY <1>1, <1>2, <1>4, <1>6 DEF DiskOf, Counted, Kept
  <2>4. req'[s] # None => snd'[s].pc \in PostPcs /\ Like(req[s].row, ToPost(s))'
    BY <1>1, <1>2, <1>4, <1>6, <1>7 DEF PendingInv, Like, SameId
  <2> QED  BY <1>2, <1>4, <1>6, <2>1, <2>2, <2>3, <2>4 DEF SenderOwes, Kept
<1> QED  BY <1>8, <1>9, <1>10, SenderKeeps

\* A step that counts a session, and writes that down.
LEMMA WrittenStep ==
    ASSUME RendezvousInv, NEW s \in Sender, SndMoves(s), ReqMoves(s), req'[s] = None, RowsMove,
           rcv' = rcv, now' = now, book' = book, restarts' = restarts,
           faults' \in Nat, faults <= faults',
           NEW d \in Nat, NEW f \in Nat, snd'[s].done = d, snd'[s].fail = f,
           disk' = IF snd[s].kind = "send"
                   THEN [disk EXCEPT ![s] = [slot |-> snd[s].slot, done |-> d, fail |-> f]]
                   ELSE disk,
           snd[s].pc \in {"noise", "seal", "await_b"}, snd'[s].pc = "listen",
           snd'[s].kind = snd[s].kind, snd'[s].ver = snd[s].ver, snd'[s].slot = snd[s].slot,
           snd'[s].sid = snd[s].sid, snd'[s].todo = snd[s].todo, snd[s].out \subseteq snd'[s].out,
           snd[s].pc = "await_b" => snd[s].sid \in snd'[s].out,
           snd'[s].reply \in {None, snd[s].reply} \/ (faults' = 0 => Mutual(s, snd[s].reply)'),
           given' \in [Sender -> Nat], guesses' \in [Sender -> Nat], lost' \in [Sender -> Nat],
           \A q \in Sender : q # s => given'[q] = given[q] /\ guesses'[q] = guesses[q] /\ lost'[q] = lost[q],
           lost[s] <= lost'[s],
           given'[s] + guesses'[s] <= d + f + lost'[s]
    PROVE  Keeps
<1>1. /\ Types /\ snd[s] \in SndT /\ SenderShape(s) /\ DiskOf(s) /\ s \in Party /\ Histories
      /\ restarts \in Nat /\ lost[s] \in Nat /\ lost'[s] \in Nat
  BY AllTyped DEF Histories
<1>2. snd[s].slot \in Slot /\ snd[s].ver # "v1"  BY <1>1 DEF SenderShape
<1>3. disk' \in [Sender -> DiskT \cup {None}] /\ (\A q \in Sender : q # s => disk'[q] = disk[q])
  BY <1>1, <1>2, DiskIs
<1>4. SenderActs(s)
  BY <1>1, <1>3 DEF SenderActs, Histories, SndMoves, ReqMoves
<1>5. SenderShape(s)'  BY <1>1, <1>2 DEF SenderShape, SessionPcs
<1>6. \A sid \in Receiver : Waits(s, sid) => Waits(s, sid)'  BY <1>1 DEF Waits
<1>7. DiskOf(s)'
  <2>1. CASE snd[s].kind = "send"
    <3>1. disk'[s] = [slot |-> snd[s].slot, done |-> d, fail |-> f]  BY <1>1, <2>1 DEF Types
    <3> QED  BY <2>1, <3>1 DEF DiskOf
  <2>2. CASE snd[s].kind # "send"
    <3>1. disk' = disk  BY <2>2
    <3> QED  BY <1>1, <2>2, <3>1 DEF DiskOf
  <2> QED  BY <2>1, <2>2
<1>8. Counted(s)'  BY DEF Counted
<1>9. SenderOwes(s)  BY <1>2, <1>5, <1>6, <1>7, <1>8 DEF SenderOwes
<1> QED  BY <1>4, <1>9, SenderKeeps

LEMMA RefusedKeeps ==
    ASSUME RendezvousInv, NEW s \in Sender, Refused(s)
    PROVE  Keeps
<1>1. /\ Types /\ snd[s] \in SndT /\ Counted(s) /\ s \in Party /\ Histories
      /\ given[s] \in Nat /\ guesses[s] \in Nat /\ lost[s] \in Nat
      /\ snd[s].done \in Nat /\ snd[s].fail \in Nat
  BY AllTyped
<1>2. /\ rcv' = rcv /\ book' = book /\ now' = now /\ restarts' = restarts
      /\ given' = given /\ lost' = lost /\ guesses' = [guesses EXCEPT ![s] = guesses[s] + 1]
      /\ snd[s].pc = "noise"
  BY DEF Refused
<1>3. ReqMoves(s) /\ req'[s] = None /\ faults' \in Nat /\ faults <= faults' /\ RowsMove
  BY <1>2, AnsweredStep DEF Refused
<1>4. PICK d \in Nat, f \in Nat : d = snd[s].done /\ f = snd[s].fail + 1  BY <1>1
<1>5. /\ SndMoves(s)
      /\ snd'[s].pc = "listen" /\ snd'[s].fail = f
      /\ snd'[s].out = snd[s].out /\ snd'[s].todo = snd[s].todo /\ snd'[s].reply = snd[s].reply
      /\ snd'[s].kind = snd[s].kind /\ snd'[s].ver = snd[s].ver /\ snd'[s].slot = snd[s].slot
      /\ snd'[s].sid = snd[s].sid /\ snd'[s].done = d
      /\ disk' = IF snd[s].kind = "send"
                 THEN [disk EXCEPT ![s] = [slot |-> snd[s].slot, done |-> d, fail |-> f]]
                 ELSE disk
  BY <1>1, <1>4, BadCodeIs DEF Refused
<1>6. /\ guesses' \in [Sender -> Nat] /\ guesses'[s] = guesses[s] + 1
      /\ \A q \in Sender : q # s => guesses'[q] = guesses[q]
  BY <1>1, <1>2 DEF Histories
<1>7. given[s] + guesses[s] <= snd[s].done + snd[s].fail + lost[s]  BY <1>1, <1>2 DEF Counted
<1>8. given'[s] + guesses'[s] <= d + f + lost'[s]  BY <1>1, <1>2, <1>4, <1>6, <1>7
<1>9. lost[s] <= lost'[s]  BY <1>1, <1>2
<1>10. given' \in [Sender -> Nat] /\ lost' \in [Sender -> Nat]  BY <1>1, <1>2 DEF Histories
<1>11. \A q \in Sender : q # s => given'[q] = given[q] /\ guesses'[q] = guesses[q] /\ lost'[q] = lost[q]
  BY <1>2, <1>6
<1>12. snd[s].out \subseteq snd'[s].out /\ snd'[s].reply \in {None, snd[s].reply}  BY <1>5
<1> QED  BY <1>2, <1>3, <1>5, <1>6, <1>8, <1>9, <1>10, <1>11, <1>12, WrittenStep

\* What lands was not there.
LEMMA LandsNew ==
    ASSUME NEW p, Lands(p) PROVE rows' # rows
<1>1. req[p].row \in rows'  BY DEF Lands
<1>2. req[p].row \notin rows  BY DEF Lands, SameKey
<1> QED  BY <1>1, <1>2

LEMMA SealedKeeps ==
    ASSUME RendezvousInv, NEW s \in Sender, Sealed(s)
    PROVE  Keeps
<1>1. /\ Types /\ snd[s] \in SndT /\ Counted(s) /\ s \in Party /\ Histories /\ SenderShape(s) /\ DiskOf(s)
      /\ given[s] \in Nat /\ guesses[s] \in Nat /\ lost[s] \in Nat
      /\ snd[s].done \in Nat /\ snd[s].fail \in Nat
  BY AllTyped
<1>2. /\ rcv' = rcv /\ book' = book /\ now' = now /\ restarts' = restarts /\ guesses' = guesses
      /\ snd[s].pc = "seal"
  BY DEF Sealed
<1>3. PICK v \in Answers :
        /\ Answer(s, v)
        /\ IF v # "ok" THEN Go(s, "listen") /\ UNCHANGED disk
           ELSE IF snd[s].kind = "contact" THEN Go(s, "await_b") /\ UNCHANGED disk
           ELSE Paired(s, None)
        /\ given' = [given EXCEPT ![s] = @ + IF rows' # rows THEN 1 ELSE 0]
        /\ lost' = [lost EXCEPT ![s] = @ + IF rows' # rows /\ v # "ok" THEN 1 ELSE 0]
  BY DEF Sealed
<1>4. ReqMoves(s) /\ req'[s] = None /\ faults' \in Nat /\ faults <= faults' /\ (rows' = rows \/ Lands(s))
  BY <1>3, AnsweredStep
<1>5. PICK a \in {0, 1}, b \in {0, 1} :
        /\ a = IF rows' # rows THEN 1 ELSE 0
        /\ b = IF rows' # rows /\ v # "ok" THEN 1 ELSE 0
  OBVIOUS
<1>6. /\ given' \in [Sender -> Nat] /\ given'[s] = given[s] + a
      /\ lost' \in [Sender -> Nat] /\ lost'[s] = lost[s] + b
      /\ \A q \in Sender : q # s => given'[q] = given[q] /\ lost'[q] = lost[q]
  <2>1. given[s] + a \in Nat /\ lost[s] + b \in Nat  BY <1>1
  <2>2. given' = [given EXCEPT ![s] = given[s] + a] /\ lost' = [lost EXCEPT ![s] = lost[s] + b]
    BY <1>3, <1>5
  <2> QED  BY <1>1, <2>1, <2>2 DEF Histories
<1>7. given[s] + guesses[s] <= snd[s].done + snd[s].fail + lost[s]  BY <1>1, <1>2 DEF Counted
<1>8. snd[s].sid \in Receiver /\ snd[s].slot \in Slot /\ snd[s].ver # "v1"
  BY <1>1, <1>2 DEF SenderShape, SessionPcs
<1>9. lost[s] <= lost'[s] /\ (\A q \in Sender : q # s => guesses'[q] = guesses[q])
      /\ guesses' \in [Sender -> Nat] /\ restarts \in Nat
  BY <1>1, <1>2, <1>6 DEF Histories
<1>10. ASSUME NEW c \in {"listen", "await_b"}, Go(s, c), disk' = disk,
              c = "listen" => v # "ok", c = "await_b" => snd[s].kind = "contact"
       PROVE  Keeps
  <2>1. /\ SndMoves(s) /\ snd'[s].pc = c /\ Kept(snd[s], snd'[s]) /\ snd'[s].todo = snd[s].todo
    BY <1>1, <1>10, GoIs DEF SenderPcs
  <2>2. SenderActs(s)
    BY <1>1, <1>2, <1>4, <1>6, <1>9, <1>10, <2>1 DEF Types, SenderActs, Histories, SndMoves, ReqMoves
  <2>3. \A sid \in Receiver : Waits(s, sid) => Waits(s, sid)'
    BY <1>1, <1>2, <1>9, <1>6, <2>1 DEF Waits, Kept
  <2>4. \A sid \in Receiver : snd[s].pc = "seal" /\ sid = snd[s].sid /\ Lands(s) => Waits(s, sid)'
    <3> SUFFICES ASSUME Lands(s) PROVE lost'[s] > 0 \/ snd'[s].pc = "await_b"
      BY <2>1 DEF Waits, Kept
    <3>1. CASE c = "await_b"  BY <2>1, <3>1
    <3>2. CASE c = "listen"
      <4>1. b = 1  BY <1>5, <1>10, <3>2, LandsNew
      <4> QED  BY <1>1, <1>6, <4>1
    <3> QED  BY <3>1, <3>2
  <2>5. RowsMove  BY <1>4, <2>4, AnsweredRows
  <2>6. SenderShape(s)'
    BY <1>1, <1>2, <1>8, <1>10, <2>1 DEF SenderShape, SessionPcs, Kept
  <2>7. DiskOf(s)'  BY <1>1, <1>2, <1>10, <2>1 DEF DiskOf, Kept
  <2>8. Counted(s)'
    <3>1. CASE c = "listen"
      <4>1. a = b  BY <1>5, <1>10, <3>1
      <4>2. given'[s] + guesses'[s] <= snd'[s].done + snd'[s].fail + lost'[s]
        BY <1>1, <1>2, <1>6, <1>7, <2>1, <4>1 DEF Kept
      <4> QED  BY <2>1, <3>1, <4>2 DEF Counted
    <3>2. CASE c = "await_b"
      <4>1. given'[s] + guesses'[s] <= snd'[s].done + snd'[s].fail + lost'[s] + 1
        BY <1>1, <1>2, <1>6, <1>7, <2>1 DEF Kept
      <4> QED  BY <2>1, <3>2, <4>1 DEF Counted
    <3> QED  BY <3>1, <3>2
  <2>9. SenderOwes(s)  BY <1>4, <1>8, <2>1, <2>3, <2>6, <2>7, <2>8 DEF SenderOwes, Kept
  <2> QED  BY <2>2, <2>5, <2>9, SenderKeeps
<1>11. CASE Paired(s, None)
  <2>1. PICK d \in Nat, f \in Nat : d = snd[s].done + 1 /\ f = snd[s].fail  BY <1>1
  <2>2. /\ SndMoves(s)
        /\ snd'[s].pc = "listen" /\ snd'[s].done = d /\ snd'[s].reply = None
        /\ snd'[s].out = snd[s].out \cup {snd[s].sid} /\ snd'[s].todo = snd[s].todo
        /\ snd'[s].kind = snd[s].kind /\ snd'[s].ver = snd[s].ver /\ snd'[s].slot = snd[s].slot
        /\ snd'[s].sid = snd[s].sid /\ snd'[s].fail = f
        /\ disk' = IF snd[s].kind = "send"
                   THEN [disk EXCEPT ![s] = [slot |-> snd[s].slot, done |-> d, fail |-> f]]
                   ELSE disk
    BY <1>1, <1>8, <1>11, <2>1, PairedIs
  <2>3. given'[s] + guesses'[s] <= d + f + lost'[s]  BY <1>1, <1>2, <1>6, <1>7, <2>1
  <2>4. \A sid \in Receiver : sid = snd[s].sid => Waits(s, sid)'  BY <2>2 DEF Waits
  <2>5. RowsMove  BY <1>4, <2>4, AnsweredRows
  <2>6. snd[s].out \subseteq snd'[s].out /\ snd'[s].reply \in {None, snd[s].reply}
        /\ \A q \in Sender : q # s => given'[q] = given[q] /\ guesses'[q] = guesses[q] /\ lost'[q] = lost[q]
    BY <1>6, <1>9, <2>2
  <2> QED  BY <1>2, <1>4, <1>6, <1>9, <2>2, <2>3, <2>5, <2>6, WrittenStep
<1> QED  BY <1>3, <1>10, <1>11

LEMMA GotReplyKeeps ==
    ASSUME RendezvousInv, NEW s \in Sender, GotReply(s)
    PROVE  Keeps
<1>1. /\ Types /\ snd[s] \in SndT /\ Counted(s) /\ s \in Party /\ Histories /\ SenderShape(s)
      /\ given[s] \in Nat /\ guesses[s] \in Nat /\ lost[s] \in Nat
      /\ snd[s].done \in Nat /\ snd[s].fail \in Nat /\ RowsInv /\ HalvesInv
  BY AllTyped DEF RendezvousInv
<1>2. /\ rcv' = rcv /\ book' = book /\ now' = now /\ restarts' = restarts
      /\ given' = given /\ guesses' = guesses /\ lost' = lost /\ req' = req /\ faults' = faults
      /\ snd[s].pc = "await_b"
  BY DEF GotReply, history
<1>3. RowsMove
  <2>1. rows' \subseteq rows /\ \A row \in rows \ rows' : row.key \notin {"own", "t"}
    BY DEF GotReply, Without
  <2> QED  BY <2>1 DEF RowsMove, Drops, Wanted
<1>4. PICK reply \in Receiver \cup {None} :
        Paired(s, reply) /\ (reply # None => (faults = 0 => Mutual(s, reply)))
  <2>1. ASSUME NEW b \in Get(snd[s].slot, "b", snd[s].sid), Paired(s, IF b.code = s THEN b.by ELSE None)
        PROVE  \E reply \in Receiver \cup {None} :
                 Paired(s, reply) /\ (reply # None => (faults = 0 => Mutual(s, reply)))
    <3>1. b \in rows /\ b.key = "b" /\ b.by \in Receiver /\ b.code = Words(b.by)
      BY <1>1 DEF Get, RowsInv, RowShape, RowTrue
    <3>2. faults = 0 => rcv[b.by].replied  BY <1>1, <3>1 DEF HalvesInv
    <3>3. CASE b.code = s  BY <2>1, <3>1, <3>2, <3>3 DEF Mutual
    <3>4. CASE b.code # s  BY <2>1, <3>4
    <3> QED  BY <3>3, <3>4
  <2>2. CASE Paired(s, None)  BY <2>2
  <2> QED  BY <2>1, <2>2 DEF GotReply
<1>5. PICK d \in Nat, f \in Nat : d = snd[s].done + 1 /\ f = snd[s].fail  BY <1>1
<1>6. snd[s].sid \in Receiver  BY <1>1, <1>2 DEF SenderShape, SessionPcs
<1>7. /\ SndMoves(s)
      /\ snd'[s].pc = "listen" /\ snd'[s].done = d /\ snd'[s].reply = reply
      /\ snd'[s].out = snd[s].out \cup {snd[s].sid} /\ snd'[s].todo = snd[s].todo
      /\ snd'[s].kind = snd[s].kind /\ snd'[s].ver = snd[s].ver /\ snd'[s].slot = snd[s].slot
      /\ snd'[s].sid = snd[s].sid /\ snd'[s].fail = f
      /\ disk' = IF snd[s].kind = "send"
                 THEN [disk EXCEPT ![s] = [slot |-> snd[s].slot, done |-> d, fail |-> f]]
                 ELSE disk
  BY <1>1, <1>4, <1>5, <1>6, PairedIs
<1>8. given[s] + guesses[s] <= snd[s].done + snd[s].fail + lost[s] + 1  BY <1>1, <1>2 DEF Counted
<1>9. given'[s] + guesses'[s] <= d + f + lost'[s]  BY <1>1, <1>2, <1>5, <1>8
<1>10. snd'[s].reply \in {None, snd[s].reply} \/ (faults' = 0 => Mutual(s, snd[s].reply)')
  BY <1>2, <1>4, <1>7 DEF Mutual, Words
<1>11. req[s] = None /\ faults \in Nat  BY <1>1, <1>2, Resting DEF PostPcs, Types
<1>12. ReqMoves(s) /\ req'[s] = None /\ faults' \in Nat /\ faults <= faults'
  BY <1>1, <1>2, <1>11, ReqIs
<1>13. /\ given' \in [Sender -> Nat] /\ guesses' \in [Sender -> Nat] /\ lost' \in [Sender -> Nat]
       /\ lost[s] <= lost'[s] /\ snd[s].out \subseteq snd'[s].out /\ snd[s].sid \in snd'[s].out
       /\ \A q \in Sender : q # s => given'[q] = given[q] /\ guesses'[q] = guesses[q] /\ lost'[q] = lost[q]
  BY <1>1, <1>2, <1>7 DEF Histories
<1> QED  BY <1>2, <1>3, <1>7, <1>9, <1>10, <1>12, <1>13, WrittenStep

LEMMA CloseCodeKeeps ==
    ASSUME RendezvousInv, NEW s \in Sender, NEW patient, CloseCode(s, patient)
    PROVE  Keeps
<1>1. Types /\ SenderShape(s) /\ s \in Party /\ RowsInv /\ faults \in Nat  BY AllTyped DEF RendezvousInv, Types
<1>2. /\ rcv' = rcv /\ now' = now /\ restarts' = restarts
      /\ given' = given /\ guesses' = guesses /\ lost' = lost /\ snd[s].pc = "listen"
  BY DEF CloseCode, history
<1>3. PICK why : why = IF snd[s].cancel THEN "cancelled"
                      ELSE IF snd[s].done < MaxSessions THEN "failures"
                      ELSE IF patient THEN "served" ELSE "impatient"
  OBVIOUS
<1>w. why \in Whys /\ Retire(s, why)
  <2>1. why \in Whys  BY <1>3 DEF Whys
  <2> QED  BY <1>3, <2>1 DEF CloseCode
<1>4. book' = book \/ (snd[s].reply # None /\ book' = book \cup {<<s, snd[s].reply>>})
  BY DEF CloseCode, SaveReply
<1>5. req[s] = None  BY <1>2, Resting DEF PostPcs
<1>6. CASE /\ rows' = IF Owns(s, snd[s].slot) THEN WithoutSlot(snd[s].slot) ELSE rows
           /\ UNCHANGED <<req, faults>>
  <2>1. ASSUME Owns(s, snd[s].slot) PROVE RowsMove
    <3>1. rows' = {row \in rows : row.slot # snd[s].slot}  BY <1>6, <2>1 DEF WithoutSlot
    <3>2. PICK own \in OwnRow(snd[s].slot) : own.by = s  BY <2>1 DEF Owns
    <3>3. OwnRow(snd[s].slot) = {own}  BY <1>1, <3>2, OneOwner
    <3>4. ASSUME NEW o \in rows \ rows', o.key = "own", Live(o) PROVE req[o.by] = None
      <4>1. o \in OwnRow(snd[s].slot)
        BY <1>1, <3>1, <3>4 DEF OwnRow, Get, RowsInv, RowShape
      <4> QED  BY <1>5, <3>2, <3>3, <4>1
    <3>5. ASSUME NEW t \in rows \ rows', Wanted(t) PROVE Collected(t)
      <4>1. t.slot = snd[s].slot /\ t.key = "t" /\ t.code # None  BY <3>1, <3>5 DEF Wanted
      <4>2. t.by = s  BY <3>2, <3>3, <3>5, <4>1 DEF Wanted, Owns
      <4>3. Waits(s, t.sid)  BY <4>1, <4>2 DEF RendezvousInv, WaitInv
      <4>4. CASE lost[s] > 0 \/ restarts > 0  BY <4>2, <4>4 DEF Collected
      <4>5. CASE t.sid \in snd[s].out
        <5>1. snd'[s].why = why  BY <1>1, <1>w, RetireIs
        <5>2. CASE why = "served"
          <6>1. ~snd[s].cancel /\ ~(snd[s].done < MaxSessions) /\ patient  BY <1>3, <5>2
          <6>2. Drained(s)  BY <6>1 DEF CloseCode
          <6>3. Get(t.slot, "r", t.sid) = {}  BY <2>1, <4>1, <4>5, <6>2 DEF Drained
          <6> QED  BY <3>5, <6>3 DEF Wanted
        <5>3. CASE why # "served"
          <6>1. why \in {"cancelled", "impatient", "failures"}  BY <1>3, <5>3
          <6> QED  BY <4>2, <5>1, <6>1 DEF Collected
        <5> QED  BY <5>2, <5>3
      <4> QED  BY <1>2, <4>3, <4>4, <4>5 DEF Waits
    <3> QED  BY <3>1, <3>4, <3>5 DEF RowsMove, Drops
  <2>2. ASSUME ~Owns(s, snd[s].slot) PROVE RowsMove  BY <1>6, <2>2, StillRows
  <2>3. RowsMove  BY <2>1, <2>2
  <2>4. ReqMoves(s) /\ req'[s] = None /\ faults' \in Nat /\ faults <= faults'
    BY <1>1, <1>5, <1>6, ReqIs
  <2> QED  BY <1>2, <1>w, <1>4, <2>3, <2>4, RetireStep
<1>7. CASE Lose
  <2>1. ReqMoves(s) /\ req'[s] = None /\ RowsMove /\ faults' \in Nat /\ faults <= faults'
    BY <1>2, <1>7, LoseMoves DEF PostPcs
  <2> QED  BY <1>2, <1>w, <1>4, <2>1, RetireStep
<1> QED  BY <1>6, <1>7 DEF CloseCode

LEMMA ResumeCodeKeeps ==
    ASSUME RendezvousInv, NEW s \in Sender, ResumeCode(s)
    PROVE  Keeps
<1>1. /\ Types /\ snd[s] \in SndT /\ Counted(s) /\ s \in Party /\ Histories /\ SenderShape(s) /\ DiskOf(s)
  BY AllTyped
<1>2. /\ rcv' = rcv /\ book' = book /\ now' = now /\ restarts' = restarts /\ faults' = faults
      /\ given' = given /\ guesses' = guesses /\ lost' = lost
      /\ snd[s].pc = "down" /\ disk[s] # None /\ disk' = [disk EXCEPT ![s] = None]
      /\ UNCHANGED <<relay, faults>>
  BY DEF ResumeCode, history, world
<1>3. PICK d : d = disk[s]  OBVIOUS
<1>4. d.slot \in Slot /\ d.done \in Nat /\ d.fail \in Nat  BY <1>1, <1>2, <1>3 DEF Types, DiskT
<1>5. PICK x : x = [snd[s] EXCEPT !.pc = "reattach", !.slot = d.slot, !.done = d.done, !.fail = d.fail]
  OBVIOUS
<1>6. /\ x \in SndT /\ x.pc = "reattach" /\ x.slot = d.slot /\ x.done = d.done /\ x.fail = d.fail
      /\ x.kind = snd[s].kind /\ x.ver = snd[s].ver /\ x.sid = snd[s].sid /\ x.todo = snd[s].todo
      /\ x.out = snd[s].out /\ x.reply = snd[s].reply
  BY <1>1, <1>4, <1>5 DEF SndT, SenderPcs
<1>7. snd' = [snd EXCEPT ![s] = x]  BY <1>3, <1>5 DEF ResumeCode, ResumeCounters
<1>8. SndMoves(s) /\ snd'[s] = x  BY <1>1, <1>6, <1>7, SndIs
<1>9. ReqMoves(s) /\ req'[s] = None /\ RowsMove /\ faults' \in Nat /\ faults <= faults'
  BY <1>2, RestingStep DEF PostPcs
<1>10. /\ disk' \in [Sender -> DiskT \cup {None}] /\ (\A q \in Sender : q # s => disk'[q] = disk[q])
       /\ disk'[s] = None
  BY <1>1, <1>2, DiskIs DEF Types
<1>11. SenderActs(s)
  BY <1>1, <1>2, <1>8, <1>9, <1>10 DEF SenderActs, Histories, SndMoves, ReqMoves
<1>12. snd[s].ver # "v1"  BY <1>1, <1>2 DEF SenderShape
<1>13. SenderShape(s)'
  BY <1>1, <1>2, <1>4, <1>6, <1>8, <1>12 DEF SenderShape, SessionPcs
<1>14. \A sid \in Receiver : Waits(s, sid) => Waits(s, sid)'  BY <1>2, <1>6, <1>8 DEF Waits
<1>15. DiskOf(s)' /\ Counted(s)'  BY <1>1, <1>2, <1>3, <1>6, <1>8, <1>10 DEF DiskOf, Counted
<1>16. SenderOwes(s)  BY <1>6, <1>8, <1>9, <1>12, <1>13, <1>14, <1>15 DEF SenderOwes
<1> QED  BY <1>9, <1>11, <1>16, SenderKeeps

LEMMA CrashKeeps ==
    ASSUME RendezvousInv, NEW s \in Sender, Crash(s)
    PROVE  Keeps
<1>1. /\ Types /\ snd[s] \in SndT /\ Counted(s) /\ s \in Party /\ Histories /\ SenderShape(s) /\ DiskOf(s)
      /\ given[s] \in Nat /\ guesses[s] \in Nat /\ lost[s] \in Nat
      /\ snd[s].done \in Nat /\ snd[s].fail \in Nat /\ restarts \in Nat /\ faults \in Nat
  BY AllTyped DEF Histories
<1>2. /\ rcv' = rcv /\ book' = book /\ now' = now /\ restarts' = restarts + 1 /\ faults' = faults
      /\ disk' = disk /\ req' = [req EXCEPT ![s] = None] /\ snd[s].kind = "send"
      /\ snd[s].pc \notin {"idle", "closed", "failed", "down"}
      /\ snd' = [snd EXCEPT ![s] = [IdleSender EXCEPT !.pc = "down", !.slot = snd[s].slot]]
  BY DEF Crash
<1>3. PICK landed \in BOOLEAN :
        /\ rows' = IF landed /\ req[s] # None THEN RzClaim(s) ELSE rows
        /\ given' = [given EXCEPT ![s] = @ + IF snd[s].pc = "seal" /\ rows' # rows THEN 1 ELSE 0]
        /\ guesses' = [guesses EXCEPT ![s] = @ + IF snd[s].pc = "noise" /\ rows' # rows THEN 1 ELSE 0]
        /\ lost' = [lost EXCEPT ![s] = @ + IF (snd[s].pc = "seal" /\ rows' # rows)
                                              \/ (snd[s].pc = "noise" /\ rows' # rows) THEN 1 ELSE 0]
  BY DEF Crash
<1>4. snd[s].ver # "v1" /\ snd[s].pc # "await_b" /\ snd[s].slot \in Slot
  BY <1>1, <1>2 DEF SenderShape
<1>5. PICK x : x = [IdleSender EXCEPT !.pc = "down", !.slot = snd[s].slot]  OBVIOUS
<1>6. x = [pc |-> "down", kind |-> "send", ver |-> "v2", slot |-> snd[s].slot, sid |-> None, todo |-> {},
           out |-> {}, done |-> 0, fail |-> 0, tries |-> 0, cancel |-> FALSE, reply |-> None, why |-> "none"]
  BY <1>5 DEF IdleSender
<1>7. x \in SndT  BY <1>4, <1>6 DEF SndT, SenderPcs, Whys
<1>8. SndMoves(s) /\ snd'[s] = x  BY <1>1, <1>2, <1>5, <1>7, SndIs
<1>9. PICK a \in {0, 1}, b \in {0, 1}, c \in {0, 1} :
        /\ a = IF snd[s].pc = "seal" /\ rows' # rows THEN 1 ELSE 0
        /\ b = IF snd[s].pc = "noise" /\ rows' # rows THEN 1 ELSE 0
        /\ c = IF (snd[s].pc = "seal" /\ rows' # rows) \/ (snd[s].pc = "noise" /\ rows' # rows) THEN 1 ELSE 0
  OBVIOUS
<1>10. a + b = c  BY <1>9
<1>11. /\ given' \in [Sender -> Nat] /\ given'[s] = given[s] + a
       /\ guesses' \in [Sender -> Nat] /\ guesses'[s] = guesses[s] + b
       /\ lost' \in [Sender -> Nat] /\ lost'[s] = lost[s] + c
       /\ \A q \in Sender : q # s => given'[q] = given[q] /\ guesses'[q] = guesses[q] /\ lost'[q] = lost[q]
  <2>1. given[s] + a \in Nat /\ guesses[s] + b \in Nat /\ lost[s] + c \in Nat  BY <1>1
  <2>2. /\ given' = [given EXCEPT ![s] = given[s] + a]
        /\ guesses' = [guesses EXCEPT ![s] = guesses[s] + b]
        /\ lost' = [lost EXCEPT ![s] = lost[s] + c]
    BY <1>3, <1>9
  <2> QED  BY <1>1, <2>1, <2>2 DEF Histories
<1>12. rows' = rows \/ Lands(s)
  <2>1. RzClaim(s) = rows \/ (RzClaim(s) = rows \cup {req[s].row} /\ req[s].status = "ok" /\ SameKey(s) = {})
    BY DEF RzClaim
  <2> QED  BY <1>3, <2>1 DEF Lands
<1>13. restarts' \in Nat /\ restarts' > 0 /\ restarts <= restarts'  BY <1>1, <1>2
<1>14. \A sid \in Receiver : Waits(s, sid)'  BY <1>13 DEF Waits
<1>15. RowsMove  BY <1>12, <1>14, AnsweredRows
<1>16. ReqMoves(s) /\ req'[s] = None  BY <1>1, <1>2, ReqIs
<1>17. SenderActs(s)
  <2>1. disk' \in [Sender -> DiskT \cup {None}] /\ (\A q \in Sender : q # s => disk'[q] = disk[q])
    BY <1>1, <1>2, DiskIs
  <2>2. faults <= faults' /\ faults' \in Nat  BY <1>1, <1>2
  <2> QED  BY <1>2, <1>8, <1>11, <1>13, <1>16, <2>1, <2>2 DEF SenderActs, Histories, SndMoves, ReqMoves
<1>18. /\ x.pc = "down" /\ x.kind = "send" /\ x.ver = "v2" /\ x.slot = snd[s].slot /\ x.sid = None
       /\ x.todo = {} /\ x.reply = None
  BY <1>6
<1>19. SenderShape(s)'  BY <1>4, <1>8, <1>18 DEF SenderShape, SessionPcs
<1>20. DiskOf(s)'  BY <1>8, <1>18 DEF DiskOf
<1>21. Counted(s)'
  <2>1. given[s] + guesses[s] <= snd[s].done + snd[s].fail + lost[s]  BY <1>1, <1>2, <1>4 DEF Counted
  <2>2. disk[s] # None => disk[s].done = snd[s].done /\ disk[s].fail = snd[s].fail
    BY <1>1, <1>2 DEF DiskOf
  <2>3. given'[s] + guesses'[s] <= snd[s].done + snd[s].fail + lost'[s]
    BY <1>1, <1>9, <1>10, <1>11, <2>1
  <2> QED  BY <1>2, <1>8, <1>18, <2>2, <2>3 DEF Counted
<1>22. SenderOwes(s)
  BY <1>4, <1>8, <1>14, <1>16, <1>18, <1>19, <1>20, <1>21 DEF SenderOwes
<1> QED  BY <1>15, <1>17, <1>22, SenderKeeps

-----------------------------------------------------------------------------
(* A step of a receiver.                                                   *)

RcvMoves(r) == rcv' \in [Receiver -> RcvT] /\ \A q \in Receiver : q # r => rcv'[q] = rcv[q]

LEMMA RcvIs ==
    ASSUME Types, NEW r \in Receiver, NEW x \in RcvT, rcv' = [rcv EXCEPT ![r] = x]
    PROVE  RcvMoves(r) /\ rcv'[r] = x
  BY DEF Types, RcvMoves

LEMMA GoRIs ==
    ASSUME Types, NEW r \in Receiver, NEW c \in ReceiverPcs, GoR(r, c)
    PROVE  /\ RcvMoves(r) /\ rcv'[r].pc = c /\ rcv'[r].kind = rcv[r].kind
           /\ rcv'[r].slot = rcv[r].slot /\ rcv'[r].words = rcv[r].words /\ rcv'[r].peer = rcv[r].peer
           /\ rcv'[r].got = rcv[r].got /\ rcv'[r].replied = rcv[r].replied
<1>1. rcv[r] \in RcvT  BY DEF Types
<1>2. PICK x : x = [rcv[r] EXCEPT !.pc = c]  OBVIOUS
<1>3. x \in RcvT  BY <1>1, <1>2 DEF RcvT
<1>4. rcv' = [rcv EXCEPT ![r] = x]  BY <1>2 DEF GoR
<1>5. RcvMoves(r) /\ rcv'[r] = x  BY <1>3, <1>4, RcvIs
<1> QED  BY <1>1, <1>2, <1>5 DEF RcvT

LEMMA RestingR ==
    ASSUME RendezvousInv, NEW r \in Receiver, rcv[r].pc \notin PostPcsR
    PROVE  req[r] = None
  BY DEF RendezvousInv, PendingInv

LEMMA AllTypedR ==
    ASSUME RendezvousInv, NEW r \in Receiver
    PROVE  Types /\ Base /\ rcv[r] \in RcvT /\ ReceiverShape(r) /\ r \in Party /\ faults \in Nat
  BY DEF RendezvousInv, Base, ReceiverInv, Types, Party

LEMMA CalmIs ==
    ASSUME Calm
    PROVE  /\ snd' = snd /\ now' = now /\ disk' = disk /\ restarts' = restarts /\ book' = book
           /\ given' = given /\ guesses' = guesses /\ lost' = lost
  BY DEF Calm, history

LEMMA RestingStepR ==
    ASSUME RendezvousInv, NEW r \in Receiver, rcv[r].pc \notin PostPcsR, req' = req, faults' = faults
    PROVE  ReqMoves(r) /\ req'[r] = None /\ faults' \in Nat /\ faults <= faults'
<1>1. Types /\ r \in Party /\ faults \in Nat /\ req[r] = None  BY AllTypedR, RestingR
<1> QED  BY <1>1, ReqIs

LEMMA AnsweredStepR ==
    ASSUME RendezvousInv, NEW r \in Receiver, NEW v, Answer(r, v), rcv'[r].pc \notin Early,
           rcv[r].pc = "back" => rcv'[r].replied = (v = "ok")
    PROVE  /\ ReqMoves(r) /\ req'[r] = None /\ RowsMove /\ faults' \in Nat /\ faults <= faults'
<1>1. Types /\ r \in Party /\ SenderInv /\ ReceiverInv /\ PendingInv  BY AllTypedR DEF Base
<1>2. /\ req[r] # None /\ req' = [req EXCEPT ![r] = None] /\ (rows' = rows \/ Lands(r))
      /\ faults' \in Nat /\ faults <= faults'
      /\ faults' = 0 => faults = 0 /\ (v # "ok" => rows' = rows)
  BY <1>1, AnswerIs
<1>3. RowsMove
  <2>1. CASE rows' = rows  BY <2>1, StillRows
  <2>2. CASE Lands(r) /\ rows' # rows
    <3>1. r \notin Sender  BY Consts
    <3>2. req[r].row.key = "b" => rcv[r].pc = "back"  BY <1>1, <1>2, PendingRow
    <3>3. req[r].row.key = "b" /\ faults' = 0 => rcv'[r].replied  BY <1>2, <2>2, <3>2
    <3> QED  BY <1>1, <2>2, <3>1, <3>3 DEF RowsMove
  <2> QED  BY <1>2, <2>1, <2>2
<1> QED  BY <1>1, <1>2, <1>3, ReqIs

\* A receiver's step, whatever it was, once its POST is not under way.
LEMMA ReceiverStepKeeps ==
    ASSUME RendezvousInv, NEW r \in Receiver, RcvMoves(r), ReqMoves(r), req'[r] = None, RowsMove,
           faults' \in Nat, faults <= faults',
           snd' = snd, now' = now, disk' = disk, restarts' = restarts,
           given' = given, guesses' = guesses, lost' = lost,
           book' = book \/ (rcv[r].got \in Sender /\ book' = book \cup {<<r, rcv[r].got>>}),
           ReceiverShape(r)',
           rcv[r].pc # "idle" => rcv'[r].pc # "idle" /\ rcv'[r].words = rcv[r].words,
           rcv[r].pc \notin Early => rcv'[r].pc \notin Early,
           rcv[r].pc \in Late => rcv'[r].pc \in Late /\ rcv'[r].peer = rcv[r].peer,
           rcv[r].replied => rcv'[r].replied
    PROVE  Keeps
<1>1. ReceiverActs(r)  BY DEF ReceiverActs, RcvMoves, ReqMoves
<1>2. ReceiverOwes(r)  BY DEF ReceiverOwes
<1> QED  BY <1>1, <1>2, ReceiverKeeps

LEMMA TypeKeeps ==
    ASSUME RendezvousInv, NEW r \in Receiver, NEW kind \in {"send", "contact", "device"}, Type(r, kind)
    PROVE  Keeps
<1>1. Types /\ rcv[r] \in RcvT /\ ReceiverShape(r) /\ SenderInv  BY AllTypedR DEF Base
<1>2. /\ snd' = snd /\ now' = now /\ disk' = disk /\ restarts' = restarts /\ book' = book
      /\ given' = given /\ guesses' = guesses /\ lost' = lost
      /\ rows' = rows /\ req' = req /\ faults' = faults /\ rcv[r].pc = "idle"
  BY CalmIs DEF Type, relay
<1>3. PICK s \in Sender, words \in Sender \cup {None} :
        /\ snd[s].pc # "idle"
        /\ rcv' = [rcv EXCEPT ![r] = [rcv[r] EXCEPT !.pc = "probe", !.kind = kind,
                                                   !.slot = snd[s].slot, !.words = words]]
  BY DEF Type
<1>4. snd[s].slot \in Slot  BY <1>1, <1>3 DEF SenderInv, SenderShape
<1>5. PICK x : x = [rcv[r] EXCEPT !.pc = "probe", !.kind = kind, !.slot = snd[s].slot, !.words = words]
  OBVIOUS
<1>6. /\ x \in RcvT /\ x.pc = "probe" /\ x.slot = snd[s].slot /\ x.words = words /\ x.peer = rcv[r].peer
      /\ x.got = rcv[r].got /\ x.replied = rcv[r].replied
  BY <1>1, <1>4, <1>5 DEF RcvT, ReceiverPcs
<1>7. RcvMoves(r) /\ rcv'[r] = x  BY <1>1, <1>3, <1>5, <1>6, RcvIs
<1>8. ReqMoves(r) /\ req'[r] = None /\ faults' \in Nat /\ faults <= faults' /\ RowsMove
  BY <1>2, RestingStepR, StillRows DEF PostPcsR
<1>9. rcv[r].got = None /\ ~rcv[r].replied  BY <1>1, <1>2 DEF ReceiverShape
<1>10. ReceiverShape(r)'
  BY <1>4, <1>6, <1>7, <1>9, Consts DEF ReceiverShape
<1> QED  BY <1>2, <1>6, <1>7, <1>8, <1>9, <1>10, ReceiverStepKeeps DEF Early, Late

\* A receiver looks, or gives up.
LEMMA LookKeeps ==
    ASSUME RendezvousInv, NEW r \in Receiver, Probe(r) \/ GiveUp(r)
    PROVE  Keeps
<1>1. Types /\ rcv[r] \in RcvT /\ ReceiverShape(r)  BY AllTypedR
<1>2. Calm /\ rows' = rows /\ req' = req /\ faults' = faults
      /\ rcv[r].pc \in {"probe", "wait_s", "wait_t", "v1ms", "v1t"}
  BY DEF Probe, GiveUp, relay
<1>3. PICK c \in {"open", "v1ms", "failed"} :
        GoR(r, c) /\ (c # "failed" => rcv[r].pc = "probe")
  BY DEF Probe, GiveUp
<1>4. /\ RcvMoves(r) /\ rcv'[r].pc = c /\ rcv'[r].kind = rcv[r].kind
      /\ rcv'[r].slot = rcv[r].slot /\ rcv'[r].words = rcv[r].words /\ rcv'[r].peer = rcv[r].peer
      /\ rcv'[r].got = rcv[r].got /\ rcv'[r].replied = rcv[r].replied
  BY <1>1, <1>3, GoRIs DEF ReceiverPcs
<1>5. ReqMoves(r) /\ req'[r] = None /\ faults' \in Nat /\ faults <= faults' /\ RowsMove
  BY <1>2, RestingStepR, StillRows DEF PostPcsR
<1>6. ReceiverShape(r)'
  BY <1>1, <1>2, <1>3, <1>4 DEF ReceiverShape, Words
<1> QED  BY <1>2, <1>3, <1>4, <1>5, <1>6, CalmIs, ReceiverStepKeeps DEF Early, Late

LEMMA ReceiverPostKeeps ==
    ASSUME RendezvousInv, NEW r \in Receiver, ReceiverPost(r)
    PROVE  Keeps
<1>1. Types /\ rcv[r] \in RcvT /\ ReceiverShape(r) /\ RowsInv /\ ReceiverInv /\ r \in Party /\ faults \in Nat
  BY AllTypedR DEF Base
<1>2. /\ snd' = snd /\ now' = now /\ disk' = disk /\ restarts' = restarts /\ book' = book
      /\ given' = given /\ guesses' = guesses /\ lost' = lost
      /\ rows' = rows /\ rcv' = rcv /\ faults' = faults
  BY CalmIs DEF ReceiverPost
<1>3. rcv[r].pc \in PostPcsR /\ Check(r, ToPostR(r))  BY DEF ReceiverPost, PostPcsR
<1>4. PICK row : row = ToPostR(r)  OBVIOUS
<1>5. row \in RowT /\ row.by = r  BY <1>1, <1>3, <1>4, ToPostRIs
<1>6. ReqMoves(r) /\ Asks(r) /\ Like(req'[r].row, row)  BY <1>1, <1>2, <1>3, <1>4, <1>5, CheckIs
<1>7. ToPostR(r)' = row  BY <1>2, <1>4 DEF ToPostR, Words
<1>8. RowsMove  BY <1>2, StillRows
<1>9. ReceiverActs(r)  BY <1>1, <1>2, <1>6 DEF Types, ReceiverActs, ReqMoves
<1>10. ReceiverShape(r)'  BY <1>1, <1>2 DEF ReceiverShape, Words
<1>11. ReceiverOwes(r)  BY <1>2, <1>3, <1>6, <1>7, <1>10 DEF ReceiverOwes
<1> QED  BY <1>8, <1>9, <1>11, ReceiverKeeps

LEMMA PostedKeeps ==
    ASSUME RendezvousInv, NEW r \in Receiver, Posted(r)
    PROVE  Keeps
<1>1. Types /\ rcv[r] \in RcvT /\ ReceiverShape(r)  BY AllTypedR
<1>2. Calm /\ rcv[r].pc \in {"open", "confirm", "mr"}  BY DEF Posted
<1>3. PICK v \in Answers : Answer(r, v) /\
        (\/ GoR(r, "failed")
         \/ rcv[r].pc = "open" /\ GoR(r, "wait_s")
         \/ rcv[r].pc = "confirm" /\ GoR(r, "wait_t")
         \/ rcv[r].pc = "mr" /\ GoR(r, "v1t"))
  BY DEF Posted
<1>4. PICK c \in {"failed", "wait_s", "wait_t", "v1t"} :
        GoR(r, c) /\ (c = "wait_s" => rcv[r].pc = "open")
  BY <1>3
<1>5. /\ RcvMoves(r) /\ rcv'[r].pc = c /\ rcv'[r].kind = rcv[r].kind
      /\ rcv'[r].slot = rcv[r].slot /\ rcv'[r].words = rcv[r].words /\ rcv'[r].peer = rcv[r].peer
      /\ rcv'[r].got = rcv[r].got /\ rcv'[r].replied = rcv[r].replied
  BY <1>1, <1>4, GoRIs DEF ReceiverPcs
<1>6. ReqMoves(r) /\ req'[r] = None /\ RowsMove /\ faults' \in Nat /\ faults <= faults'
  BY <1>2, <1>3, <1>5, AnsweredStepR DEF Early
<1>7. ReceiverShape(r)'
  BY <1>1, <1>2, <1>4, <1>5 DEF ReceiverShape, Words
<1> QED  BY <1>2, <1>4, <1>5, <1>6, <1>7, CalmIs, ReceiverStepKeeps DEF Early, Late

\* A receiver reads the message of its peer.
LEMMA ReadKeeps ==
    ASSUME RendezvousInv, NEW r \in Receiver, NEW m \in rows, m.by \in Sender,
           NEW c \in {"confirm", "mr"}, rcv[r].pc \in {"wait_s", "v1ms"},
           rcv' = [rcv EXCEPT ![r] = [rcv[r] EXCEPT !.pc = c, !.peer = m.by]],
           Calm, rows' = rows, req' = req, faults' = faults
    PROVE  Keeps
<1>1. Types /\ rcv[r] \in RcvT /\ ReceiverShape(r)  BY AllTypedR
<1>2. PICK x : x = [rcv[r] EXCEPT !.pc = c, !.peer = m.by]  OBVIOUS
<1>3. /\ x \in RcvT /\ x.pc = c /\ x.slot = rcv[r].slot /\ x.words = rcv[r].words
      /\ x.got = rcv[r].got /\ x.replied = rcv[r].replied
  BY <1>1, <1>2 DEF RcvT, ReceiverPcs
<1>4. RcvMoves(r) /\ rcv'[r] = x  BY <1>1, <1>2, <1>3, RcvIs
<1>5. ReqMoves(r) /\ req'[r] = None /\ faults' \in Nat /\ faults <= faults' /\ RowsMove
  BY RestingStepR, StillRows DEF PostPcsR
<1>6. ReceiverShape(r)'  BY <1>1, <1>3, <1>4 DEF ReceiverShape, Words
<1> QED  BY <1>3, <1>4, <1>5, <1>6, CalmIs, ReceiverStepKeeps DEF Early, Late

LEMMA MessageKeeps ==
    ASSUME RendezvousInv, NEW r \in Receiver, GotAnswer(r) \/ V1Message(r)
    PROVE  Keeps
<1>1. Types /\ rcv[r] \in RcvT /\ ReceiverShape(r) /\ RowsInv  BY AllTypedR DEF Base
<1>2. Calm /\ rows' = rows /\ req' = req /\ faults' = faults /\ rcv[r].pc \in {"wait_s", "v1ms"}
  BY DEF GotAnswer, V1Message, relay
<1>3. CASE GotAnswer(r)
  <2>1. PICK m \in Get(rcv[r].slot, "s", r) :
          rcv' = [rcv EXCEPT ![r] = [rcv[r] EXCEPT !.pc = "confirm", !.peer = m.by]]
    BY <1>3 DEF GotAnswer
  <2>2. m \in rows /\ m.by \in Sender  BY <1>1 DEF Get, RowsInv, RowShape
  <2> QED  BY <1>2, <2>1, <2>2, ReadKeeps
<1>4. ASSUME NEW m \in Get(rcv[r].slot, "ms", None),
             rcv' = [rcv EXCEPT ![r] = [rcv[r] EXCEPT !.pc = "mr", !.peer = m.by]]
      PROVE  Keeps
  <2>1. m \in rows /\ m.by \in Sender  BY <1>1 DEF Get, RowsInv, RowShape
  <2> QED  BY <1>2, <1>4, <2>1, ReadKeeps
<1>5. CASE GoR(r, "failed")
  <2>1. /\ RcvMoves(r) /\ rcv'[r].pc = "failed" /\ rcv'[r].kind = rcv[r].kind
        /\ rcv'[r].slot = rcv[r].slot /\ rcv'[r].words = rcv[r].words /\ rcv'[r].peer = rcv[r].peer
        /\ rcv'[r].got = rcv[r].got /\ rcv'[r].replied = rcv[r].replied
    BY <1>1, <1>5, GoRIs DEF ReceiverPcs
  <2>2. ReqMoves(r) /\ req'[r] = None /\ faults' \in Nat /\ faults <= faults' /\ RowsMove
    BY <1>2, RestingStepR, StillRows DEF PostPcsR
  <2>3. ReceiverShape(r)'  BY <1>1, <1>2, <2>1 DEF ReceiverShape, Words
  <2> QED  BY <1>2, <2>1, <2>2, <2>3, CalmIs, ReceiverStepKeeps DEF Early, Late
<1> QED  BY <1>3, <1>4, <1>5 DEF V1Message

\* A receiver reads a payload: it opens, and then it is its sender's, or not.
LEMMA TicketKeeps ==
    ASSUME RendezvousInv, NEW r \in Receiver, NEW t \in rows, t.key \in {"t", "tkt"},
           Calm, RowsMove, req' = req, faults' = faults,
           rcv[r].pc \in {"wait_t", "v1t"},
           \/ GoR(r, "failed")
           \/ /\ Opens(t, r)
              /\ \E c \in {"back", "done"} : rcv' = [rcv EXCEPT ![r] = [rcv[r] EXCEPT !.got = t.by, !.pc = c]]
    PROVE  Keeps
<1>1. Types /\ rcv[r] \in RcvT /\ ReceiverShape(r) /\ RowsInv  BY AllTypedR DEF Base
<1>2. ReqMoves(r) /\ req'[r] = None /\ faults' \in Nat /\ faults <= faults'
  BY RestingStepR DEF PostPcsR
<1>3. CASE GoR(r, "failed")
  <2>1. /\ RcvMoves(r) /\ rcv'[r].pc = "failed" /\ rcv'[r].kind = rcv[r].kind
        /\ rcv'[r].slot = rcv[r].slot /\ rcv'[r].words = rcv[r].words /\ rcv'[r].peer = rcv[r].peer
        /\ rcv'[r].got = rcv[r].got /\ rcv'[r].replied = rcv[r].replied
    BY <1>1, <1>3, GoRIs DEF ReceiverPcs
  <2>2. ReceiverShape(r)'  BY <1>1, <2>1 DEF ReceiverShape, Words
  <2> QED  BY <1>2, <2>1, <2>2, CalmIs, ReceiverStepKeeps DEF Early, Late
<1>4. ASSUME NEW c \in {"back", "done"}, Opens(t, r),
             rcv' = [rcv EXCEPT ![r] = [rcv[r] EXCEPT !.got = t.by, !.pc = c]]
      PROVE  Keeps
  <2>1. t.by \in Sender /\ t.by = Words(r)  BY <1>1, <1>4 DEF RowsInv, RowShape, Opens
  <2>2. PICK x : x = [rcv[r] EXCEPT !.got = t.by, !.pc = c]  OBVIOUS
  <2>3. /\ x \in RcvT /\ x.pc = c /\ x.slot = rcv[r].slot /\ x.words = rcv[r].words
        /\ x.peer = rcv[r].peer /\ x.got = t.by /\ x.replied = rcv[r].replied
    BY <1>1, <2>1, <2>2 DEF RcvT, ReceiverPcs
  <2>4. RcvMoves(r) /\ rcv'[r] = x  BY <1>1, <1>4, <2>2, <2>3, RcvIs
  <2>5. ReceiverShape(r)'  BY SMTT(30), <1>1, <2>1, <2>3, <2>4 DEF ReceiverShape, Words
  <2> QED  BY <1>2, <2>3, <2>4, <2>5, CalmIs, ReceiverStepKeeps DEF Early, Late
<1> QED  BY <1>3, <1>4

LEMMA GotTicketKeeps ==
    ASSUME RendezvousInv, NEW r \in Receiver, GotTicket(r)
    PROVE  Keeps
<1>1. Calm /\ req' = req /\ faults' = faults /\ rcv[r].pc = "wait_t"  BY DEF GotTicket
<1>2. PICK t \in Get(rcv[r].slot, "t", r) :
        \/ ~Opens(t, r) /\ GoR(r, "failed")
        \/ /\ Opens(t, r)
           /\ \E c \in {"back", "done"} : rcv' = [rcv EXCEPT ![r] = [rcv[r] EXCEPT !.got = t.by, !.pc = c]]
  BY DEF GotTicket
<1>3. t \in rows /\ t.key = "t" /\ t.slot = rcv[r].slot /\ t.sid = r  BY DEF Get
<1>r. Types /\ RowsInv /\ rcv[r] \in RcvT  BY AllTypedR DEF Base
<1>4. RowsMove
  <2>1. /\ rows' \subseteq rows
        /\ \A row \in rows \ rows' :
             row.key # "own" /\ row.slot = rcv[r].slot /\ row.sid = r
    BY DEF GotTicket, Burnt, Without
  <2>2. ASSUME NEW q \in rows \ rows', Wanted(q) PROVE Collected(q)
    <3>1. q = t  BY <1>3, <1>r, <2>1, <2>2 DEF Wanted, RowsInv, SameId
    <3>2. t.code # None /\ Proven(t.code, r) /\ t.code = t.by
      BY <1>3, <1>r, <2>2, <3>1 DEF Wanted, RowsInv, RowTrue, RowShape
    <3>3. Opens(t, r)  BY <3>2 DEF Opens, Proven
    <3>4. PICK c \in {"back", "done"} : rcv' = [rcv EXCEPT ![r] = [rcv[r] EXCEPT !.got = t.by, !.pc = c]]
      BY <1>2, <3>3
    <3>5. rcv'[r].got = t.by  BY SMTT(30), <1>r, <3>4 DEF Types, RcvT
    <3> QED  BY <1>3, <3>1, <3>5 DEF Collected
  <2> QED  BY <2>1, <2>2 DEF RowsMove, Drops
<1> QED  BY ZenonT(60), <1>1, <1>2, <1>3, <1>4, TicketKeeps

LEMMA V1TicketKeeps ==
    ASSUME RendezvousInv, NEW r \in Receiver, V1Ticket(r)
    PROVE  Keeps
<1>1. Calm /\ req' = req /\ faults' = faults /\ rcv[r].pc = "v1t"  BY DEF V1Ticket
<1>2. PICK t \in Get(rcv[r].slot, "tkt", None) :
        \/ GoR(r, "failed")
        \/ /\ Opens(t, r)
           /\ rcv' = [rcv EXCEPT ![r] = [rcv[r] EXCEPT !.pc = "done", !.got = t.by]]
  BY DEF V1Ticket
<1>3. t \in rows /\ t.key = "tkt" /\ t.slot = rcv[r].slot  BY DEF Get
<1>4. V1Spoken(rcv[r].slot)  BY <1>3 DEF RendezvousInv, RowsInv, RowTrue
<1>5. RowsMove
  <2>1. rows' = {row \in rows : row.slot # rcv[r].slot}  BY DEF V1Ticket, WithoutSlot
  <2> QED  BY <1>4, <2>1 DEF RowsMove, Drops, Collected
<1>6. rcv[r] \in RcvT  BY AllTypedR
<1>7. [rcv[r] EXCEPT !.pc = "done", !.got = t.by] = [rcv[r] EXCEPT !.got = t.by, !.pc = "done"]
  BY <1>6 DEF RcvT
<1>8. \/ GoR(r, "failed")
      \/ /\ Opens(t, r)
         /\ \E c \in {"back", "done"} : rcv' = [rcv EXCEPT ![r] = [rcv[r] EXCEPT !.got = t.by, !.pc = c]]
  BY <1>2, <1>7
<1> QED  BY <1>1, <1>3, <1>5, <1>8, TicketKeeps

LEMMA RepliedKeeps ==
    ASSUME RendezvousInv, NEW r \in Receiver, Replied(r)
    PROVE  Keeps
<1>1. Types /\ rcv[r] \in RcvT /\ ReceiverShape(r)  BY AllTypedR
<1>2. Calm /\ rcv[r].pc = "back"  BY DEF Replied
<1>3. PICK v \in Answers :
        /\ Answer(r, v)
        /\ rcv' = [rcv EXCEPT ![r] = [rcv[r] EXCEPT !.pc = "xtra", !.replied = (v = "ok")]]
  BY DEF Replied
<1>4. PICK y \in BOOLEAN : y = (v = "ok")  OBVIOUS
<1>5. PICK x : x = [rcv[r] EXCEPT !.pc = "xtra", !.replied = y]  OBVIOUS
<1>6. /\ x \in RcvT /\ x.pc = "xtra" /\ x.slot = rcv[r].slot /\ x.words = rcv[r].words
      /\ x.peer = rcv[r].peer /\ x.got = rcv[r].got /\ x.replied = y
  BY <1>1, <1>5 DEF RcvT, ReceiverPcs
<1>7. RcvMoves(r) /\ rcv'[r] = x  BY <1>1, <1>3, <1>4, <1>5, <1>6, RcvIs
<1>8. ReqMoves(r) /\ req'[r] = None /\ RowsMove /\ faults' \in Nat /\ faults <= faults'
  <2>1. rcv'[r].pc \notin Early /\ rcv'[r].replied = (v = "ok")  BY <1>4, <1>6, <1>7 DEF Early
  <2> QED  BY <1>3, <2>1, AnsweredStepR
<1>9. rcv[r].got \in Sender /\ rcv[r].got # None /\ rcv[r].got = Words(r) /\ rcv[r].slot \in Slot
      /\ ~rcv[r].replied
  BY <1>1, <1>2, Consts DEF ReceiverShape
<1>10. ReceiverShape(r)'  BY <1>6, <1>7, <1>9 DEF ReceiverShape, Words
<1> QED  BY <1>2, <1>6, <1>7, <1>8, <1>9, <1>10, CalmIs, ReceiverStepKeeps DEF Early, Late

LEMMA ExchangedKeeps ==
    ASSUME RendezvousInv, NEW r \in Receiver, Exchanged(r)
    PROVE  Keeps
<1>1. Types /\ rcv[r] \in RcvT /\ ReceiverShape(r)  BY AllTypedR
<1>2. /\ snd' = snd /\ now' = now /\ disk' = disk /\ restarts' = restarts
      /\ given' = given /\ guesses' = guesses /\ lost' = lost
      /\ rcv[r].pc = "xtra" /\ GoR(r, "done")
      /\ book' = IF rcv[r].replied THEN book \cup {<<r, rcv[r].got>>} ELSE book
  BY DEF Exchanged, SaveSender, history
<1>3. /\ RcvMoves(r) /\ rcv'[r].pc = "done" /\ rcv'[r].kind = rcv[r].kind
      /\ rcv'[r].slot = rcv[r].slot /\ rcv'[r].words = rcv[r].words /\ rcv'[r].peer = rcv[r].peer
      /\ rcv'[r].got = rcv[r].got /\ rcv'[r].replied = rcv[r].replied
  BY <1>1, <1>2, GoRIs DEF ReceiverPcs
<1>4. PICK v \in Answers : Answer(r, v)  BY DEF Exchanged
<1>5. ReqMoves(r) /\ req'[r] = None /\ RowsMove /\ faults' \in Nat /\ faults <= faults'
  BY <1>2, <1>3, <1>4, AnsweredStepR DEF Early
<1>6. rcv[r].got \in Sender /\ rcv[r].slot \in Slot  BY <1>1, <1>2 DEF ReceiverShape
<1>7. book' = book \/ (rcv[r].got \in Sender /\ book' = book \cup {<<r, rcv[r].got>>})
  BY <1>2, <1>6
<1>8. rcv[r].replied => <<r, rcv[r].got>> \in book'  BY <1>2
<1>9. ReceiverShape(r)'  BY <1>1, <1>3, <1>6, <1>8, Consts DEF ReceiverShape, Words
<1> QED  BY <1>2, <1>3, <1>5, <1>7, <1>9, ReceiverStepKeeps DEF Early, Late

-----------------------------------------------------------------------------
(* The maintenance task and the clock.                                     *)

LEMMA WorldKeeps ==
    ASSUME RendezvousInv, RzReap \/ Tick
    PROVE  Keeps
<1>1. Base /\ LivesInv /\ WaitInv /\ HalvesInv /\ DiskInv /\ CountedInv /\ now \in Nat /\ now <= MaxTime
  BY NowType DEF RendezvousInv, Base
<1>2. /\ snd' = snd /\ rcv' = rcv /\ req' = req /\ disk' = disk /\ book' = book /\ faults' = faults
      /\ restarts' = restarts /\ given' = given /\ guesses' = guesses /\ lost' = lost
  BY DEF RzReap, Tick, relay, world, history
<1>3. RowsMove
  <2>1. ASSUME RzReap PROVE RowsMove
    <3>1. rows' = {row \in rows : Live(row)}  BY <2>1 DEF RzReap
    <3>2. ASSUME NEW t \in rows \ rows', Wanted(t) PROVE Collected(t)
      <4>1. PICK q \in rows : q.slot = t.slot /\ q.key = "r" /\ q.sid = t.sid /\ q.exp > now
        BY <3>2 DEF Wanted, Get, Live
      <4>2. V1Spoken(t.slot) \/ q.exp <= t.exp  BY <1>1, <3>2, <4>1 DEF LivesInv, Wanted
      <4>3. ~(t.exp > now) /\ t.exp \in Nat /\ q.exp \in Nat
        BY <1>1, <3>1, <4>1 DEF Live, Base, Types, RowT
      <4> QED  BY <1>1, <4>1, <4>2, <4>3 DEF Collected
    <3> QED  BY <3>1, <3>2 DEF RowsMove, Drops
  <2>2. ASSUME Tick PROVE RowsMove  BY <2>2, StillRows DEF Tick, relay
  <2> QED  BY <2>1, <2>2
<1>4. ClockMoves /\ now' \in Nat /\ now' \in 0..MaxTime
  <2>1. CASE RzReap
    <3>1. now' = now  BY <2>1 DEF RzReap, world
    <3> QED  BY <1>1, <3>1 DEF ClockMoves
  <2>2. CASE Tick
    <3>1. now' = now + 1 /\ now < MaxTime /\ rows' = rows /\ \A p \in Party : req'[p] = None
      BY <2>2 DEF Tick, relay
    <3>2. now' \in 0..MaxTime /\ now' \in Nat  BY <1>1, <3>1, Consts
    <3> QED  BY <3>1, <3>2 DEF ClockMoves
  <2> QED  BY <2>1, <2>2
<1>5. ReceiversMove  BY <1>2 DEF ReceiversMove
<1>6. SendersMove  BY <1>2 DEF SendersMove, Waits
<1>7. RequestsMove  BY <1>2 DEF RequestsMove
<1>8. rows' \subseteq RowT /\ RowsInv'  BY <1>1, <1>3, <1>5, <1>6, RowsKept
<1>9. Types'  BY <1>1, <1>2, <1>4, <1>8 DEF Base, Types
<1>10. SenderInv'  BY <1>1, <1>2 DEF Base, SenderInv, SenderShape, Proven, Words
<1>11. ReceiverInv'  BY <1>1, <1>2 DEF Base, ReceiverInv, ReceiverShape, Words
<1>12. PendingInv'
  <2>1. \A s \in Sender : ToPost(s)' = ToPost(s)  BY <1>2 DEF ToPost
  <2>2. \A r \in Receiver : ToPostR(r)' = ToPostR(r)  BY <1>2 DEF ToPostR, Words
  <2> QED  BY <1>1, <1>2, <2>1, <2>2 DEF Base, PendingInv, Like, SameId
<1>13. HalvesInv'
  <2>1. faults' = 0 => \A row \in rows' : row.key = "b" => rcv'[row.by].replied
    BY <1>1, <1>2, <1>3, <1>5, RepliesKept
  <2>2. \A s, r : Mutual(s, r)' <=> Mutual(s, r)  BY <1>2 DEF Mutual, Words
  <2> QED  BY <1>1, <1>2, <2>1, <2>2 DEF HalvesInv
<1>14. PassedInv'  BY <1>1, <1>3, <1>4, <1>6, <1>7, PassedKept
<1>15. LivesInv'  BY <1>1, <1>3, <1>4, <1>6, LivesKept
<1>16. WaitInv'  BY <1>1, <1>3, <1>6, WaitKept
<1>17. DiskInv'  BY <1>1, <1>2 DEF DiskInv
<1>18. CountedInv'  BY <1>1, <1>2 DEF CountedInv, Counted
<1> QED
  BY <1>3, <1>8, <1>9, <1>10, <1>11, <1>12, <1>13, <1>14, <1>15, <1>16, <1>17, <1>18 DEF RendezvousInv, Keeps

-----------------------------------------------------------------------------
(* The whole specification.                                                *)

LEMMA SenderStepsKeep ==
    ASSUME RendezvousInv, NEW s \in Sender, SenderStep(s) \/ Cancel(s) \/ Crash(s)
    PROVE  Keeps
<1>1. CASE ServeCode(s) \/ ContactHost(s) \/ PairHost(s) \/ DeviceHost(s)
  <2>1. CASE ServeCode(s)  BY <2>1, PublishKeeps DEF ServeCode
  <2>2. CASE ContactHost(s)  BY <2>2, PublishKeeps DEF ContactHost
  <2>3. CASE PairHost(s)  BY <2>3, PublishKeeps DEF PairHost
  <2>4. CASE DeviceHost(s)  BY <2>4, PublishKeeps DEF DeviceHost
  <2> QED  BY <1>1, <2>1, <2>2, <2>3, <2>4
<1>2. CASE \E sid \in Receiver : TakeSession(s, sid)  BY <1>2, TakeSessionKeeps
<1>3. CASE \E patient \in BOOLEAN : CloseCode(s, patient)
  <2>1. PICK patient \in BOOLEAN : CloseCode(s, patient)  BY <1>3
  <2> QED  BY <2>1, CloseCodeKeeps
<1>4. CASE SenderPost(s) \/ Claimed(s) \/ Poll(s) \/ Answered(s) \/ Confirmed(s) \/ Refused(s)
  BY <1>4, SenderPostKeeps, ClaimedKeeps, PollKeeps, AnsweredKeeps, ConfirmedKeeps, RefusedKeeps
<1>5. CASE Sealed(s) \/ GotReply(s) \/ V1Wait(s) \/ V1Sealed(s)
  BY <1>5, SealedKeeps, GotReplyKeeps, V1WaitKeeps, AnsweredKeeps
<1>6. CASE ResumeCode(s) \/ Reattach(s) \/ Reclaimed(s) \/ Cancel(s) \/ Crash(s)
  BY <1>6, ResumeCodeKeeps, ReattachKeeps, ReclaimedKeeps, CancelKeeps, CrashKeeps
<1> QED  BY <1>1, <1>2, <1>3, <1>4, <1>5, <1>6 DEF SenderStep

LEMMA ReceiverStepsKeep ==
    ASSUME RendezvousInv, NEW r \in Receiver, ReceiverStep(r)
    PROVE  Keeps
<1>1. CASE ReceiveCode(r) \/ ContactJoin(r) \/ PairJoin(r) \/ DeviceJoin(r)
  <2>1. CASE ReceiveCode(r)  BY <2>1, TypeKeeps DEF ReceiveCode
  <2>2. CASE ContactJoin(r) \/ PairJoin(r)  BY <2>2, TypeKeeps DEF ContactJoin, PairJoin
  <2>3. CASE DeviceJoin(r)  BY <2>3, TypeKeeps DEF DeviceJoin
  <2> QED  BY <1>1, <2>1, <2>2, <2>3
<1>2. CASE Probe(r) \/ GiveUp(r) \/ ReceiverPost(r) \/ Posted(r) \/ GotAnswer(r) \/ V1Message(r)
  BY <1>2, LookKeeps, ReceiverPostKeeps, PostedKeeps, MessageKeeps
<1>3. CASE GotTicket(r) \/ V1Ticket(r) \/ Replied(r) \/ Exchanged(r)
  BY <1>3, GotTicketKeeps, V1TicketKeeps, RepliedKeeps, ExchangedKeeps
<1> QED  BY <1>1, <1>2, <1>3 DEF ReceiverStep

LEMMA NextKeeps == ASSUME RendezvousInv, Next PROVE Keeps
  BY SenderStepsKeep, ReceiverStepsKeep, WorldKeeps DEF Next

LEMMA StutterKeeps == ASSUME RendezvousInv, UNCHANGED vars PROVE RendezvousInv'
<1>1. /\ rows' = rows /\ req' = req /\ now' = now /\ faults' = faults /\ restarts' = restarts
      /\ snd' = snd /\ rcv' = rcv /\ disk' = disk /\ book' = book
      /\ given' = given /\ guesses' = guesses /\ lost' = lost
  BY DEF vars, relay, world, history
<1>2. Types'  BY <1>1 DEF RendezvousInv, Types
<1>3. RowsInv'  BY <1>1 DEF RendezvousInv, RowsInv, RowTrue, Proven, Words, V1Spoken
<1>4. PendingInv'
  <2>1. \A s \in Sender : ToPost(s)' = ToPost(s)  BY <1>1 DEF ToPost
  <2>2. \A r \in Receiver : ToPostR(r)' = ToPostR(r)  BY <1>1 DEF ToPostR, Words
  <2> QED  BY <1>1, <2>1, <2>2 DEF RendezvousInv, PendingInv, Like, SameId
<1>5. SenderInv' /\ ReceiverInv'
  BY <1>1 DEF RendezvousInv, SenderInv, SenderShape, ReceiverInv, ReceiverShape, Proven, Words
<1>6. HalvesInv' /\ WaitInv' /\ DiskInv' /\ CountedInv'
  BY <1>1 DEF RendezvousInv, HalvesInv, Mutual, Words, WaitInv, Waits, DiskInv, CountedInv, Counted
<1>7. PassedInv' /\ LivesInv'
  BY <1>1 DEF RendezvousInv, PassedInv, LivesInv, Fits, V1Spoken, OwnRow, Get, Live
<1> QED  BY <1>2, <1>3, <1>4, <1>5, <1>6, <1>7 DEF RendezvousInv

LEMMA InitHolds == Init => RendezvousInv
<1> SUFFICES ASSUME Init PROVE RendezvousInv  OBVIOUS
<1>1. /\ rows = {} /\ now = 0 /\ book = {} /\ faults = 0 /\ restarts = 0
      /\ req = [p \in Party |-> None] /\ disk = [s \in Sender |-> None]
      /\ snd = [s \in Sender |-> IdleSender] /\ rcv = [r \in Receiver |-> IdleReceiver]
      /\ given = [s \in Sender |-> 0] /\ guesses = [s \in Sender |-> 0] /\ lost = [s \in Sender |-> 0]
  BY DEF Init
<1>2. IdleSender \in SndT  BY DEF IdleSender, SndT, SenderPcs, Whys
<1>3. IdleReceiver \in RcvT  BY DEF IdleReceiver, RcvT, ReceiverPcs
<1>4. Types
  <2>1. now \in 0..MaxTime  BY <1>1, Consts
  <2> QED  BY <1>1, <1>2, <1>3, <2>1 DEF Types
<1>5. \A s \in Sender : /\ snd[s].pc = "idle" /\ snd[s].sid = None /\ snd[s].ver = "v2"
                        /\ snd[s].todo = {} /\ snd[s].reply = None
                        /\ snd[s].done = 0 /\ snd[s].fail = 0
  BY <1>1 DEF IdleSender
<1>6. \A r \in Receiver : rcv[r].pc = "idle" /\ rcv[r].got = None /\ ~rcv[r].replied
  BY <1>1 DEF IdleReceiver
<1>7. RowsInv /\ PendingInv /\ HalvesInv /\ PassedInv /\ LivesInv /\ WaitInv /\ DiskInv
  BY <1>1, <1>5 DEF RowsInv, PendingInv, HalvesInv, PassedInv, LivesInv, WaitInv, DiskInv, Party
<1>8. SenderInv  BY <1>5 DEF SenderInv, SenderShape, SessionPcs
<1>9. ReceiverInv  BY <1>6 DEF ReceiverInv, ReceiverShape
<1>10. CountedInv  BY <1>1, <1>5 DEF CountedInv, Counted
<1> QED  BY <1>4, <1>7, <1>8, <1>9, <1>10 DEF RendezvousInv

LEMMA AlwaysInv == Spec => []RendezvousInv
<1>1. RendezvousInv /\ [Next]_vars => RendezvousInv'
  BY NextKeeps, StutterKeeps DEF Keeps
<1> QED  BY <1>1, InitHolds, PTL DEF Spec

LEMMA InvBudgets == RendezvousInv => BudgetsHold
<1> SUFFICES ASSUME RendezvousInv PROVE BudgetsHold  OBVIOUS
<1>1. Types /\ RowsInv /\ LivesInv /\ CountedInv  BY DEF RendezvousInv
<1>2. TypeOK
  <2>1. \A row \in rows :
          /\ row.slot \in Slot /\ row.key \in SessionKeys \cup {"own", "ms", "mr", "tkt"}
          /\ row.sid \in Receiver \cup {None} /\ row.by \in Party
    BY <1>1 DEF Types, RowT, AllKeys
  <2>2. \A row, q \in rows : (q.slot = row.slot /\ q.key = row.key /\ q.sid = row.sid) => q = row
    BY <1>1 DEF RowsInv, SameId
  <2>3. \A s \in Sender :
          /\ snd[s].pc \in SenderPcs /\ snd[s].kind \in Kinds \cup {"send"}
          /\ snd[s].slot \in Slot \cup {None}
          /\ snd[s].todo \subseteq Receiver /\ snd[s].out \subseteq Receiver
          /\ snd[s].done \in Nat /\ snd[s].fail \in Nat
    BY <1>1 DEF Types, SndT
  <2>4. \A r \in Receiver : rcv[r].pc \in ReceiverPcs /\ rcv[r].got \in Sender \cup {None}
    BY <1>1 DEF Types, RcvT
  <2> QED  BY <1>1, <2>1, <2>2, <2>3, <2>4 DEF TypeOK, Types
<1>3. CountersKeepUp  BY <1>1, CountedIs
<1>4. CeilingHolds  BY <1>1 DEF CeilingHolds, LivesInv, Fits
<1> QED  BY <1>2, <1>3, <1>4 DEF BudgetsHold

LEMMA InvSound == RendezvousInv => ExchangesAreSound
<1> SUFFICES ASSUME RendezvousInv PROVE ExchangesAreSound  OBVIOUS
<1>1. SealedForTheProven
  BY DEF RendezvousInv, RowsInv, RowTrue, Proven, SealedForTheProven
<1>2. NoHalfExchange
  <2> SUFFICES ASSUME NEW s \in Sender, NEW r \in Receiver, <<s, r>> \in book, rcv[r].pc = "done", faults = 0
               PROVE  <<r, s>> \in book
    BY DEF NoHalfExchange
  <2>1. Words(r) = s /\ rcv[r].replied  BY DEF RendezvousInv, HalvesInv, Mutual
  <2>2. ReceiverShape(r)  BY DEF RendezvousInv, ReceiverInv
  <2> QED  BY <2>1, <2>2 DEF ReceiverShape
<1> QED  BY <1>1, <1>2 DEF ExchangesAreSound

\* A payload leaves the relay for a reason.
LEMMA PayloadsCollected ==
    ASSUME RendezvousInv, RowsMove
    PROVE  TicketsAreCollected
<1> SUFFICES ASSUME NEW t \in rows, Wanted(t),
                    ~\E q \in rows' : q.slot = t.slot /\ q.key = "t" /\ q.sid = t.sid
             PROVE  Collected(t)
  BY DEF TicketsAreCollected, Wanted, Collected
<1>1. t \notin rows' /\ t.key = "t"  BY DEF Wanted
<1>2. CASE Drops  BY <1>1, <1>2 DEF Drops
<1>3. ASSUME NEW p \in Party, Lands(p) PROVE FALSE  BY <1>1, <1>3 DEF Lands
<1>4. ASSUME NEW slot \in Slot, OwnRow(slot) # {}, rows' = Touched(slot) PROVE FALSE
  <2>1. Types /\ RowsInv /\ t \in RowT  BY DEF RendezvousInv, Types
  <2>2. PICK e \in Nat : rows' = {TouchedRow(q, slot, e) : q \in rows}  BY <1>4, <2>1, TouchIs
  <2>3. PICK x \in rows' : x = TouchedRow(t, slot, e)  BY <2>2
  <2>4. Like(x, t)  BY <2>1, <2>3, TouchedRowIs
  <2> QED  BY <1>1, <2>4 DEF Like, SameId
<1> QED  BY <1>2, <1>3, <1>4 DEF RowsMove

\* A code's budgets hold, in every reachable state and for every instance: the
\* counters that retire a code keep up with what it has given away and with the
\* guesses it has answered, over crashes and restarts (run, on_state,
\* resume_code), and no renewal carries a slot past its ceiling (rz_v2_expiry,
\* rz_touch_slot).
THEOREM CodeBudgets == Spec => []BudgetsHold
  BY AlwaysInv, InvBudgets, PTL

\* A payload is only sealed for who has proved the words (confirm_mac), and a
\* mutual exchange without a lost answer is saved on both sides (contact_host,
\* contact_join).
THEOREM SoundExchanges == Spec => []ExchangesAreSound
  BY AlwaysInv, InvSound, PTL

\* Only the owner of a slot puts answers and payloads into it (rz_owner), and
\* what it has put up stays until it is collected, lapses with its session, or
\* the sender gives up (drain), with the exceptions SlotIsTheOwners names.
THEOREM OwnersSlot == Spec => SlotIsTheOwners
<1>1. RendezvousInv /\ [Next]_vars => [OnlyTheOwnerAnswers /\ TicketsAreCollected]_vars
  <2> SUFFICES ASSUME RendezvousInv, Next PROVE OnlyTheOwnerAnswers /\ TicketsAreCollected
    OBVIOUS
  <2>1. RowsMove  BY NextKeeps DEF Keeps
  <2>2. Base  BY DEF RendezvousInv, Base
  <2> QED  BY <2>1, <2>2, OwnersAnswer, PayloadsCollected
<1> QED  BY <1>1, AlwaysInv, PTL DEF Spec, SlotIsTheOwners
=============================================================================
