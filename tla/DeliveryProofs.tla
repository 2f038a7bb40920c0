--------------------------- MODULE DeliveryProofs ---------------------------
(***************************************************************************)
(* Proofs about Delivery: the safety of a held send, for every number of   *)
(* offers, blobs, tickets and clock ticks, and every set of commands and   *)
(* of environment events the hypothesis of each theorem leaves in.         *)
(*                                                                         *)
(* `Inv` says what the row, the loop, the Held entry and the records on    *)
(* disk are to each other at every place of the loop; it is kept by every  *)
(* step but those of "clear" and "deposit_now", which by design of the     *)
(* code leave a copy or a record behind a row that no longer names it, so  *)
(* `NoShortcut` leaves these two out. The steps of the loop have few       *)
(* shapes (it goes on, it goes off, it stands still): each shape keeps     *)
(* `Inv`, and each action is shown to have one. On top of `Inv`,           *)
(*   - `ReceivedInv` follows the bytes: whoever could still complete the   *)
(*     row has evidence that the recipient pulled them (RowsAreTrue);      *)
(*   - `StandingInv`, with every command, follows the one live offer: it   *)
(*     is the loop's own or a withdrawal is on its way                     *)
(*     (OffersAreWithdrawn);                                               *)
(*   - `OnceInv`: a loop with all its pieces on the relay does not turn    *)
(*     to the upload of the whole file (OneCopyOnly).                      *)
(***************************************************************************)
EXTENDS Delivery, TLAPS

USE DeliveryConstants, DeliveryNone DEF DeliveryConstants

-----------------------------------------------------------------------------
(* The inductive invariant.                                                *)

AtRest == Over \cup {"unsent", "none", "deposited"}
Left == Over \cup {"deposited", "none"}

\* The row, the loop, the Held entry and the sendto- record agree.
RowInv ==
    /\ row.status \in Live <=> task.pc # "ended"
    /\ row.token <=> row.status \in Live
    /\ row.status \in Live =>
        /\ held # None <=> task.pc # "file"
        /\ disk.sendto = IF task.pc = "file" THEN "none" ELSE "run"
    /\ row.status = "paused" => held # None /\ disk.sendto = "paused"
    /\ row.status \in AtRest => held = None /\ disk.sendto = "none"

\* The preparation in memory is the one on disk, but for the moment at "note".
PrepInv ==
    /\ disk.sendto = "none" => disk.prep = None
    /\ (held # None /\ task.pc # "note") => held.prep = disk.prep
    /\ task.pc = "note" => disk.prep = None /\ held.prep # None
    /\ task.pc \in {"post", "serve"} => held.prep # None

\* What the loop has in hand at each place.
TaskInv ==
    /\ task.pc = "serve" => task.standing # None
    /\ task.pc \in {"announce", "hand", "file"} => task.blob # None
    /\ task.pc \in {"hand", "file"} => task.offer # None
    /\ row.status = "unsent" => retracts = {} /\ \A o \in Offer : offers[o].st = "none"

\* A copy on the relay is a deposit, and comes after the loop.
CopyInv ==
    /\ disk.dep # None => row.status = "deposited"
    /\ watch # None => row.status \in Left /\ watch.kind = "dep"
    /\ withdraw # None => row.status \in Left /\ withdraw.kind = "dep"

\* Nothing is parked.
NoPark ==
    /\ disk.park = None
    /\ held # None => ~held.depositNow
    /\ task.pc # "park"

Inv == TypeOK /\ RowInv /\ PrepInv /\ TaskInv /\ CopyInv /\ NoPark /\ TicketsAreReproducible

\* The commands under which the code keeps to it.
NoShortcut == Commands \cap {"clear", "deposit_now"} = {}

-----------------------------------------------------------------------------
(* What the helpers do to the records.                                     *)

LEMMA SetLiveIs ==
    ASSUME row \in RowType, row.status \in Live, NEW s \in Live, SetLive(s)
    PROVE  row' \in RowType /\ row'.status = s /\ row'.token = row.token
BY DEF SetLive, RowType, Status, Live

LEMMA SetStatusIs ==
    ASSUME row \in RowType, NEW s \in Status, SetStatus(s)
    PROVE  /\ row' \in RowType
           /\ row'.status = IF row.status = "none" THEN "none" ELSE s
           /\ row'.token = FALSE
BY DEF SetStatus, RowType, Status

LEMMA DropHeldIs ==
    ASSUME disk \in DiskType, DropHeld
    PROVE  /\ held' = None
           /\ disk' \in DiskType
           /\ disk'.sendto = "none" /\ disk'.prep = None
           /\ disk'.dep = disk.dep /\ disk'.park = disk.park
BY DEF DropHeld, DiskType

LEMMA SetPausedIs ==
    ASSUME row \in RowType, disk \in DiskType, row.status # "none", SetPaused
    PROVE  /\ row' \in RowType /\ row'.status = "paused" /\ row'.token = FALSE
           /\ disk' \in DiskType
           /\ disk'.sendto = "paused" /\ disk'.prep = disk.prep
           /\ disk'.dep = disk.dep /\ disk'.park = disk.park
           /\ held' = held
<1>1. disk' \in DiskType /\ disk'.sendto = "paused" /\ disk'.prep = disk.prep
      /\ disk'.dep = disk.dep /\ disk'.park = disk.park /\ held' = held /\ SetStatus("paused")
  BY DEF SetPaused, DiskType
<1> QED  BY <1>1, SetStatusIs DEF Status

LEMMA IdleIs ==
    /\ Idle \in TaskType
    /\ Idle.pc = "ended" /\ Idle.standing = None
BY DEF Idle, TaskType, Pc, Known, Open

LEMMA LoopIs ==
    /\ Loop \in TaskType
    /\ Loop.pc = "top" /\ Loop.standing = None
BY DEF Loop, Idle, TaskType, Pc, Known, Open

LEMMA GotoIs ==
    ASSUME task \in TaskType, NEW pc \in Pc, Goto(pc)
    PROVE  /\ task' \in TaskType
           /\ task'.pc = pc /\ task'.standing = task.standing
           /\ task'.blob = task.blob /\ task'.offer = task.offer
BY DEF Goto, TaskType

LEMMA EndTaskIs ==
    ASSUME task \in TaskType, retracts \subseteq Offer, EndTask
    PROVE  task' = Idle /\ retracts' \subseteq Offer
<1>1. task.standing \in Offer \cup {None}
  BY DEF TaskType
<1> QED  BY <1>1 DEF EndTask
-----------------------------------------------------------------------------
(* The three shapes a step has.                                            *)

\* The relay's side in the step.
TheirTypes ==
    /\ offers \in [Offer -> OfferType]
    /\ blobs \in [Blob -> {"none", "stored", "fetched", "revoked", "lapsed"}]
    /\ pieces \in [Ticket -> {"none", "some", "all"}]
    /\ pulling \subseteq Ticket
    /\ got \in BOOLEAN
    /\ clock \in {"early", "margin", "over"}

\* No live offer is made, only answered or withdrawn.
NoNews ==
    \A o \in Offer :
        (offers'[o].st \in Known /\ offers'[o].names \in Ticket) =>
            offers[o].st \in Known /\ offers[o].names = offers'[o].names

LEMMA TheirsIsNoNews ==
    ASSUME TypeOK, UNCHANGED theirs
    PROVE  TheirTypes' /\ NoNews
BY DEF TypeOK, theirs, TheirTypes, NoNews

\* The loop goes on: the row stays live, its records as they were.
LEMMA GoesOn ==
    ASSUME Inv, task.pc \notin {"ended"},
           row' \in RowType, row'.status \in Live, row'.token = row.token,
           held' \in HeldType \cup {None}, held' = None <=> held = None,
           held # None => held'.prep = held.prep /\ held'.depositNow = held.depositNow,
           UNCHANGED <<disk, watch, withdraw, restarts>>,
           asked' \in BOOLEAN, retracts' \subseteq Offer,
           task' \in TaskType,
           task'.pc \notin {"ended", "park"},
           \/ task'.pc = task.pc
           \/ task.pc \notin {"file", "note"} /\ task'.pc \notin {"file", "note"},
           task'.pc \in {"post", "serve"} => held.prep # None,
           task'.pc = "serve" => task'.standing # None,
           task'.pc \in {"announce", "hand", "file"} => task'.blob # None,
           task'.pc \in {"hand", "file"} => task'.offer # None,
           TheirTypes',
           NoNews \/ TicketsAreReproducible'
    PROVE  Inv'
<1> USE DEF Inv
<1>1. TypeOK'
  BY DEF TypeOK, TheirTypes
<1>2. RowInv'
  BY DEF RowInv, TypeOK, Live, AtRest, Over
<1>3. PrepInv'
  BY DEF PrepInv
<1>4. TaskInv'
  BY DEF TaskInv, Live
<1>5. CopyInv' /\ NoPark'
  BY DEF CopyInv, NoPark, RowInv, Live, Left, Over
<1>6. TicketsAreReproducible'
  BY DEF TicketsAreReproducible, NoNews
<1> QED  BY <1>1, <1>2, <1>3, <1>4, <1>5, <1>6

\* The loop ends, paused or over.
LEMMA GoesOff ==
    ASSUME Inv, task.pc \notin {"ended", "file", "note"},
           \/ SetPaused
           \/ Finish("cancelled") \/ Finish("completed") \/ Finish("failed"),
           task' = Idle, retracts' \subseteq Offer,
           UNCHANGED <<watch, withdraw, restarts, asked>>,
           TheirTypes', NoNews
    PROVE  Inv'
<1> USE DEF Inv
<1>1. row.status \in Live /\ row \in RowType /\ disk \in DiskType /\ held # None
  BY DEF RowInv, TypeOK
<1>2. task'.pc = "ended" /\ task' \in TaskType
  BY IdleIs
<1>3. watch = None /\ withdraw = None /\ disk.dep = None
  BY <1>1 DEF CopyInv, Live, Left, Over
<1>4. CASE SetPaused
  <2>1. /\ row' \in RowType /\ row'.status = "paused" /\ row'.token = FALSE
        /\ disk' \in DiskType
        /\ disk'.sendto = "paused" /\ disk'.prep = disk.prep
        /\ disk'.dep = disk.dep /\ disk'.park = disk.park
        /\ held' = held
    BY <1>1, <1>4, SetPausedIs DEF Live
  <2>2. TypeOK'
    BY <1>2, <2>1 DEF TypeOK, TheirTypes
  <2>3. RowInv'
    BY <1>1, <1>2, <2>1 DEF RowInv, Live, AtRest, Over
  <2>4. PrepInv' /\ TaskInv'
    BY <1>1, <1>2, <2>1 DEF PrepInv, TaskInv, RowInv
  <2>5. CopyInv' /\ NoPark'
    BY <1>2, <1>3, <2>1 DEF CopyInv, NoPark
  <2>6. TicketsAreReproducible'
    BY <1>1, <2>1 DEF TicketsAreReproducible, NoNews, RowInv
  <2> QED  BY <2>2, <2>3, <2>4, <2>5, <2>6
<1>5. CASE Finish("cancelled") \/ Finish("completed") \/ Finish("failed")
  <2>1. DropHeld /\ (SetStatus("cancelled") \/ SetStatus("completed") \/ SetStatus("failed"))
    BY <1>5 DEF Finish
  <2>2. row' \in RowType /\ row'.status \in Over /\ row'.token = FALSE
    BY <1>1, <2>1, SetStatusIs DEF Status, Over, Live
  <2>3. /\ held' = None
        /\ disk' \in DiskType
        /\ disk'.sendto = "none" /\ disk'.prep = None
        /\ disk'.dep = disk.dep /\ disk'.park = disk.park
    BY <1>1, <2>1, DropHeldIs
  <2>4. TypeOK'
    BY <1>2, <2>2, <2>3 DEF TypeOK, TheirTypes
  <2>5. RowInv'
    BY <1>2, <2>2, <2>3 DEF RowInv, Live, AtRest, Over
  <2>6. PrepInv' /\ TaskInv' /\ TicketsAreReproducible'
    BY <1>2, <2>2, <2>3 DEF PrepInv, TaskInv, TicketsAreReproducible, Over
  <2>7. CopyInv' /\ NoPark'
    BY <1>2, <1>3, <2>3 DEF CopyInv, NoPark
  <2> QED  BY <2>4, <2>5, <2>6, <2>7
<1> QED  BY <1>4, <1>5

\* The daemon does not move at all, or its retractions only.
LEMMA StandsStill ==
    ASSUME Inv, UNCHANGED <<row, held, disk, task, watch, withdraw, asked, restarts>>,
           retracts' \subseteq retracts, TheirTypes', NoNews,
           row.status = "unsent" =>
               \A o \in Offer : offers[o].st = "none" => offers'[o].st = "none"
    PROVE  Inv'
<1> USE DEF Inv
<1>1. TypeOK'
  BY DEF TypeOK, TheirTypes
<1>2. RowInv' /\ PrepInv' /\ CopyInv' /\ NoPark'
  BY DEF RowInv, PrepInv, CopyInv, NoPark
<1>3. TaskInv' /\ TicketsAreReproducible'
  BY DEF TaskInv, TicketsAreReproducible, NoNews
<1> QED  BY <1>1, <1>2, <1>3

-----------------------------------------------------------------------------
(* The steps of the loop.                                                  *)

LEMMA StopKeeps == Inv /\ Stop => Inv'
<1> SUFFICES ASSUME Inv, Stop PROVE Inv'
  OBVIOUS
<1>1. SetPaused \/ Finish("cancelled")
  BY DEF Stop, HandleStop
<1>2. task' = Idle /\ retracts' \subseteq Offer
  BY EndTaskIs DEF Stop, Inv, TypeOK
<1>3. TheirTypes' /\ NoNews
  BY TheirsIsNoNews DEF Stop, Inv
<1>4. task.pc \notin {"ended", "file", "note"} /\ UNCHANGED <<watch, withdraw, restarts, asked>>
  BY DEF Stop
<1> QED  BY <1>1, <1>2, <1>3, <1>4, GoesOff

LEMMA GiveUpKeeps == Inv /\ GiveUp => Inv'
<1> SUFFICES ASSUME Inv, GiveUp PROVE Inv'
  OBVIOUS
<1>1. task' = Idle /\ retracts' \subseteq Offer
  BY EndTaskIs DEF GiveUp, Inv, TypeOK
<1>2. TheirTypes' /\ NoNews
  BY TheirsIsNoNews DEF GiveUp, Inv
<1>3. /\ task.pc \notin {"ended", "file", "note"} /\ SetPaused
      /\ UNCHANGED <<watch, withdraw, restarts, asked>>
  BY DEF GiveUp, At
<1> QED  BY <1>1, <1>2, <1>3, GoesOff

\* A loop that is at work has a live row and, but at "file", a Held entry.
LEMMA Working ==
    ASSUME Inv, task.pc \in Pc \ {"ended"}
    PROVE  /\ row.status \in Live /\ row \in RowType /\ row.token
           /\ task.pc # "file" => held \in HeldType /\ held # None
           /\ task \in TaskType /\ disk \in DiskType
           /\ held \in HeldType \cup {None}
           /\ asked \in BOOLEAN /\ retracts \subseteq Offer
BY DEF Inv, TypeOK, RowInv

\* The row either stays or is given another live status.
LEMMA StaysLive ==
    ASSUME row \in RowType, row.status \in Live,
           \/ UNCHANGED row
           \/ SetLive("active") \/ SetLive("preparing") \/ SetLive("waiting")
    PROVE  row' \in RowType /\ row'.status \in Live /\ row'.token = row.token
BY SetLiveIs DEF Live

LEMMA LookKeeps == Inv /\ Look => Inv'
<1> SUFFICES ASSUME Inv, Look PROVE Inv'
  OBVIOUS
<1>1. task.pc = "top"
  BY DEF Look, At
<1>2. /\ row.status \in Live /\ row \in RowType /\ task \in TaskType
      /\ held \in HeldType \cup {None} /\ asked \in BOOLEAN /\ retracts \subseteq Offer
  BY <1>1, Working DEF Pc
<1>3. row' \in RowType /\ row'.status \in Live /\ row'.token = row.token
  <2>1. UNCHANGED row \/ SetLive("preparing")
    BY DEF Look
  <2> QED  BY <1>2, <2>1, StaysLive
<1>4. task' \in TaskType /\ task'.pc \in {"prepare", "relay"}
  <2>1. PICK online \in BOOLEAN :
            task' = [task EXCEPT !.pc = IF online THEN "prepare" ELSE "relay",
                                 !.online = online, !.proven = FALSE]
    BY Zenon DEF Look
  <2>2. CASE online = TRUE
    <3>1. task' = [task EXCEPT !.pc = "prepare", !.online = TRUE, !.proven = FALSE]
      BY <2>1, <2>2, Zenon
    <3> QED  BY <1>2, <3>1 DEF TaskType, Pc
  <2>3. CASE online = FALSE
    <3>1. task' = [task EXCEPT !.pc = "relay", !.online = FALSE, !.proven = FALSE]
      BY <2>1, <2>3, Zenon
    <3> QED  BY <1>2, <3>1 DEF TaskType, Pc
  <2> QED  BY <2>2, <2>3, Zenon
<1>5. TheirTypes' /\ NoNews
  BY TheirsIsNoNews DEF Look, Inv
<1>6. UNCHANGED <<held, disk, watch, withdraw, restarts, asked, retracts>>
  BY DEF Look
<1> QED  BY <1>1, <1>2, <1>3, <1>4, <1>5, <1>6, GoesOn

LEMMA PrepareKeeps == Inv /\ Prepare => Inv'
<1> SUFFICES ASSUME Inv, Prepare PROVE Inv'
  OBVIOUS
<1>1. task.pc = "prepare"
  BY DEF Prepare, At
<1>2. /\ row.status \in Live /\ row \in RowType /\ task \in TaskType
      /\ held \in HeldType /\ held # None /\ asked \in BOOLEAN /\ retracts \subseteq Offer
  BY <1>1, Working DEF Pc
<1>3. TheirTypes' /\ NoNews
  BY TheirsIsNoNews DEF Prepare, Inv
<1>4. UNCHANGED <<row, disk, watch, withdraw, restarts, asked, retracts, offers>>
  BY DEF Prepare, theirs
<1>5. CASE held.prep # None
  <2>1. Goto("post") /\ UNCHANGED held
    BY <1>5 DEF Prepare
  <2>2. task' \in TaskType /\ task'.pc = "post"
    BY <1>2, <2>1, GotoIs DEF Pc
  <2> QED  BY <1>1, <1>2, <1>3, <1>4, <1>5, <2>1, <2>2, GoesOn DEF Inv, RowInv
<1>6. CASE held.prep = None
  <2>1. PICK t \in Ticket : held' = [held EXCEPT !.prep = t]
    BY <1>6 DEF Prepare
  <2>2. /\ held' \in HeldType /\ held' # None /\ held'.prep = t
        /\ held'.depositNow = held.depositNow
    BY <1>2, <2>1 DEF HeldType
  <2>3. task' \in TaskType /\ task'.pc = "note"
    BY <1>2, <1>6, GotoIs DEF Prepare, Pc
  <2>4. disk.prep = None /\ disk.sendto = "run" /\ row.status \notin AtRest \cup {"paused"}
    BY <1>1, <1>2, <1>6 DEF Inv, PrepInv, RowInv, Live, AtRest, Over
  <2>5. TypeOK'
    BY <1>3, <1>4, <2>2, <2>3 DEF Inv, TypeOK, TheirTypes
  <2>6. RowInv'
    BY <1>1, <1>2, <1>4, <2>2, <2>3, <2>4 DEF Inv, RowInv
  <2>7. PrepInv' /\ TaskInv' /\ CopyInv' /\ NoPark'
    BY <1>2, <1>4, <2>2, <2>3, <2>4 DEF Inv, PrepInv, TaskInv, CopyInv, NoPark
  <2>8. TicketsAreReproducible'
    BY <1>4, <2>4 DEF Inv, TicketsAreReproducible
  <2> QED  BY <2>5, <2>6, <2>7, <2>8 DEF Inv
<1> QED  BY <1>5, <1>6

LEMMA PrepareFailsKeeps == Inv /\ PrepareFails => Inv'
<1> SUFFICES ASSUME Inv, PrepareFails PROVE Inv'
  OBVIOUS
<1>1. task' = Idle /\ retracts' \subseteq Offer
  BY EndTaskIs DEF PrepareFails, Inv, TypeOK
<1>2. TheirTypes' /\ NoNews
  BY TheirsIsNoNews DEF PrepareFails, Inv
<1>3. /\ task.pc \notin {"ended", "file", "note"} /\ Finish("failed")
      /\ UNCHANGED <<watch, withdraw, restarts, asked>>
  BY DEF PrepareFails, At
<1> QED  BY <1>1, <1>2, <1>3, GoesOff

LEMMA NoteKeeps == Inv /\ Note => Inv'
<1> SUFFICES ASSUME Inv, Note PROVE Inv'
  OBVIOUS
<1>1. task.pc = "note"
  BY DEF Note, At
<1>2. /\ row.status \in Live /\ row \in RowType /\ task \in TaskType /\ disk \in DiskType
      /\ held \in HeldType /\ held # None /\ asked \in BOOLEAN /\ retracts \subseteq Offer
  BY <1>1, Working DEF Pc
<1>3. TheirTypes' /\ NoNews
  BY TheirsIsNoNews DEF Note, Inv
<1>4. UNCHANGED <<row, held, watch, withdraw, restarts, asked, retracts, offers>>
  BY DEF Note, theirs
<1>5. task' \in TaskType /\ task'.pc = "post"
  BY <1>2, GotoIs DEF Note, Pc
<1>6. /\ disk' \in DiskType /\ disk'.prep = held.prep /\ disk'.sendto = disk.sendto
      /\ disk'.dep = disk.dep /\ disk'.park = disk.park
  BY <1>2 DEF Note, DiskType, HeldType
<1>7. disk.prep = None /\ disk.sendto = "run" /\ held.prep # None
  BY <1>1, <1>2 DEF Inv, PrepInv, RowInv
<1>8. TypeOK'
  BY <1>3, <1>4, <1>5, <1>6 DEF Inv, TypeOK, TheirTypes
<1>9. RowInv'
  BY <1>1, <1>2, <1>4, <1>5, <1>6 DEF Inv, RowInv, Live
<1>10. PrepInv' /\ TaskInv' /\ CopyInv' /\ NoPark'
  BY <1>2, <1>4, <1>5, <1>6, <1>7 DEF Inv, PrepInv, TaskInv, CopyInv, NoPark
<1>11. TicketsAreReproducible'
  BY <1>4, <1>6, <1>7 DEF Inv, TicketsAreReproducible
<1> QED  BY <1>8, <1>9, <1>10, <1>11 DEF Inv

\* An offer that is made names the preparation, which has been written down.
LEMMA OffersThePrep ==
    ASSUME Inv, task.pc = "post", NEW new \in Offer, NewOffer(new, held.prep),
           UNCHANGED <<held, disk, blobs, pieces, pulling, got, clock>>
    PROVE  TheirTypes' /\ TicketsAreReproducible'
<1>1. held # None /\ held.prep \in Ticket \cup {None} /\ held.prep # None /\ disk.prep = held.prep
  <2>1. held \in HeldType /\ held # None
    BY Working DEF Pc
  <2> QED  BY <2>1 DEF Inv, PrepInv, HeldType
<1>2. TheirTypes'
  BY <1>1 DEF NewOffer, Inv, TypeOK, TheirTypes, OfferType, Known, Open
<1>3. \A o \in Offer : o # new => offers'[o] = offers[o]
  BY DEF NewOffer, Inv, TypeOK
<1>4. offers'[new].names = held.prep
  BY DEF NewOffer, Inv, TypeOK
<1>5. TicketsAreReproducible'
  BY <1>1, <1>3, <1>4 DEF Inv, TicketsAreReproducible
<1> QED  BY <1>2, <1>5

LEMMA ServingIs ==
    ASSUME task \in TaskType, NEW o \in Offer, NEW seen \in Known, Serving(o, seen)
    PROVE  task' \in TaskType /\ task'.pc = "serve" /\ task'.standing = o
BY DEF Serving, TaskType, Pc

LEMMA PostKeeps == Inv /\ Post => Inv'
<1> SUFFICES ASSUME Inv, Post PROVE Inv'
  OBVIOUS
<1>1. task.pc = "post"
  BY DEF Post, At
<1>2. /\ row.status \in Live /\ row \in RowType /\ task \in TaskType
      /\ held \in HeldType /\ held # None /\ asked \in BOOLEAN /\ retracts \subseteq Offer
  BY <1>1, Working DEF Pc
<1>3. row' \in RowType /\ row'.status \in Live /\ row'.token = row.token
  <2>1. SetLive("waiting")
    BY DEF Post
  <2> QED  BY <1>2, <2>1, StaysLive
<1>4. UNCHANGED <<held, disk, retracts, watch, withdraw, asked, restarts>>
  BY DEF Post
<1>5. UNCHANGED <<blobs, pieces, pulling, got, clock>>
  BY DEF Post
<1>6. held.prep # None
  BY <1>1 DEF Inv, PrepInv
<1>7. /\ \E o \in Offer : \E seen \in Known : Serving(o, seen)
      /\ TheirTypes'
      /\ NoNews \/ TicketsAreReproducible'
  <2>1. PICK o \in Standing :
            \/ o # None /\ Serving(o, offers[o].st) /\ UNCHANGED offers
            \/ o = None /\ \E new \in Offer : NewOffer(new, held.prep) /\ Serving(new, "pending")
    BY DEF Post
  <2>2. CASE o # None /\ Serving(o, offers[o].st) /\ UNCHANGED offers
    <3>1. o \in Offer /\ offers[o].st \in Known
      BY <1>2, <2>2 DEF Standing, TaskType
    <3>2. TheirTypes' /\ NoNews
      BY <1>5, <2>2, TheirsIsNoNews DEF Inv, theirs
    <3> QED  BY <2>2, <3>1, <3>2
  <2>3. CASE \E new \in Offer : NewOffer(new, held.prep) /\ Serving(new, "pending")
    <3>1. PICK new \in Offer : NewOffer(new, held.prep) /\ Serving(new, "pending")
      BY <2>3
    <3>2. TheirTypes' /\ TicketsAreReproducible'
      BY <1>1, <1>4, <1>5, <3>1, OffersThePrep
    <3> QED  BY <3>1, <3>2 DEF Known, Open
  <2> QED  BY <2>1, <2>2, <2>3
<1>8. task' \in TaskType /\ task'.pc = "serve" /\ task'.standing # None
  BY <1>2, <1>7, ServingIs
<1> QED  BY <1>1, <1>2, <1>3, <1>4, <1>6, <1>7, <1>8, GoesOn

LEMMA PostFailsKeeps == Inv /\ PostFails => Inv'
<1> SUFFICES ASSUME Inv, PostFails PROVE Inv'
  OBVIOUS
<1>1. task.pc = "post"
  BY DEF PostFails, At
<1>2. /\ row.status \in Live /\ row \in RowType /\ task \in TaskType
      /\ held \in HeldType /\ held # None /\ asked \in BOOLEAN /\ retracts \subseteq Offer
  BY <1>1, Working DEF Pc
<1>3. /\ UNCHANGED <<row, held, disk, retracts, watch, withdraw, asked, restarts>>
      /\ UNCHANGED <<blobs, pieces, pulling, got, clock>>
  BY DEF PostFails
<1>4. task' \in TaskType /\ task'.pc = "relay"
  BY <1>2 DEF PostFails, TaskType, Pc
<1>5. TheirTypes' /\ (NoNews \/ TicketsAreReproducible')
  <2>1. CASE offers' = offers
    BY <1>3, <2>1, TheirsIsNoNews DEF Inv, theirs
  <2>2. CASE \E new \in Offer : NewOffer(new, held.prep)
    BY <1>1, <1>3, <2>2, OffersThePrep
  <2> QED  BY <2>1, <2>2 DEF PostFails
<1> QED  BY <1>1, <1>2, <1>3, <1>4, <1>5, GoesOn

-----------------------------------------------------------------------------
(* The steps of serve_live_once.                                           *)

LEMMA WatchdogKeeps == Inv /\ Watchdog => Inv'
<1> SUFFICES ASSUME Inv, Watchdog PROVE Inv'
  OBVIOUS
<1>1. task.pc = "serve"
  BY DEF Watchdog, At
<1>2. /\ row.status \in Live /\ row \in RowType /\ task \in TaskType
      /\ held \in HeldType /\ held # None /\ asked \in BOOLEAN /\ retracts \subseteq Offer
  BY <1>1, Working DEF Pc
<1>3. task' \in TaskType /\ task'.pc = "serve" /\ task'.standing = task.standing
  <2>1. \E a \in {"unseen", "undecided"} : task' = [task EXCEPT !.attempt = a]
    BY DEF Watchdog
  <2> QED  BY <1>1, <1>2, <2>1 DEF TaskType
<1>4. TheirTypes' /\ NoNews
  BY TheirsIsNoNews DEF Watchdog, Inv
<1>5. UNCHANGED <<row, held, disk, retracts, watch, withdraw, asked, restarts>>
  BY DEF Watchdog
<1>6. held.prep # None /\ task.standing # None
  BY <1>1 DEF Inv, PrepInv, TaskInv
<1> QED  BY <1>1, <1>2, <1>3, <1>4, <1>5, <1>6, GoesOn

LEMMA ReceiverConnectedKeeps == Inv /\ ReceiverConnected => Inv'
<1> SUFFICES ASSUME Inv, ReceiverConnected PROVE Inv'
  OBVIOUS
<1>1. task.pc = "serve"
  BY DEF ReceiverConnected, At
<1>2. /\ row.status \in Live /\ row \in RowType /\ task \in TaskType
      /\ held \in HeldType /\ held # None /\ asked \in BOOLEAN /\ retracts \subseteq Offer
  BY <1>1, Working DEF Pc
<1>3. task' \in TaskType /\ task'.pc = "serve" /\ task'.standing = task.standing
  BY <1>1, <1>2 DEF ReceiverConnected, TaskType
<1>4. TheirTypes' /\ NoNews
  BY TheirsIsNoNews DEF ReceiverConnected, Inv
<1>5. row' \in RowType /\ row'.status \in Live /\ row'.token = row.token
  <2>1. SetLive("active")
    BY DEF ReceiverConnected
  <2> QED  BY <1>2, <2>1, StaysLive
<1>6. UNCHANGED <<held, disk, retracts, watch, withdraw, asked, restarts>>
  BY DEF ReceiverConnected
<1>7. held.prep # None /\ task.standing # None
  BY <1>1 DEF Inv, PrepInv, TaskInv
<1> QED  BY <1>1, <1>2, <1>3, <1>4, <1>5, <1>6, <1>7, GoesOn

LEMMA DeliveredKeeps == Inv /\ Delivered => Inv'
<1> SUFFICES ASSUME Inv, Delivered PROVE Inv'
  OBVIOUS
<1>1. task' = Idle /\ retracts' \subseteq Offer
  BY EndTaskIs DEF Delivered, Inv, TypeOK
<1>2. TheirTypes' /\ NoNews
  BY TheirsIsNoNews DEF Delivered, Inv
<1>3. /\ task.pc \notin {"ended", "file", "note"} /\ Finish("completed")
      /\ UNCHANGED <<watch, withdraw, restarts, asked>>
  BY DEF Delivered, At
<1> QED  BY <1>1, <1>2, <1>3, GoesOff

\* An answer or a withdrawal gives one offer another status, and no more.
LEMMA OfferMoves ==
    ASSUME offers \in [Offer -> OfferType], NEW o, NEW st \in Known \cup {"none", "gone"},
           offers' = [offers EXCEPT ![o].st = st]
    PROVE  /\ offers' \in [Offer -> OfferType]
           /\ \A p \in Offer : p # o => offers'[p] = offers[p]
           /\ o \in Offer => offers'[o].st = st /\ offers'[o].names = offers[o].names
<1>1. \A p \in Offer : p # o => offers'[p] = offers[p]
  OBVIOUS
<1>2. o \in Offer => offers'[o] = [offers[o] EXCEPT !.st = st]
  OBVIOUS
<1>3. o \in Offer => /\ offers'[o] \in OfferType /\ offers'[o].st = st
                     /\ offers'[o].names = offers[o].names
  BY <1>2 DEF OfferType
<1>4. DOMAIN offers' = Offer /\ offers' = [p \in Offer |-> offers'[p]]
  OBVIOUS
<1>5. offers' \in [Offer -> OfferType]
  BY <1>1, <1>3, <1>4
<1> QED  BY <1>1, <1>3, <1>5

LEMMA WithdrawnIsNoNews ==
    ASSUME TypeOK, NEW o, offers' = [offers EXCEPT ![o].st = "gone"],
           UNCHANGED <<blobs, pieces, pulling, got, clock>>
    PROVE  TheirTypes' /\ NoNews
<1>1. /\ offers' \in [Offer -> OfferType]
      /\ \A p \in Offer : p # o => offers'[p] = offers[p]
      /\ o \in Offer => offers'[o].st = "gone"
  BY OfferMoves DEF TypeOK
<1>2. TheirTypes'
  BY <1>1 DEF TypeOK, TheirTypes
<1>3. NoNews
  BY <1>1 DEF NoNews, Known, Open
<1> QED  BY <1>2, <1>3

LEMMA PiecesIsNoNews ==
    ASSUME TypeOK, NEW t \in Ticket, NEW v \in {"none", "some", "all"},
           pieces' = [pieces EXCEPT ![t] = v],
           UNCHANGED <<offers, blobs, pulling, clock>>, got' \in BOOLEAN
    PROVE  TheirTypes' /\ NoNews
BY DEF TypeOK, TheirTypes, NoNews

LEMMA RecipientCancelledKeeps == Inv /\ RecipientCancelled => Inv'
<1> SUFFICES ASSUME Inv, RecipientCancelled PROVE Inv'
  OBVIOUS
<1>1. TheirTypes' /\ NoNews
  <2>1. offers' = [offers EXCEPT ![task.standing].st = "gone"]
        /\ UNCHANGED <<blobs, pieces, pulling, got, clock>>
    BY DEF RecipientCancelled
  <2> QED  BY <2>1, WithdrawnIsNoNews DEF Inv
<1>2. /\ task.pc \notin {"ended", "file", "note"} /\ Finish("failed")
      /\ task' = Idle /\ retracts' \subseteq Offer
      /\ UNCHANGED <<watch, withdraw, restarts, asked>>
  BY DEF RecipientCancelled, At, Inv, TypeOK
<1> QED  BY <1>1, <1>2, GoesOff

\* A receiver has dropped: serve ends, or goes on, with what the relay took.
LEMMA Serves ==
    ASSUME Inv, task.pc = "serve",
           \/ UNCHANGED row \/ SetLive("waiting"),
           task' \in TaskType, task'.pc \in {"serve", "relay"},
           task'.standing = task.standing,
           TheirTypes', NoNews,
           UNCHANGED <<held, disk, retracts, watch, withdraw, asked, restarts>>
    PROVE  Inv'
<1>1. /\ row.status \in Live /\ row \in RowType /\ task \in TaskType
      /\ held \in HeldType /\ held # None /\ asked \in BOOLEAN /\ retracts \subseteq Offer
  BY Working DEF Pc
<1>2. row' \in RowType /\ row'.status \in Live /\ row'.token = row.token
  BY <1>1, StaysLive
<1>3. held.prep # None /\ task.standing # None
  BY DEF Inv, PrepInv, TaskInv
<1> QED  BY <1>1, <1>2, <1>3, GoesOn

\* ... or is stopped.
LEMMA ServesNoMore ==
    ASSUME Inv, task.pc = "serve", HandleStop, EndTask, TheirTypes', NoNews,
           UNCHANGED <<watch, withdraw, asked, restarts>>
    PROVE  Inv'
<1>1. SetPaused \/ Finish("cancelled")
  BY DEF HandleStop
<1>2. task' = Idle /\ retracts' \subseteq Offer
  BY EndTaskIs DEF Inv, TypeOK
<1> QED  BY <1>1, <1>2, GoesOff

LEMMA ServedPrep ==
    ASSUME Inv, task.pc = "serve"
    PROVE  held.prep \in Ticket /\ task \in TaskType
<1>1. held \in HeldType /\ held # None /\ task \in TaskType
  BY Working DEF Pc
<1> QED  BY <1>1 DEF Inv, PrepInv, HeldType

LEMMA OffloadedKeeps == Inv /\ Offloaded => Inv'
<1> SUFFICES ASSUME Inv, Offloaded PROVE Inv'
  OBVIOUS
<1>1. task.pc = "serve" /\ held.prep \in Ticket /\ task \in TaskType
  BY ServedPrep DEF Offloaded, At
<1>2. TheirTypes' /\ NoNews
  <2>1. pieces' = [pieces EXCEPT ![held.prep] = "all"] /\ UNCHANGED <<offers, blobs, pulling, got, clock>>
    BY DEF Offloaded
  <2> QED  BY <1>1, <2>1, PiecesIsNoNews DEF Inv, TypeOK
<1>3. UNCHANGED <<watch, withdraw, asked, restarts>>
  BY DEF Offloaded
<1>4. CASE task.stop
  BY <1>1, <1>2, <1>3, <1>4, ServesNoMore DEF Offloaded
<1>5. CASE ~task.stop
  <2>1. /\ task' = [task EXCEPT !.pc = "relay", !.peer = FALSE, !.offloaded = TRUE]
        /\ SetLive("waiting") /\ UNCHANGED <<held, disk, retracts>>
    BY <1>5 DEF Offloaded
  <2>2. task' \in TaskType /\ task'.pc = "relay" /\ task'.standing = task.standing
    BY <1>1, <2>1 DEF TaskType, Pc
  <2> QED  BY <1>1, <1>2, <1>3, <2>1, <2>2, Serves
<1> QED  BY <1>4, <1>5

LEMMA OffloadFailsKeeps == Inv /\ OffloadFails => Inv'
<1> SUFFICES ASSUME Inv, OffloadFails PROVE Inv'
  OBVIOUS
<1>1. task.pc = "serve" /\ held.prep \in Ticket /\ task \in TaskType
  BY ServedPrep DEF OffloadFails, At
<1>2. TheirTypes' /\ NoNews
  <2>1. \E v \in {"none", "some", "all"} :
            pieces' = [pieces EXCEPT ![held.prep] = v] /\ UNCHANGED <<offers, blobs, pulling, got, clock>>
    BY DEF OffloadFails
  <2> QED  BY <1>1, <2>1, PiecesIsNoNews DEF Inv, TypeOK
<1>3. task' \in TaskType /\ task'.pc = "serve" /\ task'.standing = task.standing
  BY <1>1 DEF OffloadFails, TaskType
<1>4. SetLive("waiting") /\ UNCHANGED <<held, disk, retracts, watch, withdraw, asked, restarts>>
  BY DEF OffloadFails
<1> QED  BY <1>1, <1>2, <1>3, <1>4, Serves

LEMMA ServeEndsKeeps == Inv /\ ServeEnds => Inv'
<1> SUFFICES ASSUME Inv, ServeEnds PROVE Inv'
  OBVIOUS
<1>1. task.pc = "serve" /\ task \in TaskType
  BY ServedPrep DEF ServeEnds, At
<1>2. TheirTypes' /\ NoNews
  BY TheirsIsNoNews DEF ServeEnds, Inv
<1>3. UNCHANGED <<watch, withdraw, asked, restarts>>
  BY DEF ServeEnds
<1>4. CASE task.stop
  BY <1>1, <1>2, <1>3, <1>4, ServesNoMore DEF ServeEnds
<1>5. CASE ~task.stop
  <2>1. task.relayDue \in BOOLEAN
    BY <1>1 DEF TaskType
  <2>2. /\ \/ task' = [task EXCEPT !.pc = "relay", !.relayDue = TRUE, !.peer = FALSE]
           \/ task' = [task EXCEPT !.pc = "relay", !.relayDue = FALSE, !.peer = FALSE]
        /\ UNCHANGED <<row, held, disk, retracts>>
    BY <1>5, <2>1, Zenon DEF ServeEnds
  <2>3. task' \in TaskType /\ task'.pc = "relay" /\ task'.standing = task.standing
    <3>1. CASE task' = [task EXCEPT !.pc = "relay", !.relayDue = TRUE, !.peer = FALSE]
      BY <1>1, <3>1 DEF TaskType, Pc
    <3>2. CASE task' = [task EXCEPT !.pc = "relay", !.relayDue = FALSE, !.peer = FALSE]
      BY <1>1, <3>2 DEF TaskType, Pc
    <3> QED  BY <2>2, <3>1, <3>2
  <2> QED  BY <1>1, <1>2, <1>3, <2>2, <2>3, Serves
<1> QED  BY <1>4, <1>5

-----------------------------------------------------------------------------
(* The relay path.                                                         *)

\* A step of the loop that leaves the records alone and goes to a place where
\* it needs nothing but what it has.
LEMMA StepsOn ==
    ASSUME Inv, task.pc \in Pc \ {"ended", "file", "note"},
           \/ UNCHANGED row \/ SetLive("waiting"),
           task' \in TaskType, task'.pc \in {"top", "relay", "upload", "wait", "announce", "hand"},
           task'.pc \in {"announce", "hand"} => task'.blob # None,
           task'.pc = "hand" => task'.offer # None,
           TheirTypes', NoNews,
           UNCHANGED <<held, disk, retracts, watch, withdraw, asked, restarts>>
    PROVE  Inv'
<1>1. /\ row.status \in Live /\ row \in RowType /\ task \in TaskType
      /\ held \in HeldType /\ held # None /\ asked \in BOOLEAN /\ retracts \subseteq Offer
  BY Working DEF Pc
<1>2. row' \in RowType /\ row'.status \in Live /\ row'.token = row.token
  BY <1>1, StaysLive
<1> QED  BY <1>1, <1>2, GoesOn

LEMMA ChooseRelayKeeps == Inv /\ ChooseRelay => Inv'
<1> SUFFICES ASSUME Inv, ChooseRelay PROVE Inv'
  OBVIOUS
<1>1. task.pc = "relay" /\ task \in TaskType
  BY DEF ChooseRelay, At, Inv, TypeOK
<1>2. TheirTypes' /\ NoNews
  BY TheirsIsNoNews DEF ChooseRelay, Inv
<1>3. UNCHANGED <<held, disk, retracts, watch, withdraw, asked, restarts>>
  BY DEF ChooseRelay
<1>4. ~held.depositNow
  BY <1>1 DEF Inv, NoPark, RowInv
<1>5. \/ task' = [task EXCEPT !.pc = "wait", !.told = TRUE] /\ SetLive("waiting")
      \/ Goto("upload") /\ UNCHANGED row
      \/ Goto("wait") /\ UNCHANGED row
  BY <1>4, Zenon DEF ChooseRelay
<1>6. task' \in TaskType /\ task'.pc \in {"upload", "wait"}
  <2>1. CASE task' = [task EXCEPT !.pc = "wait", !.told = TRUE]
    BY <1>1, <2>1 DEF TaskType, Pc
  <2>2. CASE Goto("upload") \/ Goto("wait")
    BY <1>1, <2>2, GotoIs DEF Pc
  <2> QED  BY <1>5, <2>1, <2>2
<1> QED  BY <1>1, <1>2, <1>3, <1>5, <1>6, StepsOn DEF Pc

LEMMA UploadKeeps == Inv /\ Upload => Inv'
<1> SUFFICES ASSUME Inv, Upload PROVE Inv'
  OBVIOUS
<1>1. task.pc = "upload" /\ task \in TaskType
  BY DEF Upload, At, Inv, TypeOK
<1>2. PICK b \in Blob : /\ blobs' = [blobs EXCEPT ![b] = "stored"]
                        /\ task' = [task EXCEPT !.pc = "announce", !.blob = b]
  BY DEF Upload
<1>3. task' \in TaskType /\ task'.pc = "announce" /\ task'.blob = b
  BY <1>1, <1>2 DEF TaskType, Pc
<1>4. TheirTypes' /\ NoNews
  BY <1>2 DEF Upload, Inv, TypeOK, TheirTypes, NoNews
<1>5. UNCHANGED <<row, held, disk, retracts, watch, withdraw, asked, restarts>>
  BY DEF Upload
<1> QED  BY <1>1, <1>3, <1>4, <1>5, StepsOn DEF Pc

LEMMA UploadRefusedKeeps == Inv /\ UploadRefused => Inv'
<1> SUFFICES ASSUME Inv, UploadRefused PROVE Inv'
  OBVIOUS
<1>1. task.pc = "upload" /\ task \in TaskType
  BY DEF UploadRefused, At, Inv, TypeOK
<1>2. task' \in TaskType /\ task'.pc = "wait"
  <2>1. CASE task' = [task EXCEPT !.pc = "wait", !.tooBig = TRUE]
    BY <1>1, <2>1 DEF TaskType, Pc
  <2>2. CASE task' = [task EXCEPT !.pc = "wait", !.relayDue = FALSE]
    BY <1>1, <2>2 DEF TaskType, Pc
  <2> QED  BY <2>1, <2>2 DEF UploadRefused
<1>3. TheirTypes' /\ NoNews
  BY TheirsIsNoNews DEF UploadRefused, Inv
<1>4. SetLive("waiting") /\ UNCHANGED <<held, disk, retracts, watch, withdraw, asked, restarts>>
  BY DEF UploadRefused
<1> QED  BY <1>1, <1>2, <1>3, <1>4, StepsOn DEF Pc

LEMMA UploadFailsKeeps == Inv /\ UploadFails => Inv'
<1> SUFFICES ASSUME Inv, UploadFails PROVE Inv'
  OBVIOUS
<1>1. task' = Idle /\ retracts' \subseteq Offer
  BY EndTaskIs DEF UploadFails, Inv, TypeOK
<1>2. TheirTypes' /\ NoNews
  BY TheirsIsNoNews DEF UploadFails, Inv
<1>3. /\ task.pc \notin {"ended", "file", "note"} /\ Finish("failed")
      /\ UNCHANGED <<watch, withdraw, restarts, asked>>
  BY DEF UploadFails, At
<1> QED  BY <1>1, <1>2, <1>3, GoesOff

LEMMA AnnounceKeeps == Inv /\ Announce => Inv'
<1> SUFFICES ASSUME Inv, Announce PROVE Inv'
  OBVIOUS
<1>1. task.pc = "announce" /\ task \in TaskType
  BY DEF Announce, At, Inv, TypeOK
<1>2. task.blob \in Blob
  BY <1>1 DEF Inv, TaskInv, TaskType
<1>3. PICK new \in Offer : /\ NewOffer(new, task.blob)
                           /\ task' = [task EXCEPT !.pc = "hand", !.offer = new]
  BY DEF Announce
<1>4. /\ task' \in TaskType /\ task'.pc = "hand" /\ task'.offer = new
      /\ task'.blob = task.blob
  BY <1>1, <1>3 DEF TaskType, Pc
<1>5. /\ offers' \in [Offer -> OfferType]
      /\ \A o \in Offer : o # new => offers'[o] = offers[o]
      /\ offers'[new].names = task.blob
  BY <1>2, <1>3 DEF NewOffer, Inv, TypeOK, OfferType, Known, Open
<1>6. TheirTypes'
  BY <1>5 DEF Announce, Inv, TypeOK, TheirTypes
<1>7. NoNews
  BY <1>2, <1>5 DEF NoNews
<1>8. UNCHANGED <<row, held, disk, retracts, watch, withdraw, asked, restarts>>
  BY DEF Announce
<1> QED  BY <1>1, <1>2, <1>4, <1>6, <1>7, <1>8, StepsOn DEF Pc

LEMMA AnnounceFailsKeeps == Inv /\ AnnounceFails => Inv'
<1> SUFFICES ASSUME Inv, AnnounceFails PROVE Inv'
  OBVIOUS
<1>1. task.pc \in {"announce", "hand"} /\ task \in TaskType
  BY DEF AnnounceFails, Inv, TypeOK
<1>2. task' \in TaskType /\ task'.pc = "wait"
  BY <1>1 DEF AnnounceFails, TaskType, Pc
<1>3. TheirTypes' /\ NoNews
  BY TheirsIsNoNews DEF AnnounceFails, Inv
<1>4. SetLive("waiting") /\ UNCHANGED <<held, disk, retracts, watch, withdraw, asked, restarts>>
  BY DEF AnnounceFails
<1> QED  BY <1>1, <1>2, <1>3, <1>4, StepsOn DEF Pc

LEMMA HandKeeps == Inv /\ Hand => Inv'
<1> SUFFICES ASSUME Inv, Hand PROVE Inv'
  OBVIOUS
<1>1. task.pc = "hand"
  BY DEF Hand, At
<1>2. /\ row.status \in Live /\ row \in RowType /\ task \in TaskType /\ disk \in DiskType
  BY <1>1, Working DEF Pc
<1>3. TheirTypes' /\ NoNews
  BY TheirsIsNoNews DEF Hand, Inv
<1>4. UNCHANGED <<row, retracts, watch, withdraw, asked, restarts>>
  BY DEF Hand
<1>5. /\ task' \in TaskType /\ task'.pc = "file"
      /\ task'.blob = task.blob /\ task'.offer = task.offer
  BY <1>2, GotoIs DEF Hand, Pc
<1>6. /\ held' = None
      /\ disk' \in DiskType
      /\ disk'.sendto = "none" /\ disk'.prep = None
      /\ disk'.dep = disk.dep /\ disk'.park = disk.park
  BY <1>2, DropHeldIs DEF Hand
<1>7. TypeOK'
  BY <1>3, <1>4, <1>5, <1>6 DEF Inv, TypeOK, TheirTypes
<1>8. RowInv'
  BY <1>1, <1>2, <1>4, <1>5, <1>6 DEF Inv, RowInv, Live
<1>9. PrepInv' /\ TaskInv' /\ CopyInv' /\ NoPark'
  BY <1>1, <1>2, <1>4, <1>5, <1>6 DEF Inv, PrepInv, TaskInv, CopyInv, NoPark, Live
<1>10. TicketsAreReproducible'
  BY <1>6 DEF TicketsAreReproducible
<1> QED  BY <1>7, <1>8, <1>9, <1>10 DEF Inv

LEMMA FileKeeps == Inv /\ File => Inv'
<1> SUFFICES ASSUME Inv, File PROVE Inv'
  OBVIOUS
<1>1. task.pc = "file"
  BY DEF File, At
<1>2. /\ row.status \in Live /\ row \in RowType /\ task \in TaskType /\ disk \in DiskType
  BY <1>1, Working DEF Pc
<1>3. TheirTypes' /\ NoNews
  BY TheirsIsNoNews DEF File, Inv
<1>4. UNCHANGED <<held, withdraw, asked, restarts>>
  BY DEF File
<1>5. task' = Idle /\ retracts' \subseteq Offer
  BY EndTaskIs DEF File, Inv, TypeOK
<1>6. task' \in TaskType /\ task'.pc = "ended"
  BY <1>5, IdleIs
<1>7. row' \in RowType /\ row'.status = "deposited" /\ row'.token = FALSE
  <2>1. SetStatus("deposited") /\ row.status # "none"
    BY <1>2 DEF File, Live
  <2> QED  BY <1>2, <2>1, SetStatusIs DEF Status
<1>8. task.blob \in Blob /\ task.offer \in Offer
  BY <1>1, <1>2 DEF Inv, TaskInv, TaskType
<1>9. /\ disk' \in DiskType /\ disk'.sendto = disk.sendto /\ disk'.prep = disk.prep
      /\ disk'.park = disk.park
  BY <1>2, <1>8 DEF File, DiskType, DepRecord
<1>10. watch' \in WatchType /\ watch'.kind = "dep"
  BY <1>8 DEF File, WatchType, Copy
<1>11. TypeOK'
  BY <1>3, <1>4, <1>5, <1>6, <1>7, <1>9, <1>10 DEF Inv, TypeOK, TheirTypes
<1>12. held = None /\ disk.sendto = "none" /\ withdraw = None
  BY <1>1, <1>2 DEF Inv, RowInv, CopyInv, Live, Left, Over
<1>13. RowInv'
  BY <1>4, <1>6, <1>7, <1>9, <1>12 DEF RowInv, Live
<1>14. PrepInv' /\ TaskInv' /\ CopyInv' /\ NoPark'
  BY <1>4, <1>6, <1>7, <1>9, <1>10, <1>12 DEF Inv, PrepInv, TaskInv, CopyInv, NoPark, Left
<1>15. TicketsAreReproducible'
  BY <1>9, <1>12 DEF TicketsAreReproducible
<1> QED  BY <1>11, <1>13, <1>14, <1>15 DEF Inv

LEMMA WaitKeeps == Inv /\ Wait => Inv'
<1> SUFFICES ASSUME Inv, Wait PROVE Inv'
  OBVIOUS
<1>1. task.pc = "wait" /\ task \in TaskType
  BY DEF Wait, At, Inv, TypeOK
<1>2. task' \in TaskType /\ task'.pc = "top"
  <2>1. task.relayDue \in BOOLEAN
    BY <1>1 DEF TaskType
  <2>2. PICK due \in BOOLEAN :
          LET s    == IF task.standing = None THEN None ELSE offers[task.standing].st
              base == [task EXCEPT !.pc = "top", !.relayDue = due]
          IN  \/ task' = base
              \/ s \notin Known /\ task' = [base EXCEPT !.standing = None]
              \/ s \in Known /\ task' = [base EXCEPT !.seen = s, !.proven = (s # task.seen)]
    BY <2>1, Zenon DEF Wait
  <2> DEFINE base == [task EXCEPT !.pc = "top", !.relayDue = due]
  <2>3. base \in TaskType /\ base.pc = "top"
    <3>1. base = [task EXCEPT !.pc = "top", !.relayDue = TRUE] \/ base = [task EXCEPT !.pc = "top", !.relayDue = FALSE]
      BY Zenon
    <3> HIDE DEF base
    <3>2. CASE base = [task EXCEPT !.pc = "top", !.relayDue = TRUE]
      BY <1>1, <3>2 DEF TaskType, Pc
    <3>3. CASE base = [task EXCEPT !.pc = "top", !.relayDue = FALSE]
      BY <1>1, <3>3 DEF TaskType, Pc
    <3> QED  BY <3>1, <3>2, <3>3
  <2> HIDE DEF base
  <2>4. ASSUME NEW s \in Known, NEW p \in BOOLEAN,
               task' = [base EXCEPT !.seen = s, !.proven = p]
        PROVE  task' \in TaskType /\ task'.pc = "top"
    BY <2>3, <2>4 DEF TaskType
  <2>5. CASE task' = [base EXCEPT !.standing = None]
    BY <2>3, <2>5 DEF TaskType
  <2> QED  BY <2>2, <2>3, <2>4, <2>5, Zenon DEF base
<1>3. TheirTypes' /\ NoNews
  BY TheirsIsNoNews DEF Wait, Inv
<1>4. UNCHANGED <<row, held, disk, retracts, watch, withdraw, asked, restarts>>
  BY DEF Wait
<1> QED  BY <1>1, <1>2, <1>3, <1>4, StepsOn DEF Pc

LEMMA ParkNever == ASSUME Inv, Park \/ ParkFails PROVE FALSE
BY DEF Inv, NoPark, Park, ParkFails, At

-----------------------------------------------------------------------------
(* The copy on the relay, and what the user does.                          *)

LEMMA TimeIsUpKeeps == Inv /\ TimeIsUp => Inv'
<1> SUFFICES ASSUME Inv, TimeIsUp PROVE Inv'
  OBVIOUS
<1>1. task \in TaskType /\ task.pc # "ended"
  BY DEF TimeIsUp, Inv, TypeOK
<1>2. /\ row.status \in Live /\ row \in RowType
      /\ held \in HeldType \cup {None} /\ asked \in BOOLEAN /\ retracts \subseteq Offer
  BY <1>1, Working DEF TaskType
<1>3. /\ task' \in TaskType /\ task'.pc = task.pc /\ task'.standing = task.standing
      /\ task'.blob = task.blob /\ task'.offer = task.offer
  BY <1>1 DEF TimeIsUp, TaskType
<1>4. TheirTypes' /\ NoNews
  BY TheirsIsNoNews DEF TimeIsUp, Inv
<1>5. UNCHANGED <<row, held, disk, retracts, watch, withdraw, asked, restarts>>
  BY DEF TimeIsUp
<1>6. /\ task.pc \in {"post", "serve"} => held.prep # None
      /\ task.pc = "serve" => task.standing # None
      /\ task.pc \in {"announce", "hand", "file"} => task.blob # None
      /\ task.pc \in {"hand", "file"} => task.offer # None
      /\ task.pc # "park"
  BY DEF Inv, PrepInv, TaskInv, NoPark
<1> QED  BY <1>1, <1>2, <1>3, <1>4, <1>5, <1>6, GoesOn

LEMMA RetractKeeps ==
    ASSUME Inv, NEW o \in Offer, Retract(o)
    PROVE  Inv'
<1>1. TheirTypes' /\ NoNews
  <2>1. UNCHANGED <<blobs, pieces, pulling, got, clock>>
    BY DEF Retract
  <2>2. CASE UNCHANGED offers
    BY <2>1, <2>2, TheirsIsNoNews DEF Inv, theirs
  <2>3. CASE offers' = [offers EXCEPT ![o].st = "gone"]
    BY <2>1, <2>3, WithdrawnIsNoNews DEF Inv
  <2> QED  BY <2>2, <2>3 DEF Retract
<1>2. row.status # "unsent"
  BY DEF Retract, Inv, TaskInv
<1>3. /\ UNCHANGED <<row, held, disk, task, watch, withdraw, asked, restarts>>
      /\ retracts' \subseteq retracts
  BY DEF Retract
<1> QED  BY <1>1, <1>2, <1>3, StandsStill

\* A row that is left is given another ending, its record gone with it.
LEMMA EndsAgain ==
    ASSUME Inv, row.status \in Left,
           row' \in RowType, row'.status \in Left, row'.token = FALSE,
           disk' = [disk EXCEPT !.dep = None],
           watch' \in {watch, None}, withdraw' \in {withdraw, None},
           UNCHANGED <<held, task, retracts, asked, restarts, theirs>>
    PROVE  Inv'
<1>1. /\ disk' \in DiskType /\ disk'.dep = None /\ disk'.sendto = disk.sendto
      /\ disk'.prep = disk.prep /\ disk'.park = disk.park
  BY DEF Inv, TypeOK, DiskType
<1>2. row.status \in AtRest /\ row'.status \in AtRest /\ row.status \notin Live /\ row'.status \notin Live
      /\ row'.status \notin {"paused", "unsent"}
  BY DEF Left, AtRest, Over, Live
<1>3. TypeOK'
  BY <1>1 DEF Inv, TypeOK, theirs
<1>4. RowInv'
  BY <1>1, <1>2 DEF Inv, RowInv
<1>5. PrepInv' /\ TaskInv'
  BY <1>1, <1>2 DEF Inv, PrepInv, TaskInv
<1>6. CopyInv' /\ NoPark'
  BY <1>1, <1>2 DEF Inv, CopyInv, NoPark
<1>7. TicketsAreReproducible'
  BY <1>1, <1>2 DEF Inv, RowInv, TicketsAreReproducible
<1> QED  BY <1>3, <1>4, <1>5, <1>6, <1>7 DEF Inv

LEMMA ConfirmKeeps == Inv /\ Confirm => Inv'
<1> SUFFICES ASSUME Inv, Confirm PROVE Inv'
  OBVIOUS
<1>1. row.status \in Left /\ watch.kind = "dep" /\ row \in RowType
  BY DEF Confirm, Inv, CopyInv, TypeOK
<1>2. SetStatus("completed") \/ SetStatus("failed") \/ UNCHANGED row
  BY Zenon DEF Confirm
<1>3. row' \in RowType /\ row'.status \in Left /\ row'.token = FALSE
  <2>1. CASE SetStatus("completed") \/ SetStatus("failed")
    BY <1>1, <2>1, SetStatusIs DEF Status, Left, Over
  <2>2. CASE UNCHANGED row
    BY <1>1, <2>2 DEF Inv, RowInv, RowType, Left, Over, Live
  <2> QED  BY <1>2, <2>1, <2>2
<1>4. disk' = [disk EXCEPT !.dep = None] /\ watch' = None
  BY <1>1 DEF Confirm, Retire
<1>5. UNCHANGED <<held, task, retracts, withdraw, asked, restarts, theirs>>
  BY DEF Confirm
<1> QED  BY <1>1, <1>3, <1>4, <1>5, EndsAgain

LEMMA WithdrawCallsKeeps == Inv /\ WithdrawCalls => Inv'
<1> SUFFICES ASSUME Inv, WithdrawCalls PROVE Inv'
  OBVIOUS
<1>1. withdraw \in WithdrawType /\ withdraw.kind = "dep" /\ row.status \in Left
  BY DEF WithdrawCalls, Inv, CopyInv, TypeOK
<1>2. withdraw' \in WithdrawType /\ withdraw'.kind = "dep"
  BY <1>1 DEF WithdrawCalls, WithdrawType
<1>3. /\ UNCHANGED <<row, held, disk, task, retracts, watch, asked, restarts>>
      /\ UNCHANGED <<pulling, got, clock>>
  BY DEF WithdrawCalls
<1>4. TheirTypes'
  <2>1. UNCHANGED <<pieces, pulling, got, clock>> /\
        \/ \E o : offers' = [offers EXCEPT ![o].st = "gone"]
        \/ UNCHANGED offers
    BY <1>1 DEF WithdrawCalls
  <2>2. offers' \in [Offer -> OfferType]
    BY <2>1, OfferMoves DEF Inv, TypeOK
  <2>3. blobs' \in [Blob -> {"none", "stored", "fetched", "revoked", "lapsed"}]
    BY <1>1 DEF WithdrawCalls, Inv, TypeOK
  <2> QED  BY <2>1, <2>2, <2>3 DEF Inv, TypeOK, TheirTypes
<1>5. row.status \notin Live /\ row.status # "paused" /\ row.status # "unsent" /\ row.status \in AtRest
  BY <1>1 DEF Left, Over, Live, AtRest
<1>6. TypeOK'
  BY <1>2, <1>3, <1>4 DEF Inv, TypeOK, TheirTypes
<1>7. RowInv' /\ PrepInv' /\ TaskInv' /\ CopyInv' /\ NoPark'
  BY <1>1, <1>2, <1>3, <1>5 DEF Inv, RowInv, PrepInv, TaskInv, CopyInv, NoPark
<1>8. TicketsAreReproducible'
  BY <1>3, <1>5 DEF Inv, RowInv, TicketsAreReproducible
<1> QED  BY <1>6, <1>7, <1>8 DEF Inv

LEMMA WithdrawEndsKeeps == Inv /\ WithdrawEnds => Inv'
<1> SUFFICES ASSUME Inv, WithdrawEnds PROVE Inv'
  OBVIOUS
<1>1. row.status \in Left /\ withdraw.kind = "dep" /\ row \in RowType
  BY DEF WithdrawEnds, Inv, CopyInv, TypeOK
<1>2. row' \in RowType /\ row'.status \in Left /\ row'.token = FALSE
  BY <1>1, SetStatusIs DEF WithdrawEnds, Status, Left, Over
<1>3. disk' = [disk EXCEPT !.dep = None] /\ withdraw' = None
  BY <1>1 DEF WithdrawEnds
<1>4. UNCHANGED <<held, task, retracts, watch, asked, restarts, theirs>>
  BY DEF WithdrawEnds
<1> QED  BY <1>1, <1>2, <1>3, <1>4, EndsAgain

\* The loop is started, by a send or by a resume.
LEMMA Starts ==
    ASSUME Inv, row.status \in {"unsent", "paused"},
           row' = [status |-> "active", token |-> TRUE],
           held' \in HeldType, ~held'.depositNow,
           held'.prep = disk.prep,
           disk' = [disk EXCEPT !.sendto = "run"],
           task' = Loop, asked' \in BOOLEAN,
           UNCHANGED <<retracts, watch, withdraw, restarts, theirs>>
    PROVE  Inv'
<1>1. task' \in TaskType /\ task'.pc = "top"
  BY LoopIs
<1>2. row' \in RowType /\ row'.status \in Live /\ row'.token
      /\ row'.status \notin AtRest \cup {"paused"}
  BY DEF RowType, Status, Live, AtRest, Over
<1>3. /\ disk' \in DiskType /\ disk'.sendto = "run" /\ disk'.prep = disk.prep
      /\ disk'.dep = disk.dep /\ disk'.park = disk.park
  BY DEF Inv, TypeOK, DiskType
<1>4. held' # None
  OBVIOUS
<1>5. disk.dep = None /\ watch = None /\ withdraw = None
  BY DEF Inv, CopyInv, Left, Over
<1>6. TypeOK'
  BY <1>1, <1>2, <1>3 DEF Inv, TypeOK, theirs
<1>7. RowInv'
  BY <1>1, <1>2, <1>3, <1>4 DEF RowInv
<1>8. PrepInv' /\ TaskInv'
  BY <1>1, <1>2, <1>3 DEF PrepInv, TaskInv, AtRest
<1>9. CopyInv' /\ NoPark'
  BY <1>1, <1>3, <1>5 DEF Inv, CopyInv, NoPark
<1>10. TicketsAreReproducible'
  <2>1. UNCHANGED offers
    BY DEF theirs
  <2>2. CASE row.status = "paused"
    BY <1>3, <2>1, <2>2 DEF Inv, RowInv, TicketsAreReproducible
  <2>3. CASE row.status = "unsent"
    BY <2>1, <2>3 DEF Inv, TaskInv, TicketsAreReproducible, Known, Open
  <2> QED  BY <2>2, <2>3
<1> QED  BY <1>6, <1>7, <1>8, <1>9, <1>10 DEF Inv

LEMMA SendToKeeps == Inv /\ SendTo => Inv'
<1> SUFFICES ASSUME Inv, SendTo PROVE Inv'
  OBVIOUS
<1>1. disk.prep = None
  BY DEF SendTo, Inv, RowInv, PrepInv, AtRest
<1>2. held' \in HeldType /\ ~held'.depositNow /\ held'.prep = None
  BY DEF SendTo, HeldType
<1>3. /\ row.status = "unsent" /\ row' = [status |-> "active", token |-> TRUE]
      /\ disk' = [disk EXCEPT !.sendto = "run"] /\ task' = Loop
      /\ UNCHANGED <<retracts, watch, withdraw, restarts, theirs>>
      /\ asked' \in BOOLEAN
  BY DEF SendTo, Inv, TypeOK
<1> QED  BY <1>1, <1>2, <1>3, Starts

LEMMA ResumeKeeps == Inv /\ Resume => Inv'
<1> SUFFICES ASSUME Inv, Resume PROVE Inv'
  OBVIOUS
<1>1. held \in HeldType /\ held # None /\ ~held.depositNow /\ task.pc # "note"
  BY DEF Resume, Inv, TypeOK, RowInv, NoPark, Live
<1>2. held.prep = disk.prep
  BY <1>1 DEF Inv, PrepInv
<1>3. held' \in HeldType /\ held'.depositNow = held.depositNow /\ held'.prep = held.prep
  BY <1>1 DEF Resume, HeldType
<1>4. /\ row.status = "paused" /\ row' = [status |-> "active", token |-> TRUE]
      /\ disk' = [disk EXCEPT !.sendto = "run"] /\ task' = Loop
      /\ UNCHANGED <<retracts, watch, withdraw, restarts, theirs>>
      /\ asked' \in BOOLEAN
  BY DEF Resume
<1> QED  BY <1>1, <1>2, <1>3, <1>4, Starts

\* Pausing and cancelling a running loop only sets its flags.
LEMMA Tells ==
    ASSUME Inv, row.status \in Live,
           held' \in HeldType \cup {None}, held' = None <=> held = None,
           held # None => held'.prep = held.prep /\ held'.depositNow = held.depositNow,
           task' = [task EXCEPT !.stop = TRUE] \/ task' = [task EXCEPT !.stop = FALSE],
           asked' \in BOOLEAN,
           UNCHANGED <<row, disk, retracts, watch, withdraw, restarts, theirs>>
    PROVE  Inv'
<1>1. task \in TaskType /\ task.pc # "ended" /\ row \in RowType /\ retracts \subseteq Offer
  BY DEF Inv, TypeOK, RowInv
<1>2. /\ task' \in TaskType /\ task'.pc = task.pc /\ task'.standing = task.standing
      /\ task'.blob = task.blob /\ task'.offer = task.offer
  <2>1. CASE task' = [task EXCEPT !.stop = TRUE]
    BY <1>1, <2>1 DEF TaskType
  <2>2. CASE task' = [task EXCEPT !.stop = FALSE]
    BY <1>1, <2>2 DEF TaskType
  <2> QED  BY <2>1, <2>2
<1>3. TheirTypes' /\ NoNews
  BY TheirsIsNoNews DEF Inv
<1>4. /\ task.pc \in {"post", "serve"} => held.prep # None
      /\ task.pc = "serve" => task.standing # None
      /\ task.pc \in {"announce", "hand", "file"} => task.blob # None
      /\ task.pc \in {"hand", "file"} => task.offer # None
      /\ task.pc # "park"
  BY DEF Inv, PrepInv, TaskInv, NoPark
<1> QED  BY <1>1, <1>2, <1>3, <1>4, GoesOn

LEMMA PauseKeeps == Inv /\ Pause => Inv'
<1> SUFFICES ASSUME Inv, Pause PROVE Inv'
  OBVIOUS
<1>1. held \in HeldType /\ held # None /\ row.status \in Live /\ task \in TaskType
  BY DEF Pause, Inv, TypeOK
<1>2. held' \in HeldType /\ held'.prep = held.prep /\ held'.depositNow = held.depositNow
  BY <1>1 DEF Pause, HeldType
<1>3. row.token = TRUE
  BY <1>1 DEF Inv, TypeOK, RowInv, RowType
<1>4. task' = [task EXCEPT !.stop = TRUE] \/ task' = [task EXCEPT !.stop = FALSE]
  BY <1>3, Zenon DEF Pause
<1>5. UNCHANGED <<row, disk, retracts, watch, withdraw, asked, restarts, theirs>>
  BY DEF Pause
<1>6. asked' \in BOOLEAN
  BY <1>5 DEF Inv, TypeOK
<1> QED  BY <1>1, <1>2, <1>4, <1>5, <1>6, Tells

LEMMA CancelLiveKeeps == Inv /\ CancelLive => Inv'
<1> SUFFICES ASSUME Inv, CancelLive PROVE Inv'
  OBVIOUS
<1>1. row.token /\ row.status \in Live /\ held \in HeldType \cup {None}
  BY DEF CancelLive, Inv, TypeOK, RowInv
<1>2. /\ task' = [task EXCEPT !.stop = TRUE] /\ UNCHANGED <<row, held, disk>>
      /\ UNCHANGED <<retracts, watch, withdraw, restarts, theirs>> /\ asked' \in BOOLEAN
  BY <1>1 DEF CancelLive
<1> QED  BY <1>1, <1>2, Tells

LEMMA CancelPausedKeeps == Inv /\ CancelPaused => Inv'
<1> SUFFICES ASSUME Inv, CancelPaused PROVE Inv'
  OBVIOUS
<1>1. row \in RowType /\ disk \in DiskType /\ row.status = "paused"
  BY DEF CancelPaused, Inv, TypeOK
<1>2. DropHeld /\ SetStatus("cancelled") /\ asked' = TRUE
      /\ UNCHANGED <<task, retracts, watch, withdraw, restarts, theirs>>
  BY DEF CancelPaused, Finish
<1>3. row' \in RowType /\ row'.status = "cancelled" /\ row'.token = FALSE
  BY <1>1, <1>2, SetStatusIs DEF Status, Over
<1>4. /\ held' = None
      /\ disk' \in DiskType
      /\ disk'.sendto = "none" /\ disk'.prep = None
      /\ disk'.dep = disk.dep /\ disk'.park = disk.park
  BY <1>1, <1>2, DropHeldIs
<1>5. task.pc = "ended" /\ disk.dep = None /\ watch = None /\ withdraw = None
  BY <1>1 DEF Inv, RowInv, CopyInv, Live, Left, Over
<1>6. TypeOK'
  BY <1>2, <1>3, <1>4 DEF Inv, TypeOK, theirs
<1>7. RowInv'
  BY <1>2, <1>3, <1>4, <1>5 DEF RowInv, Live
<1>8. PrepInv' /\ TaskInv' /\ CopyInv' /\ NoPark' /\ TicketsAreReproducible'
  BY <1>2, <1>3, <1>4, <1>5 DEF Inv, PrepInv, TaskInv, CopyInv, NoPark, TicketsAreReproducible
<1> QED  BY <1>6, <1>7, <1>8 DEF Inv

LEMMA CancelDepositedKeeps == Inv /\ CancelDeposited => Inv'
<1> SUFFICES ASSUME Inv, CancelDeposited PROVE Inv'
  OBVIOUS
<1>1. row.status = "deposited" /\ disk \in DiskType /\ disk.park = None
  BY DEF CancelDeposited, Inv, TypeOK, NoPark
<1>2. withdraw' = [kind |-> "dep", rec |-> disk.dep, called |-> FALSE]
  BY <1>1 DEF CancelDeposited
<1>3. withdraw' \in WithdrawType /\ withdraw'.kind = "dep"
  BY <1>1, <1>2 DEF WithdrawType, DiskType
<1>4. UNCHANGED <<row, held, disk, task, retracts, watch, restarts, theirs>> /\ asked' = TRUE
  BY DEF CancelDeposited
<1>5. TypeOK'
  BY <1>3, <1>4 DEF Inv, TypeOK, theirs
<1>6. RowInv' /\ PrepInv' /\ TaskInv' /\ NoPark'
  BY <1>4 DEF Inv, RowInv, PrepInv, TaskInv, NoPark, theirs
<1>7. CopyInv' /\ TicketsAreReproducible'
  BY <1>1, <1>3, <1>4 DEF Inv, CopyInv, TicketsAreReproducible, theirs, Left
<1> QED  BY <1>5, <1>6, <1>7 DEF Inv

LEMMA RemoveKeeps == Inv /\ Remove => Inv'
<1> SUFFICES ASSUME Inv, Remove PROVE Inv'
  OBVIOUS
<1>1. row \in RowType /\ row.status \in Over
  BY DEF Remove, Inv, TypeOK
<1>2. row' \in RowType /\ row'.status = "none" /\ row'.token = row.token
  BY <1>1 DEF Remove, RowType, Status
<1>3. UNCHANGED <<held, disk, task, retracts, watch, withdraw, asked, restarts, theirs>>
  BY DEF Remove
<1>4. TypeOK'
  BY <1>2, <1>3 DEF Inv, TypeOK, theirs
<1>5. RowInv'
  BY <1>1, <1>2, <1>3 DEF Inv, RowInv, Live, AtRest, Over
<1>6. PrepInv' /\ TaskInv' /\ NoPark' /\ CopyInv'
  BY <1>1, <1>2, <1>3 DEF Inv, PrepInv, TaskInv, NoPark, CopyInv, Left, Over
<1>7. TicketsAreReproducible'
  BY <1>3 DEF Inv, TicketsAreReproducible, theirs
<1> QED  BY <1>4, <1>5, <1>6, <1>7 DEF Inv

LEMMA RestartKeeps == Inv /\ Restart => Inv'
<1> SUFFICES ASSUME Inv, Restart PROVE Inv'
  OBVIOUS
<1> DEFINE kept == disk.dep # None /\ clock # "over"
<1>1. disk \in DiskType /\ disk.park = None /\ row.status # "unsent"
  BY DEF Restart, Inv, TypeOK, NoPark
<1>2. restarts' \in 0 .. MaxRestarts
  BY DEF Restart, Inv, TypeOK
<1>3. retracts' = {} /\ withdraw' = None /\ asked' = FALSE /\ UNCHANGED theirs
  BY DEF Restart
<1>4. /\ disk' \in DiskType
      /\ disk'.sendto = disk.sendto /\ disk'.prep = disk.prep /\ disk'.park = None
      /\ disk'.dep = IF kept THEN disk.dep ELSE None
  <2>1. disk' = [disk EXCEPT !.dep = IF kept THEN disk.dep ELSE None,
                             !.prep = IF disk.sendto = "none" THEN None ELSE disk.prep]
    BY Zenon DEF Restart
  <2>2. disk.sendto = "none" => disk.prep = None
    BY DEF Inv, PrepInv
  <2>3. CASE kept
    BY <1>1, <2>1, <2>2, <2>3 DEF DiskType
  <2>4. CASE ~kept
    BY <1>1, <2>1, <2>2, <2>4 DEF DiskType
  <2> QED  BY <2>3, <2>4
<1>5. /\ watch' \in WatchType \cup {None}
      /\ watch' # None => kept /\ watch'.kind = "dep"
  <2>1. watch' = IF kept THEN [kind |-> "dep", what |-> disk.dep.blob, offer |-> disk.dep.offer]
                 ELSE None
    BY Zenon DEF Restart
  <2>2. kept => disk.dep \in DepRecord
    BY <1>1 DEF DiskType
  <2> QED  BY <2>1, <2>2 DEF WatchType, Copy, DepRecord
<1>6. /\ held' \in HeldType \cup {None}
      /\ held' # None <=> disk.sendto # "none"
      /\ held' # None => held'.prep = disk.prep /\ ~held'.depositNow
  <2>1. held' = IF disk.sendto = "none" THEN None
                ELSE [prep |-> disk.prep, pause |-> FALSE, depositNow |-> FALSE]
    BY DEF Restart, RestoreHeld
  <2>2. [prep |-> disk.prep, pause |-> FALSE, depositNow |-> FALSE] \in HeldType
    BY <1>1 DEF DiskType, HeldType
  <2> QED  BY <2>1, <2>2
<1>7. /\ task' \in TaskType
      /\ task'.pc = IF disk.sendto = "run" THEN "top" ELSE "ended"
  BY IdleIs, LoopIs DEF Restart
<1>8. kept => disk.sendto = "none"
  BY DEF Inv, CopyInv, RowInv, AtRest
<1>9. /\ row' \in RowType
      /\ row'.token <=> disk.sendto = "run"
      /\ row'.status = IF kept THEN "deposited"
                       ELSE IF disk.sendto = "run" THEN "active"
                       ELSE IF disk.sendto = "paused" THEN "paused" ELSE "none"
  <2>1. row' = CASE kept                   -> [status |-> "deposited", token |-> FALSE]
                 [] disk.sendto = "run"    -> [status |-> "active", token |-> TRUE]
                 [] disk.sendto = "paused" -> [status |-> "paused", token |-> FALSE]
                 [] OTHER                  -> [status |-> "none", token |-> FALSE]
    BY Zenon DEF Restart
  <2>2. CASE kept
    <3>1. row' = [status |-> "deposited", token |-> FALSE]
      BY <1>8, <2>1, <2>2
    <3> QED  BY <1>8, <2>2, <3>1 DEF RowType, Status
  <2>3. CASE ~kept /\ disk.sendto = "run"
    <3>1. row' = [status |-> "active", token |-> TRUE]
      BY <2>1, <2>3
    <3> QED  BY <2>3, <3>1 DEF RowType, Status, Live
  <2>4. CASE ~kept /\ disk.sendto = "paused"
    <3>1. row' = [status |-> "paused", token |-> FALSE]
      BY <2>1, <2>4
    <3> QED  BY <2>4, <3>1 DEF RowType, Status
  <2>5. CASE ~kept /\ disk.sendto = "none"
    <3>1. row' = [status |-> "none", token |-> FALSE]
      BY <2>1, <2>5
    <3> QED  BY <2>5, <3>1 DEF RowType, Status
  <2> QED  BY <1>1, <2>2, <2>3, <2>4, <2>5 DEF DiskType
<1> HIDE DEF kept
<1>10. disk.sendto \in {"none", "run", "paused"}
  BY <1>1 DEF DiskType
<1>11. TypeOK'
  BY <1>2, <1>3, <1>4, <1>5, <1>6, <1>7, <1>9 DEF Inv, TypeOK, theirs
<1>12. RowInv'
  BY <1>4, <1>6, <1>7, <1>8, <1>9, <1>10 DEF RowInv, Live, AtRest, Over
<1>13. PrepInv' /\ TaskInv'
  BY <1>4, <1>6, <1>7, <1>9, <1>10 DEF Inv, PrepInv, TaskInv
<1>14. CopyInv' /\ NoPark'
  BY <1>3, <1>4, <1>5, <1>6, <1>7, <1>9 DEF CopyInv, NoPark, Left
<1>15. TicketsAreReproducible'
  BY <1>3, <1>4, <1>6 DEF Inv, TicketsAreReproducible, theirs
<1> QED  BY <1>11, <1>12, <1>13, <1>14, <1>15 DEF Inv

-----------------------------------------------------------------------------
(* The recipient and the relay.                                            *)

\* A recipient answers an offer.
LEMMA AnswerKeeps ==
    ASSUME Inv, NEW o \in Offer, NEW st \in Known \cup {"gone"}, offers[o].st \in Known,
           offers' = [offers EXCEPT ![o].st = st],
           UNCHANGED mine, UNCHANGED <<blobs, pieces, got, clock>>, pulling' \subseteq Ticket
    PROVE  Inv'
<1>1. /\ offers' \in [Offer -> OfferType]
      /\ \A p \in Offer : p # o => offers'[p] = offers[p]
      /\ offers'[o].names = offers[o].names
  BY OfferMoves DEF Inv, TypeOK
<1>2. TheirTypes'
  BY <1>1 DEF Inv, TypeOK, TheirTypes
<1>3. NoNews
  BY <1>1 DEF NoNews
<1>4. \A p \in Offer : offers[p].st = "none" => offers'[p].st = "none"
  BY <1>1 DEF Known, Open
<1> QED  BY <1>2, <1>3, <1>4, StandsStill DEF mine

\* Anything else of theirs leaves the inbox alone.
LEMMA ElsewhereKeeps ==
    ASSUME Inv, UNCHANGED mine, UNCHANGED offers, TheirTypes'
    PROVE  Inv'
<1>1. NoNews
  BY DEF NoNews
<1> QED  BY <1>1, StandsStill DEF mine

LEMMA RecipientKeeps == Inv /\ RecipientStep => Inv'
<1> SUFFICES ASSUME Inv, RecipientStep PROVE Inv'
  OBVIOUS
<1>1. CASE Pull
  <2>1. UNCHANGED mine /\ UNCHANGED offers /\ TheirTypes'
    BY <1>1 DEF Pull, Inv, TypeOK, TheirTypes
  <2> QED  BY <2>1, ElsewhereKeeps
<1>2. CASE Tick
  <2>1. UNCHANGED mine /\ UNCHANGED offers /\ TheirTypes'
    BY <1>2 DEF Tick, Inv, TypeOK, TheirTypes
  <2> QED  BY <2>1, ElsewhereKeeps
<1>3. ASSUME NEW o \in Offer, See(o) \/ Ack(o) \/ Reject(o) \/ OfferLapses(o) PROVE Inv'
  <2>1. \E st \in Known \cup {"gone"} :
            offers[o].st \in Known /\ offers' = [offers EXCEPT ![o].st = st]
    BY <1>3 DEF See, Ack, Reject, OfferLapses, Known, Open
  <2>2. UNCHANGED mine /\ UNCHANGED <<blobs, pieces, pulling, got, clock>>
    BY <1>3 DEF See, Ack, Reject, OfferLapses
  <2>3. pulling' \subseteq Ticket
    BY <2>2 DEF Inv, TypeOK
  <2> QED  BY <2>1, <2>2, <2>3, AnswerKeeps
<1>4. ASSUME NEW o \in Offer, Accept(o) PROVE Inv'
  <2>1. offers[o].st \in Known /\ offers' = [offers EXCEPT ![o].st = "taken"]
    BY <1>4 DEF Accept, Known
  <2>2. /\ UNCHANGED mine /\ UNCHANGED <<blobs, pieces, got, clock>>
        /\ pulling' \subseteq Ticket
    BY <1>4 DEF Accept, Inv, TypeOK
  <2> QED  BY <2>1, <2>2, AnswerKeeps DEF Known
<1>5. ASSUME NEW o \in Offer, Fetch(o) PROVE Inv'
  <2>1. UNCHANGED mine /\ UNCHANGED offers /\ TheirTypes'
    BY <1>5 DEF Fetch, Inv, TypeOK, TheirTypes
  <2> QED  BY <2>1, ElsewhereKeeps
<1>6. ASSUME NEW t \in Ticket, Collect(t) PROVE Inv'
  <2>1. UNCHANGED mine /\ UNCHANGED offers /\ TheirTypes'
    BY <1>6 DEF Collect, Inv, TypeOK, TheirTypes
  <2> QED  BY <2>1, ElsewhereKeeps
<1>7. ASSUME NEW b \in Blob, BlobLapses(b) PROVE Inv'
  <2>1. UNCHANGED mine /\ UNCHANGED offers /\ TheirTypes'
    BY <1>7 DEF BlobLapses, Inv, TypeOK, TheirTypes
  <2> QED  BY <2>1, ElsewhereKeeps
<1> QED  BY <1>1, <1>2, <1>3, <1>4, <1>5, <1>6, <1>7 DEF RecipientStep

-----------------------------------------------------------------------------
(* The row tells the truth, and a restart does right by the send.          *)

LEMMA InitInv == Init => Inv
<1> SUFFICES ASSUME Init PROVE Inv
  OBVIOUS
<1>1. TypeOK
  <2>1. row \in RowType /\ disk \in DiskType
    BY DEF Init, RowType, Status, DiskType
  <2>2. [st |-> "none", names |-> None] \in OfferType
    BY DEF OfferType
  <2>3. offers \in [Offer -> OfferType]
    BY <2>2 DEF Init
  <2>4. restarts \in 0 .. MaxRestarts
    BY DEF Init
  <2>5. /\ blobs \in [Blob -> {"none", "stored", "fetched", "revoked", "lapsed"}]
        /\ pieces \in [Ticket -> {"none", "some", "all"}]
    BY DEF Init
  <2> QED  BY IdleIs, <2>1, <2>3, <2>4, <2>5 DEF Init, TypeOK
<1>2. task.pc = "ended" /\ row.status = "unsent" /\ row.token = FALSE
  BY IdleIs DEF Init
<1>3. disk.sendto = "none" /\ disk.prep = None /\ disk.dep = None /\ disk.park = None
  BY DEF Init
<1>4. RowInv
  BY <1>2, <1>3 DEF Init, RowInv, Live, AtRest
<1>5. PrepInv /\ TaskInv /\ CopyInv /\ NoPark /\ TicketsAreReproducible
  BY <1>2, <1>3 DEF Init, PrepInv, TaskInv, CopyInv, NoPark, TicketsAreReproducible
<1> QED  BY <1>1, <1>4, <1>5 DEF Inv

LEMMA StutterKeeps == Inv /\ UNCHANGED vars => Inv'
<1> SUFFICES ASSUME Inv, UNCHANGED vars PROVE Inv'
  OBVIOUS
<1>1. UNCHANGED mine /\ UNCHANGED offers /\ TheirTypes'
  BY DEF vars, theirs, Inv, TypeOK, TheirTypes
<1> QED  BY <1>1, ElsewhereKeeps

LEMMA NextKeeps ==
    ASSUME NoShortcut, Inv, Next
    PROVE  Inv'
<1>1. CASE TaskStep
  BY <1>1, StopKeeps, GiveUpKeeps, LookKeeps, PrepareKeeps, PrepareFailsKeeps, NoteKeeps,
     PostKeeps, PostFailsKeeps, ChooseRelayKeeps, ParkNever, UploadKeeps, UploadRefusedKeeps,
     UploadFailsKeeps, AnnounceKeeps, AnnounceFailsKeeps, HandKeeps, FileKeeps, WaitKeeps
     DEF TaskStep
<1>2. CASE ServeStep
  BY <1>2, WatchdogKeeps, ReceiverConnectedKeeps, DeliveredKeeps, RecipientCancelledKeeps,
     OffloadedKeeps, OffloadFailsKeeps, ServeEndsKeeps DEF ServeStep
<1>3. CASE RelayTasks
  BY <1>3, TimeIsUpKeeps, ConfirmKeeps, WithdrawCallsKeeps, WithdrawEndsKeeps, RetractKeeps
     DEF RelayTasks
<1>4. CASE UserStep
  <2>1. ~DepositNow /\ ~ClearFinished
    BY DEF NoShortcut, DepositNow, ClearFinished
  <2> QED  BY <1>4, <2>1, SendToKeeps, PauseKeeps, ResumeKeeps, CancelLiveKeeps,
              CancelPausedKeeps, CancelDepositedKeeps, RemoveKeeps DEF UserStep
<1>5. CASE RecipientStep
  BY <1>5, RecipientKeeps
<1>6. CASE Restart
  BY <1>6, RestartKeeps
<1> QED  BY <1>1, <1>2, <1>3, <1>4, <1>5, <1>6 DEF Next

\* The row, the loop, the Held entry and the records on disk agree at every
\* moment of a held send, restarts included (TransferManager: its registry, its
\* `held` map and the sendto-/deposit records of persist_held_record).
THEOREM InvHolds == ASSUME NoShortcut PROVE Spec => []Inv
<1>1. Inv /\ [Next]_vars => Inv'
  BY NextKeeps, StutterKeeps
<1> QED  BY InitInv, <1>1, PTL DEF Spec

\* A row that reads as live can be stopped, has a loop at work and a record
\* that brings it back; a paused one has what a resume needs; any other has no
\* loop.
LEMMA InvTellsTheTruth == Inv => TypeOK /\ RowTellsTheTruth /\ RestartIsSafe
<1> SUFFICES ASSUME Inv PROVE TypeOK /\ RowTellsTheTruth /\ RestartIsSafe
  OBVIOUS
<1>1. RowTellsTheTruth
  BY DEF Inv, RowInv, RowTellsTheTruth, Live, Over, TypeOK, RowType
<1>2. NothingComesBack
  BY DEF Inv, RowInv, PrepInv, CopyInv, NothingComesBack, AtRest, Over
<1> QED  BY <1>1, <1>2 DEF Inv, RestartIsSafe

\* A restart at any moment does right by the send, whatever the relay, the
\* recipient and the clock do: the ticket that is out can be served again, and
\* nothing that is over or handed to the mailbox is started again
\* (serve_live_once, finish, drop_held, resume_incomplete).
THEOREM RestartsAreSafe == ASSUME NoShortcut PROVE Spec => []RestartIsSafe
BY InvHolds, InvTellsTheTruth, PTL

-----------------------------------------------------------------------------
(* What reads as completed has been received.                              *)

\* The relay keeps what it took to the deadline, the daemon is awake when that
\* comes near, and an offer that is refused was a live one.
CleanRelay == Env \cap {"reject", "clamp", "asleep"} = {}

HasBlob == {"announce", "hand", "file"}

\* A copy is gone because it was fetched, was revoked, or has outlived its
\* watcher; the offer a watcher asks after is the copy's own.
ReceivedInv ==
    /\ \A o \in Offer : (offers[o].st = "taken" /\ offers[o].names \in Blob) => got
    /\ \A b \in Blob : blobs[b] = "fetched" => got
    /\ \A b \in Blob : blobs[b] = "lapsed" => clock = "over"
    /\ clock # "early" => row.status \in Left
    /\ clock = "over" => watch = None
    /\ disk.dep # None => /\ watch # None
                          /\ blobs[disk.dep.blob] # "none"
                          /\ offers[disk.dep.offer].names = disk.dep.blob
    /\ watch # None => /\ blobs[watch.what] # "none"
                       /\ offers[watch.offer].names = watch.what
    /\ task.pc \in HasBlob => blobs[task.blob] # "none"
    /\ task.pc \in {"hand", "file"} => offers[task.offer].names = task.blob
    /\ CompletedMeansReceived

\* No offer of a copy is answered.
NoneTaken ==
    \A o \in Offer :
        (offers'[o].st = "taken" /\ offers'[o].names \in Blob) =>
            offers[o].st = "taken" /\ offers[o].names = offers'[o].names

LEMMA BusyIsEarly ==
    ASSUME Inv, ReceivedInv, row.status \notin Left
    PROVE  clock = "early" /\ watch = None /\ disk.dep = None
BY DEF Inv, CopyInv, ReceivedInv, Left

\* A step of the loop, or of a command to it, that makes no copy.
LEMMA BusyKeeps ==
    ASSUME Inv, Inv', ReceivedInv, row.status \notin Left,
           row'.status # "deposited", row'.status = "completed" => got,
           UNCHANGED <<blobs, got, clock, watch>>, NoneTaken,
           task'.pc \in HasBlob =>
               /\ task'.pc = task.pc /\ task'.blob = task.blob /\ task'.offer = task.offer
               /\ UNCHANGED offers
    PROVE  ReceivedInv'
<1>1. clock = "early" /\ watch = None
  BY BusyIsEarly
<1>2. disk'.dep = None
  BY DEF Inv, CopyInv
<1>3. CompletedMeansReceived'
  BY DEF CompletedMeansReceived
<1>4. \A o \in Offer : (offers'[o].st = "taken" /\ offers'[o].names \in Blob) => got'
  BY DEF ReceivedInv, NoneTaken
<1>5. /\ task'.pc \in HasBlob => blobs'[task'.blob] # "none"
      /\ task'.pc \in {"hand", "file"} => offers'[task'.offer].names = task'.blob
  BY DEF ReceivedInv, HasBlob
<1>6. /\ \A b \in Blob : blobs'[b] = "fetched" => got'
      /\ \A b \in Blob : blobs'[b] = "lapsed" => clock' = "over"
  BY DEF ReceivedInv
<1> QED  BY <1>1, <1>2, <1>3, <1>4, <1>5, <1>6 DEF ReceivedInv

LEMMA LiveIsBusy ==
    ASSUME Inv, task.pc # "ended"
    PROVE  row.status \in Live /\ row.status \notin Left /\ row \in RowType /\ task \in TaskType
BY DEF Inv, TypeOK, RowInv, Live, Left, Over

LEMMA StatusSet ==
    ASSUME NEW s, SetStatus(s)
    PROVE  row'.status \in {s, "none"}
BY DEF SetStatus

LEMMA StatusOfEnd ==
    ASSUME SetPaused \/ Finish("cancelled") \/ Finish("failed")
    PROVE  row'.status \notin {"deposited", "completed"}
<1>1. SetStatus("paused") \/ SetStatus("cancelled") \/ SetStatus("failed")
  BY DEF SetPaused, Finish
<1> QED  BY <1>1, StatusSet

\* The loop goes off, and has not said that it delivered.
LEMMA OffReceived ==
    ASSUME Inv, Inv', ReceivedInv, task.pc # "ended", task' = Idle,
           SetPaused \/ Finish("cancelled") \/ Finish("failed"),
           UNCHANGED <<blobs, got, clock, watch>>, NoneTaken
    PROVE  ReceivedInv'
<1>1. row.status \notin Left
  BY LiveIsBusy
<1>2. row'.status \notin {"deposited", "completed"}
  BY StatusOfEnd
<1>3. task'.pc \notin HasBlob
  BY IdleIs DEF HasBlob
<1> QED  BY <1>1, <1>2, <1>3, BusyKeeps

\* The loop goes on, and has no copy in hand.
LEMMA OnReceived ==
    ASSUME Inv, Inv', ReceivedInv, task.pc # "ended", task'.pc # "ended",
           UNCHANGED <<blobs, got, clock, watch>>, NoneTaken,
           task'.pc \in HasBlob =>
               /\ task'.pc = task.pc /\ task'.blob = task.blob /\ task'.offer = task.offer
               /\ UNCHANGED offers
    PROVE  ReceivedInv'
<1>1. row.status \notin Left
  BY LiveIsBusy
<1>2. row'.status \in Live
  BY DEF Inv, RowInv
<1>3. row'.status \notin {"deposited", "completed"}
  BY <1>2 DEF Live
<1> QED  BY <1>1, <1>3, BusyKeeps

LEMMA TheirsNoneTaken ==
    ASSUME UNCHANGED theirs
    PROVE  NoneTaken /\ UNCHANGED <<offers, blobs, got, clock>>
BY DEF theirs, NoneTaken

LEMMA LoopReceived ==
    ASSUME Inv, Inv', ReceivedInv,
           \/ Stop \/ GiveUp \/ PrepareFails \/ UploadFails
    PROVE  ReceivedInv'
<1>1. SetPaused \/ Finish("cancelled") \/ Finish("failed")
  BY DEF Stop, GiveUp, PrepareFails, UploadFails, HandleStop
<1>2. task' = Idle /\ task.pc # "ended" /\ UNCHANGED watch /\ UNCHANGED theirs
  BY DEF Stop, GiveUp, PrepareFails, UploadFails, EndTask, At
<1> QED  BY <1>1, <1>2, TheirsNoneTaken, OffReceived

\* Where the steps that keep no copy in hand go.
LEMMA WhereTo ==
    ASSUME Inv, Look \/ Prepare \/ Note \/ ChooseRelay \/ UploadRefused \/ AnnounceFails
                \/ Wait \/ Watchdog \/ ReceiverConnected
    PROVE  /\ task'.pc \in {"prepare", "relay", "note", "post", "park", "upload", "wait", "top", "serve"}
           /\ task.pc # "ended"
<1>1. "pc" \in DOMAIN task
  BY DEF Inv, TypeOK, TaskType
<1>2. CASE Look
  BY <1>1, <1>2, Zenon DEF Look, At
<1>3. CASE Prepare
  BY <1>1, <1>3 DEF Prepare, Goto, At
<1>4. CASE Note
  BY <1>1, <1>4 DEF Note, Goto, At
<1>5. CASE ChooseRelay
  BY <1>1, <1>5 DEF ChooseRelay, Goto, At
<1>6. CASE UploadRefused
  BY <1>1, <1>6 DEF UploadRefused, At
<1>7. CASE AnnounceFails
  BY <1>1, <1>7 DEF AnnounceFails
<1>8. CASE Wait
  BY <1>1, <1>8 DEF Wait, At
<1>9. CASE Watchdog \/ ReceiverConnected
  BY <1>1, <1>9 DEF Watchdog, ReceiverConnected, At
<1> QED  BY <1>2, <1>3, <1>4, <1>5, <1>6, <1>7, <1>8, <1>9

LEMMA StepReceived ==
    ASSUME Inv, Inv', ReceivedInv,
           \/ Look \/ Prepare \/ Note \/ ChooseRelay \/ UploadRefused \/ AnnounceFails
           \/ Wait \/ Watchdog \/ ReceiverConnected
    PROVE  ReceivedInv'
<1>1. /\ task'.pc \in {"prepare", "relay", "note", "post", "park", "upload", "wait", "top", "serve"}
      /\ task.pc # "ended"
  BY WhereTo
<1>2. UNCHANGED watch /\ UNCHANGED theirs
  BY DEF Look, Prepare, Note, ChooseRelay, UploadRefused, AnnounceFails, Wait, Watchdog,
         ReceiverConnected
<1> QED  BY <1>1, <1>2, TheirsNoneTaken, OnReceived DEF HasBlob

\* The flags of the loop, and the clock of its deadline.
LEMMA FlagReceived ==
    ASSUME Inv, Inv', ReceivedInv, TimeIsUp \/ Pause \/ CancelLive
    PROVE  ReceivedInv'
<1>1. task \in TaskType /\ row.status \in Live => task.pc # "ended" /\ row.token
  BY DEF Inv, TypeOK, RowInv
<1>2. task.pc # "ended"
  BY <1>1 DEF TimeIsUp, Pause, CancelLive, Inv, TypeOK
<1>3. \/ task' = [task EXCEPT !.expired = TRUE]
      \/ task' = [task EXCEPT !.stop = TRUE]
      \/ \E b : task' = [task EXCEPT !.stop = b]
  BY <1>1, Zenon DEF TimeIsUp, Pause, CancelLive, Inv, TypeOK
<1>4. "pc" \in DOMAIN task /\ "blob" \in DOMAIN task /\ "offer" \in DOMAIN task
  BY DEF Inv, TypeOK, TaskType
<1>5. task'.pc = task.pc /\ task'.blob = task.blob /\ task'.offer = task.offer
  BY <1>3, <1>4
<1>6. UNCHANGED watch /\ UNCHANGED theirs
  BY DEF TimeIsUp, Pause, CancelLive
<1> QED  BY <1>2, <1>5, <1>6, TheirsNoneTaken, OnReceived

LEMMA NewOfferNoneTaken ==
    ASSUME offers \in [Offer -> OfferType], NEW what, NEW new \in Offer, NewOffer(new, what)
    PROVE  /\ NoneTaken
           /\ \A o \in Offer : o # new => offers'[o] = offers[o]
           /\ offers'[new].names = what
BY DEF NewOffer, NoneTaken

LEMMA GoneNoneTaken ==
    ASSUME offers \in [Offer -> OfferType], NEW o, offers' = [offers EXCEPT ![o].st = "gone"]
    PROVE  /\ NoneTaken
           /\ \A p \in Offer : offers'[p].names = offers[p].names
<1>1. /\ \A p \in Offer : p # o => offers'[p] = offers[p]
      /\ o \in Offer => offers'[o].st = "gone" /\ offers'[o].names = offers[o].names
  BY OfferMoves
<1> QED  BY <1>1 DEF NoneTaken

LEMMA PostReceived ==
    ASSUME Inv, Inv', ReceivedInv, Post \/ PostFails
    PROVE  ReceivedInv'
<1>1. "pc" \in DOMAIN task
  BY DEF Inv, TypeOK, TaskType
<1>2. task.pc = "post" /\ task'.pc \in {"serve", "relay"}
  <2>1. CASE Post
    <3>1. \E o, seen : Serving(o, seen)
      BY <2>1 DEF Post
    <3> QED  BY <1>1, <2>1, <3>1 DEF Post, At, Serving
  <2>2. CASE PostFails
    BY <1>1, <2>2 DEF PostFails, At
  <2> QED  BY <2>1, <2>2
<1>3. UNCHANGED offers \/ \E new \in Offer : NewOffer(new, held.prep)
  BY DEF Post, PostFails
<1>4. NoneTaken
  BY <1>3, NewOfferNoneTaken DEF NoneTaken, Inv, TypeOK
<1>5. UNCHANGED <<watch, blobs, got, clock>>
  BY DEF Post, PostFails
<1> QED  BY <1>2, <1>4, <1>5, OnReceived DEF HasBlob

LEMMA DeliveredReceived ==
    ASSUME Inv, Inv', ReceivedInv, Delivered
    PROVE  ReceivedInv'
<1>1. task.pc # "ended" /\ got /\ task' = Idle /\ UNCHANGED watch /\ UNCHANGED theirs
  BY DEF Delivered, At, EndTask
<1>2. row.status \notin Left
  BY <1>1, LiveIsBusy
<1>3. row'.status # "deposited"
  BY StatusSet DEF Delivered, Finish
<1>4. task'.pc \notin HasBlob
  BY <1>1, IdleIs DEF HasBlob
<1> QED  BY <1>1, <1>2, <1>3, <1>4, TheirsNoneTaken, BusyKeeps

LEMMA RecipientCancelledReceived ==
    ASSUME Inv, Inv', ReceivedInv, RecipientCancelled
    PROVE  ReceivedInv'
<1>1. /\ task.pc # "ended" /\ task' = Idle /\ Finish("failed")
      /\ UNCHANGED <<watch, blobs, got, clock>>
      /\ offers' = [offers EXCEPT ![task.standing].st = "gone"]
  BY DEF RecipientCancelled, At
<1>2. NoneTaken
  BY <1>1, GoneNoneTaken DEF Inv, TypeOK
<1> QED  BY <1>1, <1>2, OffReceived

LEMMA ServeReceived ==
    ASSUME Inv, Inv', ReceivedInv, Offloaded \/ OffloadFails \/ ServeEnds
    PROVE  ReceivedInv'
<1>1. task.pc = "serve" /\ UNCHANGED <<watch, offers, blobs, got, clock>>
  BY DEF Offloaded, OffloadFails, ServeEnds, At, theirs
<1>2. NoneTaken
  BY <1>1 DEF NoneTaken
<1>3. "pc" \in DOMAIN task
  BY DEF Inv, TypeOK, TaskType
<1>4. \/ task' = Idle /\ (SetPaused \/ Finish("cancelled"))
      \/ task'.pc \in {"serve", "relay"}
  <2>1. CASE Offloaded
    BY <1>3, <2>1 DEF Offloaded, HandleStop, EndTask
  <2>2. CASE OffloadFails
    BY <1>1, <1>3, <2>2 DEF OffloadFails
  <2>3. CASE ServeEnds
    BY <1>3, <2>3 DEF ServeEnds, HandleStop, EndTask
  <2> QED  BY <2>1, <2>2, <2>3
<1>5. CASE task' = Idle /\ (SetPaused \/ Finish("cancelled"))
  BY <1>1, <1>2, <1>5, OffReceived
<1>6. CASE task'.pc \in {"serve", "relay"}
  BY <1>1, <1>2, <1>6, OnReceived DEF HasBlob
<1> QED  BY <1>4, <1>5, <1>6

LEMMA UserReceived ==
    ASSUME Inv, Inv', ReceivedInv, SendTo \/ Resume \/ CancelPaused
    PROVE  ReceivedInv'
<1>1. row.status \notin Left /\ UNCHANGED watch /\ UNCHANGED theirs
  BY DEF SendTo, Resume, CancelPaused, Left, Over
<1>2. row'.status \notin {"deposited", "completed"}
  BY StatusSet DEF SendTo, Resume, CancelPaused, Finish
<1>3. task'.pc \notin HasBlob
  <2>1. CASE SendTo \/ Resume
    BY <2>1, LoopIs DEF SendTo, Resume, HasBlob
  <2>2. CASE CancelPaused
    BY <2>2 DEF CancelPaused, Inv, RowInv, Live, HasBlob
  <2> QED  BY <2>1, <2>2
<1> QED  BY <1>1, <1>2, <1>3, TheirsNoneTaken, BusyKeeps

LEMMA UploadReceived ==
    ASSUME Inv, Inv', ReceivedInv, Upload
    PROVE  ReceivedInv'
<1>1. task.pc = "upload" /\ UNCHANGED <<row, disk, watch, offers, got, clock>>
  BY DEF Upload, At
<1>2. clock = "early" /\ watch = None /\ disk.dep = None /\ row.status \in Live
  BY <1>1, BusyIsEarly, LiveIsBusy
<1>3. PICK b \in Blob : /\ blobs' = [blobs EXCEPT ![b] = "stored"]
                        /\ task' = [task EXCEPT !.pc = "announce", !.blob = b]
  BY DEF Upload
<1>4. task'.pc = "announce" /\ task'.blob = b
  BY <1>3 DEF Inv, TypeOK, TaskType
<1>5. /\ \A c \in Blob : c # b => blobs'[c] = blobs[c]
      /\ blobs'[b] = "stored"
  BY <1>3 DEF Inv, TypeOK
<1>6. CompletedMeansReceived'
  BY <1>1, <1>2 DEF CompletedMeansReceived, Live
<1> QED  BY <1>1, <1>2, <1>4, <1>5, <1>6 DEF ReceivedInv

LEMMA AnnounceReceived ==
    ASSUME Inv, Inv', ReceivedInv, Announce
    PROVE  ReceivedInv'
<1>1. task.pc = "announce" /\ UNCHANGED <<row, disk, watch, blobs, got, clock>>
  BY DEF Announce, At
<1>2. clock = "early" /\ watch = None /\ disk.dep = None /\ row.status \in Live
  BY <1>1, BusyIsEarly, LiveIsBusy
<1>3. PICK new \in Offer : /\ NewOffer(new, task.blob)
                           /\ task' = [task EXCEPT !.pc = "hand", !.offer = new]
  BY DEF Announce
<1>4. task'.pc = "hand" /\ task'.offer = new /\ task'.blob = task.blob
  BY <1>3 DEF Inv, TypeOK, TaskType
<1>5. NoneTaken /\ offers'[new].names = task.blob
  BY <1>3, NewOfferNoneTaken DEF Inv, TypeOK
<1>6. CompletedMeansReceived'
  BY <1>1, <1>2 DEF CompletedMeansReceived, Live
<1> QED  BY <1>1, <1>2, <1>4, <1>5, <1>6 DEF ReceivedInv, NoneTaken, HasBlob

LEMMA HandReceived ==
    ASSUME Inv, Inv', ReceivedInv, Hand
    PROVE  ReceivedInv'
<1>1. task.pc = "hand" /\ UNCHANGED <<row, watch, offers, blobs, got, clock>> /\ DropHeld
  BY DEF Hand, At, theirs
<1>2. clock = "early" /\ watch = None /\ disk.dep = None /\ row.status \in Live
  BY <1>1, BusyIsEarly, LiveIsBusy
<1>3. task'.pc = "file" /\ task'.offer = task.offer /\ task'.blob = task.blob
  BY GotoIs DEF Hand, Inv, TypeOK, Pc
<1>4. disk'.dep = None
  BY <1>1, <1>2, DropHeldIs DEF Inv, TypeOK
<1>5. CompletedMeansReceived'
  BY <1>1, <1>2 DEF CompletedMeansReceived, Live
<1> QED  BY <1>1, <1>2, <1>3, <1>4, <1>5 DEF ReceivedInv, HasBlob

LEMMA FileReceived ==
    ASSUME Inv, Inv', ReceivedInv, File
    PROVE  ReceivedInv'
<1>1. task.pc = "file" /\ UNCHANGED <<offers, blobs, got, clock>> /\ task' = Idle
  BY DEF File, At, theirs, EndTask
<1>2. clock = "early" /\ row.status \in Live
  BY <1>1, BusyIsEarly, LiveIsBusy
<1>3. /\ watch' # None /\ watch'.what = task.blob /\ watch'.offer = task.offer
  <2>1. watch' = [kind |-> "dep", what |-> task.blob, offer |-> task.offer]
    BY DEF File
  <2>2. task.blob \in Blob /\ task.offer \in Offer
    BY <1>1 DEF Inv, TypeOK, TaskInv, TaskType
  <2>3. watch' \in WatchType
    BY <2>1, <2>2 DEF WatchType, Copy
  <2> QED  BY <2>1, <2>3
<1>4. disk'.dep.blob = task.blob /\ disk'.dep.offer = task.offer
  BY DEF File, Inv, TypeOK, DiskType
<1>5. task'.pc = "ended"
  BY <1>1, IdleIs
<1>6. row'.status \in {"deposited", "none"}
  BY StatusSet DEF File
<1>7. CompletedMeansReceived'
  BY <1>6 DEF CompletedMeansReceived
<1>8. blobs[task.blob] # "none" /\ offers[task.offer].names = task.blob
  BY <1>1 DEF ReceivedInv, HasBlob
<1> QED  BY <1>1, <1>2, <1>3, <1>4, <1>5, <1>7, <1>8 DEF ReceivedInv, HasBlob

\* The daemon stands still: an offer or a copy is answered or withdrawn.
LEMMA StillReceived ==
    ASSUME Inv, ReceivedInv, UNCHANGED <<row, disk, watch, task, clock>>,
           got => got',
           \A o \in Offer : offers'[o].names = offers[o].names,
           \A o \in Offer : (offers'[o].st = "taken" /\ offers'[o].names \in Blob) =>
               got' \/ offers[o].st = "taken",
           \A b \in Blob : \/ blobs'[b] = blobs[b]
                           \/ blobs[b] = "stored" /\ blobs'[b] = "revoked"
                           \/ blobs[b] = "stored" /\ blobs'[b] = "fetched" /\ got'
                           \/ blobs[b] = "stored" /\ blobs'[b] = "lapsed" /\ clock = "over"
    PROVE  ReceivedInv'
<1>1. /\ \A o \in Offer : (offers'[o].st = "taken" /\ offers'[o].names \in Blob) => got'
      /\ \A b \in Blob : blobs'[b] = "fetched" => got'
      /\ \A b \in Blob : blobs'[b] = "lapsed" => clock' = "over"
      /\ clock' # "early" => row'.status \in Left
      /\ clock' = "over" => watch' = None
  BY DEF ReceivedInv
<1>2. \A b \in Blob : blobs[b] # "none" => blobs'[b] # "none"
  OBVIOUS
<1>3. disk.dep # None => disk.dep.blob \in Blob /\ disk.dep.offer \in Offer
  BY DEF Inv, TypeOK, DiskType, DepRecord
<1>4. watch # None => watch.what \in Blob /\ watch.offer \in Offer
  BY DEF Inv, TypeOK, CopyInv, WatchType, Copy
<1>5. /\ task.pc \in HasBlob => task.blob \in Blob
      /\ task.pc \in {"hand", "file"} => task.offer \in Offer
  BY DEF Inv, TypeOK, TaskInv, TaskType, HasBlob
<1>6. CompletedMeansReceived'
  <2>1. \A b \in Blob : blobs[b] = "revoked" => blobs'[b] = "revoked"
    OBVIOUS
  <2> QED  BY <2>1 DEF ReceivedInv, CompletedMeansReceived
<1>7. disk'.dep # None => /\ watch' # None
                          /\ blobs'[disk'.dep.blob] # "none"
                          /\ offers'[disk'.dep.offer].names = disk'.dep.blob
  BY <1>2, <1>3 DEF ReceivedInv
<1>8. watch' # None => /\ blobs'[watch'.what] # "none"
                       /\ offers'[watch'.offer].names = watch'.what
  BY <1>2, <1>4 DEF ReceivedInv
<1>9. /\ task'.pc \in HasBlob => blobs'[task'.blob] # "none"
      /\ task'.pc \in {"hand", "file"} => offers'[task'.offer].names = task'.blob
  BY <1>2, <1>5 DEF ReceivedInv
<1> QED  BY <1>1, <1>6, <1>7, <1>8, <1>9 DEF ReceivedInv

LEMMA RetractReceived ==
    ASSUME Inv, ReceivedInv, NEW o \in Offer, Retract(o)
    PROVE  ReceivedInv'
<1>1. UNCHANGED <<row, disk, watch, task, clock, blobs, got>>
  BY DEF Retract
<1>2. /\ \A p \in Offer : offers'[p].names = offers[p].names
      /\ NoneTaken
  BY GoneNoneTaken DEF Retract, Inv, TypeOK, NoneTaken
<1> QED  BY <1>1, <1>2, StillReceived DEF NoneTaken

LEMMA WithdrawCallsReceived ==
    ASSUME Inv, ReceivedInv, WithdrawCalls
    PROVE  ReceivedInv'
<1>1. UNCHANGED <<row, disk, watch, task, clock, got>> /\ withdraw.kind = "dep"
  BY DEF WithdrawCalls, Inv, CopyInv
<1>2. UNCHANGED offers \/ \E o : offers' = [offers EXCEPT ![o].st = "gone"]
  BY DEF WithdrawCalls
<1>3. /\ \A p \in Offer : offers'[p].names = offers[p].names
      /\ NoneTaken
  BY <1>2, GoneNoneTaken DEF Inv, TypeOK, NoneTaken
<1>4. \A b \in Blob : blobs'[b] = blobs[b] \/ (blobs[b] = "stored" /\ blobs'[b] = "revoked")
  BY <1>1 DEF WithdrawCalls, Inv, TypeOK
<1> QED  BY <1>1, <1>3, <1>4, StillReceived DEF NoneTaken

LEMMA CommandReceived ==
    ASSUME Inv, ReceivedInv, CancelDeposited \/ Remove
    PROVE  ReceivedInv'
<1>1. UNCHANGED <<disk, watch, task, offers, blobs, got, clock>>
  BY DEF CancelDeposited, Remove, theirs
<1>2. UNCHANGED row \/ row'.status = "none"
  BY DEF CancelDeposited, Remove, Inv, TypeOK, RowType
<1>3. CompletedMeansReceived'
  BY <1>1, <1>2 DEF ReceivedInv, CompletedMeansReceived
<1> QED  BY <1>1, <1>2, <1>3 DEF ReceivedInv, Left

\* A watcher's verdict, or the end of a withdrawal.
LEMMA WithdrawEndsReceived ==
    ASSUME Inv, ReceivedInv, WithdrawEnds
    PROVE  ReceivedInv'
<1>1. UNCHANGED <<watch, task, offers, blobs, got, clock>> /\ withdraw.kind = "dep"
  BY DEF WithdrawEnds, theirs, Inv, CopyInv
<1>2. row'.status \in {"cancelled", "none"}
  BY StatusSet DEF WithdrawEnds
<1>3. disk'.dep = None
  BY <1>1 DEF WithdrawEnds, Inv, TypeOK, DiskType
<1>4. CompletedMeansReceived'
  BY <1>2 DEF CompletedMeansReceived
<1> QED  BY <1>1, <1>2, <1>3, <1>4 DEF ReceivedInv, Left, Over

LEMMA ConfirmReceived ==
    ASSUME Inv, ReceivedInv, Confirm
    PROVE  ReceivedInv'
<1>1. /\ UNCHANGED <<task, offers, blobs, got, clock>> /\ watch # None /\ watch' = None
      /\ watch.kind = "dep" /\ row.status \in Left
  BY DEF Confirm, theirs, Inv, CopyInv
<1>2. disk'.dep = None
  BY <1>1 DEF Confirm, Retire, Inv, TypeOK, DiskType
<1>3. PICK reach \in BOOLEAN :
        CASE ReadCopy(reach) = "picked_up" -> SetStatus("completed")
          [] ReadCopy(reach) = "expired"   -> SetStatus("failed")
          [] OTHER                         -> UNCHANGED row
  BY Zenon DEF Confirm
<1>4. ReadCopy(reach) = "picked_up" =>
          blobs[watch.what] # "stored" \/ offers[watch.offer].st = "taken"
  BY <1>1 DEF ReadCopy, Gone
<1>5. watch.what \in Blob /\ watch.offer \in Offer
  BY <1>1 DEF Inv, TypeOK, WatchType, Copy
<1>6. /\ blobs[watch.what] \in {"stored", "fetched", "revoked", "lapsed"}
      /\ blobs[watch.what] # "lapsed" /\ offers[watch.offer].names = watch.what
  BY <1>1, <1>5 DEF ReceivedInv, Inv, TypeOK
<1>7. ReadCopy(reach) = "picked_up" => got \/ blobs[watch.what] = "revoked"
  BY <1>4, <1>5, <1>6 DEF ReceivedInv
<1>8. \/ ReadCopy(reach) = "picked_up" /\ SetStatus("completed")
      \/ SetStatus("failed") \/ UNCHANGED row
  BY <1>3, Zenon
<1>9. \/ ReadCopy(reach) = "picked_up" /\ row'.status \in {"completed", "none"}
      \/ row'.status \in {"failed", "none"} \/ UNCHANGED row
  BY <1>8, StatusSet
<1>10. CompletedMeansReceived'
  BY <1>1, <1>5, <1>7, <1>9 DEF ReceivedInv, CompletedMeansReceived
<1>11. row'.status \in Left
  BY <1>1, <1>9 DEF Left, Over
<1> QED  BY <1>1, <1>2, <1>10, <1>11 DEF ReceivedInv

LEMMA RestartReceived ==
    ASSUME Inv, Inv', ReceivedInv, Restart
    PROVE  ReceivedInv'
<1> DEFINE kept == disk.dep # None /\ clock # "over"
<1>1. UNCHANGED <<offers, blobs, got, clock>>
  BY DEF Restart, theirs
<1>2. disk'.dep = IF kept THEN disk.dep ELSE None
  <2>1. disk' = [disk EXCEPT !.dep = IF kept THEN disk.dep ELSE None,
                             !.prep = IF disk.sendto = "none" THEN None ELSE disk.prep]
    BY Zenon DEF Restart
  <2>2. "dep" \in DOMAIN disk
    BY DEF Inv, TypeOK, DiskType
  <2> HIDE DEF kept
  <2> QED  BY <2>1, <2>2
<1>3. watch' = IF kept THEN [kind |-> "dep", what |-> disk.dep.blob, offer |-> disk.dep.offer]
               ELSE None
  BY Zenon DEF Restart
<1>4. kept => /\ watch' # None /\ watch'.what = disk.dep.blob /\ watch'.offer = disk.dep.offer
  <2>1. kept => disk.dep \in DepRecord
    BY DEF Inv, TypeOK, DiskType
  <2>2. kept => watch' \in WatchType
    BY <1>3, <2>1 DEF WatchType, Copy, DepRecord
  <2> QED  BY <1>3, <2>2
<1>5. /\ task'.pc \notin HasBlob
  BY IdleIs, LoopIs DEF Restart, HasBlob
<1>6. row'.status \in {"deposited", "active", "paused", "none"}
  <2>1. row' = CASE kept                   -> [status |-> "deposited", token |-> FALSE]
                 [] disk.sendto = "run"    -> [status |-> "active", token |-> TRUE]
                 [] disk.sendto = "paused" -> [status |-> "paused", token |-> FALSE]
                 [] OTHER                  -> [status |-> "none", token |-> FALSE]
    BY Zenon DEF Restart
  <2> HIDE DEF kept
  <2> QED  BY <2>1
<1>7. clock # "early" => row'.status \in Left
  <2>1. clock # "early" => disk.sendto = "none"
    BY DEF ReceivedInv, Inv, RowInv, AtRest, Left, Over
  <2>2. disk'.sendto = disk.sendto
    <3>1. disk' = [disk EXCEPT !.dep = IF kept THEN disk.dep ELSE None,
                               !.prep = IF disk.sendto = "none" THEN None ELSE disk.prep]
      BY Zenon DEF Restart
    <3>2. "sendto" \in DOMAIN disk
      BY DEF Inv, TypeOK, DiskType
    <3> HIDE DEF kept
    <3> QED  BY <3>1, <3>2
  <2>3. row'.status \in {"active", "paused"} => disk'.sendto # "none"
    <3>1. task'.pc # "file"
      BY <1>5 DEF HasBlob
    <3> QED  BY <3>1 DEF Inv, RowInv, Live
  <2> QED  BY <1>6, <2>1, <2>2, <2>3 DEF Left
<1>8. CompletedMeansReceived'
  BY <1>6 DEF CompletedMeansReceived
<1>9. kept => clock # "over" /\ disk.dep # None
  OBVIOUS
<1>10. ~kept => disk'.dep = None /\ watch' = None
  BY <1>2, <1>3
<1> HIDE DEF kept
<1> QED  BY <1>1, <1>2, <1>4, <1>5, <1>7, <1>8, <1>9, <1>10 DEF ReceivedInv, HasBlob

LEMMA RecipientReceived ==
    ASSUME CleanRelay, Inv, ReceivedInv, RecipientStep
    PROVE  ReceivedInv'
<1>1. CASE Pull
  BY <1>1, StillReceived DEF Pull, mine, Inv, TypeOK
<1>2. CASE Tick
  <2>1. UNCHANGED <<row, disk, watch, task, offers, blobs, got>>
    BY <1>2 DEF Tick, mine
  <2>2. /\ row.status = "deposited"
        /\ \/ clock = "early" /\ clock' = "margin"
           \/ clock' = "over" /\ watch = None
    BY <1>2 DEF Tick, CleanRelay
  <2>3. CompletedMeansReceived'
    BY <2>1 DEF ReceivedInv, CompletedMeansReceived
  <2> QED  BY <2>1, <2>2, <2>3 DEF ReceivedInv, Left
<1>3. ASSUME NEW o \in Offer, See(o) \/ OfferLapses(o) \/ Accept(o) \/ Ack(o) PROVE ReceivedInv'
  <2>1. UNCHANGED <<row, disk, watch, task, clock, blobs, got>>
    BY <1>3 DEF See, OfferLapses, Accept, Ack, mine
  <2>2. \E st \in {"arrived", "gone", "taken"} :
            /\ offers' = [offers EXCEPT ![o].st = st]
            /\ st = "taken" /\ offers[o].names \in Blob => got
    BY <1>3 DEF See, OfferLapses, Accept, Ack, ReceivedInv
  <2>3. \E st \in {"arrived", "gone", "taken"} :
            /\ \A p \in Offer : p # o => offers'[p] = offers[p]
            /\ offers'[o].st = st /\ offers'[o].names = offers[o].names
            /\ st = "taken" /\ offers[o].names \in Blob => got
    BY <2>2, OfferMoves DEF Inv, TypeOK, Known, Open
  <2> QED  BY <2>1, <2>3, StillReceived
<1>4. ASSUME NEW o \in Offer, Reject(o) PROVE FALSE
  BY <1>4 DEF Reject, CleanRelay
<1>5. ASSUME NEW o \in Offer, Fetch(o) PROVE ReceivedInv'
  <2>1. UNCHANGED <<row, disk, watch, task, clock, offers>> /\ got'
    BY <1>5 DEF Fetch, mine
  <2>2. \A b \in Blob : blobs'[b] = blobs[b] \/ (blobs[b] = "stored" /\ blobs'[b] = "fetched")
    BY <1>5 DEF Fetch, Inv, TypeOK
  <2> QED  BY <2>1, <2>2, StillReceived
<1>6. ASSUME NEW t \in Ticket, Collect(t) PROVE ReceivedInv'
  BY <1>6, StillReceived DEF Collect, mine
<1>7. ASSUME NEW b \in Blob, BlobLapses(b) PROVE ReceivedInv'
  <2>1. UNCHANGED <<row, disk, watch, task, clock, offers, got>> /\ clock = "over"
    BY <1>7 DEF BlobLapses, mine, CleanRelay
  <2>2. \A c \in Blob : blobs'[c] = blobs[c] \/ (blobs[c] = "stored" /\ blobs'[c] = "lapsed")
    BY <1>7 DEF BlobLapses, Inv, TypeOK
  <2> QED  BY <2>1, <2>2, StillReceived
<1> QED  BY <1>1, <1>2, <1>3, <1>4, <1>5, <1>6, <1>7 DEF RecipientStep

LEMMA NextReceived ==
    ASSUME NoShortcut, CleanRelay, Inv, Inv', ReceivedInv, Next
    PROVE  ReceivedInv'
<1>1. CASE TaskStep
  BY <1>1, LoopReceived, StepReceived, PostReceived, ParkNever, UploadReceived, AnnounceReceived,
     HandReceived, FileReceived DEF TaskStep
<1>2. CASE ServeStep
  BY <1>2, StepReceived, DeliveredReceived, RecipientCancelledReceived, ServeReceived DEF ServeStep
<1>3. CASE RelayTasks
  BY <1>3, FlagReceived, ConfirmReceived, WithdrawCallsReceived, WithdrawEndsReceived,
     RetractReceived DEF RelayTasks
<1>4. CASE UserStep
  <2>1. ~DepositNow /\ ~ClearFinished
    BY DEF NoShortcut, DepositNow, ClearFinished
  <2> QED  BY <1>4, <2>1, FlagReceived, UserReceived, CommandReceived DEF UserStep
<1>5. CASE RecipientStep
  BY <1>5, RecipientReceived
<1>6. CASE Restart
  BY <1>6, RestartReceived
<1> QED  BY <1>1, <1>2, <1>3, <1>4, <1>5, <1>6 DEF Next

LEMMA InitReceived == Init => ReceivedInv
<1> SUFFICES ASSUME Init PROVE ReceivedInv
  OBVIOUS
<1>1. task.pc = "ended" /\ disk.dep = None /\ row.status = "unsent"
  BY IdleIs DEF Init
<1> QED  BY <1>1 DEF Init, ReceivedInv, HasBlob, CompletedMeansReceived

LEMMA StutterReceived == Inv /\ ReceivedInv /\ UNCHANGED vars => ReceivedInv'
<1> SUFFICES ASSUME Inv, ReceivedInv, UNCHANGED vars PROVE ReceivedInv'
  OBVIOUS
<1> QED  BY StillReceived DEF vars, mine, theirs

\* The row is true: it reads as live, paused or over exactly when the send is,
\* and as completed only when the recipient has the file, if the relay keeps a
\* copy to its deadline and the daemon is awake then (set_status,
\* persist_held_record, read_deposit, confirm_offline_delivery).
THEOREM RowsAreTrue == ASSUME NoShortcut, CleanRelay PROVE Spec => []RowIsTrue
<1>1. Init => Inv /\ ReceivedInv
  BY InitInv, InitReceived
<1>2. Inv /\ ReceivedInv /\ [Next]_vars => (Inv /\ ReceivedInv)'
  BY NextKeeps, StutterKeeps, NextReceived, StutterReceived
<1>3. Inv /\ ReceivedInv => RowIsTrue
  BY InvTellsTheTruth DEF ReceivedInv, RowIsTrue
<1> QED  BY <1>1, <1>2, <1>3, PTL DEF Spec

-----------------------------------------------------------------------------
(* No offer is left behind, and the mailbox gets no second copy: for every *)
(* command, while the daemon lives on.                                     *)

OneLife == MaxRestarts = 0
RelayUp == "relay_down" \notin Env
NoResume == "resume" \notin Commands

\* The shape of what the two arguments look at.
ShapeInv ==
    /\ restarts = 0
    /\ "status" \in DOMAIN row
    /\ {"pc", "standing", "offloaded", "blob"} \subseteq DOMAIN task
    /\ task.blob \in Blob \cup {None}
    /\ DOMAIN offers = Offer
    /\ \A o \in Offer : "st" \in DOMAIN offers[o] /\ "names" \in DOMAIN offers[o]
    /\ DOMAIN pieces = Ticket
    /\ row.status \in {"unsent", "paused"} => task.pc = "ended"

\* A live offer the recipient can say yes to is the one that stands, or one
\* whose withdrawal is on its way.
StandingInv ==
    /\ task.pc = "ended" => task.standing = None
    /\ \A o \in Offer : (offers[o].names \in Ticket /\ offers[o].st \in Open) =>
            o = task.standing \/ o \in retracts

Whole == \E t \in Ticket : pieces[t] = "all"

\* Once the relay has all of the pieces, the loop is over or keeps away from
\* the mailbox.
OnceInv ==
    /\ row.status = "unsent" => ~Whole
    /\ Whole => \/ task.pc = "ended"
                \/ task.offloaded /\ task.pc \notin {"park", "upload"}

\* No live offer is made.
NoneOpened ==
    \A o \in Offer : (offers'[o].names \in Ticket /\ offers'[o].st \in Open) =>
        offers[o].names \in Ticket /\ offers[o].st \in Open

\* The row gets another status, but never back to where a loop could start.
RowMoves ==
    /\ "status" \in DOMAIN row'
    /\ row'.status \in {"unsent", "paused"} => row'.status = row.status

\* The loop goes on and takes nothing more to the relay.
Goes ==
    /\ restarts' = restarts
    /\ RowMoves
    /\ DOMAIN task' = DOMAIN task
    /\ task'.blob \in Blob \cup {None}
    /\ task'.pc = "ended" <=> task.pc = "ended"
    /\ task'.offloaded = task.offloaded
    /\ task'.pc \in {"park", "upload"} => task.pc \in {"park", "upload"} \/ ~task.offloaded
    /\ DOMAIN offers' = Offer
    /\ \A o \in Offer : "st" \in DOMAIN offers'[o] /\ "names" \in DOMAIN offers'[o]
    /\ DOMAIN pieces' = Ticket
    /\ Whole' => Whole

\* ... and its offer stands as it did.
Moves ==
    /\ Goes
    /\ task'.standing = task.standing
    /\ retracts' = retracts
    /\ NoneOpened

\* The loop ends, and its offer goes.
Ends ==
    /\ restarts' = restarts
    /\ "status" \in DOMAIN row' /\ row'.status # "unsent"
    /\ EndTask
    /\ UNCHANGED offers
    /\ DOMAIN pieces' = Ticket

LEMMA GoesKeeps ==
    ASSUME ShapeInv, Goes
    PROVE  ShapeInv' /\ (OnceInv => OnceInv')
<1>1. ShapeInv'
  BY DEF ShapeInv, Goes, RowMoves
<1>2. OnceInv => OnceInv'
  BY DEF OnceInv, Goes, RowMoves
<1> QED  BY <1>1, <1>2

LEMMA MovesKeeps ==
    ASSUME ShapeInv, Moves
    PROVE  /\ ShapeInv'
           /\ StandingInv => StandingInv'
           /\ OnceInv => OnceInv'
<1>1. StandingInv => StandingInv'
  BY DEF StandingInv, Moves, Goes, NoneOpened
<1> QED  BY <1>1, GoesKeeps DEF Moves

LEMMA EndsKeeps ==
    ASSUME ShapeInv, Ends
    PROVE  /\ ShapeInv'
           /\ StandingInv => StandingInv'
           /\ OnceInv => OnceInv'
<1>1. task' = Idle /\ retracts' = retracts \cup ({task.standing} \ {None})
  BY DEF Ends, EndTask
<1>2. /\ task'.pc = "ended" /\ task'.standing = None
      /\ {"pc", "standing", "offloaded", "blob"} \subseteq DOMAIN task'
      /\ task'.blob \in Blob \cup {None}
  BY <1>1 DEF Idle
<1>3. ShapeInv'
  BY <1>2 DEF ShapeInv, Ends
<1>4. StandingInv => StandingInv'
  BY <1>1, <1>2 DEF StandingInv, Ends
<1>5. OnceInv => OnceInv'
  BY <1>2 DEF OnceInv, Ends
<1> QED  BY <1>3, <1>4, <1>5

LEMMA SetLiveMoves ==
    ASSUME "status" \in DOMAIN row, NEW s \in Live, SetLive(s)
    PROVE  RowMoves
BY DEF SetLive, RowMoves, Live

LEMMA SetStatusMoves ==
    ASSUME NEW s \in Over \cup {"deposited"}, SetStatus(s)
    PROVE  RowMoves /\ row'.status # "unsent"
BY DEF SetStatus, RowMoves, Over

LEMMA EndStatus ==
    ASSUME SetPaused \/ Finish("cancelled") \/ Finish("failed") \/ Finish("completed")
           \/ SetStatus("deposited")
    PROVE  "status" \in DOMAIN row' /\ row'.status # "unsent"
BY DEF SetPaused, Finish, SetStatus

LEMMA EndActions ==
    ASSUME ShapeInv,
           Stop \/ GiveUp \/ PrepareFails \/ UploadFails \/ Delivered \/ Park \/ File
    PROVE  Ends
<1>1. \/ SetPaused \/ Finish("cancelled") \/ Finish("failed") \/ Finish("completed")
      \/ SetStatus("deposited")
  BY DEF Stop, GiveUp, PrepareFails, UploadFails, Delivered, Park, File, HandleStop
<1>2. restarts' = restarts /\ EndTask /\ UNCHANGED offers
  BY DEF Stop, GiveUp, PrepareFails, UploadFails, Delivered, Park, File, theirs
<1>3. DOMAIN pieces' = Ticket
  BY DEF Stop, GiveUp, PrepareFails, UploadFails, Delivered, Park, File, theirs, ShapeInv
<1> QED  BY <1>1, <1>2, <1>3, EndStatus DEF Ends

\* The daemon's records of the inbox and the pieces stay.
LEMMA StillMoves ==
    ASSUME ShapeInv, UNCHANGED theirs
    PROVE  /\ DOMAIN offers' = Offer
           /\ \A o \in Offer : "st" \in DOMAIN offers'[o] /\ "names" \in DOMAIN offers'[o]
           /\ NoneOpened
           /\ DOMAIN pieces' = Ticket
           /\ Whole' => Whole
BY DEF ShapeInv, theirs, NoneOpened, Whole

LEMMA LookMoves ==
    ASSUME ShapeInv, Look \/ Prepare \/ Note \/ ChooseRelay \/ ParkFails \/ UploadRefused
                     \/ AnnounceFails \/ Hand \/ Watchdog \/ ReceiverConnected \/ TimeIsUp
    PROVE  Moves
<1>1. UNCHANGED theirs /\ retracts' = retracts /\ restarts' = restarts
  BY DEF Look, Prepare, Note, ChooseRelay, ParkFails, UploadRefused, AnnounceFails, Hand,
         Watchdog, ReceiverConnected, TimeIsUp
<1>2. UNCHANGED row \/ SetLive("preparing") \/ SetLive("waiting") \/ SetLive("active")
  BY DEF Look, Prepare, Note, ChooseRelay, ParkFails, UploadRefused, AnnounceFails, Hand,
         Watchdog, ReceiverConnected, TimeIsUp
<1>3. RowMoves
  BY <1>2, SetLiveMoves DEF RowMoves, ShapeInv, Live
<1>4. {"pc", "standing", "offloaded", "blob"} \subseteq DOMAIN task /\ task.blob \in Blob \cup {None}
  BY DEF ShapeInv
<1> DEFINE T == /\ DOMAIN task' = DOMAIN task
                /\ task'.blob \in Blob \cup {None}
                /\ task'.pc = "ended" <=> task.pc = "ended"
                /\ task'.standing = task.standing
                /\ task'.offloaded = task.offloaded
                /\ task'.pc \in {"park", "upload"} =>
                       task.pc \in {"park", "upload"} \/ ~task.offloaded
<1>5. T
  <2>1. CASE Look
    <3>1. PICK online \in BOOLEAN :
              task' = [task EXCEPT !.pc = IF online THEN "prepare" ELSE "relay",
                                   !.online = online, !.proven = FALSE]
      BY <2>1, Zenon DEF Look
    <3>2. \/ task' = [task EXCEPT !.pc = "prepare", !.online = TRUE, !.proven = FALSE]
          \/ task' = [task EXCEPT !.pc = "relay", !.online = FALSE, !.proven = FALSE]
      BY <3>1, Zenon
    <3>3. task.pc = "top"
      BY <2>1 DEF Look, At
    <3> QED  BY <1>4, <3>2, <3>3
  <2>2. CASE Prepare \/ Note \/ Hand
    BY <1>4, <2>2 DEF Prepare, Note, Hand, Goto, At
  <2>3. CASE ChooseRelay
    BY <1>4, <2>3 DEF ChooseRelay, Goto, At, RelayOpen
  <2>4. CASE ParkFails
    BY <1>4, <2>4 DEF ParkFails, Goto, At
  <2>5. CASE UploadRefused
    BY <1>4, <2>5 DEF UploadRefused, At
  <2>6. CASE AnnounceFails
    BY <1>4, <2>6 DEF AnnounceFails
  <2>7. CASE Watchdog \/ ReceiverConnected \/ TimeIsUp
    BY <1>4, <2>7 DEF Watchdog, ReceiverConnected, TimeIsUp, At
  <2> QED  BY <2>1, <2>2, <2>3, <2>4, <2>5, <2>6, <2>7
<1> QED  BY <1>1, <1>3, <1>5, StillMoves DEF Moves, Goes

LEMMA CommandMoves ==
    ASSUME ShapeInv, Pause \/ CancelLive \/ CancelPaused \/ CancelDeposited \/ DepositNow
                     \/ Remove \/ ClearFinished \/ Confirm \/ WithdrawEnds
    PROVE  Moves
<1>1. UNCHANGED theirs /\ retracts' = retracts /\ restarts' = restarts
  BY DEF Pause, CancelLive, CancelPaused, CancelDeposited, DepositNow, Remove, ClearFinished,
         Confirm, WithdrawEnds
<1>2. \/ UNCHANGED row \/ row' = [row EXCEPT !.status = "none"]
      \/ SetStatus("cancelled") \/ SetStatus("completed") \/ SetStatus("failed")
  <2>1. CASE Confirm
    BY <2>1, Zenon DEF Confirm
  <2>2. CASE ~Confirm
    BY <2>2 DEF Pause, CancelLive, CancelPaused, CancelDeposited, DepositNow, Remove,
                ClearFinished, WithdrawEnds, Finish
  <2> QED  BY <2>1, <2>2
<1>3. RowMoves
  BY <1>2, SetStatusMoves DEF RowMoves, ShapeInv, Over
<1>4. {"pc", "standing", "offloaded", "blob"} \subseteq DOMAIN task /\ task.blob \in Blob \cup {None}
  BY DEF ShapeInv
<1>5. \/ UNCHANGED task
      \/ \E x : task' = [task EXCEPT !.stop = x]
      \/ \E x : task' = [task EXCEPT !.attempt = x]
  BY Zenon DEF Pause, CancelLive, CancelPaused, CancelDeposited, DepositNow, Remove, ClearFinished,
         Confirm, WithdrawEnds
<1>6. /\ DOMAIN task' = DOMAIN task
      /\ task'.blob \in Blob \cup {None}
      /\ task'.pc = task.pc
      /\ task'.standing = task.standing
      /\ task'.offloaded = task.offloaded
  BY <1>4, <1>5
<1> QED  BY <1>1, <1>3, <1>6, StillMoves DEF Moves, Goes

\* One offer gets another status.
LEMMA AnswerMoves ==
    ASSUME ShapeInv, NEW o, NEW st, st \notin Open \/ offers[o].st \in Open,
           offers' = [offers EXCEPT ![o].st = st]
    PROVE  /\ DOMAIN offers' = Offer
           /\ \A p \in Offer : "st" \in DOMAIN offers'[p] /\ "names" \in DOMAIN offers'[p]
           /\ NoneOpened
<1>1. DOMAIN offers' = Offer /\ \A p \in Offer : p # o => offers'[p] = offers[p]
  BY DEF ShapeInv
<1>2. o \in Offer => offers'[o] = [offers[o] EXCEPT !.st = st]
  BY DEF ShapeInv
<1>3. o \in Offer => /\ offers'[o].st = st /\ offers'[o].names = offers[o].names
                     /\ DOMAIN offers'[o] = DOMAIN offers[o]
  BY <1>2 DEF ShapeInv
<1> QED  BY <1>1, <1>3 DEF ShapeInv, NoneOpened

\* The daemon stands still.
LEMMA MineMoves ==
    ASSUME ShapeInv, UNCHANGED <<row, task, retracts, restarts>>,
           DOMAIN offers' = Offer,
           \A p \in Offer : "st" \in DOMAIN offers'[p] /\ "names" \in DOMAIN offers'[p],
           NoneOpened, DOMAIN pieces' = Ticket, Whole' => Whole
    PROVE  Moves
BY DEF ShapeInv, Moves, Goes, RowMoves

LEMMA RecipientMoves ==
    ASSUME ShapeInv, RecipientStep \/ WithdrawCalls
    PROVE  Moves
<1>1. UNCHANGED <<row, task, retracts, restarts>>
  BY DEF RecipientStep, Pull, Tick, See, Accept, Fetch, Ack, Reject, OfferLapses, Collect,
         BlobLapses, WithdrawCalls, mine
<1>2. UNCHANGED pieces \/ \E t : pieces' = [pieces EXCEPT ![t] = "none"]
  BY DEF RecipientStep, Pull, Tick, See, Accept, Fetch, Ack, Reject, OfferLapses, Collect,
         BlobLapses, WithdrawCalls
<1>3. DOMAIN pieces' = Ticket /\ (Whole' => Whole)
  BY <1>2 DEF ShapeInv, Whole
<1>4. \/ UNCHANGED offers
      \/ \E o, st : /\ st \notin Open \/ offers[o].st \in Open
                    /\ offers' = [offers EXCEPT ![o].st = st]
  <2>1. CASE WithdrawCalls
    BY <2>1 DEF WithdrawCalls, Open
  <2>2. CASE Pull \/ Tick \/ (\E t \in Ticket : Collect(t)) \/ (\E b \in Blob : BlobLapses(b))
    BY <2>2 DEF Pull, Tick, Collect, BlobLapses
  <2>3. ASSUME NEW o \in Offer,
               See(o) \/ Accept(o) \/ Fetch(o) \/ Ack(o) \/ Reject(o) \/ OfferLapses(o)
        PROVE  \/ UNCHANGED offers
               \/ \E st : /\ st \notin Open \/ offers[o].st \in Open
                         /\ offers' = [offers EXCEPT ![o].st = st]
    BY <2>3 DEF See, Accept, Fetch, Ack, Reject, OfferLapses, Open
  <2> QED  BY <2>1, <2>2, <2>3 DEF RecipientStep
<1>5. /\ DOMAIN offers' = Offer
      /\ \A p \in Offer : "st" \in DOMAIN offers'[p] /\ "names" \in DOMAIN offers'[p]
      /\ NoneOpened
  BY <1>4, AnswerMoves DEF ShapeInv, NoneOpened
<1> QED  BY <1>1, <1>3, <1>5, MineMoves

LEMMA UploadMoves ==
    ASSUME ShapeInv, Upload
    PROVE  Moves
<1>1. /\ UNCHANGED <<row, retracts, restarts, offers, pieces>> /\ task.pc = "upload"
      /\ \E b \in Blob : task' = [task EXCEPT !.pc = "announce", !.blob = b]
  BY DEF Upload, At
<1>2. /\ DOMAIN task' = DOMAIN task
      /\ task'.blob \in Blob \cup {None}
      /\ task'.pc = "announce"
      /\ task'.standing = task.standing
      /\ task'.offloaded = task.offloaded
  BY <1>1 DEF ShapeInv
<1> QED  BY <1>1, <1>2 DEF ShapeInv, Moves, Goes, RowMoves, NoneOpened, Whole

LEMMA AnnounceMoves ==
    ASSUME ShapeInv, Announce
    PROVE  Moves
<1>1. /\ UNCHANGED <<row, retracts, restarts, pieces>> /\ task.pc = "announce"
  BY DEF Announce, At
<1>2. PICK new \in Offer : /\ NewOffer(new, task.blob)
                           /\ task' = [task EXCEPT !.pc = "hand", !.offer = new]
  BY DEF Announce
<1>3. /\ DOMAIN task' = DOMAIN task
      /\ task'.blob \in Blob \cup {None}
      /\ task'.pc = "hand"
      /\ task'.standing = task.standing
      /\ task'.offloaded = task.offloaded
  BY <1>2 DEF ShapeInv
<1>4. /\ DOMAIN offers' = Offer
      /\ offers'[new] = [st |-> "pending", names |-> task.blob]
      /\ \A o \in Offer : o # new => offers'[o] = offers[o]
  BY <1>2 DEF NewOffer, ShapeInv
<1>5. task.blob \notin Ticket
  BY DEF ShapeInv
<1>6. /\ \A p \in Offer : "st" \in DOMAIN offers'[p] /\ "names" \in DOMAIN offers'[p]
      /\ NoneOpened
  BY <1>4, <1>5 DEF ShapeInv, NoneOpened
<1> QED  BY <1>1, <1>3, <1>4, <1>6 DEF ShapeInv, Moves, Goes, RowMoves, Whole

LEMMA OffloadFailsMoves ==
    ASSUME ShapeInv, OffloadFails
    PROVE  Moves
<1>1. /\ UNCHANGED <<retracts, restarts, offers>> /\ task.pc = "serve" /\ SetLive("waiting")
      /\ task' = [task EXCEPT !.peer = FALSE]
  BY DEF OffloadFails, At
<1>2. /\ DOMAIN task' = DOMAIN task
      /\ task'.blob \in Blob \cup {None}
      /\ task'.pc = "serve"
      /\ task'.standing = task.standing
      /\ task'.offloaded = task.offloaded
  BY <1>1 DEF ShapeInv
<1>3. DOMAIN pieces' = Ticket /\ (Whole' => Whole)
  BY DEF OffloadFails, ShapeInv, Whole
<1>4. RowMoves
  BY <1>1, SetLiveMoves DEF ShapeInv, Live
<1> QED  BY <1>1, <1>2, <1>3, <1>4 DEF ShapeInv, Moves, Goes, NoneOpened

LEMMA WaitKeepsStanding ==
    ASSUME ShapeInv, Wait
    PROVE  Goes /\ (StandingInv => StandingInv')
<1>1. UNCHANGED row /\ UNCHANGED theirs /\ retracts' = retracts /\ restarts' = restarts
      /\ task.pc = "wait"
  BY DEF Wait, At
<1>2. {"pc", "standing", "offloaded", "blob"} \subseteq DOMAIN task /\ task.blob \in Blob \cup {None}
  BY DEF ShapeInv
<1>3. /\ DOMAIN task' = DOMAIN task /\ task'.pc = "top" /\ task'.blob = task.blob
      /\ task'.offloaded = task.offloaded
      /\ \/ task'.standing = task.standing
         \/ /\ task'.standing = None
            /\ task.standing # None /\ offers[task.standing].st \notin Known
  <2>1. PICK due :
          LET s    == IF task.standing = None THEN None ELSE offers[task.standing].st
              base == [task EXCEPT !.pc = "top", !.relayDue = due]
          IN  \/ task' = base
              \/ /\ task' = [base EXCEPT !.standing = None]
                 /\ s # None /\ s \notin Known
              \/ task' = [base EXCEPT !.seen = s, !.proven = (s # task.seen)]
    BY Zenon DEF Wait
  <2> QED  BY <1>2, <2>1
<1>4. RowMoves
  BY <1>1 DEF RowMoves, ShapeInv
<1>5. StandingInv => StandingInv'
  BY <1>1, <1>3, <1>2 DEF StandingInv, theirs, Known
<1> QED  BY <1>1, <1>2, <1>3, <1>4, <1>5, StillMoves DEF Goes

LEMMA PostKeepsStanding ==
    ASSUME ShapeInv, Post \/ PostFails
    PROVE  Goes /\ (RelayUp /\ StandingInv => StandingInv')
<1>1. UNCHANGED <<retracts, restarts, pieces>> /\ task.pc = "post"
  BY DEF Post, PostFails, At
<1>2. {"pc", "standing", "offloaded", "blob"} \subseteq DOMAIN task /\ task.blob \in Blob \cup {None}
  BY DEF ShapeInv
<1>3. RowMoves
  BY SetLiveMoves DEF Post, PostFails, RowMoves, ShapeInv, Live
<1>4. UNCHANGED offers \/ \E new \in Offer : NewOffer(new, held.prep)
  BY DEF Post, PostFails
<1>5. /\ DOMAIN offers' = Offer
      /\ \A p \in Offer : "st" \in DOMAIN offers'[p] /\ "names" \in DOMAIN offers'[p]
  BY <1>4 DEF NewOffer, ShapeInv
<1>6. /\ DOMAIN task' = DOMAIN task /\ task'.pc \in {"serve", "relay"} /\ task'.blob = task.blob
      /\ task'.offloaded = task.offloaded
  <2>1. CASE Post
    <3>1. \E o, seen : Serving(o, seen)
      BY <2>1 DEF Post
    <3> QED  BY <1>2, <3>1 DEF Serving
  <2>2. CASE PostFails
    BY <1>2, <2>2 DEF PostFails
  <2> QED  BY <2>1, <2>2
<1>7. ASSUME RelayUp, StandingInv PROVE StandingInv'
  <2>1. PICK o \in Standing :
            \/ o # None /\ Serving(o, offers[o].st) /\ UNCHANGED offers
            \/ o = None /\ \E new \in Offer : NewOffer(new, held.prep) /\ Serving(new, "pending")
    BY <1>7 DEF RelayUp, Post, PostFails
  <2>2. CASE o # None /\ Serving(o, offers[o].st) /\ UNCHANGED offers
    <3>1. o = task.standing
      BY <2>2 DEF Standing
    <3>2. task'.standing = task.standing
      BY <1>2, <2>2, <3>1 DEF Serving
    <3> QED  BY <1>1, <1>6, <1>7, <2>2, <3>2 DEF StandingInv
  <2>3. CASE o = None /\ \E new \in Offer : NewOffer(new, held.prep) /\ Serving(new, "pending")
    <3>1. PICK new \in Offer : NewOffer(new, held.prep) /\ Serving(new, "pending")
      BY <2>3
    <3>2. task'.standing = new
      BY <1>2, <3>1 DEF Serving
    <3>3. task.standing = None \/ offers[task.standing].st \notin Known
      BY <1>7, <2>1, <2>3 DEF Standing, RelayUp
    <3>4. \A p \in Offer : p # new => offers'[p] = offers[p]
      BY <3>1 DEF NewOffer, ShapeInv
    <3> QED  BY <1>1, <1>6, <1>7, <3>2, <3>3, <3>4 DEF StandingInv, Known
  <2> QED  BY <2>1, <2>2, <2>3
<1>8. Whole' => Whole
  BY <1>1 DEF Whole
<1>9. DOMAIN pieces' = Ticket
  BY <1>1 DEF ShapeInv
<1>10. Goes
  BY <1>1, <1>2, <1>3, <1>5, <1>6, <1>8, <1>9 DEF Goes
<1> QED  BY <1>7, <1>10

LEMMA ServeKeepsStanding ==
    ASSUME ShapeInv, ServeEnds \/ Offloaded
    PROVE  ShapeInv' /\ (StandingInv => StandingInv') /\ (OnceInv => OnceInv')
<1>1. {"pc", "standing", "offloaded", "blob"} \subseteq DOMAIN task /\ task.blob \in Blob \cup {None}
  BY DEF ShapeInv
<1>2. task.pc = "serve" /\ UNCHANGED offers /\ restarts' = restarts
  BY DEF ServeEnds, Offloaded, At, theirs
<1>3. DOMAIN pieces' = Ticket
  BY DEF ServeEnds, Offloaded, theirs, ShapeInv
<1>4. CASE HandleStop /\ EndTask
  <2>1. SetPaused \/ Finish("cancelled")
    BY <1>4 DEF HandleStop
  <2>2. Ends
    BY <1>2, <1>3, <1>4, <2>1, EndStatus DEF Ends
  <2> QED  BY <2>2, EndsKeeps
<1>5. CASE ServeEnds /\ ~(HandleStop /\ EndTask)
  <2>1. /\ \E due : task' = [task EXCEPT !.pc = "relay", !.relayDue = due, !.peer = FALSE]
        /\ UNCHANGED <<row, retracts>> /\ UNCHANGED theirs
    BY <1>5, Zenon DEF ServeEnds
  <2>2. /\ DOMAIN task' = DOMAIN task /\ task'.pc = "relay" /\ task'.blob = task.blob
        /\ task'.offloaded = task.offloaded /\ task'.standing = task.standing
    BY <1>1, <2>1
  <2>3. Moves
    BY <1>1, <1>2, <2>1, <2>2, StillMoves DEF Moves, Goes, RowMoves, ShapeInv
  <2> QED  BY <2>3, MovesKeeps
<1>6. CASE Offloaded /\ ~(HandleStop /\ EndTask)
  <2>1. /\ task' = [task EXCEPT !.pc = "relay", !.peer = FALSE, !.offloaded = TRUE]
        /\ SetLive("waiting") /\ UNCHANGED retracts
    BY <1>6 DEF Offloaded
  <2>2. /\ DOMAIN task' = DOMAIN task /\ task'.pc = "relay" /\ task'.blob = task.blob
        /\ task'.offloaded = TRUE /\ task'.standing = task.standing
    BY <1>1, <2>1
  <2>3. RowMoves
    BY <2>1, SetLiveMoves DEF ShapeInv, Live
  <2>4. ShapeInv'
    BY <1>2, <1>3, <2>2, <2>3 DEF ShapeInv, RowMoves
  <2>5. StandingInv => StandingInv'
    BY <1>2, <2>1, <2>2 DEF StandingInv
  <2>6. OnceInv => OnceInv'
    <3>1. row'.status # "unsent"
      BY <1>2, <2>3 DEF ShapeInv, RowMoves
    <3> QED  BY <2>2, <3>1 DEF OnceInv
  <2> QED  BY <2>4, <2>5, <2>6
<1> QED  BY <1>4, <1>5, <1>6

LEMMA CancelledKeepsStanding ==
    ASSUME ShapeInv, RecipientCancelled
    PROVE  ShapeInv' /\ (StandingInv => StandingInv') /\ (OnceInv => OnceInv')
<1>1. /\ offers' = [offers EXCEPT ![task.standing].st = "gone"]
      /\ UNCHANGED <<retracts, restarts, pieces>> /\ task' = Idle
  BY DEF RecipientCancelled
<1>2. row'.status # "unsent" /\ "status" \in DOMAIN row'
  BY EndStatus DEF RecipientCancelled
<1>3. /\ task'.pc = "ended" /\ task'.standing = None
      /\ {"pc", "standing", "offloaded", "blob"} \subseteq DOMAIN task'
      /\ task'.blob \in Blob \cup {None}
  BY <1>1 DEF Idle
<1>4. /\ DOMAIN offers' = Offer
      /\ \A p \in Offer : "st" \in DOMAIN offers'[p] /\ "names" \in DOMAIN offers'[p]
      /\ NoneOpened
  BY <1>1, AnswerMoves DEF Open
<1>5. ShapeInv'
  BY <1>1, <1>2, <1>3, <1>4 DEF ShapeInv
<1>6. task.standing \in Offer => offers'[task.standing].st = "gone"
  BY <1>1 DEF ShapeInv
<1>7. StandingInv => StandingInv'
  BY <1>1, <1>3, <1>4, <1>6 DEF StandingInv, NoneOpened, Open
<1>8. OnceInv => OnceInv'
  BY <1>2, <1>3 DEF OnceInv
<1> QED  BY <1>5, <1>7, <1>8

LEMMA RetractKeepsStanding ==
    ASSUME ShapeInv, NEW o \in Offer, Retract(o)
    PROVE  Goes /\ (RelayUp /\ StandingInv => StandingInv')
<1>1. UNCHANGED <<row, task, restarts, pieces>> /\ retracts' = retracts \ {o}
  BY DEF Retract
<1>2. UNCHANGED offers \/ offers' = [offers EXCEPT ![o].st = "gone"]
  BY DEF Retract
<1>3. /\ DOMAIN offers' = Offer
      /\ \A p \in Offer : "st" \in DOMAIN offers'[p] /\ "names" \in DOMAIN offers'[p]
      /\ NoneOpened
  BY <1>2, AnswerMoves DEF ShapeInv, NoneOpened, Open
<1>4. RelayUp => offers'[o].st = "gone"
  BY DEF Retract, RelayUp, ShapeInv
<1>5. RelayUp /\ StandingInv => StandingInv'
  BY <1>1, <1>3, <1>4 DEF StandingInv, NoneOpened, Open
<1>6. Goes
  BY <1>1, <1>3 DEF Goes, RowMoves, ShapeInv, Whole
<1> QED  BY <1>5, <1>6

LEMMA StartKeepsStanding ==
    ASSUME ShapeInv, SendTo \/ Resume
    PROVE  /\ ShapeInv'
           /\ StandingInv => StandingInv'
           /\ (SendTo /\ OnceInv) => OnceInv'
<1>1. /\ row' = [status |-> "active", token |-> TRUE] /\ task' = Loop
      /\ UNCHANGED <<retracts, restarts>> /\ UNCHANGED theirs
      /\ row.status \in {"unsent", "paused"}
  BY DEF SendTo, Resume
<1>2. /\ task'.pc = "top" /\ task'.standing = None
      /\ {"pc", "standing", "offloaded", "blob"} \subseteq DOMAIN task'
      /\ task'.blob = None
  BY <1>1 DEF Loop, Idle
<1>3. task.pc = "ended"
  BY <1>1 DEF ShapeInv
<1>4. ShapeInv'
  BY <1>1, <1>2 DEF ShapeInv, theirs
<1>5. StandingInv => StandingInv'
  BY <1>1, <1>2, <1>3 DEF StandingInv, theirs
<1>6. (SendTo /\ OnceInv) => OnceInv'
  BY <1>1 DEF SendTo, OnceInv, Whole, theirs
<1> QED  BY <1>4, <1>5, <1>6

LEMMA NextKeepsStanding ==
    ASSUME OneLife, ShapeInv, Next
    PROVE  /\ ShapeInv'
           /\ (RelayUp /\ StandingInv) => StandingInv'
           /\ (NoResume /\ OnceInv) => OnceInv'
<1> DEFINE K == /\ ShapeInv'
                /\ (RelayUp /\ StandingInv) => StandingInv'
                /\ (NoResume /\ OnceInv) => OnceInv'
<1>1. ASSUME Moves \/ Ends PROVE K
  BY <1>1, MovesKeeps, EndsKeeps
<1>2. CASE TaskStep
  <2>1. CASE Stop \/ GiveUp \/ PrepareFails \/ UploadFails \/ Park \/ File
    BY <1>1, <2>1, EndActions
  <2>2. CASE \/ Look \/ Prepare \/ Note \/ ChooseRelay \/ ParkFails \/ UploadRefused
             \/ AnnounceFails \/ Hand
    BY <1>1, <2>2, LookMoves
  <2>3. CASE Upload \/ Announce
    BY <1>1, <2>3, UploadMoves, AnnounceMoves
  <2>4. CASE Post \/ PostFails \/ Wait
    BY <2>4, PostKeepsStanding, WaitKeepsStanding, GoesKeeps
  <2> QED  BY <1>2, <2>1, <2>2, <2>3, <2>4 DEF TaskStep
<1>3. CASE ServeStep
  <2>1. CASE Watchdog \/ ReceiverConnected \/ OffloadFails \/ Delivered
    BY <1>1, <2>1, LookMoves, OffloadFailsMoves, EndActions
  <2>2. CASE RecipientCancelled \/ Offloaded \/ ServeEnds
    BY <2>2, CancelledKeepsStanding, ServeKeepsStanding
  <2> QED  BY <1>3, <2>1, <2>2 DEF ServeStep
<1>4. CASE RelayTasks
  <2>1. CASE TimeIsUp \/ Confirm \/ WithdrawCalls \/ WithdrawEnds
    BY <1>1, <2>1, LookMoves, CommandMoves, RecipientMoves
  <2>2. ASSUME NEW o \in Offer, Retract(o) PROVE K
    BY <2>2, RetractKeepsStanding, GoesKeeps
  <2> QED  BY <1>4, <2>1, <2>2 DEF RelayTasks
<1>5. CASE UserStep
  <2>1. CASE SendTo \/ Resume
    <3>1. NoResume => SendTo
      BY <2>1 DEF NoResume, Resume
    <3> QED  BY <2>1, <3>1, StartKeepsStanding
  <2>2. CASE \/ Pause \/ CancelLive \/ CancelPaused \/ CancelDeposited \/ DepositNow
             \/ Remove \/ ClearFinished
    BY <1>1, <2>2, CommandMoves
  <2> QED  BY <1>5, <2>1, <2>2 DEF UserStep
<1>6. CASE RecipientStep
  BY <1>1, <1>6, RecipientMoves
<1>7. ~Restart
  BY DEF Restart, OneLife, ShapeInv
<1> QED  BY <1>2, <1>3, <1>4, <1>5, <1>6, <1>7 DEF Next

LEMMA StutterKeepsStanding ==
    ASSUME ShapeInv, UNCHANGED vars
    PROVE  ShapeInv' /\ (StandingInv => StandingInv') /\ (OnceInv => OnceInv')
BY DEF vars, mine, theirs, ShapeInv, StandingInv, OnceInv, Whole

LEMMA InitStanding == Init => ShapeInv /\ StandingInv /\ OnceInv
<1> SUFFICES ASSUME Init PROVE ShapeInv /\ StandingInv /\ OnceInv
  OBVIOUS
<1>1. /\ task.pc = "ended" /\ task.standing = None /\ task.blob = None
      /\ {"pc", "standing", "offloaded", "blob"} \subseteq DOMAIN task
  BY DEF Init, Idle
<1> QED  BY <1>1 DEF Init, ShapeInv, StandingInv, OnceInv, Whole, Open

\* When the loop is over and its last withdrawal has been made, no live offer
\* is left in the recipient's inbox to say yes to, whatever the user did, as
\* long as the daemon lives and its calls to the relay are answered
\* (serve_live_once posts only when none stands, deliver_to withdraws at its end).
THEOREM OffersAreWithdrawn ==
    ASSUME OneLife, RelayUp PROVE Spec => []NoOfferLeftBehind
<1>1. Init => ShapeInv /\ StandingInv
  BY InitStanding
<1>2. ShapeInv /\ StandingInv /\ [Next]_vars => (ShapeInv /\ StandingInv)'
  BY NextKeepsStanding, StutterKeepsStanding
<1>3. StandingInv => NoOfferLeftBehind
  BY DEF StandingInv, NoOfferLeftBehind
<1> QED  BY <1>1, <1>2, <1>3, PTL DEF Spec

\* What the steps do to the mailbox: only an upload fills a claim.
LEMMA BlobMoves ==
    ASSUME OneLife, ShapeInv, Next
    PROVE  \/ UNCHANGED blobs
           \/ Upload
           \/ WithdrawCalls
           \/ \E c : blobs' = [blobs EXCEPT ![c] = "fetched"]
           \/ \E c : blobs' = [blobs EXCEPT ![c] = "lapsed"]
<1>1. CASE TaskStep
  BY <1>1 DEF TaskStep, Stop, GiveUp, Look, Prepare, PrepareFails, Note, Post, PostFails,
     ChooseRelay, Park, ParkFails, UploadRefused, UploadFails, Announce, AnnounceFails,
     Hand, File, Wait, theirs
<1>2. CASE ServeStep
  BY <1>2 DEF ServeStep, Watchdog, ReceiverConnected, Delivered, RecipientCancelled,
     Offloaded, OffloadFails, ServeEnds, theirs
<1>3. CASE RelayTasks
  BY <1>3 DEF RelayTasks, TimeIsUp, Confirm, WithdrawEnds, Retract, theirs
<1>4. CASE UserStep
  BY <1>4 DEF UserStep, SendTo, Pause, Resume, CancelLive, CancelPaused, CancelDeposited,
     DepositNow, Remove, ClearFinished, theirs
<1>5. CASE RecipientStep
  BY <1>5 DEF RecipientStep, Pull, Tick, See, Accept, Fetch, Ack, Reject, OfferLapses,
     Collect, BlobLapses
<1>6. ~Restart
  BY DEF Restart, OneLife, ShapeInv
<1> QED  BY <1>1, <1>2, <1>3, <1>4, <1>5, <1>6 DEF Next

LEMMA BlobsStay ==
    ASSUME OneLife, ShapeInv, Next, DOMAIN blobs = Blob
    PROVE  DOMAIN blobs' = Blob
BY BlobMoves DEF Upload, WithdrawCalls

LEMMA NoSecondUpload ==
    ASSUME OneLife, ShapeInv, OnceInv, Next, DOMAIN blobs = Blob,
           NEW b \in Blob, blobs[b] = "none", blobs'[b] = "stored"
    PROVE  ~Whole
<1>1. CASE Upload
  BY <1>1 DEF Upload, At, OnceInv
<1>2. CASE WithdrawCalls
  BY <1>2 DEF WithdrawCalls
<1> QED  BY <1>1, <1>2, BlobMoves

\* A loop that has given the relay all of the pieces never uploads the whole
\* file on top, in the life of one daemon and until it is resumed (`offloaded`).
THEOREM OneCopyOnly ==
    ASSUME OneLife, NoResume PROVE Spec => NoSecondCopy
<1> DEFINE I == ShapeInv /\ OnceInv /\ DOMAIN blobs = Blob
<1>1. Init => I
  BY InitStanding DEF Init
<1>2. I /\ [Next]_vars => I'
  BY NextKeepsStanding, StutterKeepsStanding, BlobsStay DEF vars, theirs
<1>3. I /\ [Next]_vars =>
        [\A b \in Blob : (blobs[b] = "none" /\ blobs'[b] = "stored")
            => \A t \in Ticket : pieces[t] # "all"]_vars
  BY NoSecondUpload DEF Whole
<1> QED  BY <1>1, <1>2, <1>3, PTL DEF Spec, NoSecondCopy

=============================================================================
