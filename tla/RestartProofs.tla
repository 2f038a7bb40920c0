--------------------------- MODULE RestartProofs ---------------------------
(***************************************************************************)
(* Proofs about the records that bring transfers back (Restart): disk and  *)
(* list agree, and every transfer comes back once and as it was left, for  *)
(* any number of items, of numbers and of ends of the process.             *)
(*                                                                         *)
(* The invariant speaks of an item that is not at risk (`exposed`).  It is *)
(* in exactly one place: on the list (`RowTrue`: under a record of its own *)
(* number, kind and item), in the hand of the start (`HandTrue`), or still *)
(* to be restored (`OldTrue`: listed by the start, or in a family that it  *)
(* has not read yet).  That it is nowhere else, and still has its key, its *)
(* preparation and the word of whoever stopped it, holds because two items *)
(* that meet under one number and shelf are both at risk (`ClashInv`), and *)
(* because every other record is a row's own or awaited (`RecordsInv`).    *)
(*                                                                         *)
(* Most steps leave the start where it is: `Steady` says what such a step  *)
(* may do at each number, `SteadyKeeps` that it keeps the invariant, and   *)
(* the lemma of an action that the action is one.  The start's own steps   *)
(* and the end of the process follow.                                      *)
(***************************************************************************)
EXTENDS Restart, TLAPS

-----------------------------------------------------------------------------
(* The invariant.                                                          *)

PendTags == {"", "code"}

\* A pending share says of itself only whether it has a code.
PendInv ==
    /\ \A i \in Ids : disk["pend"][i] # None => disk["pend"][i].tag \in PendTags
    /\ \A r \in boot.todo["pend"] : r.tag \in PendTags
    /\ boot.hand # None /\ boot.at = "pend" => boot.hand.tag \in PendTags

\* While records of a kind are being restored, and before any is.
Reading(k) ==
    CASE k = "dep"    -> {"dep"}
      [] k = "sendto" -> {"dep", "preps", "sendto"}
      [] k = "link"   -> {"link"}
      [] k = "pend"   -> {"pend"}
      [] k = "dl"     -> Phases \ {"load", "send", "up"}
      [] k = "send"   -> Phases \ {"load", "up"}

TooEarly(k) ==
    CASE k = "dep"    -> {"load"}
      [] k = "sendto" -> {"load", "dep", "preps"}
      [] k = "link"   -> {"load", "dep", "preps", "sendto"}
      [] k = "pend"   -> {"load", "dep", "preps", "sendto", "link"}
      [] OTHER        -> {}

HandingSend(row) == row.kind = "send" /\ row.st = "handing"

RowPhase(row) ==
    /\ boot.at \notin TooEarly(row.kind)
    /\ HandingSend(row) => boot.at \notin TooEarly("pend")
    /\ row.st = "handing" => row.kind \in {"dl", "send"}
    /\ row.st = "stopping" => row.kind \in {"dl", "sendto"}

PhaseInv ==
    /\ \A k \in Kinds : boot.todo[k] # {} => boot.at \in Reading(k)
    /\ boot.hand # None => boot.at \in Kinds
    /\ nap # None => Up
    /\ \A i \in Ids : Live(i) => i < nextId /\ RowPhase(rows[i])

\* Item x is still to be restored from record i of family k.
Unread(k)       == boot.at = "load" \/ (k \in {"link", "pend"} /\ boot.at \in TooEarly(k))
Filed(k, i, x)  == disk[k][i] # None /\ disk[k][i].item = x
Listed(k, i, x) == \E r \in boot.todo[k] : r.id = i /\ r.item = x
Old(k, i, x)    == Listed(k, i, x) \/ (Unread(k) /\ Filed(k, i, x))
InHand(x)       == boot.hand # None /\ boot.hand.item = x

ClashInv ==
    \A i \in Ids, k \in Kinds, x \in Items :
        Live(i) /\ k \in Shelf(rows[i].kind) /\ Old(k, i, x)
            => x \in exposed /\ rows[i].item \in exposed

HandClash ==
    boot.hand # None /\ boot.at \in {"dep", "sendto", "link"} =>
        (Live(boot.hand.id) /\ rows[boot.hand.id].kind \in Shelf(boot.at)
            => boot.hand.item \in exposed /\ rows[boot.hand.id].item \in exposed)

\* What the start has read is still there.
TodoInv ==
    \A k \in Kinds : \A r \in boot.todo[k] :
        /\ \A q \in boot.todo[k] : q.id = r.id => q = r
        /\ r.item \notin exposed => disk[k][r.id] = [item |-> r.item, tag |-> r.tag]
        /\ disk[k][r.id] # None => disk[k][r.id].item \in exposed \cup {r.item}
        /\ boot.hand # None /\ boot.at = k => r.id # boot.hand.id

\* The records a row writes.
Own(row) ==
    CASE row.kind = "sendto" -> {"sendto", "prep", "upl"}
      [] row.kind = "link"   -> {"link", "upl"}
      [] HandingSend(row)    -> {"send", "pend"}
      [] OTHER               -> {row.kind}

OfRow(rec, row, f) == rec.item = row.item \/ (f \in {"prep", "upl"} /\ row.item \in exposed)

Awaited(f, i) ==
    \/ f \in Kinds /\ (Unread(f) \/ \E r \in boot.todo[f] : r.id = i)
    \/ f = "prep" /\ (boot.at \in {"load", "dep", "preps"} \/ \E r \in boot.todo["sendto"] : r.id = i)
    \/ f = "upl" /\ boot.at \notin {"dl", "send", "up"}

RecordsInv ==
    \A f \in Families \ {"code"}, i \in Ids : disk[f][i] # None =>
        \/ Live(i) /\ f \in Own(rows[i]) /\ OfRow(disk[f][i], rows[i], f)
        \/ Awaited(f, i)

Fits(rec, x) == rec # None => rec.item = x

\* An item that waits to be restored does so in one place, has its own keys
\* beside it, and the word of whoever stopped it.
OldTrue(k, i, x) ==
    /\ RowsOf(x) = {} /\ ~InHand(x)
    /\ \A l \in Kinds, j \in Ids : Old(l, j, x) => l = k /\ j = i
    /\ wish[x] # "new"
    /\ wish[x] = "stop" => \/ k = "dl" /\ marks[i] = "user"
                           \/ k = "sendto" /\ disk["sendto"][i].tag = "paused"
    /\ k \in {"sendto", "link"} => Fits(disk["upl"][i], x)
    /\ k = "sendto" => Fits(disk["prep"][i], x)
OldInv ==
    \A k \in Kinds, i \in Ids, x \in Items : Old(k, i, x) /\ x \notin exposed => OldTrue(k, i, x)

HandTrue(h) ==
    /\ RowsOf(h.item) = {}
    /\ wish[h.item] # "new"
    /\ wish[h.item] = "stop" => boot.at \in {"dl", "sendto"} /\ h.tag = "paused"
    /\ boot.at \in {"sendto", "link"} => Fits(disk["upl"][h.id], h.item)
    /\ boot.at = "sendto" => Fits(h.prep, h.item)
HandInv == boot.hand # None /\ boot.hand.item \notin exposed => HandTrue(boot.hand)

Pair(a, b) == a.kind = "dl" /\ a.st = "handing" /\ b.kind = "send"

RowTrue(i) ==
    /\ Filed(rows[i].kind, i, rows[i].item)
    /\ rows[i].seal # None => rows[i].seal.item = rows[i].item
    /\ rows[i].prep \in {None, rows[i].item}
    /\ wish[rows[i].item] # "new"
    /\ wish[rows[i].item] = "stop" =>
         \/ rows[i].kind = "dl" /\ rows[i].st \in {"stopping", "paused"} /\ marks[i] = "user"
         \/ rows[i].kind = "sendto" /\ rows[i].st = "paused" /\ disk["sendto"][i].tag = "paused"
    /\ \A j \in RowsOf(rows[i].item) : i # j => Pair(rows[i], rows[j]) \/ Pair(rows[j], rows[i])
RowsInv == \A i \in Ids : Live(i) /\ rows[i].item \notin exposed => RowTrue(i)

PlaceInv ==
    \A x \in Items : x \notin exposed /\ wish[x] \in {"go", "stop", "sleep"} =>
        RowsOf(x) # {} \/ InHand(x) \/ \E k \in Kinds, i \in Ids : Old(k, i, x)

MarksInv ==
    \A i \in Ids : marks[i] # "no" =>
        \/ exposed # {} \/ (Live(i) /\ rows[i].kind = "dl")
        \/ (boot.at = "load" /\ disk["dl"][i] # None)
        \/ \E r \in boot.todo["dl"] : r.id = i

CodesInv ==
    /\ \A i \in Ids : hosts[i] # None => i < nextId
    /\ boot.at # "load" => \A i \in Ids : disk["code"][i] # None => hosts[i] = disk["code"][i].item
    /\ \A i \in Ids : Live(i) /\ (rows[i].kind = "pend" \/ HandingSend(rows[i])) => hosts[i] = None

RestartInv ==
    /\ TypeOK /\ PendInv /\ PhaseInv /\ ClashInv /\ HandClash /\ TodoInv /\ RecordsInv
    /\ OldInv /\ HandInv /\ RowsInv /\ PlaceInv /\ MarksInv /\ CodesInv

-----------------------------------------------------------------------------
(* What the invariant gives.                                               *)

LEMMA InvGives == RestartInv => DiskAgrees /\ ComesBackOnce
<1> SUFFICES ASSUME RestartInv PROVE DiskAgrees /\ ComesBackOnce  OBVIOUS
<1>a. TypeOK /\ PhaseInv /\ RecordsInv /\ RowsInv /\ PlaceInv /\ MarksInv /\ CodesInv
  BY DEF RestartInv
<1>b. ASSUME Up PROVE \A k \in Kinds : boot.todo[k] = {} /\ ~Unread(k)
  BY <1>a, <1>b DEF PhaseInv, Up, Reading, Unread, TooEarly, Kinds
<1>1. RowsAreBacked  BY <1>a DEF RowsAreBacked, RowsInv, RowTrue, Filed
<1>2. OwnKeys  BY <1>a DEF OwnKeys, RowsInv, RowTrue
<1>3. NoStrays
  <2> SUFFICES ASSUME Up PROVE NoStrays  BY DEF NoStrays
  <2>1. ASSUME NEW f \in Families \ {"code"}, NEW i \in Ids, disk[f][i] # None
        PROVE Live(i) /\ (rows[i].item = disk[f][i].item \/ rows[i].item \in exposed)
    <3>1. ~Awaited(f, i)  BY <1>b DEF Awaited, Up, Kinds
    <3> QED  BY <1>a, <2>1, <3>1 DEF RecordsInv, OfRow
  <2>2. \A i \in Ids : marks[i] # "no" => (Live(i) /\ rows[i].kind = "dl") \/ exposed # {}
    BY <1>a, <1>b DEF MarksInv, Up, Kinds
  <2>3. \A i \in Ids : disk["code"][i] # None => hosts[i] = disk["code"][i].item
    BY <1>a DEF CodesInv, Up
  <2> QED  BY <2>1, <2>2, <2>3 DEF NoStrays
<1>4. NothingForgotten
  <2> SUFFICES ASSUME Up, NEW x \in Items, wish[x] \in {"go", "stop", "sleep"}, x \notin exposed
               PROVE RowsOf(x) # {}
    BY DEF NothingForgotten
  <2>1. boot.hand = None  BY <1>a DEF PhaseInv, Up, Kinds
  <2>2. \A k \in Kinds, i \in Ids : ~Old(k, i, x)  BY <1>b DEF Old, Listed
  <2> QED  BY <1>a, <2>1, <2>2 DEF PlaceInv, InHand
<1>5. NeverTwice
  <2> SUFFICES ASSUME NEW i \in Ids, NEW j \in Ids, i # j, Live(i), Live(j),
                      rows[i].item = rows[j].item, rows[i].item \notin exposed
               PROVE "handing" \in {rows[i].st, rows[j].st}
    BY DEF NeverTwice
  <2>1. j \in RowsOf(rows[i].item)  BY DEF RowsOf
  <2> QED  BY <1>a, <2>1 DEF RowsInv, RowTrue, Pair
<1>6. PauseIsKept  BY <1>a DEF PauseIsKept, RowsInv, RowTrue
<1> QED  BY <1>a, <1>1, <1>2, <1>3, <1>4, <1>5, <1>6 DEF DiskAgrees, ComesBackOnce

LEMMA InitInv == Init => RestartInv
<1> SUFFICES ASSUME Init PROVE RestartInv  OBVIOUS
<1>a. /\ \A f \in Families, i \in Ids : disk[f][i] = None
      /\ \A i \in Ids : marks[i] = "no" /\ rows[i] = None /\ hosts[i] = None
      /\ \A x \in Items : wish[x] = "new"
      /\ boot = [at |-> "up", todo |-> [k \in Kinds |-> {}], codes |-> {}, hand |-> None]
      /\ nap = None
  BY DEF Init, Fresh
<1>b. \A k \in Kinds : boot.todo[k] = {}  BY <1>a
<1>c. boot.at = "up" /\ boot.hand = None /\ boot.codes = {}  BY <1>a
<1>d. \A k \in Kinds, i \in Ids, x \in Items : ~Old(k, i, x)
  BY <1>a, <1>b DEF Old, Listed, Filed, Families
<1>e. Kinds \subseteq Families /\ {"pend", "dl", "sendto"} \subseteq Kinds  BY DEF Families, Kinds
<1>1. TypeOK
  <2>1. boot \in [at : Phases, todo : [Kinds -> SUBSET ReadRec], codes : SUBSET ReadRec,
                  hand : HandRec \cup {None}]
    BY <1>a DEF Phases
  <2>2. nextId \in 1 .. MaxId + 1 /\ crashes \in 0 .. MaxCrashes
    BY RestartConstants DEF Init, FirstId, RestartConstants
  <2> QED  BY <2>1, <2>2 DEF TypeOK, Init
<1>2. PendInv /\ PhaseInv /\ ClashInv /\ HandClash /\ TodoInv
  BY <1>a, <1>b, <1>c, <1>d, <1>e
     DEF PendInv, PhaseInv, ClashInv, HandClash, TodoInv, Live, Up
<1>3. RecordsInv /\ OldInv /\ HandInv /\ RowsInv /\ PlaceInv /\ MarksInv /\ CodesInv
  BY <1>a, <1>b, <1>c, <1>d, <1>e
     DEF RecordsInv, OldInv, HandInv, RowsInv, PlaceInv, MarksInv, CodesInv, Live, Families
<1> QED  BY <1>1, <1>2, <1>3 DEF RestartInv

-----------------------------------------------------------------------------
(* Steps that leave the start where it is.                                 *)
(*                                                                         *)
(* At each number such a step does one of five things: nothing to the row  *)
(* (Still), the clearing of what was taken over (Cleared), the work of the *)
(* row's own task (Worked), a registration (Begun), an end (Wiped).        *)

NoCode == Families \ {"code"}
Active == {"go", "stop", "sleep"}

Still(i) ==
    /\ rows'[i] = rows[i]
    /\ \A f \in NoCode : disk'[f][i] = disk[f][i]
    /\ marks'[i] = marks[i] \/ (Up /\ ~Live(i) /\ (marks'[i] # "no" => marks[i] # "no"))

Cleared(i) ==
    /\ boot.hand # None /\ i = boot.hand.id
    /\ rows'[i] = rows[i] /\ marks'[i] = marks[i]
    /\ \A f \in NoCode : disk'[f][i] = disk[f][i] \/
          (disk'[f][i] = None /\ (f = "upl" \/ (f = "dep" /\ boot.at = "dep")))

\* What RowsInv asks of a row that this step has changed.
RowGood(i) ==
    rows'[i].item \notin exposed' =>
        /\ disk'[rows'[i].kind][i] # None /\ disk'[rows'[i].kind][i].item = rows'[i].item
        /\ rows'[i].seal # None => rows'[i].seal.item = rows'[i].item
        /\ rows'[i].prep \in {None, rows'[i].item}
        /\ wish'[rows'[i].item] # "new"
        /\ wish'[rows'[i].item] = "stop" =>
             \/ rows'[i].kind = "dl" /\ rows'[i].st \in {"stopping", "paused"} /\ marks'[i] = "user"
             \/ rows'[i].kind = "sendto" /\ rows'[i].st = "paused"
                  /\ disk'["sendto"][i].tag = "paused"

Worked(i) ==
    /\ Live(i) /\ rows'[i] # None /\ rows'[i].item = rows[i].item
    /\ rows'[i] = rows[i] \/ ~(rows[i].kind = "dl" /\ rows[i].st = "handing")
    /\ RowPhase(rows'[i])
    /\ \/ rows'[i].kind = rows[i].kind
       \/ rows[i].kind = "sendto" /\ rows'[i].kind = "dep"
       \/ rows[i].kind = "pend" /\ rows'[i].kind = "send"
    /\ HandingSend(rows'[i]) => rows[i].kind = "pend" \/ HandingSend(rows[i])
    /\ \A f \in NoCode \ (Own(rows[i]) \cup Own(rows'[i])) : disk'[f][i] = disk[f][i]
    /\ \A f \in Own(rows[i]) \ Own(rows'[i]) : disk'[f][i] = None
    /\ \A f \in Own(rows'[i]) : \/ disk'[f][i] = disk[f][i] /\ f \in Own(rows[i])
                                \/ disk'[f][i] = None
                                \/ OfRow(disk'[f][i], rows[i], f)
    /\ Up \/ marks'[i] \in {marks[i], "user"}
    /\ marks'[i] # "no" => marks[i] # "no" \/ rows'[i].kind = "dl"
    /\ RowGood(i)

Seeded(y) ==
    \E j \in RowsOf(y) : /\ rows[j].kind = "dl" /\ rows[j].st = "run"
                         /\ rows'[j] = [rows[j] EXCEPT !.st = "handing"]

Begun(i) ==
    LET row == rows'[i] IN
    /\ i = nextId /\ nextId' = nextId + 1
    /\ row # None /\ RowPhase(row)
    /\ \A f \in NoCode : \/ disk'[f][i] = disk[f][i]
                         \/ f \in Own(row) /\ disk'[f][i] = None
                         \/ f \in Own(row) /\ \/ disk'[f][i].item = row.item
                                              \/ f \in {"prep", "upl"} /\ row.item \in exposed'
    /\ marks'[i] = marks[i] \/ (marks'[i] = "user" /\ row.kind = "dl")
    /\ \A k \in Shelf(row.kind), y \in Items :
          Filed(k, i, y) \/ Listed(k, i, y) => y \in exposed' /\ row.item \in exposed'
    /\ boot.at = "load" => row.item \in exposed'
    /\ boot'.hand # None => row.kind \in {"dl", "send"}
    /\ \/ InHand(row.item) /\ boot'.hand = None
       \/ wish[row.item] = "new"
       \/ row.kind = "send" /\ Seeded(row.item)
    /\ RowGood(i)

Wiped(i, x) ==
    /\ rows'[i] = None
    /\ \/ Live(i) /\ x = rows[i].item
       \/ ~Live(i) /\ InHand(x) /\ boot'.hand = None
    /\ \A f \in NoCode : disk'[f][i] \in {disk[f][i], None}
    /\ Live(i) => \A f \in Own(rows[i]) : disk'[f][i] = None
    /\ \A k \in Kinds : \/ disk'[k][i] = disk[k][i]
                        \/ disk[k][i].item \in exposed' \cup {x}
                        \/ Live(i) /\ k \in Shelf(rows[i].kind)
    /\ \/ marks'[i] = "no" /\ disk'["dl"][i] = None
       \/ /\ marks'[i] = marks[i] /\ disk'["dl"][i] = disk["dl"][i]
          /\ Live(i) => rows[i].kind # "dl"
    /\ wish'[x] \in Active => \E j \in Ids : rows'[j] # None /\ rows'[j].item = x

Change(i) == Still(i) \/ Cleared(i) \/ Worked(i) \/ Begun(i) \/ \E x \in Items : Wiped(i, x)

\* The codes answered for and their records.
CodesMove ==
    \A i \in Ids :
        \/ disk'["code"][i] = disk["code"][i] /\ hosts'[i] = hosts[i]
        \/ /\ i < nextId'
           /\ disk'["code"][i] # None => hosts'[i] = disk'["code"][i].item
           /\ rows'[i] # None /\ (rows'[i].kind = "pend" \/ HandingSend(rows'[i])) => hosts'[i] = None

WishMoves(x) ==
    /\ \/ wish'[x] = wish[x] \/ RowsOf(x) # {} \/ wish[x] = "new" \/ x \in exposed'
       \/ InHand(x) /\ boot'.hand = None
    /\ wish'[x] = "new" => wish[x] = "new"
    /\ wish'[x] = "stop" => \/ wish[x] = "stop"
                            \/ \E j \in RowsOf(x) : /\ rows[j].kind \in {"dl", "sendto"}
                                                    /\ rows[j].st # "handing" /\ Worked(j)
    /\ wish'[x] \in Active => \/ wish[x] \in Active /\ ~(InHand(x) /\ boot'.hand = None)
                              \/ \E j \in Ids : rows'[j] # None /\ rows'[j].item = x

Steady ==
    /\ boot'.at = boot.at /\ boot'.todo = boot.todo /\ boot'.hand \in {boot.hand, None}
    /\ exposed \subseteq exposed'
    /\ nextId <= nextId'
    /\ nap' # None => Up
    /\ \A i \in Ids : Change(i)
    /\ CodesMove
    /\ \A x \in Items : WishMoves(x)
    /\ \A i \in Ids : disk'["pend"][i] # None =>
          disk'["pend"][i] = disk["pend"][i] \/ disk'["pend"][i].tag \in PendTags

-----------------------------------------------------------------------------
(* They keep the invariant.                                                *)

\* The families of records are these.
LEMMA KindFacts ==
    /\ Kinds \subseteq NoCode /\ "upl" \in NoCode /\ "prep" \in NoCode
    /\ "upl" \notin Kinds /\ "prep" \notin Kinds /\ "code" \notin NoCode
    /\ NoCode = Kinds \cup {"upl", "prep"} /\ Families = NoCode \cup {"code"}
  BY DEF NoCode, Kinds, Families

LEMMA OwnIs ==
    ASSUME NEW row \in Row
    PROVE  /\ Own(row) \subseteq NoCode /\ row.kind \in Own(row)
           /\ Own(row) \cap Kinds \subseteq Shelf(row.kind)
           /\ Shelf(row.kind) \subseteq Kinds
           /\ "upl" \in Own(row) => row.kind \in {"sendto", "link"}
           /\ "prep" \in Own(row) => row.kind = "sendto"
           /\ "link" \in Own(row) => row.kind = "link"
           /\ "dl" \in Own(row) => row.kind = "dl"
           /\ "dep" \in Own(row) => row.kind = "dep"
           /\ "pend" \in Own(row) => row.kind = "pend" \/ HandingSend(row)
  BY DEF Own, Shelf, NoCode, Families, Kinds, Row, HandingSend

\* During the first phase nobody is on the list but those at risk.
LEMMA LoadRows ==
    ASSUME RestartInv, boot.at = "load", NEW i \in Ids, Live(i)
    PROVE  rows[i].item \in exposed
<1> SUFFICES ASSUME rows[i].item \notin exposed PROVE FALSE  OBVIOUS
<1>1. rows[i] \in Row  BY DEF RestartInv, TypeOK, Live
<1>2. Filed(rows[i].kind, i, rows[i].item)  BY DEF RestartInv, RowsInv, RowTrue
<1>3. Old(rows[i].kind, i, rows[i].item)  BY <1>2 DEF Old, Unread
<1>4. rows[i].kind \in Shelf(rows[i].kind) /\ rows[i].kind \in Kinds /\ rows[i].item \in Items
  BY <1>1 DEF Shelf, Kinds, Row
<1> QED  BY <1>3, <1>4 DEF RestartInv, ClashInv

\* A family a row writes is past the time at which it is read.
LEMMA OwnIsRead ==
    ASSUME NEW row \in Row, RowPhase(row), NEW k \in Kinds, k \in Own(row), Unread(k)
    PROVE  boot.at = "load"
<1>1. CASE k = "link"  BY <1>1, OwnIs DEF Unread, RowPhase
<1>2. CASE k = "pend"  BY <1>2, OwnIs DEF Unread, RowPhase
<1>3. CASE k \notin {"link", "pend"}  BY <1>3 DEF Unread
<1> QED  BY <1>1, <1>2, <1>3

\* Once there are held sends, deposits have all been read.
LEMMA DepositsRead ==
    ASSUME RestartInv, NEW i \in Ids, Live(i), rows[i].kind = "sendto", NEW x \in Items
    PROVE  ~Old("dep", i, x)
<1>1. boot.at \notin {"load", "dep"}  BY DEF RestartInv, PhaseInv, RowPhase, TooEarly
<1>2. boot.todo["dep"] = {}  BY <1>1 DEF RestartInv, PhaseInv, Reading, Kinds
<1> QED  BY <1>1, <1>2 DEF Old, Listed, Unread

\* What waits to be restored and is not at risk is where it was read.
LEMMA OldFiled ==
    ASSUME RestartInv, NEW k \in Kinds, NEW i \in Ids, NEW x \in Items, Old(k, i, x), x \notin exposed
    PROVE  Filed(k, i, x)
<1>1. CASE Listed(k, i, x)
  <2>1. PICK r \in boot.todo[k] : r.id = i /\ r.item = x  BY <1>1 DEF Listed
  <2>2. disk[k][i] = [item |-> x, tag |-> r.tag]  BY <2>1 DEF RestartInv, TodoInv
  <2>3. r.tag \in Tags  BY <2>1 DEF RestartInv, TypeOK, ReadRec
  <2> QED  BY <2>2, <2>3, RestartNone DEF Filed, Rec
<1> QED  BY <1>1 DEF Old

LEMMA StepTypes ==
    ASSUME TypeOK, TypeOK', Steady, NEW i \in Ids
    PROVE  /\ rows[i] # None => rows[i] \in Row
           /\ rows'[i] # None => rows'[i] \in Row
           /\ \A f \in Families : disk[f][i] \in Rec \cup {None} /\ disk'[f][i] \in Rec \cup {None}
  BY DEF TypeOK

\* No step of these puts an item back to be restored ...
LEMMA OldIsOld ==
    ASSUME RestartInv, TypeOK', Steady, NEW k \in Kinds, NEW i \in Ids, NEW x \in Items, Old(k, i, x)'
    PROVE  Old(k, i, x) \/ (x \in exposed' /\ rows'[i] # None /\ x = rows'[i].item)
<1> SUFFICES ASSUME ~Old(k, i, x)
             PROVE x \in exposed' /\ rows'[i] # None /\ x = rows'[i].item
  OBVIOUS
<1>0. TypeOK /\ PhaseInv  BY DEF RestartInv
<1>1. Unread(k) /\ disk'[k][i] # None /\ disk'[k][i].item = x
  BY DEF Old, Listed, Unread, Filed, Steady, TooEarly
<1>2. disk'[k][i] # disk[k][i]  BY <1>1 DEF Old, Filed
<1>3. k \in NoCode  BY KindFacts
<1>4. Change(i)  BY DEF Steady
<1>5. ~Still(i)  BY <1>2, <1>3 DEF Still
<1>6. ~Cleared(i)  BY <1>1, <1>2, <1>3 DEF Cleared
<1>7. ~\E y \in Items : Wiped(i, y)  BY <1>1, <1>2, <1>3 DEF Wiped
<1>8. CASE Worked(i)
  <2>1. rows[i] \in Row /\ rows'[i] \in Row  BY <1>0, <1>8, StepTypes DEF Worked, Live
  <2>2. RowPhase(rows[i]) /\ RowPhase(rows'[i])  BY <1>0, <1>8 DEF Worked, PhaseInv
  <2>3. k \in Own(rows[i]) \cup Own(rows'[i])  BY <1>2, <1>3, <1>8 DEF Worked
  <2>4. boot.at = "load"  BY <1>1, <2>1, <2>2, <2>3, OwnIsRead
  <2>5. rows[i].item \in exposed  BY <2>4, <1>8, LoadRows DEF Worked
  <2>6. disk'[k][i].item = rows[i].item
    <3>1. k \in Own(rows'[i])  BY <1>1, <1>8, <2>3 DEF Worked
    <3> QED  BY <1>1, <1>2, <1>8, <3>1, KindFacts DEF Worked, OfRow
  <2> QED  BY <1>1, <1>8, <2>5, <2>6 DEF Worked, Steady
<1>9. CASE Begun(i)
  <2>1. rows'[i] \in Row /\ rows'[i] # None /\ RowPhase(rows'[i])
    BY <1>0, <1>9, StepTypes DEF Begun
  <2>2. k \in Own(rows'[i]) /\ disk'[k][i].item = rows'[i].item
    BY <1>1, <1>2, <1>3, <1>9, KindFacts DEF Begun
  <2>3. boot.at = "load"  BY <1>1, <2>1, <2>2, OwnIsRead
  <2> QED  BY <1>1, <1>9, <2>1, <2>2, <2>3 DEF Begun
<1> QED  BY <1>4, <1>5, <1>6, <1>7, <1>8, <1>9 DEF Change

\* ... or touches the record of one that is not at risk.
LEMMA OldStays ==
    ASSUME RestartInv, TypeOK', Steady, NEW k \in Kinds, NEW i \in Ids, NEW x \in Items,
           Old(k, i, x), x \notin exposed'
    PROVE  disk'[k][i] = disk[k][i] /\ Old(k, i, x)'
<1>0. TypeOK /\ PhaseInv /\ x \notin exposed  BY DEF RestartInv, Steady
<1>1. Filed(k, i, x)  BY <1>0, OldFiled
<1>2. k \in NoCode  BY KindFacts
<1>3. RowsOf(x) = {} /\ ~InHand(x)  BY <1>0 DEF RestartInv, OldInv, OldTrue
<1>4. Change(i)  BY DEF Steady
<1>5. disk'[k][i] = disk[k][i]
  <2> SUFFICES ASSUME disk'[k][i] # disk[k][i] PROVE FALSE  OBVIOUS
  <2>1. ~Still(i)  BY <1>2 DEF Still
  <2>2. ~Cleared(i)
    <3> SUFFICES ASSUME Cleared(i) PROVE FALSE  OBVIOUS
    <3>1. k = "dep" /\ boot.at = "dep" /\ boot.hand # None /\ i = boot.hand.id
      BY <1>2, KindFacts DEF Cleared
    <3>2. ~Listed(k, i, x)  BY <3>1 DEF RestartInv, TodoInv, Listed
    <3> QED  BY <3>1, <3>2 DEF Old, Unread
  <2>3. ~Worked(i)
    <3> SUFFICES ASSUME Worked(i) PROVE FALSE  OBVIOUS
    <3>1. rows[i] \in Row /\ rows'[i] \in Row /\ Live(i)  BY <1>0, StepTypes DEF Worked, Live
    <3>2. k \in Own(rows[i]) \cup Own(rows'[i])  BY <1>2 DEF Worked
    <3>3. k \in Shelf(rows[i].kind) \/ (k = "dep" /\ rows[i].kind = "sendto")
      BY <3>1, <3>2, OwnIs DEF Worked, Shelf, Own, HandingSend
    <3> QED  BY <1>0, <3>1, <3>3, DepositsRead DEF RestartInv, ClashInv
  <2>4. ~Begun(i)
    <3> SUFFICES ASSUME Begun(i) PROVE FALSE  OBVIOUS
    <3>1. rows'[i] \in Row  BY <1>0, StepTypes DEF Begun
    <3>2. k \in Shelf(rows'[i].kind)  BY <1>2, <3>1, OwnIs DEF Begun
    <3> QED  BY <1>1, <3>2 DEF Begun
  <2>5. ASSUME NEW y \in Items, Wiped(i, y) PROVE FALSE
    <3>1. CASE Live(i) /\ k \in Shelf(rows[i].kind)
      BY <1>0, <3>1 DEF RestartInv, ClashInv
    <3>2. CASE x = y  BY <1>3, <2>5, <3>2 DEF Wiped, RowsOf
    <3> QED  BY <1>1, <2>5, <3>1, <3>2 DEF Wiped, Filed
  <2> QED  BY <1>4, <2>1, <2>2, <2>3, <2>4, <2>5 DEF Change
<1> QED  BY <1>1, <1>5 DEF Old, Listed, Filed, Unread, TooEarly, Steady

\* A row after the step was on the list before it, or is begun.
LEMMA RowCameFrom ==
    ASSUME RestartInv, TypeOK', Steady, NEW i \in Ids, rows'[i] # None
    PROVE  \/ Live(i) /\ rows'[i].item = rows[i].item /\ (Still(i) \/ Cleared(i) \/ Worked(i))
           \/ Begun(i) /\ ~Live(i)
<1>1. Change(i)  BY DEF Steady
<1>2. ~\E x \in Items : Wiped(i, x)  BY DEF Wiped
<1>3. Still(i) => Live(i) /\ rows'[i].item = rows[i].item  BY DEF Still, Live
<1>4. Cleared(i) => Live(i) /\ rows'[i].item = rows[i].item  BY DEF Cleared, Live
<1>5. Worked(i) => Live(i) /\ rows'[i].item = rows[i].item  BY DEF Worked
<1>6. Begun(i) => ~Live(i)
  <2>1. nextId \in Nat /\ i \in Nat
    BY RestartConstants DEF RestartInv, TypeOK, RestartConstants, Ids, FirstId
  <2> QED  BY <2>1 DEF Begun, RestartInv, PhaseInv
<1> QED  BY <1>1, <1>2, <1>3, <1>4, <1>5, <1>6 DEF Change

\* Whoever waits to be restored, or is in the hand and stays there, is not put
\* on the list.
LEMMA NoNewRow ==
    ASSUME RestartInv, TypeOK', Steady, NEW x \in Items, RowsOf(x) = {}, wish[x] # "new",
           ~(InHand(x) /\ boot'.hand = None)
    PROVE  RowsOf(x)' = {}
<1> SUFFICES ASSUME NEW i \in Ids, rows'[i] # None, rows'[i].item = x PROVE FALSE
  BY DEF RowsOf, Live
<1>1. ~(Live(i) /\ rows[i].item = x)  BY DEF RowsOf
<1>2. Begun(i)  BY <1>1, RowCameFrom
<1> QED  BY <1>2 DEF Begun, Seeded

LEMMA SteadyPhase == ASSUME RestartInv, TypeOK', Steady PROVE PendInv' /\ PhaseInv'
<1>0. TypeOK /\ PhaseInv /\ PendInv  BY DEF RestartInv
<1>1. PendInv'
  <2>1. \A i \in Ids : disk'["pend"][i] # None => disk'["pend"][i].tag \in PendTags
    BY <1>0 DEF Steady, PendInv
  <2> QED  BY <1>0, <2>1 DEF Steady, PendInv, PendTags
<1>2. PhaseInv'
  <2>1. \A k \in Kinds : boot'.todo[k] # {} => boot'.at \in Reading(k)  BY <1>0 DEF Steady, PhaseInv
  <2>2. (boot'.hand # None => boot'.at \in Kinds) /\ (nap' # None => Up')
    BY <1>0 DEF Steady, PhaseInv, Up
  <2>3. ASSUME NEW i \in Ids, rows'[i] # None PROVE i < nextId' /\ RowPhase(rows[i])'
    <3>1. nextId \in Nat /\ nextId' \in Nat /\ i \in Nat
      BY <1>0, RestartConstants DEF TypeOK, RestartConstants, Ids, FirstId
    <3>2. CASE Live(i) /\ (Still(i) \/ Cleared(i) \/ Worked(i))
      <4>1. i < nextId'  BY <1>0, <3>1, <3>2 DEF PhaseInv, Steady
      <4>2. RowPhase(rows'[i])
        BY <1>0, <3>2 DEF PhaseInv, Still, Cleared, Worked
      <4> QED  BY <4>1, <4>2 DEF RowPhase, Steady, HandingSend, TooEarly
    <3>3. CASE Begun(i)
      BY <3>1, <3>3 DEF Begun, RowPhase, Steady, HandingSend, TooEarly
    <3> QED  BY <2>3, <3>2, <3>3, RowCameFrom
  <2> QED  BY <2>1, <2>2, <2>3 DEF PhaseInv, Live, Reading
<1> QED  BY <1>1, <1>2

LEMMA SteadyClash == ASSUME RestartInv, TypeOK', Steady PROVE ClashInv' /\ HandClash'
<1>0. TypeOK /\ PhaseInv /\ ClashInv /\ HandClash  BY DEF RestartInv
<1>1. ASSUME NEW i \in Ids, Worked(i), NEW k \in Shelf(rows'[i].kind)
      PROVE k \in Shelf(rows[i].kind) \/ (k = "dep" /\ rows[i].kind = "sendto" /\ Live(i))
  BY <1>1 DEF Worked, Shelf
<1>2. ASSUME NEW i \in Ids, NEW k \in Kinds, NEW x \in Items, rows'[i] # None,
             k \in Shelf(rows'[i].kind), Old(k, i, x)'
      PROVE x \in exposed' /\ rows'[i].item \in exposed'
  <2>1. CASE ~Old(k, i, x)  BY <1>2, <2>1, OldIsOld
  <2>2. CASE Old(k, i, x) /\ Begun(i)
    <3>1. Filed(k, i, x) \/ Listed(k, i, x)  BY <2>2 DEF Old
    <3> QED  BY <1>2, <2>2, <3>1 DEF Begun
  <2>3. CASE Old(k, i, x) /\ Live(i) /\ rows'[i].item = rows[i].item /\ k \in Shelf(rows[i].kind)
    BY <1>0, <2>3 DEF ClashInv, Steady
  <2>4. CASE Old(k, i, x) /\ Live(i) /\ k = "dep" /\ rows[i].kind = "sendto"
    BY <2>4, DepositsRead
  <2>5. \/ Begun(i)
        \/ Live(i) /\ rows'[i].item = rows[i].item /\ rows'[i].kind = rows[i].kind
        \/ Live(i) /\ rows'[i].item = rows[i].item /\ Worked(i)
    BY <1>2, RowCameFrom DEF Still, Cleared
  <2> QED  BY <1>1, <1>2, <2>1, <2>2, <2>3, <2>4, <2>5
<1>3. HandClash'
  <2> SUFFICES ASSUME boot'.hand # None, boot'.at \in {"dep", "sendto", "link"},
                      rows'[boot'.hand.id] # None, rows'[boot'.hand.id].kind \in Shelf(boot'.at)
               PROVE  boot'.hand.item \in exposed' /\ rows'[boot'.hand.id].item \in exposed'
    BY DEF HandClash, Live, Shelf
  <2>1. boot'.hand = boot.hand /\ boot'.at = boot.at  BY DEF Steady
  <2> DEFINE i == boot.hand.id
  <2>2. i \in Ids  BY <1>0, <2>1 DEF TypeOK, HandRec
  <2>3. ~Begun(i)  BY <2>1 DEF Begun, Shelf
  <2>4. Live(i) /\ rows'[i].item = rows[i].item
        /\ (rows'[i].kind = rows[i].kind \/ Worked(i))
    BY SMTT(30), <2>1, <2>2, <2>3, RowCameFrom DEF Still, Cleared
  <2>5. rows[i].kind \in Shelf(boot.at)
    <3>1. CASE rows'[i].kind = rows[i].kind  BY <2>1, <3>1
    <3>2. CASE Worked(i) /\ rows[i].kind = "sendto"
      <4>1. boot.at # "dep"  BY <1>0, <2>2, <2>4, <3>2 DEF PhaseInv, RowPhase, TooEarly
      <4> QED  BY <2>1, <3>2, <4>1 DEF Shelf
    <3>3. CASE Worked(i) /\ rows[i].kind = "pend" /\ rows'[i].kind = "send"
      BY <2>1, <3>3 DEF Shelf
    <3> QED  BY <2>4, <3>1, <3>2, <3>3 DEF Worked
  <2> QED  BY <1>0, <2>1, <2>4, <2>5 DEF HandClash, Steady
<1> QED  BY <1>2, <1>3 DEF ClashInv, Live

LEMMA SteadyTodo == ASSUME RestartInv, TypeOK', Steady PROVE TodoInv'
<1>0. TypeOK /\ PhaseInv /\ ClashInv /\ TodoInv  BY DEF RestartInv
<1> SUFFICES ASSUME NEW k \in Kinds, NEW r \in boot.todo[k]
             PROVE /\ \A q \in boot.todo[k] : q.id = r.id => q = r
                   /\ r.item \notin exposed' => disk'[k][r.id] = [item |-> r.item, tag |-> r.tag]
                   /\ disk'[k][r.id] # None => disk'[k][r.id].item \in exposed' \cup {r.item}
                   /\ boot'.hand # None /\ boot'.at = k => r.id # boot'.hand.id
  BY DEF TodoInv, Steady
<1>1. r \in ReadRec /\ r.id \in Ids /\ r.item \in Items  BY <1>0 DEF TypeOK, ReadRec
<1>2. Listed(k, r.id, r.item)  BY DEF Listed
<1>3. exposed \subseteq exposed'  BY DEF Steady
<1>4. r.item \notin exposed' => disk'[k][r.id] = disk[k][r.id]
  BY <1>1, <1>2, OldStays DEF Old
<1>5. ASSUME disk'[k][r.id] # None, disk'[k][r.id] # disk[k][r.id]
      PROVE  disk'[k][r.id].item \in exposed'
  <2> DEFINE i == r.id
  <2>1. k \in NoCode  BY KindFacts
  <2>2. CASE Worked(i)
    <3>1. rows[i] \in Row /\ rows'[i] \in Row /\ Live(i) /\ i \in Ids
      BY <1>0, <1>1, <2>2, StepTypes DEF Worked, Live
    <3>2. k \in Own(rows'[i])  BY <1>5, <2>1, <2>2 DEF Worked
    <3>3. k \in Shelf(rows[i].kind) \/ (k = "dep" /\ rows[i].kind = "sendto")
      BY <3>1, <3>2, <2>2, OwnIs DEF Worked, Shelf
    <3>4. rows[i].item \in exposed
      BY <1>0, <1>1, <1>2, <3>1, <3>3, DepositsRead DEF ClashInv, Old
    <3>5. disk'[k][i].item = rows[i].item  BY <1>5, <2>2, <3>2, KindFacts DEF Worked, OfRow
    <3> QED  BY <1>3, <3>4, <3>5
  <2>3. CASE Begun(i)
    <3>1. rows'[i] \in Row  BY <1>0, <1>1, <2>3, StepTypes DEF Begun
    <3>2. k \in Own(rows'[i]) /\ disk'[k][i].item = rows'[i].item
      BY <1>5, <2>1, <2>3, KindFacts DEF Begun
    <3>3. k \in Shelf(rows'[i].kind)  BY <3>1, <3>2, OwnIs
    <3> QED  BY <1>1, <1>2, <2>3, <3>2, <3>3 DEF Begun
  <2>4. ~Still(i) /\ ~Cleared(i) /\ ~\E x \in Items : Wiped(i, x)
    BY <1>5, <2>1 DEF Still, Cleared, Wiped
  <2> QED  BY <1>1, <2>2, <2>3, <2>4 DEF Steady, Change
<1> QED  BY <1>0, <1>3, <1>4, <1>5 DEF TodoInv, Steady

LEMMA SteadyRecords == ASSUME RestartInv, TypeOK', Steady PROVE RecordsInv'
<1>0. TypeOK /\ RecordsInv  BY DEF RestartInv
<1> SUFFICES ASSUME NEW f \in NoCode, NEW i \in Ids, disk'[f][i] # None, ~Awaited(f, i)
             PROVE  rows'[i] # None /\ f \in Own(rows'[i]) /\ OfRow(disk[f][i], rows[i], f)'
  BY DEF RecordsInv, NoCode, Awaited, Steady, Unread, TooEarly, Live, Own, HandingSend
<1>1. disk[f][i] # None => Live(i) /\ f \in Own(rows[i]) /\ OfRow(disk[f][i], rows[i], f)
  BY <1>0 DEF RecordsInv, NoCode
<1>2. exposed \subseteq exposed'  BY DEF Steady
<1>3. CASE Still(i)  BY <1>1, <1>2, <1>3 DEF Still, Live, OfRow
<1>4. CASE Cleared(i)  BY <1>1, <1>2, <1>4 DEF Cleared, Live, OfRow
<1>5. CASE Worked(i)
  <2>1. f \in Own(rows'[i])  BY <1>1, <1>5 DEF Worked
  <2> QED  BY <1>1, <1>2, <1>5, <2>1 DEF Worked, OfRow
<1>6. CASE Begun(i)
  <2>1. disk'[f][i] # disk[f][i]
    <3>1. ~Live(i)
      <4>1. nextId \in Nat  BY <1>0, RestartConstants DEF TypeOK, RestartConstants
      <4> QED  BY <1>6, <4>1 DEF Begun, RestartInv, PhaseInv
    <3> QED  BY <1>1, <3>1
  <2> QED  BY <1>6, <2>1 DEF Begun, OfRow
<1>7. CASE \E x \in Items : Wiped(i, x)  BY <1>1, <1>7 DEF Wiped
<1> QED  BY <1>3, <1>4, <1>5, <1>6, <1>7 DEF Steady, Change

\* The key and the preparation beside a record that is not at risk are only
\* ever taken away.
LEMMA KeysStay ==
    ASSUME RestartInv, TypeOK', Steady, NEW k \in {"sendto", "link"}, NEW i \in Ids, NEW x \in Items,
           Old(k, i, x), x \notin exposed', NEW f \in {"upl", "prep"}
    PROVE  disk'[f][i] \in {disk[f][i], None}
<1>0. TypeOK /\ f \in NoCode /\ k \in Kinds /\ x \notin exposed
  BY KindFacts DEF RestartInv, Kinds, Steady
<1> SUFFICES ASSUME disk'[f][i] # disk[f][i], disk'[f][i] # None PROVE FALSE  OBVIOUS
<1>1. ~Still(i)  BY <1>0 DEF Still
<1>2. ~Cleared(i)  BY <1>0 DEF Cleared
<1>3. ~\E y \in Items : Wiped(i, y)  BY <1>0 DEF Wiped
<1>4. CASE Worked(i)
  <2>1. rows[i] \in Row /\ rows'[i] \in Row /\ Live(i)  BY <1>0, <1>4, StepTypes DEF Worked, Live
  <2>2. f \in Own(rows[i]) \cup Own(rows'[i])  BY <1>0, <1>4 DEF Worked
  <2>3. rows[i].kind \in {"sendto", "link"}  BY <1>4, <2>1, <2>2, OwnIs DEF Worked
  <2>4. k \in Shelf(rows[i].kind)  BY <2>3 DEF Shelf
  <2> QED  BY <1>0, <2>1, <2>4 DEF RestartInv, ClashInv
<1>5. CASE Begun(i)
  <2>1. rows'[i] \in Row  BY <1>0, <1>5, StepTypes DEF Begun
  <2>2. f \in Own(rows'[i])  BY <1>0, <1>5 DEF Begun
  <2>3. rows'[i].kind \in {"sendto", "link"}  BY <2>1, <2>2, OwnIs
  <2>4. k \in Shelf(rows'[i].kind)  BY <2>3 DEF Shelf
  <2>5. Filed(k, i, x)  BY <1>0, OldFiled
  <2> QED  BY <1>5, <2>4, <2>5 DEF Begun
<1> QED  BY <1>1, <1>2, <1>3, <1>4, <1>5 DEF Steady, Change

\* So is the marker of a download.
LEMMA MarkStays ==
    ASSUME RestartInv, TypeOK', Steady, NEW i \in Ids, NEW x \in Items,
           Old("dl", i, x), x \notin exposed', marks[i] = "user"
    PROVE  marks'[i] = "user"
<1>0. TypeOK /\ PhaseInv /\ x \notin exposed /\ "dl" \in Kinds  BY DEF RestartInv, Kinds, Steady
<1>1. Filed("dl", i, x) /\ disk'["dl"][i] = disk["dl"][i]  BY <1>0, OldFiled, OldStays
<1>2. ~Up
  BY <1>0 DEF Old, Listed, Unread, Up, PhaseInv, Reading, TooEarly, Kinds
<1>3. CASE Still(i) \/ Cleared(i)  BY <1>2, <1>3 DEF Still, Cleared
<1>4. CASE Worked(i)  BY <1>2, <1>4 DEF Worked
<1>5. CASE Begun(i)  BY <1>5 DEF Begun
<1>6. CASE \E y \in Items : Wiped(i, y)  BY <1>1, <1>6 DEF Wiped, Filed
<1> QED  BY <1>3, <1>4, <1>5, <1>6 DEF Steady, Change

LEMMA SteadyOld == ASSUME RestartInv, TypeOK', Steady PROVE OldInv'
<1> SUFFICES ASSUME NEW k \in Kinds, NEW i \in Ids, NEW x \in Items, Old(k, i, x)', x \notin exposed'
             PROVE  OldTrue(k, i, x)'
  BY DEF OldInv
<1>1. Old(k, i, x)  BY OldIsOld
<1>2. x \notin exposed  BY DEF Steady
<1>3. OldTrue(k, i, x)  BY <1>1, <1>2 DEF RestartInv, OldInv
<1>4. disk'[k][i] = disk[k][i]  BY <1>1, OldStays
<1>5. RowsOf(x)' = {}  BY <1>3, NoNewRow DEF OldTrue
<1>6. ~InHand(x)'  BY <1>3 DEF OldTrue, InHand, Steady
<1>7. ASSUME NEW l \in Kinds, NEW j \in Ids, Old(l, j, x)' PROVE l = k /\ j = i
  <2>1. Old(l, j, x)  BY <1>7, OldIsOld
  <2> QED  BY <1>3, <2>1 DEF OldTrue
<1>8. wish'[x] = wish[x]  BY <1>3 DEF OldTrue, Steady, WishMoves
<1>9. wish'[x] = "stop" => \/ k = "dl" /\ marks'[i] = "user"
                           \/ k = "sendto" /\ disk'["sendto"][i].tag = "paused"
  BY <1>1, <1>3, <1>4, <1>8, MarkStays DEF OldTrue
<1>10. k \in {"sendto", "link"} => Fits(disk'["upl"][i], x)
  BY <1>1, <1>3, KeysStay DEF OldTrue, Fits
<1>11. k = "sendto" => Fits(disk'["prep"][i], x)
  BY <1>1, <1>3, KeysStay DEF OldTrue, Fits
<1> QED  BY <1>3, <1>5, <1>6, <1>7, <1>8, <1>9, <1>10, <1>11 DEF OldTrue

LEMMA SteadyHand == ASSUME RestartInv, TypeOK', Steady PROVE HandInv'
<1> SUFFICES ASSUME boot'.hand # None, boot'.hand.item \notin exposed' PROVE HandTrue(boot.hand)'
  BY DEF HandInv
<1> DEFINE h == boot.hand
<1>1. boot'.hand = h /\ h # None /\ boot'.at = boot.at /\ h.item \notin exposed  BY DEF Steady
<1>2. HandTrue(h)  BY <1>1 DEF RestartInv, HandInv
<1>3. h \in HandRec /\ h.item \in Items /\ h.id \in Ids  BY <1>1 DEF RestartInv, TypeOK, HandRec
<1>4. RowsOf(h.item)' = {}  BY <1>1, <1>2, <1>3, NoNewRow DEF HandTrue
<1>5. wish'[h.item] = wish[h.item]  BY <1>1, <1>2, <1>3 DEF HandTrue, Steady, WishMoves
<1>6. ASSUME boot.at \in {"sendto", "link"} PROVE disk'["upl"][h.id] \in {disk["upl"][h.id], None}
  <2> DEFINE i == h.id
  <2>0. "upl" \in NoCode /\ i \in Ids /\ TypeOK  BY <1>3, KindFacts DEF RestartInv
  <2>1. Still(i) \/ Cleared(i) => disk'["upl"][i] \in {disk["upl"][i], None}
    BY <2>0 DEF Still, Cleared
  <2>2. ASSUME Worked(i) PROVE disk'["upl"][i] = disk["upl"][i]
    <3> SUFFICES ASSUME disk'["upl"][i] # disk["upl"][i] PROVE FALSE  OBVIOUS
    <3>1. rows[i] \in Row /\ rows'[i] \in Row /\ Live(i)  BY <2>0, <2>2, StepTypes DEF Worked, Live
    <3>2. "upl" \in Own(rows[i]) \cup Own(rows'[i])  BY <2>0, <2>2 DEF Worked
    <3>3. rows[i].kind \in {"sendto", "link"}  BY <2>2, <3>1, <3>2, OwnIs DEF Worked
    <3>4. rows[i].kind \in Shelf(boot.at)  BY <1>6, <3>3 DEF Shelf
    <3> QED  BY <1>1, <1>6, <3>1, <3>4 DEF RestartInv, HandClash
  <2>3. ASSUME Begun(i) PROVE disk'["upl"][i] = disk["upl"][i]
    <3>1. rows'[i] \in Row /\ rows'[i].kind \in {"dl", "send"}
      BY <1>1, <2>0, <2>3, StepTypes DEF Begun
    <3> QED  BY <2>0, <2>3, <3>1, OwnIs DEF Begun
  <2>4. (\E y \in Items : Wiped(i, y)) => disk'["upl"][i] \in {disk["upl"][i], None}
    BY <2>0 DEF Wiped
  <2> QED  BY <2>0, <2>1, <2>2, <2>3, <2>4 DEF Steady, Change
<1>7. boot.at \in {"sendto", "link"} => Fits(disk'["upl"][h.id], h.item)
  BY <1>2, <1>6 DEF HandTrue, Fits
<1> QED  BY <1>1, <1>2, <1>4, <1>5, <1>7 DEF HandTrue, Fits

\* The rows of an item that one of them is worked on, or seeded from, alone.
LEMMA Alone ==
    ASSUME RestartInv, NEW i \in Ids, NEW j \in Ids, Live(i), Live(j), rows[i].item = rows[j].item,
           rows[i].item \notin exposed,
           rows[j].kind \notin {"dl", "send"} \/ (rows[j].kind = "dl" /\ rows[j].st # "handing")
    PROVE  i = j
<1>1. RowTrue(i) /\ j \in RowsOf(rows[i].item)  BY DEF RestartInv, RowsInv, RowsOf
<1> QED  BY <1>1 DEF RowTrue, Pair

LEMMA SteadyRows == ASSUME RestartInv, TypeOK', Steady PROVE RowsInv'
<1>0. TypeOK /\ exposed \subseteq exposed'  BY DEF RestartInv, Steady
<1>1. ASSUME NEW i \in Ids, rows'[i] # None, rows'[i].item \notin exposed' PROVE RowGood(i)
  <2>1. CASE Worked(i)  BY <2>1 DEF Worked
  <2>2. CASE Begun(i)  BY <2>2 DEF Begun
  <2>3. CASE Live(i) /\ (Still(i) \/ Cleared(i)) /\ ~Worked(i)
    <3> DEFINE x == rows[i].item
    <3>1. rows'[i] = rows[i] /\ marks'[i] = marks[i] /\ x \notin exposed
      BY <1>0, <1>1, <2>3 DEF Still, Cleared
    <3>2. RowTrue(i) /\ rows[i] \in Row /\ x \in Items /\ rows[i].kind \in Kinds
      BY <1>0, <2>3, <3>1 DEF RestartInv, RowsInv, TypeOK, Live, Row
    <3>3. disk'[rows[i].kind][i] = disk[rows[i].kind][i]
      <4>1. rows[i].kind \in NoCode  BY <3>2, KindFacts
      <4>2. CASE Still(i)  BY <4>1, <4>2 DEF Still
      <4>3. CASE Cleared(i)
        <5> SUFFICES ASSUME disk'[rows[i].kind][i] # disk[rows[i].kind][i] PROVE FALSE  OBVIOUS
        <5>1. rows[i].kind = "dep" /\ boot.at = "dep" /\ boot.hand # None /\ i = boot.hand.id
          BY <4>1, <4>3, <3>2, KindFacts DEF Cleared
        <5>2. "dep" \in Shelf("dep")  BY DEF Shelf
        <5> QED  BY <2>3, <3>1, <5>1, <5>2 DEF RestartInv, HandClash
      <4> QED  BY <2>3, <4>2, <4>3
    <3>4. wish'[x] # "new"  BY <3>2 DEF RowTrue, Steady, WishMoves
    <3>5. wish'[x] = "stop" => wish[x] = "stop"
      <4> SUFFICES ASSUME wish'[x] = "stop", wish[x] # "stop" PROVE FALSE  OBVIOUS
      <4>1. PICK j \in RowsOf(x) : rows[j].kind \in {"dl", "sendto"} /\ rows[j].st # "handing" /\ Worked(j)
        BY <3>2 DEF Steady, WishMoves
      <4>2. j \in Ids /\ Live(j) /\ rows[j].item = x  BY DEF RowsOf
      <4>3. i = j  BY <2>3, <3>1, <4>1, <4>2, Alone
      <4> QED  BY <2>3, <4>1, <4>3
    <3> QED  BY <3>1, <3>2, <3>3, <3>4, <3>5 DEF RowTrue, RowGood, Filed
  <2> QED  BY <1>1, <2>1, <2>2, <2>3, RowCameFrom
<1>2. ASSUME NEW i \in Ids, NEW j \in Ids, rows'[i] # None, rows'[j] # None, i # j,
             rows'[i].item = rows'[j].item, rows'[i].item \notin exposed'
      PROVE  Pair(rows'[i], rows'[j]) \/ Pair(rows'[j], rows'[i])
  <2>1. ASSUME NEW a \in Ids, NEW b \in Ids, a # b, Live(a), Live(b), rows'[a] # None, rows'[b] # None,
               rows[a].item = rows[b].item, rows[a].item \notin exposed', Pair(rows[a], rows[b]),
               Still(a) \/ Cleared(a) \/ Worked(a), Still(b) \/ Cleared(b) \/ Worked(b)
        PROVE  Pair(rows'[a], rows'[b])
    <3>1. rows'[a] = rows[a]  BY <2>1 DEF Still, Cleared, Worked, Pair
    <3>2. rows'[b].kind = "send"  BY <2>1 DEF Still, Cleared, Worked, Pair
    <3> QED  BY <2>1, <3>1, <3>2 DEF Pair
  <2>2. ASSUME NEW a \in Ids, NEW b \in Ids, a # b, Begun(a), ~Live(a), Live(b),
               rows'[a].item = rows[b].item, rows[b].item \notin exposed'
        PROVE  Pair(rows'[b], rows'[a])
    <3> DEFINE x == rows[b].item
    <3>1. b \in RowsOf(x) /\ x \in Items /\ RowTrue(b) /\ x \notin exposed
      BY <1>0, <2>2 DEF RowsOf, TypeOK, Live, Row, RestartInv, RowsInv
    <3>2. ~InHand(x)
      BY <3>1 DEF RestartInv, HandInv, HandTrue, InHand
    <3>3. wish[x] # "new"  BY <3>1 DEF RowTrue
    <3>4. rows'[a].kind = "send" /\ Seeded(x)  BY <2>2, <3>2, <3>3 DEF Begun
    <3>5. PICK s \in RowsOf(x) : /\ rows[s].kind = "dl" /\ rows[s].st = "run"
                                 /\ rows'[s] = [rows[s] EXCEPT !.st = "handing"]
      BY <3>4 DEF Seeded
    <3>6. s \in Ids /\ Live(s) /\ rows[s].item = x  BY DEF RowsOf
    <3>7. s = b  BY <2>2, <3>1, <3>5, <3>6, Alone
    <3>8. rows[b] \in Row  BY <1>0, <2>2 DEF TypeOK, Live
    <3> QED  BY <3>4, <3>5, <3>7, <3>8 DEF Pair, Row
  <2>3. CASE Live(i) /\ Live(j)
    <3>1. rows'[i].item = rows[i].item /\ (Still(i) \/ Cleared(i) \/ Worked(i))
      BY <1>2, <2>3, RowCameFrom
    <3>2. rows'[j].item = rows[j].item /\ (Still(j) \/ Cleared(j) \/ Worked(j))
      BY <1>2, <2>3, RowCameFrom
    <3>3. Pair(rows[i], rows[j]) \/ Pair(rows[j], rows[i])
      BY <1>0, <1>2, <2>3, <3>1, <3>2 DEF RestartInv, RowsInv, RowTrue, RowsOf
    <3> QED  BY <1>2, <2>1, <2>3, <3>1, <3>2, <3>3
  <2>4. CASE ~Live(i) /\ Live(j)
    BY <1>2, <2>2, <2>4, RowCameFrom
  <2>5. CASE Live(i) /\ ~Live(j)
    BY <1>2, <2>2, <2>5, RowCameFrom
  <2>6. CASE ~Live(i) /\ ~Live(j)
    <3>1. Begun(i) /\ Begun(j)  BY <1>2, <2>6, RowCameFrom
    <3> QED  BY <1>2, <3>1 DEF Begun
  <2> QED  BY <2>3, <2>4, <2>5, <2>6
<1>3. ASSUME NEW i \in Ids, rows'[i] # None, rows'[i].item \notin exposed' PROVE RowTrue(i)'
  <2>1. RowGood(i)  BY <1>1, <1>3
  <2>2. \A j \in RowsOf(rows[i].item)' : i # j => Pair(rows'[i], rows'[j]) \/ Pair(rows'[j], rows'[i])
    BY <1>2, <1>3 DEF RowsOf, Live
  <2> QED  BY <1>3, <2>1, <2>2 DEF RowTrue, RowGood, Filed, Pair
<1> QED  BY <1>3 DEF RowsInv, Live

LEMMA SteadyPlace == ASSUME RestartInv, TypeOK', Steady PROVE PlaceInv'
<1> SUFFICES ASSUME NEW x \in Items, x \notin exposed', wish'[x] \in Active,
                    ~\E j \in Ids : rows'[j] # None /\ rows'[j].item = x
             PROVE  InHand(x)' \/ \E k \in Kinds, i \in Ids : Old(k, i, x)'
  BY DEF PlaceInv, Active, RowsOf, Live
<1>1. wish[x] \in Active /\ ~(InHand(x) /\ boot'.hand = None)  BY DEF Steady, WishMoves
<1>2. x \notin exposed  BY DEF Steady
<1>3. RowsOf(x) = {}
  <2> SUFFICES ASSUME NEW i \in RowsOf(x) PROVE FALSE  OBVIOUS
  <2>1. i \in Ids /\ Live(i) /\ rows[i].item = x  BY DEF RowsOf
  <2>2. rows'[i] = None \/ rows'[i].item # x  BY <2>1
  <2>3. ~Still(i) /\ ~Cleared(i) /\ ~Worked(i)  BY <2>1, <2>2 DEF Still, Cleared, Worked, Live
  <2>4. ~Begun(i)
    <3>1. nextId \in Nat  BY RestartConstants DEF RestartInv, TypeOK, RestartConstants
    <3> QED  BY <2>1, <3>1 DEF Begun, RestartInv, PhaseInv
  <2>5. PICK y \in Items : Wiped(i, y)  BY <2>1, <2>3, <2>4 DEF Steady, Change
  <2> QED  BY <2>1, <2>5 DEF Wiped
<1>4. CASE InHand(x)  BY <1>1, <1>4 DEF InHand, Steady
<1>5. CASE \E k \in Kinds, i \in Ids : Old(k, i, x)  BY <1>5, OldStays
<1> QED  BY <1>1, <1>2, <1>3, <1>4, <1>5 DEF RestartInv, PlaceInv, Active

LEMMA SteadyMarks == ASSUME RestartInv, TypeOK', Steady PROVE MarksInv'
<1>0. TypeOK /\ MarksInv /\ PhaseInv /\ "dl" \in NoCode  BY KindFacts DEF RestartInv, Kinds
<1> SUFFICES ASSUME NEW i \in Ids, marks'[i] # "no", exposed' = {},
                    ~(rows'[i] # None /\ rows'[i].kind = "dl"),
                    ~\E r \in boot.todo["dl"] : r.id = i
             PROVE  boot.at = "load" /\ disk'["dl"][i] # None
  BY DEF MarksInv, Live, Steady
<1>1. exposed = {}  BY DEF Steady
<1>2. Live(i) /\ rows[i].kind = "dl" => rows'[i] = None
  <2> SUFFICES ASSUME Live(i), rows[i].kind = "dl", rows'[i] # None PROVE FALSE  OBVIOUS
  <2>1. Still(i) \/ Cleared(i) \/ Worked(i)  BY RowCameFrom
  <2> QED  BY <2>1 DEF Still, Cleared, Worked
<1>3. CASE marks[i] # "no" /\ ~(Live(i) /\ rows[i].kind = "dl")
  <2>1. boot.at = "load" /\ disk["dl"][i] # None  BY <1>0, <1>1, <1>3 DEF MarksInv
  <2>2. disk'["dl"][i] = disk["dl"][i]
    <3>1. CASE Still(i) \/ Cleared(i)  BY <1>0, <3>1 DEF Still, Cleared
    <3>2. CASE Worked(i)
      <4>1. rows[i] \in Row /\ rows'[i] \in Row  BY <1>0, <3>2, StepTypes DEF Worked, Live
      <4>2. "dl" \notin Own(rows[i]) /\ "dl" \notin Own(rows'[i])
        BY <1>3, <3>2, <4>1, OwnIs DEF Worked
      <4> QED  BY <1>0, <3>2, <4>2 DEF Worked
    <3>3. CASE Begun(i)
      <4>1. rows'[i] \in Row /\ rows'[i] # None  BY <1>0, <3>3, StepTypes DEF Begun
      <4>2. "dl" \notin Own(rows'[i])  BY <4>1, OwnIs
      <4> QED  BY <1>0, <3>3, <4>2 DEF Begun
    <3>4. CASE \E x \in Items : Wiped(i, x)  BY <3>4 DEF Wiped
    <3> QED  BY <3>1, <3>2, <3>3, <3>4 DEF Steady, Change
  <2> QED  BY <2>1, <2>2
<1>4. CASE marks[i] = "no" \/ (Live(i) /\ rows[i].kind = "dl")
  <2>1. ~Still(i) /\ ~Cleared(i)  BY <1>2, <1>4 DEF Still, Cleared, Live
  <2>2. ~Worked(i)  BY <1>2, <1>4 DEF Worked
  <2>3. ~Begun(i)
    <3> SUFFICES ASSUME Begun(i) PROVE FALSE  OBVIOUS
    <3>1. rows'[i] # None  BY DEF Begun
    <3>2. marks'[i] = marks[i]  BY <3>1 DEF Begun
    <3> QED  BY <1>2, <1>4, <3>1, <3>2
  <2>4. ~\E x \in Items : Wiped(i, x)  BY <1>4 DEF Wiped
  <2> QED  BY <2>1, <2>2, <2>3, <2>4 DEF Steady, Change
<1> QED  BY <1>3, <1>4

LEMMA SteadyCodes == ASSUME RestartInv, TypeOK', Steady PROVE CodesInv'
<1>0. TypeOK /\ CodesInv /\ PhaseInv  BY DEF RestartInv
<1> SUFFICES ASSUME NEW i \in Ids
             PROVE  /\ hosts'[i] # None => i < nextId'
                    /\ boot.at # "load" => (disk'["code"][i] # None => hosts'[i] = disk'["code"][i].item)
                    /\ rows'[i] # None /\ (rows'[i].kind = "pend" \/ HandingSend(rows'[i]))
                         => hosts'[i] = None
  BY DEF CodesInv, Live, Steady, HandingSend
<1>1. nextId \in Nat /\ nextId' \in Nat /\ i \in Nat /\ nextId <= nextId'
  BY <1>0, RestartConstants DEF TypeOK, RestartConstants, Ids, FirstId, Steady
<1>2. CASE disk'["code"][i] = disk["code"][i] /\ hosts'[i] = hosts[i]
  <2>1. hosts'[i] # None => i < nextId'  BY <1>0, <1>1, <1>2 DEF CodesInv
  <2>2. boot.at # "load" => (disk'["code"][i] # None => hosts'[i] = disk'["code"][i].item)
    BY <1>0, <1>2 DEF CodesInv
  <2>3. ASSUME rows'[i] # None, rows'[i].kind = "pend" \/ HandingSend(rows'[i]) PROVE hosts[i] = None
    <3>1. CASE Begun(i)
      <4>1. ~(i < nextId)  BY <1>1, <3>1 DEF Begun
      <4> QED  BY <1>0, <4>1 DEF CodesInv
    <3>2. CASE Live(i) /\ (Still(i) \/ Cleared(i))  BY <1>0, <2>3, <3>2 DEF CodesInv, Still, Cleared
    <3>3. CASE Worked(i) /\ rows'[i] = rows[i]  BY <1>0, <2>3, <3>3 DEF CodesInv, Worked
    <3>4. CASE Worked(i) /\ rows'[i] # rows[i]
      <4>1. rows[i].kind = "pend" \/ HandingSend(rows[i])
        BY <2>3, <3>4 DEF Worked
      <4> QED  BY <1>0, <3>4, <4>1 DEF CodesInv, Worked
    <3> QED  BY <2>3, <3>1, <3>2, <3>3, <3>4, RowCameFrom
  <2> QED  BY <1>2, <2>1, <2>2, <2>3
<1>3. CASE ~(disk'["code"][i] = disk["code"][i] /\ hosts'[i] = hosts[i])
  BY <1>3 DEF Steady, CodesMove
<1> QED  BY <1>2, <1>3

LEMMA SteadyKeeps == ASSUME RestartInv, TypeOK', Steady PROVE RestartInv'
  BY SteadyPhase, SteadyClash, SteadyTodo, SteadyRecords, SteadyOld, SteadyHand, SteadyRows,
     SteadyPlace, SteadyMarks, SteadyCodes DEF RestartInv

-----------------------------------------------------------------------------
(* Records and rows.                                                       *)

DiskT == [Families -> [Ids -> Rec \cup {None}]]

\* Disk e is d with one record written, or removed.
Wrote(d, e, f, i, x, t) ==
    /\ e \in DiskT /\ e[f][i] # None /\ e[f][i].item = x /\ e[f][i].tag = t
    /\ \A g \in Families, j \in Ids : g # f \/ j # i => e[g][j] = d[g][j]

Erased(d, e, f, i) ==
    /\ e \in DiskT /\ e[f][i] = None
    /\ \A g \in Families, j \in Ids : g # f \/ j # i => e[g][j] = d[g][j]

LEMMA PutIs ==
    ASSUME NEW d \in DiskT, NEW f \in Families, NEW i \in Ids, NEW x \in Items, NEW t \in Tags
    PROVE  Wrote(d, Put(d, f, i, x, t), f, i, x, t)
<1> DEFINE e == Put(d, f, i, x, t)
<1>1. e \in DiskT /\ e[f][i] = [item |-> x, tag |-> t] /\ [item |-> x, tag |-> t] \in Rec
      /\ \A g \in Families, j \in Ids : g # f \/ j # i => e[g][j] = d[g][j]
  BY DEF Put, DiskT, Rec
<1>2. e[f][i] # None  BY <1>1, RestartNone
<1> QED  BY <1>1, <1>2 DEF Wrote

LEMMA DelIs ==
    ASSUME NEW d \in DiskT, NEW f \in Families, NEW i \in Ids
    PROVE  Erased(d, Del(d, f, i), f, i)
  BY DEF Del, DiskT, Erased

IsRow(r, x, k, st, seal, prep, tag) ==
    /\ r \in Row /\ r # None /\ r.item = x /\ r.kind = k /\ r.st = st
    /\ r.seal = seal /\ r.prep = prep /\ r.tag = tag

LEMMA NewRowIs ==
    ASSUME NEW x \in Items, NEW k \in Kinds, NEW st \in {"run", "stopping", "ending", "paused", "handing"},
           NEW seal \in Rec \cup {None}, NEW prep \in Items \cup {None}, NEW tag \in {"", "code", "owned"}
    PROVE  IsRow(NewRow(x, k, st, seal, prep, tag), x, k, st, seal, prep, tag)
<1> DEFINE r == NewRow(x, k, st, seal, prep, tag)
<1>1. r \in Row  BY DEF NewRow, Row
<1>2. r.item = x /\ r.kind = k /\ r.st = st /\ r.seal = seal /\ r.prep = prep /\ r.tag = tag
  BY DEF NewRow
<1>3. r # None  BY <1>1, RestartNone
<1> QED  BY <1>1, <1>2, <1>3 DEF IsRow

\* The row that an action names, as it is.
LEMMA RowIs ==
    ASSUME RestartInv, NEW i \in Ids, Live(i)
    PROVE  /\ rows[i] \in Row /\ rows[i].item \in Items /\ rows[i].kind \in Kinds
           /\ i < nextId /\ RowPhase(rows[i]) /\ rows[i] # None
           /\ rows[i].item \notin exposed => RowTrue(i)
  BY DEF RestartInv, TypeOK, Live, Row, PhaseInv, RowsInv

LEMMA NoCodeIs == \A f \in NoCode : f \in Families /\ f # "code"
  BY DEF NoCode

LEMMA InvTypes == ASSUME RestartInv PROVE TypeOK /\ disk \in DiskT
  BY DEF RestartInv, TypeOK, DiskT

LEMMA FamilyNames ==
    /\ "dep" \in Families /\ "sendto" \in Families /\ "link" \in Families
    /\ "pend" \in Families /\ "dl" \in Families /\ "send" \in Families
    /\ "prep" \in Families /\ "upl" \in Families /\ "code" \in Families
  BY DEF Families, Kinds

\* Row i has changed in its fields but not in what it is for.
Recast(i, k, s) ==
    /\ rows' \in [Ids -> Row \cup {None}] /\ rows'[i] \in Row /\ rows'[i] # None
    /\ rows'[i].item = rows[i].item /\ rows'[i].kind = k /\ rows'[i].st = s
    /\ \A j \in Ids : j # i => rows'[j] = rows[j]

LEMMA StIs ==
    ASSUME TypeOK, NEW i \in Ids, Live(i), NEW s \in {"run", "stopping", "ending", "paused", "handing"},
           rows' = [rows EXCEPT ![i].st = s]
    PROVE  Recast(i, rows[i].kind, s) /\ rows'[i].seal = rows[i].seal /\ rows'[i].prep = rows[i].prep
<1>1. rows[i] \in Row /\ rows \in [Ids -> Row \cup {None}]  BY DEF TypeOK, Live
<1>2. rows'[i] = [rows[i] EXCEPT !.st = s] /\ \A j \in Ids : j # i => rows'[j] = rows[j]  BY <1>1
<1>3. [rows[i] EXCEPT !.st = s] \in Row  BY <1>1 DEF Row
<1>4. rows' \in [Ids -> Row \cup {None}]  BY <1>1, <1>3
<1>5. /\ rows'[i].item = rows[i].item /\ rows'[i].kind = rows[i].kind /\ rows'[i].st = s
      /\ rows'[i].seal = rows[i].seal /\ rows'[i].prep = rows[i].prep
  BY <1>1, <1>2 DEF Row
<1> QED  BY <1>2, <1>3, <1>4, <1>5, RestartNone DEF Recast

\* A step of one row's task.
AtOnly(i) ==
    \A j \in Ids \ {i} : /\ rows'[j] = rows[j] /\ marks'[j] = marks[j]
                         /\ \A f \in NoCode : disk'[f][j] = disk[f][j]

LEMMA OneWorked ==
    ASSUME RestartInv, TypeOK', NEW i \in Ids, Worked(i), AtOnly(i), CodesMove,
           boot' = boot, exposed \subseteq exposed', nextId' = nextId, nap' # None => Up,
           disk'["pend"][i] # None => disk'["pend"][i] = disk["pend"][i],
           \A x \in Items : x # rows[i].item => wish'[x] = wish[x],
           wish'[rows[i].item] = "new" => wish[rows[i].item] = "new",
           wish'[rows[i].item] = "stop" =>
              \/ wish[rows[i].item] = "stop"
              \/ rows[i].kind \in {"dl", "sendto"} /\ rows[i].st # "handing"
    PROVE  RestartInv'
<1>1. \A j \in Ids : Change(j)  BY DEF AtOnly, Change, Still
<1>2. nextId <= nextId'  BY RestartConstants DEF RestartInv, TypeOK, RestartConstants
<1>3. \A x \in Items : WishMoves(x)
  <2> SUFFICES ASSUME NEW x \in Items PROVE WishMoves(x)  OBVIOUS
  <2>1. Live(i) /\ rows'[i] # None /\ rows'[i].item = rows[i].item  BY DEF Worked
  <2>2. CASE x = rows[i].item
    <3>1. i \in RowsOf(x)  BY <2>1, <2>2 DEF RowsOf
    <3> QED  BY <2>1, <2>2, <3>1 DEF WishMoves
  <2>3. CASE x # rows[i].item
    <3>1. wish'[x] = wish[x] /\ boot'.hand = boot.hand  BY <2>3
    <3>2. ~(InHand(x) /\ boot'.hand = None)  BY <3>1 DEF InHand
    <3> QED  BY <3>1, <3>2 DEF WishMoves
  <2> QED  BY <2>2, <2>3
<1>4. \A j \in Ids : disk'["pend"][j] # None =>
          disk'["pend"][j] = disk["pend"][j] \/ disk'["pend"][j].tag \in PendTags
  BY DEF AtOnly, NoCode, Families, Kinds
<1>5. Steady  BY <1>1, <1>2, <1>3, <1>4 DEF Steady
<1> QED  BY <1>5, SteadyKeeps

\* ... that neither begins nor ends a code.
LEMMA CodesStay ==
    ASSUME hosts' = hosts, \A i \in Ids : disk'["code"][i] = disk["code"][i] PROVE CodesMove
  BY DEF CodesMove


\* A row that stays of its kind and does not begin to hand over.
LEMMA SameKind ==
    ASSUME RestartInv, NEW i \in Ids, Live(i), rows'[i] \in Row, rows'[i] # None,
           rows'[i].item = rows[i].item, rows'[i].kind = rows[i].kind,
           rows[i].st # "handing", rows'[i].st # "handing",
           rows'[i].st = "stopping" => rows[i].kind \in {"dl", "sendto"},
           \A f \in NoCode : \/ disk'[f][i] = disk[f][i]
                             \/ f \in Own(rows[i]) /\ disk'[f][i] = None
                             \/ f \in Own(rows[i]) /\ OfRow(disk'[f][i], rows[i], f),
           Up \/ marks'[i] \in {marks[i], "user"},
           marks'[i] # "no" => marks[i] # "no" \/ rows[i].kind = "dl",
           RowGood(i)
    PROVE  Worked(i)
<1>1. rows[i] \in Row /\ RowPhase(rows[i])  BY RowIs
<1>2. ~HandingSend(rows[i]) /\ ~HandingSend(rows'[i])  BY DEF HandingSend
<1>3. Own(rows'[i]) = Own(rows[i])  BY <1>2 DEF Own
<1>4. Own(rows[i]) \subseteq NoCode  BY <1>1, OwnIs
<1>5. RowPhase(rows'[i])  BY <1>1, <1>2 DEF RowPhase
<1>6. /\ \A f \in NoCode \ (Own(rows[i]) \cup Own(rows'[i])) : disk'[f][i] = disk[f][i]
      /\ \A f \in Own(rows[i]) \ Own(rows'[i]) : disk'[f][i] = None
      /\ \A f \in Own(rows'[i]) : \/ disk'[f][i] = disk[f][i] /\ f \in Own(rows[i])
                                  \/ disk'[f][i] = None
                                  \/ OfRow(disk'[f][i], rows[i], f)
  BY <1>3, <1>4
<1> QED  BY <1>2, <1>5, <1>6 DEF Worked

-----------------------------------------------------------------------------
(* What the tasks write down.                                              *)

LEMMA PrepareKeeps == ASSUME RestartInv, NEW i \in Ids, Prepare(i) PROVE RestartInv'
<1>0. TypeOK /\ disk \in DiskT  BY InvTypes
<1>1. Live(i) /\ rows[i].kind = "sendto" /\ rows[i].st = "run"  BY DEF Prepare, Is
<1> DEFINE x == rows[i].item
<1>2. rows[i] \in Row /\ x \in Items /\ (x \notin exposed => RowTrue(i))
  BY <1>1, RowIs
<1>3. Wrote(disk, disk', "prep", i, x, "")
  <2>1. disk' = Put(disk, "prep", i, x, "")  BY DEF Prepare
  <2>2. "prep" \in Families /\ "" \in Tags  BY FamilyNames DEF Tags
  <2> QED  BY <1>0, <1>2, <2>1, <2>2, PutIs
<1>4. Recast(i, "sendto", "run") /\ rows'[i].prep = x /\ rows'[i].seal = rows[i].seal
  <2>1. rows' = [rows EXCEPT ![i].prep = x]  BY DEF Prepare
  <2> QED  BY ZenonT(60), <1>0, <1>1, <1>2, <2>1, RestartNone DEF TypeOK, Row, Recast
<1>5. TypeOK'  BY <1>0, <1>3, <1>4 DEF Prepare, TypeOK, DiskT, Wrote, Recast
<1>6. Own(rows[i]) = {"sendto", "prep", "upl"}  BY <1>1 DEF Own, HandingSend
<1>7. disk'["sendto"][i] = disk["sendto"][i] /\ disk'["pend"][i] = disk["pend"][i]
  BY <1>3, FamilyNames DEF Wrote
<1>u. marks' = marks /\ wish' = wish /\ exposed' = exposed /\ hosts' = hosts /\ nextId' = nextId
      /\ nap' = nap /\ boot' = boot
  BY DEF Prepare
<1>8. RowGood(i)
  <2> SUFFICES ASSUME x \notin exposed PROVE RowGood(i)  BY <1>4, <1>u DEF RowGood, Recast
  <2>1. RowTrue(i)  BY <1>2
  <2> QED  BY <1>1, <1>4, <1>7, <1>u, <2>1 DEF RowGood, RowTrue, Filed, Recast
<1>9. Worked(i)
  <2>1. \A f \in NoCode : \/ disk'[f][i] = disk[f][i]
                          \/ f \in Own(rows[i]) /\ OfRow(disk'[f][i], rows[i], f)
    BY <1>3, <1>6, NoCodeIs DEF OfRow, Wrote
  <2> QED  BY <1>1, <1>4, <1>8, <1>u, <2>1, SameKind DEF Recast
<1>10. AtOnly(i)  BY <1>3, <1>4, <1>u, NoCodeIs DEF AtOnly, Wrote, Recast
<1>11. CodesMove  BY <1>3, <1>u, FamilyNames, CodesStay DEF Wrote
<1>12. nap' # None => Up  BY <1>u DEF RestartInv, PhaseInv
<1> QED  BY <1>1, <1>5, <1>7, <1>9, <1>10, <1>11, <1>12, <1>u, OneWorked

LEMMA UploadKeeps == ASSUME RestartInv, NEW i \in Ids, Upload(i) PROVE RestartInv'
<1>0. TypeOK /\ disk \in DiskT  BY InvTypes
<1>1. Live(i) /\ rows[i].kind \in {"sendto", "link"} /\ rows[i].st = "run"  BY DEF Upload, Is
<1> DEFINE x == rows[i].item
           s == IF rows[i].seal # None /\ rows[i].seal.tag = rows[i].kind
                THEN rows[i].seal ELSE [item |-> rows[i].item, tag |-> rows[i].kind]
<1>2. rows[i] \in Row /\ x \in Items /\ (x \notin exposed => RowTrue(i))
  BY <1>1, RowIs
<1>u. marks' = marks /\ wish' = wish /\ exposed' = exposed /\ hosts' = hosts /\ nextId' = nextId
      /\ nap' = nap /\ boot' = boot /\ stages' = stages /\ crashes' = crashes
      /\ rows' = [rows EXCEPT ![i].seal = s] /\ disk' = Put(disk, "upl", i, s.item, s.tag)
      /\ sess' = sess \cup {x}
  BY DEF Upload
<1>3. s \in Rec /\ s.item \in Items /\ s.tag \in Tags /\ s # None /\ (x \notin exposed => s.item = x)
  <2>1. CASE rows[i].seal # None /\ rows[i].seal.tag = rows[i].kind
    <3>1. s = rows[i].seal /\ s \in Rec  BY <1>2, <2>1 DEF Row
    <3> QED  BY <1>2, <2>1, <3>1 DEF Rec, RowTrue
  <2>2. CASE ~(rows[i].seal # None /\ rows[i].seal.tag = rows[i].kind)
    <3>1. s = [item |-> x, tag |-> rows[i].kind]  BY <2>2
    <3>2. rows[i].kind \in Tags  BY <1>1 DEF Tags
    <3> QED  BY <1>2, <3>1, <3>2, RestartNone DEF Rec
  <2> QED  BY <2>1, <2>2
<1> HIDE DEF s
<1>4. Wrote(disk, disk', "upl", i, s.item, s.tag)
  <2>1. "upl" \in Families  BY FamilyNames
  <2> QED  BY <1>0, <1>3, <1>u, <2>1, PutIs
<1>5. Recast(i, rows[i].kind, "run") /\ rows'[i].prep = rows[i].prep /\ rows'[i].seal = s
  <2>1. rows \in [Ids -> Row \cup {None}]  BY <1>0 DEF TypeOK
  <2>2. rows'[i] = [rows[i] EXCEPT !.seal = s] /\ \A j \in Ids : j # i => rows'[j] = rows[j]
    BY <1>u, <2>1
  <2>3. [rows[i] EXCEPT !.seal = s] \in Row  BY <1>2, <1>3 DEF Row
  <2>4. rows' \in [Ids -> Row \cup {None}]  BY <1>u, <2>1, <2>3
  <2>5. rows'[i].item = x /\ rows'[i].kind = rows[i].kind /\ rows'[i].st = rows[i].st
        /\ rows'[i].prep = rows[i].prep /\ rows'[i].seal = s
    BY <1>2, <2>2 DEF Row
  <2> QED  BY <1>1, <2>2, <2>3, <2>4, <2>5, RestartNone DEF Recast
<1>6. TypeOK'
  <2>1. sess' \subseteq Items  BY <1>0, <1>2, <1>u DEF TypeOK
  <2> QED  BY <1>0, <1>4, <1>5, <1>u, <2>1 DEF TypeOK, DiskT, Wrote, Recast
<1>7. /\ disk'["sendto"][i] = disk["sendto"][i] /\ disk'["link"][i] = disk["link"][i]
      /\ disk'["pend"][i] = disk["pend"][i]
  BY <1>4, FamilyNames DEF Wrote
<1>8. RowGood(i)
  <2> SUFFICES ASSUME x \notin exposed PROVE RowGood(i)  BY <1>5, <1>u DEF RowGood, Recast
  <2>1. RowTrue(i)  BY <1>2
  <2> QED  BY <1>1, <1>3, <1>5, <1>7, <1>u, <2>1 DEF RowGood, RowTrue, Filed, Recast
<1>9. Worked(i)
  <2>1. "upl" \in Own(rows[i])  BY <1>1 DEF Own, HandingSend
  <2>2. \A f \in NoCode : \/ disk'[f][i] = disk[f][i]
                          \/ f \in Own(rows[i]) /\ OfRow(disk'[f][i], rows[i], f)
    BY <1>3, <1>4, <2>1, NoCodeIs DEF OfRow, Wrote
  <2> QED  BY <1>1, <1>5, <1>8, <1>u, <2>2, SameKind DEF Recast
<1>10. AtOnly(i)  BY <1>4, <1>5, <1>u, NoCodeIs DEF AtOnly, Wrote, Recast
<1>11. CodesMove  BY <1>4, <1>u, FamilyNames, CodesStay DEF Wrote
<1>12. nap' # None => Up  BY <1>u DEF RestartInv, PhaseInv
<1> QED  BY <1>1, <1>6, <1>7, <1>9, <1>10, <1>11, <1>12, <1>u, OneWorked

LEMMA UploadFailsKeeps == ASSUME RestartInv, NEW i \in Ids, UploadFails(i) PROVE RestartInv'
<1>0. TypeOK /\ disk \in DiskT  BY InvTypes
<1>1. Live(i) /\ rows[i].kind = "sendto" /\ rows[i].st = "run"  BY DEF UploadFails, Is
<1> DEFINE x == rows[i].item
<1>2. rows[i] \in Row /\ x \in Items /\ (x \notin exposed => RowTrue(i))
  BY <1>1, RowIs
<1>u. marks' = marks /\ wish' = wish /\ exposed' = exposed /\ hosts' = hosts /\ nextId' = nextId
      /\ nap' = nap /\ boot' = boot /\ stages' = stages /\ crashes' = crashes
      /\ rows' = [rows EXCEPT ![i].seal = None] /\ disk' = Del(disk, "upl", i)
      /\ sess' = sess \ {x}
  BY DEF UploadFails
<1>4. Erased(disk, disk', "upl", i)
  <2>1. "upl" \in Families  BY FamilyNames
  <2> QED  BY <1>0, <1>u, <2>1, DelIs
<1>5. Recast(i, rows[i].kind, "run") /\ rows'[i].prep = rows[i].prep /\ rows'[i].seal = None
  <2>1. rows \in [Ids -> Row \cup {None}]  BY <1>0 DEF TypeOK
  <2>2. rows'[i] = [rows[i] EXCEPT !.seal = None] /\ \A j \in Ids : j # i => rows'[j] = rows[j]
    BY <1>u, <2>1
  <2>3. [rows[i] EXCEPT !.seal = None] \in Row  BY <1>2 DEF Row
  <2>4. rows' \in [Ids -> Row \cup {None}]  BY <1>u, <2>1, <2>3
  <2>5. rows'[i].item = x /\ rows'[i].kind = rows[i].kind /\ rows'[i].st = rows[i].st
        /\ rows'[i].prep = rows[i].prep /\ rows'[i].seal = None
    BY <1>2, <2>2 DEF Row
  <2> QED  BY <1>1, <2>2, <2>3, <2>4, <2>5, RestartNone DEF Recast
<1>6. TypeOK'
  <2>1. sess' \subseteq Items  BY <1>0, <1>u DEF TypeOK
  <2> QED  BY <1>0, <1>4, <1>5, <1>u, <2>1 DEF TypeOK, DiskT, Erased, Recast
<1>7. disk'["sendto"][i] = disk["sendto"][i] /\ disk'["pend"][i] = disk["pend"][i]
  BY <1>4, FamilyNames DEF Erased
<1>8. RowGood(i)
  <2> SUFFICES ASSUME x \notin exposed PROVE RowGood(i)  BY <1>5, <1>u DEF RowGood, Recast
  <2>1. RowTrue(i)  BY <1>2
  <2> QED  BY <1>1, <1>5, <1>7, <1>u, <2>1 DEF RowGood, RowTrue, Filed, Recast
<1>9. Worked(i)
  <2>1. "upl" \in Own(rows[i])  BY <1>1 DEF Own, HandingSend
  <2>2. \A f \in NoCode : \/ disk'[f][i] = disk[f][i]
                          \/ f \in Own(rows[i]) /\ disk'[f][i] = None
    BY <1>4, <2>1, NoCodeIs DEF Erased
  <2> QED  BY <1>1, <1>5, <1>8, <1>u, <2>2, SameKind DEF Recast
<1>10. AtOnly(i)  BY <1>4, <1>5, <1>u, NoCodeIs DEF AtOnly, Erased, Recast
<1>11. CodesMove  BY <1>4, <1>u, FamilyNames, CodesStay DEF Erased
<1>12. nap' # None => Up  BY <1>u DEF RestartInv, PhaseInv
<1> QED  BY <1>1, <1>6, <1>7, <1>9, <1>10, <1>11, <1>12, <1>u, OneWorked

LEMMA DepositKeeps == ASSUME RestartInv, NEW i \in Ids, Deposit(i) PROVE RestartInv'
<1>0. TypeOK /\ disk \in DiskT  BY InvTypes
<1>1. Live(i) /\ rows[i].kind = "sendto" /\ rows[i].st = "run"  BY DEF Deposit, Is
<1> DEFINE x == rows[i].item
           d1 == Del(disk, "upl", i)
           d2 == Del(d1, "sendto", i)
           d3 == Del(d2, "prep", i)
<1>2. rows[i] \in Row /\ x \in Items /\ RowPhase(rows[i]) /\ (x \notin exposed => RowTrue(i))
  BY <1>1, RowIs
<1>u. marks' = marks /\ wish' = wish /\ exposed' = exposed /\ hosts' = hosts /\ nextId' = nextId
      /\ nap' = nap /\ boot' = boot /\ stages' = stages /\ crashes' = crashes
      /\ sess' = sess \ {x}
  BY DEF Deposit
<1>v. /\ rows' = [rows EXCEPT ![i] = NewRow(x, "dep", "run", None, None, "")]
      /\ disk' = Put(d3, "dep", i, x, "")
  BY DEF Deposit
<1>3. /\ disk' \in DiskT /\ disk'["dep"][i] # None /\ disk'["dep"][i].item = x
      /\ disk'["upl"][i] = None /\ disk'["sendto"][i] = None /\ disk'["prep"][i] = None
      /\ \A g \in Families, j \in Ids : g \notin {"upl", "sendto", "prep", "dep"} \/ j # i
                                          => disk'[g][j] = disk[g][j]
  <2>a. "upl" \in Families  BY FamilyNames
  <2>b. "sendto" \in Families  BY FamilyNames
  <2>c. "prep" \in Families  BY FamilyNames
  <2>d. "dep" \in Families /\ "" \in Tags  BY FamilyNames DEF Tags
  <2>1. Erased(disk, d1, "upl", i)  BY <1>0, <2>a, DelIs
  <2>2. d1 \in DiskT  BY <2>1 DEF Erased
  <2> HIDE DEF d1
  <2>3. Erased(d1, d2, "sendto", i)  BY <2>2, <2>b, DelIs
  <2>4. d2 \in DiskT  BY <2>3 DEF Erased
  <2> HIDE DEF d2
  <2>5. Erased(d2, d3, "prep", i)  BY <2>4, <2>c, DelIs
  <2>6. d3 \in DiskT  BY <2>5 DEF Erased
  <2> HIDE DEF d3
  <2>7. Wrote(d3, disk', "dep", i, x, "")  BY <1>2, <1>v, <2>6, <2>d, PutIs
  <2>8. disk' \in DiskT /\ disk'["dep"][i] # None /\ disk'["dep"][i].item = x  BY <2>7 DEF Wrote
  <2>9. disk'["prep"][i] = None  BY <2>5, <2>7, <2>c DEF Erased, Wrote
  <2>10. disk'["sendto"][i] = None  BY <2>3, <2>5, <2>7, <2>b DEF Erased, Wrote
  <2>11. disk'["upl"][i] = None  BY ZenonT(60), <2>1, <2>3, <2>5, <2>7, <2>a DEF Erased, Wrote
  <2>12. ASSUME NEW g \in Families, NEW j \in Ids, g \notin {"upl", "sendto", "prep", "dep"} \/ j # i
         PROVE disk'[g][j] = disk[g][j]
    <3>1. disk'[g][j] = d3[g][j]  BY <2>7, <2>12 DEF Wrote
    <3>2. d3[g][j] = d2[g][j]  BY <2>5, <2>12 DEF Erased
    <3>3. d2[g][j] = d1[g][j]  BY <2>3, <2>12 DEF Erased
    <3>4. d1[g][j] = disk[g][j]  BY <2>1, <2>12 DEF Erased
    <3> QED  BY <3>1, <3>2, <3>3, <3>4
  <2> QED  BY <2>8, <2>9, <2>10, <2>11, <2>12
<1>4. Recast(i, "dep", "run") /\ rows'[i].prep = None /\ rows'[i].seal = None
  <2> DEFINE r == NewRow(x, "dep", "run", None, None, "")
  <2>1. rows \in [Ids -> Row \cup {None}]  BY <1>0 DEF TypeOK
  <2>2. IsRow(r, x, "dep", "run", None, None, "")
    <3>1. "dep" \in Kinds  BY DEF Kinds
    <3> QED  BY <1>2, <3>1, NewRowIs
  <2>3. r \in Row /\ r # None /\ r.item = x /\ r.kind = "dep" /\ r.st = "run"
        /\ r.seal = None /\ r.prep = None
    BY <2>2 DEF IsRow
  <2> HIDE DEF r
  <2>4. rows' = [rows EXCEPT ![i] = r]  BY <1>v DEF r
  <2> QED  BY <2>1, <2>3, <2>4 DEF Recast
<1>5. TypeOK'
  <2>1. sess' \subseteq Items  BY <1>0, <1>u DEF TypeOK
  <2> QED  BY <1>0, <1>3, <1>4, <1>u, <2>1 DEF TypeOK, DiskT, Recast
<1>6. Own(rows[i]) = {"sendto", "prep", "upl"} /\ Own(rows'[i]) = {"dep"}
  BY <1>1, <1>4 DEF Own, HandingSend, Recast
<1>7. RowGood(i)
  <2> SUFFICES ASSUME x \notin exposed PROVE RowGood(i)  BY <1>4, <1>u DEF RowGood, Recast
  <2>1. RowTrue(i)  BY <1>2
  <2> QED  BY <1>1, <1>3, <1>4, <1>u, <2>1 DEF RowGood, RowTrue, Recast
<1>8. RowPhase(rows'[i])
  BY <1>1, <1>2, <1>4 DEF RowPhase, HandingSend, TooEarly, Recast
<1>9. Worked(i)
  <2>1. /\ \A f \in NoCode \ (Own(rows[i]) \cup Own(rows'[i])) : disk'[f][i] = disk[f][i]
        /\ \A f \in Own(rows[i]) \ Own(rows'[i]) : disk'[f][i] = None
        /\ \A f \in Own(rows'[i]) : OfRow(disk'[f][i], rows[i], f)
    BY <1>3, <1>6, NoCodeIs DEF OfRow
  <2> QED  BY <1>1, <1>4, <1>7, <1>8, <1>u, <2>1 DEF Worked, HandingSend, Recast
<1>10. AtOnly(i)  BY <1>3, <1>4, <1>u, NoCodeIs DEF AtOnly, Recast
<1>11. CodesMove  BY <1>3, <1>u, FamilyNames, CodesStay
<1>12. nap' # None => Up  BY <1>u DEF RestartInv, PhaseInv
<1>13. disk'["pend"][i] = disk["pend"][i]  BY <1>3, FamilyNames
<1> QED  BY <1>1, <1>5, <1>9, <1>10, <1>11, <1>12, <1>13, <1>u, OneWorked

LEMMA BeginServingKeeps == ASSUME RestartInv, NEW i \in Ids, BeginServing(i) PROVE RestartInv'
<1>0. TypeOK /\ disk \in DiskT  BY InvTypes
<1>1. Live(i) /\ rows[i].kind = "pend" /\ rows[i].st = "run"  BY DEF BeginServing, Is
<1> DEFINE x == rows[i].item
<1>2. rows[i] \in Row /\ x \in Items /\ RowPhase(rows[i]) /\ (x \notin exposed => RowTrue(i))
  BY <1>1, RowIs
<1>u. marks' = marks /\ wish' = wish /\ exposed' = exposed /\ hosts' = hosts /\ nextId' = nextId
      /\ nap' = nap /\ boot' = boot /\ stages' = stages /\ crashes' = crashes /\ sess' = sess
  BY DEF BeginServing
<1>3. Wrote(disk, disk', "send", i, x, "")
  <2>1. "send" \in Families /\ "" \in Tags  BY FamilyNames DEF Tags
  <2>2. disk' = Put(disk, "send", i, x, "")  BY DEF BeginServing
  <2> QED  BY <1>0, <1>2, <2>1, <2>2, PutIs
<1>4. Recast(i, "send", "handing") /\ rows'[i].prep = rows[i].prep /\ rows'[i].seal = rows[i].seal
  <2>1. rows \in [Ids -> Row \cup {None}]  BY <1>0 DEF TypeOK
  <2>2. rows' = [rows EXCEPT ![i].kind = "send", ![i].st = "handing"]  BY DEF BeginServing
  <2>3. /\ rows'[i] = [rows[i] EXCEPT !.kind = "send", !.st = "handing"]
        /\ \A j \in Ids : j # i => rows'[j] = rows[j]
    BY <2>1, <2>2
  <2>4. [rows[i] EXCEPT !.kind = "send", !.st = "handing"] \in Row  BY <1>2 DEF Row, Kinds
  <2>5. rows' \in [Ids -> Row \cup {None}]
    <3>1. DOMAIN rows' = Ids /\ rows' = [j \in Ids |-> rows'[j]]  BY <2>1, <2>2
    <3> QED  BY <2>1, <2>3, <2>4, <3>1
  <2>6. rows'[i].item = x /\ rows'[i].kind = "send" /\ rows'[i].st = "handing"
        /\ rows'[i].prep = rows[i].prep /\ rows'[i].seal = rows[i].seal
    BY <1>2, <2>3 DEF Row
  <2> QED  BY <2>3, <2>4, <2>5, <2>6, RestartNone DEF Recast
<1>5. TypeOK'  BY <1>0, <1>3, <1>4, <1>u DEF TypeOK, DiskT, Wrote, Recast
<1>6. Own(rows[i]) = {"pend"} /\ Own(rows'[i]) = {"send", "pend"}
  BY <1>1, <1>4 DEF Own, HandingSend, Recast
<1>7. RowGood(i)
  <2> SUFFICES ASSUME x \notin exposed PROVE RowGood(i)  BY <1>4, <1>u DEF RowGood, Recast
  <2>1. RowTrue(i)  BY <1>2
  <2> QED  BY <1>1, <1>3, <1>4, <1>u, <2>1 DEF RowGood, RowTrue, Recast, Wrote
<1>8. RowPhase(rows'[i])
  BY <1>1, <1>2, <1>4, <1>u DEF RowPhase, HandingSend, TooEarly, Recast
<1>9. Worked(i)
  <2>1. /\ \A f \in NoCode \ (Own(rows[i]) \cup Own(rows'[i])) : disk'[f][i] = disk[f][i]
        /\ Own(rows[i]) \ Own(rows'[i]) = {}
    BY <1>3, <1>6, NoCodeIs DEF Wrote
  <2>2. OfRow(disk'["send"][i], rows[i], "send")  BY <1>3 DEF OfRow, Wrote
  <2>3. disk'["pend"][i] = disk["pend"][i]  BY <1>3, FamilyNames DEF Wrote
  <2>4. \A f \in Own(rows'[i]) : \/ disk'[f][i] = disk[f][i] /\ f \in Own(rows[i])
                                 \/ OfRow(disk'[f][i], rows[i], f)
    BY <1>6, <2>2, <2>3
  <2> QED  BY <1>1, <1>4, <1>7, <1>8, <1>u, <2>1, <2>4 DEF Worked, HandingSend, Recast
<1>10. AtOnly(i)  BY <1>3, <1>4, <1>u, NoCodeIs DEF AtOnly, Recast, Wrote
<1>11. CodesMove  BY <1>3, <1>u, FamilyNames, CodesStay DEF Wrote
<1>12. nap' # None => Up  BY <1>u DEF RestartInv, PhaseInv
<1>13. disk'["pend"][i] = disk["pend"][i]  BY <1>3, FamilyNames DEF Wrote
<1> QED  BY <1>1, <1>5, <1>9, <1>10, <1>11, <1>12, <1>13, <1>u, OneWorked

\* A code that a start has not yet read is nobody's; the others are answered for.
LEMMA CodeIs ==
    ASSUME RestartInv, NEW i \in Ids, boot.at # "load", hosts[i] = None
    PROVE  disk["code"][i] = None
<1>1. "code" \in Families  BY FamilyNames
<1>2. disk["code"][i] \in Rec \cup {None}  BY <1>1 DEF RestartInv, TypeOK
<1> QED  BY <1>2, RestartConstants DEF RestartInv, CodesInv, Rec, RestartConstants

LEMMA HandOverKeeps == ASSUME RestartInv, NEW i \in Ids, HandOver(i) PROVE RestartInv'
<1>0. TypeOK /\ disk \in DiskT  BY InvTypes
<1>1. Live(i) /\ rows[i].kind = "send" /\ rows[i].st = "handing"  BY DEF HandOver, Is
<1> DEFINE x == rows[i].item
           d == IF rows[i].tag = "code" THEN Put(disk, "code", i, x, "") ELSE disk
           h == IF rows[i].tag = "code" THEN x ELSE None
<1>2. /\ rows[i] \in Row /\ x \in Items /\ RowPhase(rows[i]) /\ (x \notin exposed => RowTrue(i))
      /\ i < nextId
  BY <1>1, RowIs
<1>u. marks' = marks /\ wish' = wish /\ exposed' = exposed /\ nextId' = nextId
      /\ nap' = nap /\ boot' = boot /\ stages' = stages /\ crashes' = crashes /\ sess' = sess
  BY DEF HandOver
<1>v. disk' = Del(d, "pend", i) /\ hosts' = [hosts EXCEPT ![i] = h] /\ rows' = [rows EXCEPT ![i].st = "run"]
  BY DEF HandOver, SetSt
<1>c. disk["code"][i] = None
  <2>1. boot.at # "load"  BY <1>1, <1>2 DEF RowPhase, HandingSend, TooEarly
  <2>2. hosts[i] = None  BY <1>1 DEF RestartInv, CodesInv, HandingSend
  <2> QED  BY <2>1, <2>2, CodeIs
<1>a. "code" \in Families /\ "" \in Tags  BY FamilyNames DEF Tags
<1>b. "pend" \in Families  BY FamilyNames
<1>d. /\ d \in DiskT /\ (d["code"][i] # None => d["code"][i].item = h)
      /\ \A g \in Families, j \in Ids : g # "code" \/ j # i => d[g][j] = disk[g][j]
  <2>1. CASE rows[i].tag = "code"
    <3>1. Wrote(disk, d, "code", i, x, "")  BY <1>0, <1>2, <1>a, <2>1, PutIs
    <3>2. h = x  BY <2>1
    <3> HIDE DEF d
    <3> QED  BY <3>1, <3>2 DEF Wrote
  <2>2. CASE rows[i].tag # "code"
    <3>1. d = disk  BY <2>2
    <3> QED  BY <1>0, <1>c, <3>1
  <2> QED  BY <2>1, <2>2
<1>h. h \in Items \cup {None}  BY <1>2
<1> HIDE DEF d, h
<1>e. Erased(d, disk', "pend", i)  BY <1>d, <1>v, <1>b, DelIs
<1>3. /\ disk' \in DiskT /\ (disk'["code"][i] # None => disk'["code"][i].item = h)
      /\ disk'["pend"][i] = None
      /\ \A g \in Families, j \in Ids : g \notin {"code", "pend"} \/ j # i => disk'[g][j] = disk[g][j]
  BY ZenonT(60), <1>d, <1>e, <1>a DEF Erased
<1>4. Recast(i, "send", "run") /\ rows'[i].prep = rows[i].prep /\ rows'[i].seal = rows[i].seal
  BY <1>0, <1>1, <1>v, StIs
<1>5. TypeOK'
  <2>1. hosts' \in [Ids -> Items \cup {None}]  BY <1>0, <1>h, <1>v DEF TypeOK
  <2> QED  BY <1>0, <1>3, <1>4, <1>u, <2>1 DEF TypeOK, DiskT, Recast
<1>6. Own(rows[i]) = {"send", "pend"} /\ Own(rows'[i]) = {"send"}
  BY <1>1, <1>4 DEF Own, HandingSend, Recast
<1>7. disk'["send"][i] = disk["send"][i]  BY <1>3, FamilyNames
<1>8. RowGood(i)
  <2> SUFFICES ASSUME x \notin exposed PROVE RowGood(i)  BY <1>4, <1>u DEF RowGood, Recast
  <2>1. RowTrue(i)  BY <1>2
  <2> QED  BY <1>1, <1>4, <1>7, <1>u, <2>1 DEF RowGood, RowTrue, Filed, Recast
<1>9. RowPhase(rows'[i])
  BY <1>1, <1>2, <1>4, <1>u DEF RowPhase, HandingSend, Recast
<1>10. Worked(i)
  <2>1. /\ \A f \in NoCode \ (Own(rows[i]) \cup Own(rows'[i])) : disk'[f][i] = disk[f][i]
        /\ \A f \in Own(rows[i]) \ Own(rows'[i]) : disk'[f][i] = None
        /\ \A f \in Own(rows'[i]) : disk'[f][i] = disk[f][i] /\ f \in Own(rows[i])
    BY <1>3, <1>6, <1>7, NoCodeIs
  <2> QED  BY <1>1, <1>4, <1>8, <1>9, <1>u, <2>1 DEF Worked, HandingSend, Recast
<1>11. AtOnly(i)  BY <1>3, <1>4, <1>u, NoCodeIs DEF AtOnly, Recast
<1>12. CodesMove
  <2>1. hosts'[i] = h /\ \A j \in Ids : j # i => hosts'[j] = hosts[j]  BY <1>0, <1>v DEF TypeOK
  <2>2. \A j \in Ids : j # i => disk'["code"][j] = disk["code"][j]  BY <1>3, <1>a
  <2> QED  BY <1>2, <1>3, <1>4, <1>u, <2>1, <2>2 DEF CodesMove, HandingSend, Recast
<1>13. nap' # None => Up  BY <1>u DEF RestartInv, PhaseInv
<1> QED  BY <1>1, <1>3, <1>5, <1>10, <1>11, <1>12, <1>13, <1>u, OneWorked

\* A step that does nothing to any row.
LEMMA NoneChanges ==
    ASSUME RestartInv, TypeOK', \A j \in Ids : Still(j), wish' = wish, exposed' = exposed,
           nextId' = nextId, nap' # None => Up, boot' = boot, CodesMove
    PROVE  RestartInv'
<1>1. \A j \in Ids : Change(j)  BY DEF Change
<1>2. nextId <= nextId'  BY RestartConstants DEF RestartInv, TypeOK, RestartConstants
<1>3. \A x \in Items : WishMoves(x)
  <2> SUFFICES ASSUME NEW x \in Items PROVE WishMoves(x)  OBVIOUS
  <2>1. ~(InHand(x) /\ boot'.hand = None)  BY DEF InHand
  <2> QED  BY <2>1 DEF WishMoves
<1>4. "pend" \in NoCode  BY KindFacts DEF Kinds
<1>5. \A j \in Ids : disk'["pend"][j] = disk["pend"][j]  BY <1>4 DEF Still
<1>6. Steady  BY <1>1, <1>2, <1>3, <1>5 DEF Steady
<1> QED  BY <1>6, SteadyKeeps

LEMMA CodeUsedKeeps == ASSUME RestartInv, NEW i \in Ids, CodeUsed(i) PROVE RestartInv'
<1>0. TypeOK /\ disk \in DiskT  BY InvTypes
<1>1. hosts[i] \in Items /\ hosts[i] # None  BY <1>0 DEF CodeUsed, TypeOK
<1>2. Wrote(disk, disk', "code", i, hosts[i], "")
  <2>1. "code" \in Families /\ "" \in Tags  BY FamilyNames DEF Tags
  <2>2. disk' = Put(disk, "code", i, hosts[i], "")  BY DEF CodeUsed
  <2> QED  BY <1>0, <1>1, <2>1, <2>2, PutIs
<1>u. marks' = marks /\ wish' = wish /\ exposed' = exposed /\ hosts' = hosts /\ nextId' = nextId /\ rows' = rows
      /\ nap' = nap /\ boot' = boot /\ stages' = stages /\ crashes' = crashes /\ sess' = sess
  BY DEF CodeUsed
<1>3. TypeOK'  BY <1>0, <1>2, <1>u DEF TypeOK, DiskT, Wrote
<1>4. CodesMove
  <2>1. /\ disk'["code"][i].item = hosts[i]
        /\ \A j \in Ids : j # i => disk'["code"][j] = disk["code"][j]
    BY <1>2, FamilyNames DEF Wrote
  <2>2. i < nextId  BY <1>1 DEF RestartInv, CodesInv
  <2>3. ~(rows[i] # None /\ (rows[i].kind = "pend" \/ HandingSend(rows[i])))
    BY <1>1 DEF RestartInv, CodesInv, Live
  <2> QED  BY <1>u, <2>1, <2>2, <2>3 DEF CodesMove
<1>5. \A f \in NoCode, j \in Ids : disk'[f][j] = disk[f][j]  BY <1>2, NoCodeIs DEF Wrote
<1>6. \A j \in Ids : Still(j)  BY <1>u, <1>5 DEF Still
<1>7. nap' # None => Up  BY <1>u DEF RestartInv, PhaseInv
<1> QED  BY <1>u, <1>3, <1>4, <1>6, <1>7, NoneChanges

LEMMA CodeEndsKeeps == ASSUME RestartInv, NEW i \in Ids, CodeEnds(i) PROVE RestartInv'
<1>0. TypeOK /\ disk \in DiskT  BY InvTypes
<1>2. Erased(disk, disk', "code", i)
  <2>1. "code" \in Families  BY FamilyNames
  <2>2. disk' = Del(disk, "code", i)  BY DEF CodeEnds
  <2> QED  BY <1>0, <2>1, <2>2, DelIs
<1>u. marks' = marks /\ wish' = wish /\ exposed' = exposed /\ nextId' = nextId /\ rows' = rows
      /\ nap' = nap /\ boot' = boot /\ stages' = stages /\ crashes' = crashes /\ sess' = sess
  BY DEF CodeEnds
<1>h. /\ hosts' \in [Ids -> Items \cup {None}] /\ hosts'[i] = None
      /\ \A j \in Ids : j # i => hosts'[j] = hosts[j]
  BY <1>0 DEF CodeEnds, TypeOK
<1>3. TypeOK'  BY <1>0, <1>2, <1>u, <1>h DEF TypeOK, DiskT, Erased
<1>4. CodesMove
  <2>1. /\ disk'["code"][i] = None
        /\ \A j \in Ids : j # i => disk'["code"][j] = disk["code"][j]
    BY <1>2, FamilyNames DEF Erased
  <2>2. i < nextId  BY DEF RestartInv, CodesInv, CodeEnds
  <2> QED  BY <1>u, <1>h, <2>1, <2>2 DEF CodesMove
<1>5. \A f \in NoCode, j \in Ids : disk'[f][j] = disk[f][j]  BY <1>2, NoCodeIs DEF Erased
<1>6. \A j \in Ids : Still(j)  BY <1>u, <1>5 DEF Still
<1>7. nap' # None => Up  BY <1>u DEF RestartInv, PhaseInv
<1> QED  BY <1>u, <1>3, <1>4, <1>6, <1>7, NoneChanges

-----------------------------------------------------------------------------
(* Stopping and starting again.                                            *)

\* What stands beside one row's change of state.
Beside ==
    /\ hosts' = hosts /\ nextId' = nextId /\ boot' = boot
    /\ stages' = stages /\ crashes' = crashes /\ sess' = sess

\* A change of state of row i that leaves the records, or rewrites the row's own.
LEMMA StateMoves ==
    ASSUME RestartInv, NEW i \in Ids, Live(i), NEW s \in {"run", "stopping", "ending", "paused"},
           rows[i].st # "handing", s = "stopping" => rows[i].kind \in {"dl", "sendto"},
           Recast(i, rows[i].kind, s), rows'[i].seal = rows[i].seal, rows'[i].prep = rows[i].prep,
           Beside, nap' \in Ids \cup {None}, nap' # None => Up, exposed' = exposed,
           disk' = disk \/ \E t \in Tags : rows[i].kind = "sendto"
                                           /\ Wrote(disk, disk', "sendto", i, rows[i].item, t),
           marks' \in [Ids -> {"no", "user", "system"}],
           \A j \in Ids : j # i => marks'[j] = marks[j],
           Up \/ marks'[i] \in {marks[i], "user"},
           marks'[i] # "no" => marks[i] # "no" \/ rows[i].kind = "dl",
           wish' \in [Items -> {"new", "go", "stop", "sleep", "gone", "done"}],
           \A x \in Items : x # rows[i].item => wish'[x] = wish[x],
           wish'[rows[i].item] = "new" => wish[rows[i].item] = "new",
           rows[i].item \notin exposed /\ wish'[rows[i].item] = "stop" =>
              \/ rows[i].kind = "dl" /\ s \in {"stopping", "paused"} /\ marks'[i] = "user"
              \/ rows[i].kind = "sendto" /\ s = "paused" /\ disk'["sendto"][i].tag = "paused",
           wish'[rows[i].item] = "stop" =>
              \/ wish[rows[i].item] = "stop"
              \/ rows[i].kind \in {"dl", "sendto"}
    PROVE  RestartInv'
<1>0. TypeOK /\ disk \in DiskT  BY InvTypes
<1> DEFINE x == rows[i].item
<1>2. rows[i] \in Row /\ x \in Items /\ rows[i].kind \in Kinds /\ (x \notin exposed => RowTrue(i))
  BY RowIs
<1>3. /\ disk' \in DiskT
      /\ \A f \in Families, j \in Ids : disk'[f][j] = disk[f][j]
            \/ (f = "sendto" /\ j = i /\ rows[i].kind = "sendto"
                /\ disk'[f][j] # None /\ disk'[f][j].item = x)
  BY <1>0 DEF Wrote
<1>4. TypeOK'
  BY <1>0, <1>3 DEF TypeOK, DiskT, Recast, Beside
<1>5. RowGood(i)
  <2> SUFFICES ASSUME x \notin exposed PROVE RowGood(i)  BY DEF RowGood, Recast
  <2>1. RowTrue(i)  BY <1>2
  <2>2. disk'[rows[i].kind][i] # None /\ disk'[rows[i].kind][i].item = x
    <3>1. rows[i].kind \in Families  BY <1>2 DEF Families
    <3> QED  BY <1>3, <2>1, <3>1 DEF RowTrue, Filed
  <2> QED  BY <2>1, <2>2 DEF RowGood, RowTrue, Recast
<1>6. Worked(i)
  <2>1. rows[i].kind = "sendto" => "sendto" \in Own(rows[i])  BY DEF Own, HandingSend
  <2>2. \A f \in NoCode : \/ disk'[f][i] = disk[f][i]
                          \/ f \in Own(rows[i]) /\ OfRow(disk'[f][i], rows[i], f)
    BY <1>3, <2>1, NoCodeIs DEF OfRow
  <2> QED  BY <1>5, <2>2, SameKind DEF Recast
<1>7. AtOnly(i)  BY <1>3, NoCodeIs DEF AtOnly, Recast
<1>8. CodesMove
  <2>1. \A j \in Ids : disk'["code"][j] = disk["code"][j]  BY <1>3, FamilyNames
  <2> QED  BY <2>1, CodesStay DEF Beside
<1>9. disk'["pend"][i] = disk["pend"][i]  BY <1>3, FamilyNames
<1> QED  BY <1>4, <1>6, <1>7, <1>8, <1>9, OneWorked DEF Beside

LEMMA SettleKeeps == ASSUME RestartInv, NEW i \in Ids, Settle(i) PROVE RestartInv'
<1>0. TypeOK /\ disk \in DiskT  BY InvTypes
<1>1. Live(i) /\ rows[i].st = "stopping"  BY DEF Settle
<1> DEFINE x == rows[i].item
<1>2. /\ rows[i] \in Row /\ x \in Items /\ (x \notin exposed => RowTrue(i))
      /\ rows[i].kind \in {"dl", "sendto"}
  BY <1>1, RowIs DEF RowPhase
<1>3. Recast(i, rows[i].kind, "paused") /\ rows'[i].seal = rows[i].seal /\ rows'[i].prep = rows[i].prep
  BY <1>0, <1>1, StIs DEF Settle, SetSt
<1>4. Beside /\ nap' = nap /\ exposed' = exposed  BY DEF Settle, Beside
<1>5. nap' \in Ids \cup {None} /\ (nap' # None => Up)
  BY <1>4 DEF RestartInv, PhaseInv, TypeOK
<1>6. CASE rows[i].kind = "dl"
  <2>1. disk' = disk /\ wish' = wish /\ marks' = [marks EXCEPT ![i] = "user"]  BY <1>6 DEF Settle
  <2>2. /\ marks' \in [Ids -> {"no", "user", "system"}] /\ marks'[i] = "user"
        /\ \A j \in Ids : j # i => marks'[j] = marks[j]
    BY <1>0, <2>1 DEF TypeOK
  <2>3. wish' \in [Items -> {"new", "go", "stop", "sleep", "gone", "done"}]  BY SMTT(30), <1>0, <2>1 DEF TypeOK
  <2> QED  BY <1>1, <1>3, <1>4, <1>5, <1>6, <2>1, <2>2, <2>3, StateMoves
<1>7. CASE rows[i].kind # "dl"
  <2>1. /\ disk' = Put(disk, "sendto", i, x, "paused") /\ marks' = marks
        /\ wish' = [wish EXCEPT ![x] = IF wish[x] = "go" THEN "stop" ELSE wish[x]]
    BY <1>7 DEF Settle
  <2>2. "sendto" \in Families /\ "paused" \in Tags  BY FamilyNames DEF Tags
  <2>3. Wrote(disk, disk', "sendto", i, x, "paused")  BY <1>0, <1>2, <2>1, <2>2, PutIs
  <2>4. /\ wish' \in [Items -> {"new", "go", "stop", "sleep", "gone", "done"}]
        /\ wish'[x] = (IF wish[x] = "go" THEN "stop" ELSE wish[x])
        /\ \A y \in Items : y # x => wish'[y] = wish[y]
    BY <1>0, <1>2, <2>1 DEF TypeOK
  <2>5. marks' \in [Ids -> {"no", "user", "system"}]  BY <1>0, <2>1 DEF TypeOK
  <2>6. rows[i].kind = "sendto" /\ disk'["sendto"][i].tag = "paused"  BY <1>2, <1>7, <2>3 DEF Wrote
  <2>7. \E t \in Tags : rows[i].kind = "sendto" /\ Wrote(disk, disk', "sendto", i, rows[i].item, t)
    BY <2>2, <2>3, <2>6
  <2>8. wish'[x] = "new" => wish[x] = "new"  BY <2>4
  <2> QED
    BY <1>1, <1>3, <1>4, <1>5, <2>1, <2>4, <2>5, <2>6, <2>7, <2>8, StateMoves
<1> QED  BY <1>6, <1>7

LEMMA AskIs ==
    ASSUME TypeOK, NEW x \in Items, NEW w \in {"go", "stop", "sleep", "gone", "done"}, Ask(x, w)
    PROVE  /\ wish' \in [Items -> {"new", "go", "stop", "sleep", "gone", "done"}] /\ wish'[x] = w
           /\ \A y \in Items : y # x => wish'[y] = wish[y]
  BY DEF TypeOK, Ask

LEMMA DiskFullKeeps == ASSUME RestartInv, NEW i \in Ids, DiskFull(i) PROVE RestartInv'
<1>0. TypeOK  BY InvTypes
<1>1. Live(i) /\ rows[i].st = "run" /\ rows[i].kind = "dl"  BY DEF DiskFull, Is
<1> DEFINE x == rows[i].item
<1>2. x \in Items  BY <1>1, RowIs
<1>3. Recast(i, rows[i].kind, "paused") /\ rows'[i].seal = rows[i].seal /\ rows'[i].prep = rows[i].prep
  BY <1>0, <1>1, StIs DEF DiskFull, SetSt
<1>4. Beside /\ nap' = nap /\ exposed' = exposed /\ disk' = disk  BY DEF DiskFull, Beside
<1>5. nap' \in Ids \cup {None} /\ (nap' # None => Up)
  BY <1>4 DEF RestartInv, PhaseInv, TypeOK
<1>6. /\ marks' \in [Ids -> {"no", "user", "system"}] /\ marks'[i] = "user"
      /\ \A j \in Ids : j # i => marks'[j] = marks[j]
  BY <1>0 DEF TypeOK, DiskFull
<1>7. /\ wish' \in [Items -> {"new", "go", "stop", "sleep", "gone", "done"}] /\ wish'[x] = "stop"
      /\ \A y \in Items : y # x => wish'[y] = wish[y]
  BY <1>0, <1>2, AskIs DEF DiskFull
<1> QED  BY <1>1, <1>3, <1>4, <1>5, <1>6, <1>7, StateMoves

\* What pause leaves of the row and its marker.
LEMMA PauseRowIs ==
    ASSUME RestartInv, NEW i \in Ids, Pausable(i), PauseRow(i)
    PROVE  /\ Live(i) /\ rows[i].st \in {"run", "stopping", "ending"} /\ rows[i].kind \in {"dl", "sendto"}
           /\ rows[i].item \in Items /\ (rows[i].item \notin exposed => RowTrue(i))
           /\ Recast(i, rows[i].kind, "stopping")
           /\ rows'[i].seal = rows[i].seal /\ rows'[i].prep = rows[i].prep
           /\ marks' \in [Ids -> {"no", "user", "system"}]
           /\ marks'[i] = (IF rows[i].kind = "dl" THEN "user" ELSE marks[i])
           /\ \A j \in Ids : j # i => marks'[j] = marks[j]
<1>0. TypeOK  BY InvTypes
<1>1. Live(i) /\ rows[i].st \in {"run", "stopping", "ending"} /\ rows[i].kind \in {"dl", "sendto"}
  BY DEF Pausable
<1>2. rows[i].item \in Items /\ (rows[i].item \notin exposed => RowTrue(i))  BY <1>1, RowIs
<1>3. Recast(i, rows[i].kind, "stopping")
      /\ rows'[i].seal = rows[i].seal /\ rows'[i].prep = rows[i].prep
  BY <1>0, <1>1, StIs DEF PauseRow, SetSt
<1>4. /\ marks' \in [Ids -> {"no", "user", "system"}]
      /\ marks'[i] = (IF rows[i].kind = "dl" THEN "user" ELSE marks[i])
      /\ \A j \in Ids : j # i => marks'[j] = marks[j]
  BY <1>0 DEF TypeOK, PauseRow
<1> QED  BY <1>1, <1>2, <1>3, <1>4

LEMMA PauseKeeps == ASSUME RestartInv, NEW i \in Ids, Pause(i) PROVE RestartInv'
<1>0. TypeOK  BY InvTypes
<1> DEFINE x == rows[i].item
<1>1. /\ Live(i) /\ rows[i].st \in {"run", "stopping", "ending"} /\ rows[i].kind \in {"dl", "sendto"}
      /\ x \in Items /\ (x \notin exposed => RowTrue(i))
      /\ Recast(i, rows[i].kind, "stopping")
      /\ rows'[i].seal = rows[i].seal /\ rows'[i].prep = rows[i].prep
      /\ marks' \in [Ids -> {"no", "user", "system"}]
      /\ marks'[i] = (IF rows[i].kind = "dl" THEN "user" ELSE marks[i])
      /\ \A j \in Ids : j # i => marks'[j] = marks[j]
  BY PauseRowIs DEF Pause
<1>2. Beside /\ nap' = nap /\ exposed' = exposed /\ disk' = disk /\ Up  BY DEF Pause, Beside
<1>3. nap' \in Ids \cup {None}  BY <1>0, <1>2 DEF TypeOK
<1>4. /\ wish' \in [Items -> {"new", "go", "stop", "sleep", "gone", "done"}]
      /\ wish'[x] = (IF rows[i].kind = "dl" THEN "stop" ELSE wish[x])
      /\ \A y \in Items : y # x => wish'[y] = wish[y]
  BY <1>0, <1>1 DEF Pause, TypeOK
<1>5. x \notin exposed /\ wish'[x] = "stop" => rows[i].kind = "dl"
  BY <1>1, <1>4 DEF RowTrue
<1>6. wish'[x] = "new" => wish[x] = "new"  BY <1>4
<1> QED  BY <1>1, <1>2, <1>3, <1>4, <1>5, <1>6, StateMoves

LEMMA SuspendPauseKeeps == ASSUME RestartInv, NEW i \in Ids, SuspendPause(i) PROVE RestartInv'
<1>0. TypeOK  BY InvTypes
<1> DEFINE x == rows[i].item
<1>1. /\ Live(i) /\ rows[i].st \in {"run", "stopping", "ending"} /\ rows[i].kind \in {"dl", "sendto"}
      /\ x \in Items /\ (x \notin exposed => RowTrue(i))
      /\ Recast(i, rows[i].kind, "stopping")
      /\ rows'[i].seal = rows[i].seal /\ rows'[i].prep = rows[i].prep
      /\ marks' \in [Ids -> {"no", "user", "system"}]
      /\ marks'[i] = (IF rows[i].kind = "dl" THEN "user" ELSE marks[i])
      /\ \A j \in Ids : j # i => marks'[j] = marks[j]
  BY PauseRowIs DEF SuspendPause
<1>2. Beside /\ nap' = i /\ exposed' = exposed /\ disk' = disk /\ Up  BY DEF SuspendPause, Beside
<1>3. nap' \in Ids \cup {None}  BY <1>2
<1>4. /\ wish' \in [Items -> {"new", "go", "stop", "sleep", "gone", "done"}] /\ wish'[x] = "sleep"
      /\ \A y \in Items : y # x => wish'[y] = wish[y]
  BY <1>0, <1>1, AskIs DEF SuspendPause
<1> QED  BY <1>1, <1>2, <1>3, <1>4, StateMoves

LEMMA CancelKeeps == ASSUME RestartInv, NEW i \in Ids, Cancel(i) PROVE RestartInv'
<1>0. TypeOK  BY InvTypes
<1>1. Live(i) /\ rows[i].st \in {"run", "stopping"} /\ Up  BY DEF Cancel
<1> DEFINE x == rows[i].item
           s == IF rows[i].st = "run" THEN "ending" ELSE "stopping"
<1>2. x \in Items /\ (rows[i].st = "stopping" => rows[i].kind \in {"dl", "sendto"})
  BY <1>1, RowIs DEF RowPhase
<1>s. s \in {"run", "stopping", "ending", "paused"} /\ (s = "stopping" => rows[i].st = "stopping")
  BY <1>1
<1>v. rows' = [rows EXCEPT ![i].st = s]  BY DEF Cancel, SetSt
<1> HIDE DEF s
<1>3. Recast(i, rows[i].kind, s) /\ rows'[i].seal = rows[i].seal /\ rows'[i].prep = rows[i].prep
  BY <1>0, <1>1, <1>s, <1>v, StIs
<1>4. Beside /\ nap' = nap /\ exposed' = exposed /\ disk' = disk /\ marks' = marks
  BY DEF Cancel, Beside, files
<1>5. nap' \in Ids \cup {None} /\ marks' \in [Ids -> {"no", "user", "system"}]
  BY <1>0, <1>4 DEF TypeOK
<1>7. /\ wish' \in [Items -> {"new", "go", "stop", "sleep", "gone", "done"}] /\ wish'[x] = "gone"
      /\ \A y \in Items : y # x => wish'[y] = wish[y]
  BY <1>0, <1>2, AskIs DEF Cancel
<1> QED  BY <1>1, <1>2, <1>s, <1>3, <1>4, <1>5, <1>7, StateMoves

\* One row among those started again, as it is afterwards.
LEMMA ResumedIs ==
    ASSUME RestartInv, NEW I \in SUBSET Ids, \A i \in I : Live(i), Resumed(I)
    PROVE  /\ rows' \in [Ids -> Row \cup {None}] /\ disk' \in DiskT
           /\ marks' \in [Ids -> {"no", "user", "system"}]
           /\ \A i \in I : /\ rows'[i] \in Row /\ rows'[i] # None
                           /\ rows'[i].item = rows[i].item /\ rows'[i].kind = rows[i].kind
                           /\ rows'[i].st = "run"
                           /\ rows'[i].seal = rows[i].seal /\ rows'[i].prep = rows[i].prep
                           /\ marks'[i] = "no"
           /\ \A i \in Ids \ I : rows'[i] = rows[i] /\ marks'[i] = marks[i]
           /\ \A f \in Families, i \in Ids : disk'[f][i] = disk[f][i]
                \/ (f = "sendto" /\ i \in I /\ rows[i].kind = "sendto"
                    /\ disk'[f][i] # None /\ disk'[f][i].item = rows[i].item)
<1>0. TypeOK /\ disk \in DiskT  BY InvTypes
<1>1. \A i \in I : rows[i] \in Row /\ rows[i].item \in Items  BY RowIs
<1>2. \A i \in Ids : rows'[i] = IF i \in I THEN [rows[i] EXCEPT !.st = "run"] ELSE rows[i]
  BY DEF Resumed
<1>3. ASSUME NEW i \in I
      PROVE /\ rows'[i] \in Row /\ rows'[i] # None
            /\ rows'[i].item = rows[i].item /\ rows'[i].kind = rows[i].kind /\ rows'[i].st = "run"
            /\ rows'[i].seal = rows[i].seal /\ rows'[i].prep = rows[i].prep
  <2>1. rows'[i] = [rows[i] EXCEPT !.st = "run"] /\ rows[i] \in Row  BY <1>1, <1>2
  <2>2. rows'[i] \in Row  BY <2>1 DEF Row
  <2> QED  BY <2>1, <2>2, RestartNone DEF Row
<1>4. rows' \in [Ids -> Row \cup {None}]
  <2>1. \A i \in Ids : rows'[i] \in Row \cup {None}  BY <1>0, <1>2, <1>3 DEF TypeOK
  <2> QED  BY <2>1 DEF Resumed
<1>5. /\ marks' \in [Ids -> {"no", "user", "system"}]
      /\ \A i \in Ids : marks'[i] = IF i \in I THEN "no" ELSE marks[i]
  BY <1>0 DEF Resumed, TypeOK
<1>6. disk' \in DiskT /\ \A f \in Families, i \in Ids : disk'[f][i] = disk[f][i]
                \/ (f = "sendto" /\ i \in I /\ rows[i].kind = "sendto"
                    /\ disk'[f][i] # None /\ disk'[f][i].item = rows[i].item)
  <2> DEFINE fam == [i \in Ids |-> IF i \in I /\ rows[i].kind = "sendto"
                                   THEN [item |-> rows[i].item, tag |-> ""] ELSE disk["sendto"][i]]
  <2>1. "sendto" \in Families  BY FamilyNames
  <2>2. \A i \in I : [item |-> rows[i].item, tag |-> ""] \in Rec  BY <1>1 DEF Rec, Tags
  <2>3. \A i \in Ids : disk["sendto"][i] \in Rec \cup {None}  BY <1>0, <2>1 DEF DiskT
  <2>4. fam \in [Ids -> Rec \cup {None}]  BY <2>2, <2>3
  <2>5. \A i \in Ids : fam[i] = disk["sendto"][i]
                \/ (i \in I /\ rows[i].kind = "sendto" /\ fam[i] # None /\ fam[i].item = rows[i].item)
    BY <2>2, RestartNone
  <2>6. disk' = [disk EXCEPT !["sendto"] = fam]  BY DEF Resumed
  <2> HIDE DEF fam
  <2>7. disk' \in DiskT  BY <1>0, <2>4, <2>6 DEF DiskT
  <2>8. disk'["sendto"] = fam /\ \A f \in Families : f # "sendto" => disk'[f] = disk[f]
    BY <1>0, <2>1, <2>6 DEF DiskT
  <2> QED  BY <2>5, <2>7, <2>8
<1> QED  BY <1>2, <1>3, <1>4, <1>5, <1>6

LEMMA ResumeKeeps == ASSUME RestartInv, NEW i \in Ids, Resume(i) PROVE RestartInv'
<1>0. TypeOK /\ disk \in DiskT  BY InvTypes
<1>1. Live(i) /\ rows[i].st = "paused" /\ Up  BY DEF Resume, Resumable
<1> DEFINE x == rows[i].item
<1>2. x \in Items /\ rows[i].kind \in Kinds  BY <1>1, RowIs
<1>r. Resumed({i})  BY DEF Resume
<1>3. /\ rows' \in [Ids -> Row \cup {None}] /\ disk' \in DiskT
      /\ marks' \in [Ids -> {"no", "user", "system"}]
      /\ \A j \in {i} : /\ rows'[j] \in Row /\ rows'[j] # None
                        /\ rows'[j].item = rows[j].item /\ rows'[j].kind = rows[j].kind
                        /\ rows'[j].st = "run"
                        /\ rows'[j].seal = rows[j].seal /\ rows'[j].prep = rows[j].prep
                        /\ marks'[j] = "no"
      /\ \A j \in Ids \ {i} : rows'[j] = rows[j] /\ marks'[j] = marks[j]
      /\ \A f \in Families, j \in Ids : disk'[f][j] = disk[f][j]
           \/ (f = "sendto" /\ j \in {i} /\ rows[j].kind = "sendto"
               /\ disk'[f][j] # None /\ disk'[f][j].item = rows[j].item)
  <2> DEFINE I == {i}
  <2>1. I \in SUBSET Ids /\ \A j \in I : Live(j)  BY <1>1
  <2>2. Resumed(I)  BY <1>r
  <2> HIDE DEF I
  <2>3. /\ rows' \in [Ids -> Row \cup {None}] /\ disk' \in DiskT
        /\ marks' \in [Ids -> {"no", "user", "system"}]
        /\ \A j \in I : /\ rows'[j] \in Row /\ rows'[j] # None
                        /\ rows'[j].item = rows[j].item /\ rows'[j].kind = rows[j].kind
                        /\ rows'[j].st = "run"
                        /\ rows'[j].seal = rows[j].seal /\ rows'[j].prep = rows[j].prep
                        /\ marks'[j] = "no"
        /\ \A j \in Ids \ I : rows'[j] = rows[j] /\ marks'[j] = marks[j]
        /\ \A f \in Families, j \in Ids : disk'[f][j] = disk[f][j]
           \/ (f = "sendto" /\ j \in I /\ rows[j].kind = "sendto"
               /\ disk'[f][j] # None /\ disk'[f][j].item = rows[j].item)
    BY <2>1, <2>2, ResumedIs
  <2> QED  BY <2>3 DEF I
<1>4. Beside /\ nap' = nap /\ exposed' = exposed  BY DEF Resume, Beside
<1>5. nap' \in Ids \cup {None}  BY <1>0, <1>4 DEF TypeOK
<1>6. /\ wish' \in [Items -> {"new", "go", "stop", "sleep", "gone", "done"}] /\ wish'[x] = "go"
      /\ \A y \in Items : y # x => wish'[y] = wish[y]
  BY <1>0, <1>2, AskIs DEF Resume
<1>7. TypeOK'  BY <1>0, <1>3, <1>4, <1>5, <1>6 DEF TypeOK, DiskT, Beside
<1>8. RowGood(i)
  <2> SUFFICES ASSUME x \notin exposed PROVE RowGood(i)  BY <1>3, <1>4 DEF RowGood
  <2>1. RowTrue(i)  BY <1>1, RowIs
  <2>2. disk'[rows[i].kind][i] # None /\ disk'[rows[i].kind][i].item = x
    <3>1. rows[i].kind \in Families  BY <1>2 DEF Families
    <3> QED  BY <1>3, <2>1, <3>1 DEF RowTrue, Filed
  <2> QED  BY <1>3, <1>6, <2>1, <2>2 DEF RowGood, RowTrue
<1>9. Worked(i)
  <2>1. rows[i].kind = "sendto" => "sendto" \in Own(rows[i])  BY DEF Own, HandingSend
  <2>2. \A f \in NoCode : \/ disk'[f][i] = disk[f][i]
                          \/ f \in Own(rows[i]) /\ OfRow(disk'[f][i], rows[i], f)
    BY <1>3, <2>1, NoCodeIs DEF OfRow
  <2> QED  BY <1>1, <1>3, <1>8, <2>2, SameKind
<1>10. AtOnly(i)  BY <1>3, NoCodeIs DEF AtOnly
<1>11. CodesMove
  <2>1. \A j \in Ids : disk'["code"][j] = disk["code"][j]  BY <1>3, FamilyNames
  <2> QED  BY <1>4, <2>1, CodesStay DEF Beside
<1>12. disk'["pend"][i] = disk["pend"][i]  BY <1>3, FamilyNames
<1> QED  BY <1>1, <1>4, <1>6, <1>7, <1>9, <1>10, <1>11, <1>12, OneWorked DEF Beside

LEMMA SuspendMarkKeeps == ASSUME RestartInv, SuspendMark PROVE RestartInv'
<1>0. TypeOK /\ disk \in DiskT  BY InvTypes
<1>1. nap \in Ids /\ nap # None /\ Up  BY <1>0 DEF SuspendMark, TypeOK, RestartInv, PhaseInv
<1>2. disk' = disk /\ rows' = rows /\ nap' = None /\ Beside  BY DEF SuspendMark, Beside
<1>3. /\ marks' \in [Ids -> {"no", "user", "system"}]
      /\ marks'[nap] = (IF marks[nap] = "no" THEN "no" ELSE "system")
      /\ \A j \in Ids : j # nap => marks'[j] = marks[j]
  BY <1>0, <1>1 DEF SuspendMark, TypeOK
<1>4. /\ wish' \in [Items -> {"new", "go", "stop", "sleep", "gone", "done"}]
      /\ \A x \in Items : wish'[x] = IF marks[nap] # "no" /\ nap \in RowsOf(x) /\ wish[x] = "stop"
                                     THEN "sleep" ELSE wish[x]
  BY <1>0 DEF SuspendMark, TypeOK
<1>5. /\ exposed \subseteq exposed' /\ exposed' \subseteq Items
      /\ \A x \in Items : x \in exposed' <=> x \in exposed \/ (marks[nap] # "no" /\ \E i \in RowsOf(x) :
                                              i = nap /\ rows[i].kind = "sendto")
  BY <1>0 DEF SuspendMark, TypeOK
<1>6. TypeOK'  BY <1>0, <1>2, <1>3, <1>4, <1>5 DEF TypeOK, Beside
<1>7. CodesMove  BY <1>2, CodesStay DEF Beside
<1>8. CASE ~Live(nap)
  <2>1. \A x \in Items : nap \notin RowsOf(x)  BY <1>8 DEF RowsOf
  <2>2. wish' = wish
    <3>1. \A x \in Items : wish'[x] = wish[x]  BY <1>4, <2>1
    <3> QED  BY <1>0, <1>4, <3>1 DEF TypeOK
  <2>3. exposed' = exposed
    <3>1. \A x \in Items : x \in exposed' => x \in exposed  BY <1>5, <2>1
    <3> QED  BY <1>5, <3>1
  <2>4. \A j \in Ids : Still(j)  BY <1>1, <1>2, <1>3, <1>8 DEF Still
  <2> QED  BY <1>1, <1>2, <1>6, <1>7, <2>2, <2>3, <2>4, NoneChanges DEF Beside
<1>9. CASE Live(nap)
  <2> DEFINE x == rows[nap].item
  <2>1. /\ rows[nap] \in Row /\ x \in Items /\ rows[nap].kind \in Kinds /\ RowPhase(rows[nap])
        /\ (x \notin exposed => RowTrue(nap))
    BY <1>1, <1>9, RowIs
  <2>2. nap \in RowsOf(x) /\ \A y \in Items : y # x => nap \notin RowsOf(y)  BY <1>1, <1>9 DEF RowsOf
  <2>3. wish'[x] = (IF marks[nap] # "no" /\ wish[x] = "stop" THEN "sleep" ELSE wish[x])
        /\ \A y \in Items : y # x => wish'[y] = wish[y]
    BY <1>4, <2>1, <2>2
  <2>4. RowGood(nap)
    <3> SUFFICES ASSUME x \notin exposed' PROVE RowGood(nap)  BY <1>2 DEF RowGood
    <3>1. RowTrue(nap)  BY <1>5, <2>1
    <3>2. rows[nap].kind = "sendto" => marks[nap] = "no"  BY <1>5, <2>1, <2>2
    <3>3. wish'[x] # "stop" \/ (wish[x] = "stop" /\ marks[nap] = "no")  BY <2>3
    <3>4. wish'[x] = "stop" => rows[nap].kind = "sendto" /\ rows[nap].st = "paused"
                               /\ disk["sendto"][nap].tag = "paused"
      BY <3>1, <3>3 DEF RowTrue
    <3> QED  BY <1>2, <2>3, <3>1, <3>4 DEF RowGood, RowTrue, Filed
  <2>5. Worked(nap)
    <3>1. rows'[nap] = rows[nap] /\ rows'[nap] # None /\ Live(nap)  BY <1>2, <1>9 DEF Live
    <3>2. RowPhase(rows'[nap])  BY <2>1, <3>1
    <3>3. \A f \in NoCode : disk'[f][nap] = disk[f][nap]  BY <1>2
    <3>4. marks'[nap] # "no" => marks[nap] # "no"  BY <1>3
    <3>5. Own(rows[nap]) \subseteq NoCode  BY <2>1, OwnIs
    <3> QED  BY <1>1, <2>4, <3>1, <3>2, <3>3, <3>4, <3>5 DEF Worked
  <2>6. AtOnly(nap)  BY <1>2, <1>3 DEF AtOnly
  <2> QED  BY <1>1, <1>2, <1>5, <1>6, <1>7, <2>3, <2>5, <2>6, OneWorked DEF Beside
<1> QED  BY <1>8, <1>9

LEMMA ResumeSuspendedKeeps == ASSUME RestartInv, ResumeSuspended PROVE RestartInv'
<1>0. TypeOK /\ disk \in DiskT  BY InvTypes
<1>1. Up /\ nap = None /\ nap' = nap /\ Beside  BY DEF ResumeSuspended, Beside
<1> DEFINE I == Slept
<1>2. I \in SUBSET Ids /\ \A i \in I : Live(i) /\ rows[i].st = "paused" /\ marks[i] = "system"
  BY DEF Slept, Resumable
<1>r. Resumed(I)  BY DEF ResumeSuspended
<1>e. exposed' = exposed \cup {rows[i].item : i \in {j \in I : rows[j].kind = "sendto"}}
  BY DEF ResumeSuspended
<1> HIDE DEF I
<1>3. /\ rows' \in [Ids -> Row \cup {None}] /\ disk' \in DiskT
      /\ marks' \in [Ids -> {"no", "user", "system"}]
      /\ \A j \in I : /\ rows'[j] \in Row /\ rows'[j] # None
                      /\ rows'[j].item = rows[j].item /\ rows'[j].kind = rows[j].kind
                      /\ rows'[j].st = "run"
                      /\ rows'[j].seal = rows[j].seal /\ rows'[j].prep = rows[j].prep
                      /\ marks'[j] = "no"
      /\ \A j \in Ids \ I : rows'[j] = rows[j] /\ marks'[j] = marks[j]
      /\ \A f \in Families, j \in Ids : disk'[f][j] = disk[f][j]
           \/ (f = "sendto" /\ j \in I /\ rows[j].kind = "sendto"
               /\ disk'[f][j] # None /\ disk'[f][j].item = rows[j].item)
  BY <1>2, <1>r, ResumedIs
<1>4. /\ wish' \in [Items -> {"new", "go", "stop", "sleep", "gone", "done"}]
      /\ \A x \in Items : wish'[x] = IF wish[x] = "sleep" THEN "go" ELSE wish[x]
  BY <1>0 DEF ResumeSuspended, Wake, TypeOK
<1>5. /\ exposed \subseteq exposed' /\ exposed' \subseteq Items
      /\ \A i \in I : rows[i].kind = "sendto" => rows[i].item \in exposed'
  <2>1. \A i \in I : rows[i].item \in Items  BY <1>2, RowIs
  <2> QED  BY <1>0, <1>e, <2>1 DEF TypeOK
<1>6. TypeOK'  BY <1>0, <1>1, <1>3, <1>4, <1>5 DEF TypeOK, DiskT, Beside
<1>7. ASSUME NEW i \in I PROVE Worked(i)
  <2>1. /\ i \in Ids /\ Live(i) /\ rows[i] \in Row /\ rows[i].kind \in Kinds /\ rows[i].item \in Items
        /\ (rows[i].item \notin exposed => RowTrue(i))
    BY <1>2, RowIs
  <2>2. RowGood(i)
    <3> SUFFICES ASSUME rows[i].item \notin exposed' PROVE RowGood(i)  BY <1>3 DEF RowGood
    <3>1. RowTrue(i) /\ rows[i].kind # "sendto"  BY <1>5, <2>1
    <3>2. disk'[rows[i].kind][i] # None /\ disk'[rows[i].kind][i].item = rows[i].item
      <4>1. rows[i].kind \in Families  BY <2>1 DEF Families
      <4> QED  BY <1>3, <2>1, <3>1, <4>1 DEF RowTrue, Filed
    <3>3. wish[rows[i].item] # "stop"  BY <1>2, <3>1 DEF RowTrue
    <3>4. wish'[rows[i].item] # "stop" /\ wish'[rows[i].item] # "new"
      BY <1>4, <2>1, <3>1, <3>3 DEF RowTrue
    <3> QED  BY <1>3, <3>1, <3>2, <3>4 DEF RowGood, RowTrue
  <2>3. rows[i].kind = "sendto" => "sendto" \in Own(rows[i])  BY DEF Own, HandingSend
  <2>4. \A f \in NoCode : \/ disk'[f][i] = disk[f][i]
                          \/ f \in Own(rows[i]) /\ OfRow(disk'[f][i], rows[i], f)
    BY <1>3, <2>1, <2>3, NoCodeIs DEF OfRow
  <2>5. rows[i].st # "handing"  BY <1>2
  <2> QED  BY <1>1, <1>3, <2>1, <2>2, <2>4, <2>5, SameKind
<1>8. ASSUME NEW i \in Ids \ I PROVE Still(i)  BY <1>3, NoCodeIs DEF Still
<1>9. \A i \in Ids : Change(i)  BY <1>7, <1>8 DEF Change
<1>10. \A x \in Items : WishMoves(x)
  <2> SUFFICES ASSUME NEW x \in Items PROVE WishMoves(x)  OBVIOUS
  <2>1. ~(InHand(x) /\ boot'.hand = None)  BY <1>1 DEF InHand, Beside
  <2>2. wish[x] = "sleep" => RowsOf(x) # {} \/ x \in exposed'
    <3> SUFFICES ASSUME wish[x] = "sleep", x \notin exposed PROVE RowsOf(x) # {}  BY <1>5
    <3>1. NothingForgotten  BY InvGives DEF ComesBackOnce
    <3> QED  BY <1>1, <3>1 DEF NothingForgotten
  <2> QED  BY <1>4, <2>1, <2>2 DEF WishMoves, Active
<1>11. CodesMove
  <2>1. \A j \in Ids : disk'["code"][j] = disk["code"][j]  BY <1>3, FamilyNames
  <2> QED  BY <1>1, <2>1, CodesStay DEF Beside
<1>12. \A j \in Ids : disk'["pend"][j] = disk["pend"][j]  BY <1>3, FamilyNames
<1>13. nextId <= nextId'  BY <1>0, <1>1, RestartConstants DEF Beside, TypeOK, RestartConstants
<1>14. Steady  BY <1>1, <1>5, <1>9, <1>10, <1>11, <1>12, <1>13 DEF Steady, Beside
<1> QED  BY <1>6, <1>14, SteadyKeeps

-----------------------------------------------------------------------------
(* Registering.                                                            *)

\* The row is on the list under the next number, and what was filed there before
\* is at risk.
Enrolled(row) ==
    /\ nextId \in Ids /\ nextId' = nextId + 1 /\ nextId' \in 1 .. MaxId + 1
    /\ rows' \in [Ids -> Row \cup {None}] /\ rows'[nextId] = row
    /\ \A j \in Ids : j # nextId => rows'[j] = rows[j]
    /\ exposed \subseteq exposed' /\ exposed' \subseteq Items
    /\ \A k \in Shelf(row.kind), y \in Items :
          Filed(k, nextId, y) \/ Listed(k, nextId, y) => y \in exposed' /\ row.item \in exposed'

LEMMA StaleIs ==
    ASSUME TypeOK, NEW k \in Kinds, NEW n \in Ids
    PROVE  /\ Stale(k, n) \subseteq Items
           /\ \A f \in Shelf(k), y \in Items :
                 Filed(f, n, y) \/ Listed(f, n, y) => y \in Stale(k, n)
<1>1. Shelf(k) \subseteq Kinds  BY DEF Shelf, Kinds
<1>2. \A f \in Kinds : disk[f][n] # None => disk[f][n].item \in Items
  BY DEF TypeOK, Rec, Families
<1>3. \A f \in Kinds : \A r \in boot.todo[f] : r.item \in Items  BY DEF TypeOK, ReadRec
<1> DEFINE A(f) == {disk[f][n].item : i \in {j \in {n} : disk[f][n] # None}}
           B(f) == {r.item : r \in {q \in boot.todo[f] : q.id = n}}
<1>4. \A f \in Kinds : A(f) \subseteq Items /\ B(f) \subseteq Items  BY <1>2, <1>3
<1>5. \A f \in Kinds, y \in Items : (Filed(f, n, y) => y \in A(f)) /\ (Listed(f, n, y) => y \in B(f))
  BY DEF Filed, Listed
<1>6. Stale(k, n) = UNION {A(f) \cup B(f) : f \in Shelf(k)}  BY DEF Stale
<1> HIDE DEF A, B
<1>7. \A f \in Shelf(k) : A(f) \cup B(f) \subseteq Stale(k, n)  BY <1>6
<1>8. Stale(k, n) \subseteq Items  BY <1>1, <1>4, <1>6
<1> QED  BY <1>1, <1>5, <1>7, <1>8

LEMMA NumberIs ==
    ASSUME RestartInv, nextId \in Ids
    PROVE  /\ nextId + 1 \in 1 .. MaxId + 1 /\ nextId <= nextId + 1 /\ nextId \in Nat
           /\ rows[nextId] = None /\ hosts[nextId] = None
<1>0. TypeOK  BY InvTypes
<1>1. MaxId \in Nat /\ nextId \in 1 .. MaxId + 1 /\ nextId <= MaxId
  BY <1>0, RestartConstants DEF TypeOK, RestartConstants, Ids, FirstId
<1>2. nextId + 1 \in 1 .. MaxId + 1 /\ ~(nextId < nextId)  BY <1>1
<1> QED  BY <1>1, <1>2 DEF RestartInv, PhaseInv, Live, CodesInv

LEMMA RegisterIs ==
    ASSUME RestartInv, NEW row \in Row, Register(row) PROVE Enrolled(row)
<1>0. TypeOK  BY InvTypes
<1>1. nextId \in Ids /\ nextId' = nextId + 1  BY DEF Register
<1>2. nextId' \in 1 .. MaxId + 1  BY <1>1, NumberIs
<1>3. rows' \in [Ids -> Row \cup {None}] /\ rows'[nextId] = row
      /\ \A j \in Ids : j # nextId => rows'[j] = rows[j]
  BY <1>0, <1>1 DEF Register, TypeOK
<1>4. row.kind \in Kinds /\ row.item \in Items  BY DEF Row
<1>5. exposed' = exposed \cup
         (IF Stale(row.kind, nextId) = {} THEN {} ELSE {row.item} \cup Stale(row.kind, nextId))
  BY DEF Register
<1>6. exposed \subseteq Items  BY <1>0 DEF TypeOK
<1>7. /\ Stale(row.kind, nextId) \subseteq Items
      /\ \A f \in Shelf(row.kind), y \in Items :
            Filed(f, nextId, y) \/ Listed(f, nextId, y) => y \in Stale(row.kind, nextId)
  BY <1>0, <1>1, <1>4, StaleIs
<1>8. exposed \subseteq exposed' /\ exposed' \subseteq Items  BY <1>4, <1>5, <1>6, <1>7
<1>9. \A y \in Stale(row.kind, nextId) : y \in exposed' /\ row.item \in exposed'  BY <1>5
<1> QED  BY <1>1, <1>2, <1>3, <1>7, <1>8, <1>9 DEF Enrolled

\* A step that registers one row, and may clear what was taken over.
LEMMA OneBegun ==
    ASSUME RestartInv, TypeOK', NEW n \in Ids, n = nextId, Begun(n),
           \A j \in Ids \ {n} : \/ Still(j) \/ Cleared(j)
                                \/ Worked(j) /\ disk'["pend"][j] = disk["pend"][j],
           boot'.at = boot.at, boot'.todo = boot.todo, boot'.hand \in {boot.hand, None},
           boot'.hand # boot.hand => boot.hand.item = rows'[n].item,
           exposed \subseteq exposed', nap' = nap, CodesMove,
           disk'["pend"][n] # None =>
              disk'["pend"][n] = disk["pend"][n] \/ disk'["pend"][n].tag \in PendTags,
           \A x \in Items : x # rows'[n].item => wish'[x] = wish[x],
           \/ wish'[rows'[n].item] = wish[rows'[n].item]
           \/ wish'[rows'[n].item] = "go" /\ wish[rows'[n].item] = "new"
    PROVE  RestartInv'
<1>1. \A j \in Ids : Change(j)  BY DEF Change
<1>2. nextId <= nextId'
  <2>1. nextId' = nextId + 1  BY DEF Begun
  <2> QED  BY <2>1, NumberIs
<1>3. \A x \in Items : WishMoves(x)
  <2> SUFFICES ASSUME NEW x \in Items PROVE WishMoves(x)  OBVIOUS
  <2>1. rows'[n] # None  BY DEF Begun
  <2>2. CASE x = rows'[n].item
    <3>1. wish'[x] = wish[x] \/ (wish'[x] = "go" /\ wish[x] = "new")  BY <2>2
    <3>2. \E j \in Ids : rows'[j] # None /\ rows'[j].item = x  BY <2>1, <2>2
    <3> QED  BY <3>1, <3>2 DEF WishMoves
  <2>3. CASE x # rows'[n].item
    <3>1. wish'[x] = wish[x]  BY <2>3
    <3>2. ~(InHand(x) /\ boot'.hand = None)  BY <2>3 DEF InHand
    <3> QED  BY <3>1, <3>2 DEF WishMoves
  <2> QED  BY <2>2, <2>3
<1>4. \A j \in Ids : disk'["pend"][j] # None =>
          disk'["pend"][j] = disk["pend"][j] \/ disk'["pend"][j].tag \in PendTags
  <2>1. "pend" \in NoCode  BY KindFacts DEF Kinds
  <2> QED  BY <2>1 DEF Still, Cleared
<1>5. nap' # None => Up  BY DEF RestartInv, PhaseInv
<1>6. Steady  BY <1>1, <1>2, <1>3, <1>4, <1>5 DEF Steady
<1> QED  BY <1>6, SteadyKeeps

\* Once a start is over nothing is in hand.
LEMMA UpIs == ASSUME RestartInv, Up PROVE boot.hand = None /\ boot.at = "up"
  BY DEF RestartInv, PhaseInv, Up, Kinds

LEMMA NewIs ==
    ASSUME RestartInv, NEW x \in Items, NEW k, New(x, k)
    PROVE  /\ wish' \in [Items -> {"new", "go", "stop", "sleep", "gone", "done"}]
           /\ wish[x] = "new" /\ wish'[x] = "go" /\ \A y \in Items : y # x => wish'[y] = wish[y]
  BY InvTypes, AskIs DEF New

\* A row of kind k registered with one record, its own.
LEMMA OnePut ==
    ASSUME RestartInv, NEW x \in Items, NEW k \in Kinds, NEW st \in {"run", "paused"}, NEW tag,
           NEW t \in Tags, NEW row, IsRow(row, x, k, st, None, None, tag), Enrolled(row),
           disk' = Put(disk, k, nextId, x, t), k = "pend" => t \in PendTags,
           boot.at \notin TooEarly(k), boot.at = "load" => x \in exposed',
           boot'.at = boot.at, boot'.todo = boot.todo, boot'.hand \in {boot.hand, None},
           boot'.hand # boot.hand => boot.hand.item = x, boot'.hand # None => k \in {"dl", "send"},
           boot' \in [at : Phases, todo : [Kinds -> SUBSET ReadRec], codes : SUBSET ReadRec,
                      hand : HandRec \cup {None}],
           (InHand(x) /\ boot'.hand = None) \/ wish[x] = "new",
           nap' = nap, stages' = stages, crashes' = crashes, sess' = sess,
           hosts' \in [Ids -> Items \cup {None}], CodesMove,
           marks' \in [Ids -> {"no", "user", "system"}],
           \A j \in Ids : j # nextId => marks'[j] = marks[j],
           marks'[nextId] = marks[nextId] \/ (marks'[nextId] = "user" /\ k = "dl"),
           wish' \in [Items -> {"new", "go", "stop", "sleep", "gone", "done"}],
           \A y \in Items : y # x => wish'[y] = wish[y],
           wish'[x] = wish[x] \/ (wish'[x] = "go" /\ wish[x] = "new"),
           x \notin exposed' =>
             /\ wish'[x] # "new"
             /\ wish'[x] = "stop" => \/ k = "dl" /\ st = "paused" /\ marks'[nextId] = "user"
                                     \/ k = "sendto" /\ st = "paused" /\ t = "paused"
    PROVE  RestartInv'
<1>0. TypeOK /\ disk \in DiskT  BY InvTypes
<1> DEFINE n == nextId
<1>1. n \in Ids /\ rows'[n] = row /\ exposed \subseteq exposed'  BY DEF Enrolled
<1>2. k \in NoCode /\ k \in Families  BY KindFacts
<1>3. Wrote(disk, disk', k, n, x, t)  BY <1>0, <1>1, <1>2, PutIs
<1>4. TypeOK'  BY <1>0, <1>3 DEF TypeOK, DiskT, Enrolled, Wrote
<1>5. Begun(n)
  <2>1. RowPhase(row)  BY DEF RowPhase, IsRow, HandingSend
  <2>2. k \in Own(row)  BY OwnIs DEF IsRow
  <2>3. \A f \in NoCode : disk'[f][n] = disk[f][n] \/ (f \in Own(row) /\ disk'[f][n].item = x)
    BY <1>1, <1>3, <2>2, NoCodeIs DEF Wrote
  <2>4. RowGood(n)
    <3> SUFFICES ASSUME x \notin exposed' PROVE RowGood(n)  BY <1>1 DEF RowGood, IsRow
    <3> QED  BY <1>1, <1>3 DEF RowGood, IsRow, Wrote
  <2> QED  BY <1>1, <2>1, <2>3, <2>4 DEF Begun, Enrolled, IsRow
<1>6. \A j \in Ids \ {n} : Still(j)  BY <1>3, NoCodeIs DEF Still, Enrolled, Wrote
<1>7. disk'["pend"][n] = disk["pend"][n] \/ disk'["pend"][n].tag \in PendTags
  BY <1>1, <1>3, FamilyNames DEF Wrote
<1>8. rows'[n].item = x  BY <1>1 DEF IsRow
<1> QED  BY <1>1, <1>4, <1>5, <1>6, <1>7, <1>8, OneBegun

LEMMA CodesPut ==
    ASSUME RestartInv, NEW k \in Kinds, NEW n \in Ids, NEW x \in Items, NEW t \in Tags,
           disk' = Put(disk, k, n, x, t), hosts' = hosts
    PROVE  CodesMove
<1>1. k \in Families /\ k # "code" /\ "code" \in Families  BY KindFacts
<1>2. Wrote(disk, disk', k, n, x, t)  BY <1>1, InvTypes, PutIs
<1> QED  BY <1>1, <1>2, CodesStay DEF Wrote

LEMMA SendToKeeps == ASSUME RestartInv, NEW x \in Items, SendTo(x) PROVE RestartInv'
<1>0. TypeOK  BY InvTypes
<1> DEFINE row == NewRow(x, "sendto", "run", None, None, "")
<1>1. boot.hand = None /\ boot.at = "up"  BY UpIs DEF SendTo
<1>u. marks' = marks /\ hosts' = hosts /\ nap' = nap /\ boot' = boot
      /\ stages' = stages /\ crashes' = crashes /\ sess' = sess
  BY DEF SendTo
<1>k. "sendto" \in Kinds /\ "" \in Tags  BY DEF Kinds, Tags
<1>2. IsRow(row, x, "sendto", "run", None, None, "")  BY <1>k, NewRowIs
<1>r. Register(row)  BY DEF SendTo
<1>d. disk' = Put(disk, "sendto", nextId, x, "")  BY DEF SendTo
<1> HIDE DEF row
<1>3. Enrolled(row)  BY <1>2, <1>r, RegisterIs DEF IsRow
<1>4. /\ wish' \in [Items -> {"new", "go", "stop", "sleep", "gone", "done"}]
      /\ wish[x] = "new" /\ wish'[x] = "go" /\ \A y \in Items : y # x => wish'[y] = wish[y]
  BY NewIs DEF SendTo
<1>5. CodesMove  BY <1>3, <1>d, <1>k, <1>u, CodesPut DEF Enrolled
<1>6. boot.at \notin TooEarly("sendto")  BY <1>1 DEF TooEarly
<1> QED  BY <1>0, <1>1, <1>2, <1>3, <1>4, <1>5, <1>6, <1>d, <1>k, <1>u, OnePut DEF TypeOK

LEMMA StartShareKeeps ==
    ASSUME RestartInv, NEW x \in Items, NEW tag \in {"", "code"}, StartShare(x, tag) PROVE RestartInv'
<1>0. TypeOK  BY InvTypes
<1> DEFINE row == NewRow(x, "pend", "run", None, None, tag)
<1>1. boot.hand = None /\ boot.at = "up"  BY UpIs DEF StartShare
<1>u. marks' = marks /\ hosts' = hosts /\ nap' = nap /\ boot' = boot
      /\ stages' = stages /\ crashes' = crashes /\ sess' = sess
  BY DEF StartShare
<1>k. "pend" \in Kinds /\ tag \in Tags /\ tag \in PendTags  BY DEF Kinds, Tags, PendTags
<1>2. IsRow(row, x, "pend", "run", None, None, tag)  BY <1>k, NewRowIs
<1>r. Register(row)  BY DEF StartShare
<1>d. disk' = Put(disk, "pend", nextId, x, tag)  BY DEF StartShare
<1> HIDE DEF row
<1>3. Enrolled(row)  BY <1>2, <1>r, RegisterIs DEF IsRow
<1>4. /\ wish' \in [Items -> {"new", "go", "stop", "sleep", "gone", "done"}]
      /\ wish[x] = "new" /\ wish'[x] = "go" /\ \A y \in Items : y # x => wish'[y] = wish[y]
  BY NewIs DEF StartShare
<1>5. CodesMove  BY <1>3, <1>d, <1>k, <1>u, CodesPut DEF Enrolled
<1>6. boot.at \notin TooEarly("pend")  BY <1>1 DEF TooEarly
<1> QED  BY <1>0, <1>1, <1>2, <1>3, <1>4, <1>5, <1>6, <1>d, <1>k, <1>u, OnePut DEF TypeOK

LEMMA StartDownloadKeeps == ASSUME RestartInv, NEW x \in Items, StartDownload(x) PROVE RestartInv'
<1>0. TypeOK  BY InvTypes
<1> DEFINE row == NewRow(x, "dl", "run", None, None, "")
           old == Stale("dl", nextId)
<1>u. marks' = marks /\ hosts' = hosts /\ nap' = nap /\ boot' = boot
      /\ stages' = stages /\ crashes' = crashes /\ sess' = sess
  BY DEF StartDownload
<1>k. "dl" \in Kinds /\ "" \in Tags  BY DEF Kinds, Tags
<1>2. IsRow(row, x, "dl", "run", None, None, "")  BY <1>k, NewRowIs
<1>d. disk' = Put(disk, "dl", nextId, x, "") /\ nextId \in Ids /\ nextId' = nextId + 1
      /\ rows' = [rows EXCEPT ![nextId] = row]
      /\ exposed' = exposed \cup old \cup (IF old # {} \/ boot.at = "load" THEN {x} ELSE {})
  BY DEF StartDownload
<1>o. old \subseteq Items /\ \A f \in Shelf("dl"), y \in Items :
         Filed(f, nextId, y) \/ Listed(f, nextId, y) => y \in old
  BY <1>0, <1>d, <1>k, StaleIs
<1> HIDE DEF row, old
<1>3. Enrolled(row)
  <2>1. nextId' \in 1 .. MaxId + 1  BY <1>d, NumberIs
  <2>2. rows' \in [Ids -> Row \cup {None}] /\ rows'[nextId] = row
        /\ \A j \in Ids : j # nextId => rows'[j] = rows[j]
    BY <1>0, <1>2, <1>d DEF TypeOK, IsRow
  <2>3. exposed \subseteq exposed' /\ exposed' \subseteq Items  BY <1>0, <1>d, <1>o DEF TypeOK
  <2>4. \A y \in old : y \in exposed' /\ x \in exposed'  BY <1>d
  <2> QED  BY <1>2, <1>d, <1>o, <2>1, <2>2, <2>3, <2>4 DEF Enrolled, IsRow
<1>4. /\ wish' \in [Items -> {"new", "go", "stop", "sleep", "gone", "done"}]
      /\ wish[x] = "new" /\ wish'[x] = "go" /\ \A y \in Items : y # x => wish'[y] = wish[y]
  BY NewIs DEF StartDownload
<1>5. CodesMove  BY <1>d, <1>k, <1>u, CodesPut
<1>6. boot.at \notin TooEarly("dl") /\ (boot.at = "load" => x \in exposed')  BY <1>d DEF TooEarly
<1>7. disk' = Put(disk, "dl", nextId, x, "")  BY <1>d
<1> QED  BY <1>0, <1>2, <1>3, <1>4, <1>5, <1>6, <1>7, <1>k, <1>u, OnePut DEF TypeOK

-----------------------------------------------------------------------------
(* Filing anew what a start has taken from the disk.                       *)

LEMMA RefileIs ==
    ASSUME RestartInv, NEW k \in Kinds, Refile(k)
    PROVE  /\ boot.at = k /\ boot.hand # None /\ boot.hand.id \in Ids /\ boot.hand.item \in Items
           /\ boot.hand.tag \in Tags /\ boot.hand.prep \in Rec \cup {None}
           /\ boot'.at = boot.at /\ boot'.todo = boot.todo /\ boot'.codes = boot.codes
           /\ boot'.hand = None
           /\ boot' \in [at : Phases, todo : [Kinds -> SUBSET ReadRec], codes : SUBSET ReadRec,
                         hand : HandRec \cup {None}]
           /\ InHand(boot.hand.item)
           /\ boot.hand.item \notin exposed => HandTrue(boot.hand)
<1>1. boot \in [at : Phases, todo : [Kinds -> SUBSET ReadRec], codes : SUBSET ReadRec,
                hand : HandRec \cup {None}]
  BY DEF RestartInv, TypeOK
<1>2. boot.at = k /\ boot.hand # None /\ boot' = [boot EXCEPT !.hand = None]  BY DEF Refile, Hand
<1>3. boot.hand \in HandRec  BY <1>1, <1>2
<1>4. boot.hand.id \in Ids /\ boot.hand.item \in Items /\ boot.hand.tag \in Tags
      /\ boot.hand.prep \in Rec \cup {None}
  BY <1>3 DEF HandRec
<1>5. boot'.at = boot.at /\ boot'.todo = boot.todo /\ boot'.codes = boot.codes /\ boot'.hand = None
  BY <1>1, <1>2
<1>6. boot' \in [at : Phases, todo : [Kinds -> SUBSET ReadRec], codes : SUBSET ReadRec,
                 hand : HandRec \cup {None}]
  BY <1>1, <1>2
<1>7. InHand(boot.hand.item) /\ (boot.hand.item \notin exposed => HandTrue(boot.hand))
  BY <1>2 DEF InHand, RestartInv, HandInv
<1> QED  BY <1>2, <1>4, <1>5, <1>6, <1>7

\* The row for what is in hand, with one record and nothing of a code.
LEMMA OneRefiled ==
    ASSUME RestartInv, NEW k \in Kinds, Refile(k), NEW st \in {"run", "paused"}, NEW tag, NEW t \in Tags,
           NEW row, IsRow(row, boot.hand.item, k, st, None, None, tag), Register(row),
           disk' = Put(disk, k, nextId, boot.hand.item, t), k = "pend" => t \in PendTags,
           nap' = nap, stages' = stages, crashes' = crashes, sess' = sess, wish' = wish,
           hosts' \in [Ids -> Items \cup {None}], CodesMove,
           marks' \in [Ids -> {"no", "user", "system"}],
           \A j \in Ids : j # nextId => marks'[j] = marks[j],
           marks'[nextId] = marks[nextId] \/ (marks'[nextId] = "user" /\ k = "dl"),
           k = "dl" /\ boot.hand.tag = "paused" => st = "paused" /\ marks'[nextId] = "user",
           k # "sendto"
    PROVE  RestartInv'
<1>1. Enrolled(row)  BY RegisterIs DEF IsRow
<1> DEFINE x == boot.hand.item
<1>2. /\ boot.at = k /\ boot.hand # None /\ x \in Items
      /\ boot'.at = boot.at /\ boot'.todo = boot.todo /\ boot'.hand = None
      /\ boot' \in [at : Phases, todo : [Kinds -> SUBSET ReadRec], codes : SUBSET ReadRec,
                    hand : HandRec \cup {None}]
      /\ InHand(x) /\ (x \notin exposed => HandTrue(boot.hand))
  BY RefileIs
<1>3. boot.at \notin TooEarly(k) /\ boot.at # "load"  BY <1>2 DEF TooEarly, Kinds
<1>4. wish' \in [Items -> {"new", "go", "stop", "sleep", "gone", "done"}]
  BY InvTypes DEF TypeOK
<1>5. exposed \subseteq exposed'  BY <1>1 DEF Enrolled
<1>6. x \notin exposed' => /\ wish'[x] # "new"
                           /\ wish'[x] = "stop" => k = "dl" /\ st = "paused" /\ marks'[nextId] = "user"
  BY <1>2, <1>5 DEF HandTrue
<1> QED  BY <1>1, <1>2, <1>3, <1>4, <1>6, OnePut

LEMMA RestoreShareKeeps == ASSUME RestartInv, RestoreShare PROVE RestartInv'
<1>0. TypeOK  BY InvTypes
<1> DEFINE x == boot.hand.item
           row == NewRow(x, "pend", "run", None, None, boot.hand.tag)
<1>u. marks' = marks /\ hosts' = hosts /\ nap' = nap /\ wish' = wish
      /\ stages' = stages /\ crashes' = crashes /\ sess' = sess
  BY DEF RestoreShare
<1>k. "pend" \in Kinds  BY DEF Kinds
<1>1. Refile("pend")  BY DEF RestoreShare
<1>2. boot.at = "pend" /\ boot.hand # None /\ x \in Items /\ boot.hand.tag \in Tags
  BY <1>1, <1>k, RefileIs
<1>3. boot.hand.tag \in PendTags  BY <1>2 DEF RestartInv, PendInv
<1>4. IsRow(row, x, "pend", "run", None, None, boot.hand.tag)
  <2>1. boot.hand.tag \in {"", "code", "owned"}  BY <1>3 DEF PendTags
  <2> QED  BY <1>2, <1>k, <2>1, NewRowIs
<1>r. Register(row)  BY DEF RestoreShare, Hand
<1>d. disk' = Put(disk, "pend", nextId, x, boot.hand.tag)  BY DEF RestoreShare, Hand
<1> HIDE DEF row
<1>5. nextId \in Ids  BY <1>r DEF Register
<1>6. CodesMove  BY <1>2, <1>5, <1>d, <1>k, <1>u, CodesPut
<1> QED  BY <1>0, <1>1, <1>2, <1>3, <1>4, <1>6, <1>d, <1>k, <1>r, <1>u, OneRefiled DEF TypeOK

LEMMA RestoreDownloadKeeps == ASSUME RestartInv, RestoreDownload PROVE RestartInv'
<1>0. TypeOK  BY InvTypes
<1> DEFINE x == boot.hand.item
           st == IF boot.hand.tag = "paused" THEN "paused" ELSE "run"
           row == NewRow(x, "dl", st, None, None, "")
<1>u. hosts' = hosts /\ nap' = nap /\ wish' = wish
      /\ stages' = stages /\ crashes' = crashes /\ sess' = sess
  BY DEF RestoreDownload
<1>k. "dl" \in Kinds /\ "" \in Tags  BY DEF Kinds, Tags
<1>1. Refile("dl")  BY DEF RestoreDownload
<1>2. boot.at = "dl" /\ boot.hand # None /\ x \in Items  BY <1>1, <1>k, RefileIs
<1>r. Register(row)  BY DEF RestoreDownload, Hand
<1>d. disk' = Put(disk, "dl", nextId, x, "")  BY DEF RestoreDownload, Hand
<1>s. st \in {"run", "paused"} /\ (boot.hand.tag = "paused" => st = "paused")  OBVIOUS
<1> HIDE DEF st
<1>4. IsRow(row, x, "dl", st, None, None, "")  BY <1>2, <1>k, <1>s, NewRowIs
<1> HIDE DEF row
<1>5. nextId \in Ids  BY <1>r DEF Register
<1>m. /\ marks' \in [Ids -> {"no", "user", "system"}]
      /\ \A j \in Ids : j # nextId => marks'[j] = marks[j]
      /\ marks'[nextId] = IF boot.hand.tag = "paused" THEN "user" ELSE marks[nextId]
  BY <1>0, <1>5 DEF RestoreDownload, Hand, TypeOK
<1>6. CodesMove  BY <1>2, <1>5, <1>d, <1>k, <1>u, CodesPut
<1>7. hosts' \in [Ids -> Items \cup {None}]  BY <1>0, <1>u DEF TypeOK
<1> QED  BY <1>1, <1>2, <1>4, <1>6, <1>7, <1>d, <1>k, <1>m, <1>r, <1>s, <1>u, OneRefiled

LEMMA RestoreSendKeeps == ASSUME RestartInv, RestoreSend PROVE RestartInv'
<1>0. TypeOK /\ disk \in DiskT  BY InvTypes
<1> DEFINE x == boot.hand.item
           tag == IF boot.hand.tag = "owned" THEN "owned" ELSE ""
           row == NewRow(x, "send", "run", None, None, tag)
           c0 == CHOOSE c \in boot.codes : c.id = boot.hand.id
           h == IF \E c \in boot.codes : c.id = boot.hand.id THEN c0.item ELSE None
<1>u. marks' = marks /\ nap' = nap /\ wish' = wish
      /\ stages' = stages /\ crashes' = crashes /\ sess' = sess
  BY DEF RestoreSend
<1>k. "send" \in Kinds  BY DEF Kinds
<1>1. Refile("send")  BY DEF RestoreSend
<1>2. boot.at = "send" /\ boot.hand # None /\ x \in Items /\ boot.hand.tag \in Tags
  BY <1>1, <1>k, RefileIs
<1>r. Register(row)  BY DEF RestoreSend, Hand
<1>d. disk' = Put(disk, "send", nextId, x, boot.hand.tag)  BY DEF RestoreSend, Hand
<1>s. tag \in {"", "code", "owned"}  OBVIOUS
<1> HIDE DEF tag
<1>4. IsRow(row, x, "send", "run", None, None, tag)  BY <1>2, <1>k, <1>s, NewRowIs
<1> HIDE DEF row
<1>5. nextId \in Ids  BY <1>r DEF Register
<1>h. h \in Items \cup {None}
  <2>1. CASE \E c \in boot.codes : c.id = boot.hand.id
    <3>1. c0 \in boot.codes  BY <2>1
    <3>2. \A c \in boot.codes : c.item \in Items  BY <1>0 DEF TypeOK, ReadRec
    <3> HIDE DEF c0
    <3> QED  BY <2>1, <3>1, <3>2
  <2>2. CASE ~\E c \in boot.codes : c.id = boot.hand.id  BY <2>2
  <2> QED  BY <2>1, <2>2
<1>v. hosts' = [hosts EXCEPT ![nextId] = h]  BY DEF RestoreSend, Hand
<1> HIDE DEF h
<1>7. /\ hosts' \in [Ids -> Items \cup {None}]
      /\ \A j \in Ids : j # nextId => hosts'[j] = hosts[j]
  BY <1>0, <1>5, <1>h, <1>v DEF TypeOK
<1>6. CodesMove
  <2>1. "send" \in Families  BY FamilyNames
  <2>2. Wrote(disk, disk', "send", nextId, x, boot.hand.tag)  BY <1>0, <1>2, <1>5, <1>d, <2>1, PutIs
  <2>3. \A j \in Ids : disk'["code"][j] = disk["code"][j]  BY <2>2, FamilyNames DEF Wrote
  <2>4. hosts[nextId] = None  BY <1>5, NumberIs
  <2>5. disk["code"][nextId] = None  BY <1>2, <1>5, <2>4, CodeIs
  <2>6. nextId < nextId'
    <3>1. nextId' = nextId + 1  BY <1>r DEF Register
    <3> QED  BY <1>5, <3>1, NumberIs
  <2>7. rows'[nextId] = row  BY <1>4, <1>r, RegisterIs DEF IsRow, Enrolled
  <2>8. row.kind # "pend" /\ ~HandingSend(row)  BY <1>4 DEF IsRow, HandingSend
  <2> QED  BY <1>7, <2>3, <2>5, <2>6, <2>7, <2>8 DEF CodesMove
<1> QED  BY <1>0, <1>1, <1>2, <1>4, <1>6, <1>7, <1>d, <1>k, <1>r, <1>u, OneRefiled DEF TypeOK

LEMMA RestoreDepositedKeeps == ASSUME RestartInv, RestoreDeposited PROVE RestartInv'
<1>0. TypeOK /\ disk \in DiskT  BY InvTypes
<1> DEFINE x == boot.hand.item
           row == NewRow(x, "dep", "run", None, None, "")
<1>u. marks' = marks /\ nap' = nap /\ hosts' = hosts
      /\ stages' = stages /\ crashes' = crashes /\ sess' = sess
  BY DEF RestoreDeposited
<1>k. "dep" \in Kinds /\ "" \in Tags /\ "dep" \in Families  BY FamilyNames DEF Kinds, Tags
<1>1. Refile("dep")  BY DEF RestoreDeposited
<1>2. /\ boot.at = "dep" /\ boot.hand # None /\ x \in Items /\ boot.hand.id \in Ids
      /\ boot'.at = boot.at /\ boot'.todo = boot.todo /\ boot'.hand = None
      /\ boot' \in [at : Phases, todo : [Kinds -> SUBSET ReadRec], codes : SUBSET ReadRec,
                    hand : HandRec \cup {None}]
      /\ InHand(x)
  BY <1>1, <1>k, RefileIs
<1>3. CASE Register(row) /\ disk' = Put(disk, "dep", nextId, x, "") /\ wish' = wish
  <2>1. IsRow(row, x, "dep", "run", None, None, "")  BY <1>2, <1>k, NewRowIs
  <2> HIDE DEF row
  <2>2. nextId \in Ids  BY <1>3 DEF Register
  <2>3. CodesMove  BY <1>2, <1>3, <2>2, <1>k, <1>u, CodesPut
  <2> QED  BY <1>0, <1>1, <1>2, <1>3, <2>1, <2>3, <1>k, <1>u, OneRefiled DEF TypeOK
<1>4. CASE /\ Ask(x, "done") /\ disk' = Del(disk, "dep", boot.hand.id)
           /\ rows' = rows /\ nextId' = nextId /\ exposed' = exposed
  <2>1. Erased(disk, disk', "dep", boot.hand.id)  BY <1>0, <1>2, <1>4, <1>k, DelIs
  <2>2. /\ wish' \in [Items -> {"new", "go", "stop", "sleep", "gone", "done"}] /\ wish'[x] = "done"
        /\ \A y \in Items : y # x => wish'[y] = wish[y]
    BY <1>0, <1>2, <1>4, AskIs
  <2>3. TypeOK'  BY <1>0, <1>2, <1>4, <1>u, <2>1, <2>2 DEF TypeOK, DiskT, Erased
  <2>4. \A j \in Ids : Change(j)
    <3> SUFFICES ASSUME NEW j \in Ids PROVE Still(j) \/ Cleared(j)  BY DEF Change
    <3>1. CASE j = boot.hand.id
      BY <1>2, <1>4, <1>u, <2>1, <3>1, NoCodeIs DEF Cleared, Erased
    <3>2. CASE j # boot.hand.id  BY <1>2, <1>4, <1>u, <2>1, <3>2, NoCodeIs DEF Still, Erased
    <3> QED  BY <3>1, <3>2
  <2>5. \A y \in Items : WishMoves(y)
    <3> SUFFICES ASSUME NEW y \in Items PROVE WishMoves(y)  OBVIOUS
    <3>1. CASE y = x  BY <1>2, <2>2, <3>1 DEF WishMoves, Active
    <3>2. CASE y # x
      <4>1. ~InHand(y)  BY <3>2 DEF InHand
      <4> QED  BY <2>2, <3>2, <4>1 DEF WishMoves
    <3> QED  BY <3>1, <3>2
  <2>6. CodesMove  BY <1>u, <2>1, FamilyNames, CodesStay DEF Erased
  <2>7. \A j \in Ids : disk'["pend"][j] = disk["pend"][j]  BY <2>1, FamilyNames DEF Erased
  <2>8. nextId <= nextId' /\ (nap' # None => Up)
    BY <1>0, <1>4, <1>u, RestartConstants DEF TypeOK, RestartConstants, RestartInv, PhaseInv
  <2>9. Steady  BY <1>2, <1>4, <2>4, <2>5, <2>6, <2>7, <2>8 DEF Steady
  <2> QED  BY <2>3, <2>9, SteadyKeeps
<1> QED  BY <1>3, <1>4 DEF RestoreDeposited, Hand

\* A held send or a link registered with its seal and its preparation, the upload
\* of its old number cleared.
Sealed(x, k, seal, prep) ==
    /\ disk' \in DiskT /\ disk'[k][nextId] # None /\ disk'[k][nextId].item = x
    /\ \A f \in NoCode : \/ disk'[f][nextId] = disk[f][nextId]
                         \/ f = k
                         \/ f = "upl" /\ disk'[f][nextId] = None
                         \/ f = "upl" /\ seal # None /\ disk'[f][nextId].item = seal.item
                         \/ f = "prep" /\ k = "sendto" /\ prep # None /\ disk'[f][nextId].item = prep
    /\ \A j \in Ids, f \in NoCode : j # nextId =>
          \/ disk'[f][j] = disk[f][j]
          \/ boot.hand # None /\ j = boot.hand.id /\ f = "upl" /\ disk'[f][j] = None
    /\ \A j \in Ids : disk'["code"][j] = disk["code"][j]

Handed(x) ==
    /\ boot.at # "load" /\ boot'.at = boot.at /\ boot'.todo = boot.todo /\ boot'.hand = None
    /\ boot.hand # None => boot.hand.item = x
    /\ boot' \in [at : Phases, todo : [Kinds -> SUBSET ReadRec], codes : SUBSET ReadRec,
                  hand : HandRec \cup {None}]
    /\ InHand(x) \/ wish[x] = "new"

Wanted(x) ==
    /\ wish' \in [Items -> {"new", "go", "stop", "sleep", "gone", "done"}]
    /\ \A y \in Items : y # x => wish'[y] = wish[y]
    /\ wish'[x] = wish[x] \/ (wish'[x] = "go" /\ wish[x] = "new")

LEMMA OneSealed ==
    ASSUME RestartInv, NEW x \in Items, NEW k \in {"sendto", "link"}, NEW st \in {"run", "paused"},
           NEW seal \in Rec \cup {None}, NEW prep \in Items \cup {None},
           NEW row, IsRow(row, x, k, st, seal, prep, ""), Enrolled(row), Sealed(x, k, seal, prep),
           boot.at \notin TooEarly(k), Handed(x), Wanted(x),
           nap' = nap, stages' = stages, crashes' = crashes, sess' \subseteq Items, hosts' = hosts,
           marks' = marks,
           x \notin exposed' =>
             /\ seal # None => seal.item = x
             /\ prep \in {None, x}
             /\ wish'[x] # "new"
             /\ wish'[x] = "stop" => k = "sendto" /\ st = "paused" /\ disk'["sendto"][nextId].tag = "paused"
    PROVE  RestartInv'
<1>0. TypeOK /\ disk \in DiskT  BY InvTypes
<1> DEFINE n == nextId
<1>1. n \in Ids /\ rows'[n] = row /\ exposed \subseteq exposed'  BY DEF Enrolled
<1>2. TypeOK'  BY <1>0 DEF TypeOK, DiskT, Enrolled, Sealed, Handed, Wanted
<1>3. Begun(n)
  <2>1. RowPhase(row)  BY DEF RowPhase, IsRow, HandingSend
  <2>2. k \in Own(row) /\ "upl" \in Own(row) /\ (k = "sendto" => "prep" \in Own(row))
    BY DEF Own, HandingSend, IsRow
  <2>3. \A f \in NoCode : \/ disk'[f][n] = disk[f][n]
                          \/ f \in Own(row) /\ disk'[f][n] = None
                          \/ f \in Own(row) /\ \/ disk'[f][n].item = x
                                               \/ f \in {"prep", "upl"} /\ x \in exposed'
    BY <2>2 DEF Sealed
  <2>4. RowGood(n)
    <3> SUFFICES ASSUME x \notin exposed' PROVE RowGood(n)  BY <1>1 DEF RowGood, IsRow
    <3> QED  BY <1>1 DEF RowGood, IsRow, Sealed
  <2>5. /\ \A l \in Shelf(row.kind), y \in Items :
              Filed(l, n, y) \/ Listed(l, n, y) => y \in exposed' /\ row.item \in exposed'
        /\ nextId' = nextId + 1 /\ row # None /\ row.item = x
    BY DEF Enrolled, IsRow
  <2>6. ((InHand(x) /\ boot'.hand = None) \/ wish[x] = "new") /\ boot.at # "load" /\ boot'.hand = None
    BY DEF Handed
  <2> QED  BY <1>1, <2>1, <2>3, <2>4, <2>5, <2>6 DEF Begun
<1>4. \A j \in Ids \ {n} : Still(j) \/ Cleared(j)
  <2> SUFFICES ASSUME NEW j \in Ids \ {n} PROVE Still(j) \/ Cleared(j)  OBVIOUS
  <2>1. rows'[j] = rows[j] /\ marks'[j] = marks[j]  BY DEF Enrolled
  <2>2. \A f \in NoCode : \/ disk'[f][j] = disk[f][j]
                          \/ boot.hand # None /\ j = boot.hand.id /\ f = "upl" /\ disk'[f][j] = None
    BY DEF Sealed
  <2>3. CASE \A f \in NoCode : disk'[f][j] = disk[f][j]  BY <2>1, <2>3 DEF Still
  <2>4. CASE boot.hand # None /\ j = boot.hand.id  BY <2>1, <2>2, <2>4 DEF Cleared
  <2> QED  BY <2>2, <2>3, <2>4
<1>5. CodesMove  BY CodesStay DEF Sealed
<1>6. disk'["pend"][n] = disk["pend"][n]
  <2>1. "pend" \in NoCode  BY KindFacts DEF Kinds
  <2> QED  BY <2>1 DEF Sealed
<1>7. rows'[n].item = x  BY <1>1 DEF IsRow
<1>8. /\ boot'.at = boot.at /\ boot'.todo = boot.todo /\ boot'.hand \in {boot.hand, None}
      /\ boot'.hand # boot.hand => boot.hand.item = rows'[n].item
  BY <1>7 DEF Handed
<1>9. /\ \A y \in Items : y # x => wish'[y] = wish[y]
      /\ wish'[x] = wish[x] \/ (wish'[x] = "go" /\ wish[x] = "new")
  BY DEF Wanted
<1> QED  BY <1>1, <1>2, <1>3, <1>4, <1>5, <1>6, <1>7, <1>8, <1>9, OneBegun

LEMMA CreateLinkKeeps == ASSUME RestartInv, NEW x \in Items, CreateLink(x) PROVE RestartInv'
<1>0. TypeOK /\ disk \in DiskT  BY InvTypes
<1> DEFINE seal == [item |-> x, tag |-> "link"]
           row == NewRow(x, "link", "run", seal, None, "")
           d1 == Put(disk, "link", nextId, x, "")
<1>1. boot.hand = None /\ boot.at = "up"  BY UpIs DEF CreateLink
<1>u. marks' = marks /\ hosts' = hosts /\ nap' = nap /\ boot' = boot
      /\ stages' = stages /\ crashes' = crashes /\ sess' = sess
  BY DEF CreateLink
<1>k. "link" \in Kinds /\ "link" \in Families /\ "" \in Tags  BY FamilyNames DEF Kinds, Tags
<1>l. "upl" \in Families /\ "link" \in Tags  BY FamilyNames DEF Tags
<1>s. seal \in Rec /\ seal # None /\ seal.item = x  BY <1>l, RestartNone DEF Rec
<1>r. Register(row)  BY DEF CreateLink
<1> HIDE DEF seal
<1>2. IsRow(row, x, "link", "run", seal, None, "")  BY <1>k, <1>s, NewRowIs
<1>d. disk' = Put(d1, "upl", nextId, x, "link")  BY DEF CreateLink
<1> HIDE DEF row
<1>3. Enrolled(row)  BY <1>2, <1>r, RegisterIs DEF IsRow
<1>4. nextId \in Ids  BY <1>3 DEF Enrolled
<1>5. Wrote(disk, d1, "link", nextId, x, "")  BY <1>0, <1>4, <1>k, PutIs
<1>6. d1 \in DiskT  BY <1>5 DEF Wrote
<1> HIDE DEF d1
<1>7. Wrote(d1, disk', "upl", nextId, x, "link")  BY <1>4, <1>6, <1>d, <1>l, PutIs
<1>8. Sealed(x, "link", seal, None)
  <2>1. /\ disk' \in DiskT /\ disk'["link"][nextId] # None /\ disk'["link"][nextId].item = x
        /\ disk'["upl"][nextId].item = x
        /\ \A g \in Families, j \in Ids : g \notin {"link", "upl"} \/ j # nextId => disk'[g][j] = disk[g][j]
    BY ZenonT(60), <1>4, <1>5, <1>7, <1>k DEF Wrote
  <2> QED  BY <1>4, <1>s, <2>1, NoCodeIs, FamilyNames DEF Sealed
<1>9. Wanted(x) /\ wish[x] = "new" /\ wish'[x] = "go"  BY NewIs DEF CreateLink, Wanted
<1>10. boot.at \notin TooEarly("link")  BY <1>1 DEF TooEarly
<1>11. Handed(x)  BY <1>0, <1>1, <1>9, <1>u DEF Handed, TypeOK
<1>12. sess' \subseteq Items  BY <1>0, <1>u DEF TypeOK
<1> QED
  BY <1>2, <1>3, <1>8, <1>9, <1>10, <1>11, <1>12, <1>s, <1>u, OneSealed

\* The seal a restored transfer takes over is its own, unless it is at risk.
LEMMA TakeUploadIs ==
    ASSUME RestartInv, NEW k \in {"sendto", "link"}, Refile(k)
    PROVE  LET s == TakeUpload(boot.hand.item) IN
           /\ s \in Rec \cup {None} /\ disk["upl"][boot.hand.id] \in Rec \cup {None}
           /\ boot.hand.item \notin exposed /\ s # None => s.item = boot.hand.item
<1> DEFINE x == boot.hand.item
           u == disk["upl"][boot.hand.id]
<1>1. k \in Kinds  BY DEF Kinds
<1>2. boot.at = k /\ boot.hand.id \in Ids /\ (x \notin exposed => HandTrue(boot.hand))
  BY <1>1, RefileIs
<1>3. u \in Rec \cup {None}  BY <1>2, FamilyNames, InvTypes DEF DiskT
<1>4. x \notin exposed /\ u # None => u.item = x  BY <1>2 DEF HandTrue, Fits
<1>5. TakeUpload(x) = u \/ TakeUpload(x) = None  BY DEF TakeUpload, Hand
<1> QED  BY <1>3, <1>4, <1>5

LEMMA SessWithout ==
    ASSUME TypeOK, NEW u, NEW c \in BOOLEAN, sess' = IF c THEN sess \ {u} ELSE sess
    PROVE  sess' \subseteq Items
  BY DEF TypeOK

\* A link that is filed anew.
LEMMA LinkRestored ==
    ASSUME RestartInv, Refile("link"), NEW seal \in Rec, seal.tag = "link",
           boot.hand.item \notin exposed => seal.item = boot.hand.item,
           Register(NewRow(boot.hand.item, "link", "run", seal, None, "")),
           disk' = Put(Put(Del(disk, "upl", boot.hand.id), "link", nextId, boot.hand.item, ""),
                       "upl", nextId, seal.item, "link"),
           marks' = marks, stages' = stages, wish' = wish, hosts' = hosts, nap' = nap,
           crashes' = crashes, sess' \subseteq Items
    PROVE  RestartInv'
<1>0. TypeOK /\ disk \in DiskT  BY InvTypes
<1> DEFINE x == boot.hand.item
           h == boot.hand.id
           row == NewRow(x, "link", "run", seal, None, "")
           d0 == Del(disk, "upl", h)
           d1 == Put(d0, "link", nextId, x, "")
<1>k. "link" \in Kinds /\ "link" \in Families /\ "" \in Tags  BY FamilyNames DEF Kinds, Tags
<1>l. "upl" \in Families /\ "link" \in Tags  BY FamilyNames DEF Tags
<1>s. seal # None /\ seal.item \in Items  BY RestartNone DEF Rec
<1>1. /\ boot.at = "link" /\ boot.hand # None /\ x \in Items /\ h \in Ids
      /\ boot'.at = boot.at /\ boot'.todo = boot.todo /\ boot'.hand = None
      /\ boot' \in [at : Phases, todo : [Kinds -> SUBSET ReadRec], codes : SUBSET ReadRec,
                    hand : HandRec \cup {None}]
      /\ InHand(x) /\ (x \notin exposed => HandTrue(boot.hand))
  BY <1>k, RefileIs
<1>2. IsRow(row, x, "link", "run", seal, None, "")  BY <1>1, <1>k, NewRowIs
<1>r. Register(row) /\ disk' = Put(d1, "upl", nextId, seal.item, "link")  OBVIOUS
<1> HIDE DEF row
<1>3. Enrolled(row)  BY <1>2, <1>r, RegisterIs DEF IsRow
<1>4. nextId \in Ids /\ exposed \subseteq exposed'  BY <1>3 DEF Enrolled
<1>5. Erased(disk, d0, "upl", h)  BY <1>0, <1>1, <1>l, DelIs
<1>6. d0 \in DiskT  BY <1>5 DEF Erased
<1> HIDE DEF d0
<1>7. Wrote(d0, d1, "link", nextId, x, "")  BY <1>1, <1>4, <1>6, <1>k, PutIs
<1>8. d1 \in DiskT  BY <1>7 DEF Wrote
<1> HIDE DEF d1
<1>9. Wrote(d1, disk', "upl", nextId, seal.item, "link")  BY <1>4, <1>8, <1>r, <1>l, <1>s, PutIs
<1>10. Sealed(x, "link", seal, None)
  <2>1. disk' \in DiskT /\ disk'["upl"][nextId].item = seal.item  BY <1>9 DEF Wrote
  <2>2. disk'["link"][nextId] # None /\ disk'["link"][nextId].item = x
    BY <1>4, <1>7, <1>9, <1>k DEF Wrote
  <2>3. ASSUME NEW g \in Families, NEW j \in Ids, g # "upl", g # "link" \/ j # nextId
        PROVE disk'[g][j] = disk[g][j]
    BY <1>5, <1>7, <1>9, <2>3 DEF Erased, Wrote
  <2>4. ASSUME NEW j \in Ids, j # nextId
        PROVE disk'["upl"][j] = disk["upl"][j] \/ (j = h /\ disk'["upl"][j] = None)
    <3>1. disk'["upl"][j] = d0["upl"][j]  BY <1>7, <1>9, <1>l, <2>4 DEF Wrote
    <3> QED  BY <1>5, <1>l, <3>1 DEF Erased
  <2>5. \A f \in NoCode : \/ disk'[f][nextId] = disk[f][nextId] \/ f = "link"
                          \/ f = "upl" /\ seal # None /\ disk'[f][nextId].item = seal.item
    BY <1>4, <1>s, <2>1, <2>3, NoCodeIs
  <2>6. \A j \in Ids, f \in NoCode : j # nextId =>
          \/ disk'[f][j] = disk[f][j]
          \/ boot.hand # None /\ j = boot.hand.id /\ f = "upl" /\ disk'[f][j] = None
    <3> SUFFICES ASSUME NEW j \in Ids, NEW f \in NoCode, j # nextId
                 PROVE disk'[f][j] = disk[f][j] \/ (j = h /\ f = "upl" /\ disk'[f][j] = None)
      BY ZenonT(60), <1>1
    <3>1. CASE f = "upl"  BY <2>4, <3>1
    <3>2. CASE f # "upl"  BY <2>3, <3>2, NoCodeIs
    <3> QED  BY <3>1, <3>2
  <2>7. \A j \in Ids : disk'["code"][j] = disk["code"][j]  BY <2>3, FamilyNames
  <2> QED  BY <2>1, <2>2, <2>5, <2>6, <2>7 DEF Sealed
<1>11. Wanted(x)  BY <1>0 DEF Wanted, TypeOK
<1>12. boot.at \notin TooEarly("link")  BY <1>1 DEF TooEarly
<1>13. Handed(x)  BY <1>1 DEF Handed
<1>14. x \notin exposed' => seal.item = x /\ wish'[x] # "new" /\ wish'[x] # "stop"
  BY <1>1, <1>4 DEF HandTrue
<1> QED
  BY <1>1, <1>2, <1>3, <1>10, <1>11, <1>12, <1>13, <1>14, <1>s, OneSealed

\* A held send that is filed anew.
SendToDisk(seal, prep) ==
    LET d0 == Del(disk, "upl", boot.hand.id)
        d1 == IF seal = None THEN d0 ELSE Put(d0, "upl", nextId, seal.item, seal.tag)
        d2 == IF prep = None THEN d1 ELSE Put(d1, "prep", nextId, prep, "") IN
    Put(d2, "sendto", nextId, boot.hand.item, boot.hand.tag)

LEMMA SendToRestored ==
    ASSUME RestartInv, Refile("sendto"), NEW seal \in Rec \cup {None}, NEW prep \in Items \cup {None},
           boot.hand.item \notin exposed =>
              (seal # None => seal.item = boot.hand.item) /\ prep \in {None, boot.hand.item},
           NEW st \in {"run", "paused"}, boot.hand.tag = "paused" => st = "paused",
           Register(NewRow(boot.hand.item, "sendto", st, seal, prep, "")),
           disk' = SendToDisk(seal, prep),
           marks' = marks, stages' = stages, wish' = wish, hosts' = hosts, nap' = nap,
           crashes' = crashes, sess' \subseteq Items
    PROVE  RestartInv'
<1>0. TypeOK /\ disk \in DiskT  BY InvTypes
<1> DEFINE x == boot.hand.item
           h == boot.hand.id
           row == NewRow(x, "sendto", st, seal, prep, "")
<1>k. "sendto" \in Kinds /\ "sendto" \in Families  BY FamilyNames DEF Kinds
<1>l. "upl" \in Families  BY FamilyNames
<1>p. "prep" \in Families /\ "" \in Tags  BY FamilyNames DEF Tags
<1>1. /\ boot.at = "sendto" /\ boot.hand # None /\ x \in Items /\ h \in Ids /\ boot.hand.tag \in Tags
      /\ boot'.at = boot.at /\ boot'.todo = boot.todo /\ boot'.hand = None
      /\ boot' \in [at : Phases, todo : [Kinds -> SUBSET ReadRec], codes : SUBSET ReadRec,
                    hand : HandRec \cup {None}]
      /\ InHand(x) /\ (x \notin exposed => HandTrue(boot.hand))
  BY <1>k, RefileIs
<1>2. IsRow(row, x, "sendto", st, seal, prep, "")
  <2>1. x \in Items /\ st \in {"run", "stopping", "ending", "paused", "handing"}
        /\ "" \in {"", "code", "owned"}
    BY <1>1
  <2> QED  BY <1>k, <2>1, NewRowIs
<1>r. Register(row)  OBVIOUS
<1> HIDE DEF row
<1>3. Enrolled(row)  BY <1>2, <1>r, RegisterIs DEF IsRow
<1>4. nextId \in Ids /\ exposed \subseteq exposed'  BY <1>3 DEF Enrolled
<1> DEFINE d0 == Del(disk, "upl", h)
           d1 == IF seal = None THEN d0 ELSE Put(d0, "upl", nextId, seal.item, seal.tag)
           d2 == IF prep = None THEN d1 ELSE Put(d1, "prep", nextId, prep, "")
<1>d. disk' = Put(d2, "sendto", nextId, x, boot.hand.tag)  BY DEF SendToDisk
<1>5. Erased(disk, d0, "upl", h)  BY <1>0, <1>1, <1>l, DelIs
<1>6. d0 \in DiskT  BY <1>5 DEF Erased
<1> HIDE DEF d0
<1>7. /\ d1 \in DiskT /\ (seal # None => d1["upl"][nextId].item = seal.item)
      /\ seal = None => d1["upl"][nextId] = d0["upl"][nextId]
      /\ \A g \in Families, j \in Ids : g # "upl" \/ j # nextId => d1[g][j] = d0[g][j]
  <2>1. CASE seal = None  BY <1>6, <2>1
  <2>2. CASE seal # None
    <3>1. seal.item \in Items /\ seal.tag \in Tags  BY <2>2 DEF Rec
    <3>2. d1 = Put(d0, "upl", nextId, seal.item, seal.tag)  BY <2>2
    <3>3. Wrote(d0, d1, "upl", nextId, seal.item, seal.tag)  BY <1>4, <1>6, <1>l, <3>1, <3>2, PutIs
    <3> QED  BY <2>2, <3>3 DEF Wrote
  <2> QED  BY <2>1, <2>2
<1> HIDE DEF d1
<1>8. /\ d2 \in DiskT /\ (prep # None => d2["prep"][nextId].item = prep)
      /\ prep = None => d2["prep"][nextId] = d1["prep"][nextId]
      /\ \A g \in Families, j \in Ids : g # "prep" \/ j # nextId => d2[g][j] = d1[g][j]
  <2>1. CASE prep = None  BY <1>7, <2>1
  <2>2. CASE prep # None
    <3>1. prep \in Items  BY <2>2
    <3>2. d2 = Put(d1, "prep", nextId, prep, "")  BY <2>2
    <3>3. d1 \in DiskT  BY <1>7
    <3>4. Wrote(d1, d2, "prep", nextId, prep, "")  BY <1>4, <1>p, <3>1, <3>2, <3>3, PutIs
    <3> QED  BY <2>2, <3>4 DEF Wrote
  <2> QED  BY <2>1, <2>2
<1> HIDE DEF d2
<1>9. Wrote(d2, disk', "sendto", nextId, x, boot.hand.tag)
  <2>1. d2 \in DiskT  BY <1>8
  <2>2. x \in Items /\ boot.hand.tag \in Tags  BY <1>1
  <2>3. "sendto" \in Families  BY <1>k
  <2> QED  BY <1>4, <1>d, <2>1, <2>2, <2>3, PutIs
<1>10. Sealed(x, "sendto", seal, prep)
  <2>1. disk' \in DiskT /\ disk'["sendto"][nextId] # None /\ disk'["sendto"][nextId].item = x
    BY <1>9 DEF Wrote
  <2>2. ASSUME NEW g \in Families, NEW j \in Ids, g # "upl", g \notin {"prep", "sendto"} \/ j # nextId
        PROVE disk'[g][j] = disk[g][j]
    <3>1. disk'[g][j] = d2[g][j]  BY <1>9, <2>2 DEF Wrote
    <3>2. d2[g][j] = d1[g][j]  BY <1>8, <2>2
    <3>3. d1[g][j] = d0[g][j]  BY <1>7, <2>2
    <3>4. d0[g][j] = disk[g][j]  BY <1>5, <2>2 DEF Erased
    <3> QED  BY <3>1, <3>2, <3>3, <3>4
  <2>3. ASSUME NEW j \in Ids
        PROVE /\ disk'["upl"][j] = d1["upl"][j]
              /\ d0["upl"][j] = disk["upl"][j] \/ (j = h /\ d0["upl"][j] = None)
    <3>1. disk'["upl"][j] = d2["upl"][j]  BY <1>9, <1>l DEF Wrote
    <3>2. d2["upl"][j] = d1["upl"][j]  BY <1>8, <1>l
    <3>3. d0["upl"][j] = disk["upl"][j] \/ (j = h /\ d0["upl"][j] = None)  BY <1>5, <1>l DEF Erased
    <3> QED  BY <3>1, <3>2, <3>3
  <2>4. \/ disk'["upl"][nextId] = disk["upl"][nextId] \/ disk'["upl"][nextId] = None
        \/ seal # None /\ disk'["upl"][nextId].item = seal.item
    BY <1>4, <1>7, <2>3
  <2>5. disk'["prep"][nextId] = disk["prep"][nextId]
        \/ (prep # None /\ disk'["prep"][nextId].item = prep)
    <3>1. disk'["prep"][nextId] = d2["prep"][nextId]  BY <1>4, <1>9, <1>p DEF Wrote
    <3>2. d1["prep"][nextId] = d0["prep"][nextId]  BY <1>4, <1>7, <1>p
    <3>3. d0["prep"][nextId] = disk["prep"][nextId]  BY <1>4, <1>5, <1>p DEF Erased
    <3>4. CASE prep = None
      <4>1. d2["prep"][nextId] = d1["prep"][nextId]  BY <1>8, <3>4
      <4>2. disk'["prep"][nextId] = disk["prep"][nextId]  BY <3>1, <3>2, <3>3, <4>1
      <4> QED  BY <4>2
    <3>5. CASE prep # None
      <4>1. d2["prep"][nextId].item = prep  BY <1>8, <3>5
      <4> QED  BY <3>1, <3>5, <4>1
    <3> QED  BY <3>4, <3>5
  <2>6. \A f \in NoCode : \/ disk'[f][nextId] = disk[f][nextId]
                          \/ f = "sendto"
                          \/ f = "upl" /\ disk'[f][nextId] = None
                          \/ f = "upl" /\ seal # None /\ disk'[f][nextId].item = seal.item
                          \/ f = "prep" /\ prep # None /\ disk'[f][nextId].item = prep
    BY <1>4, <2>2, <2>4, <2>5, NoCodeIs
  <2>7. \A j \in Ids : j # nextId => disk'["upl"][j] = disk["upl"][j] \/ (j = h /\ disk'["upl"][j] = None)
    <3> SUFFICES ASSUME NEW j \in Ids, j # nextId
                 PROVE disk'["upl"][j] = disk["upl"][j] \/ (j = h /\ disk'["upl"][j] = None)
      OBVIOUS
    <3>1. d1["upl"][j] = d0["upl"][j]  BY <1>7, <1>l
    <3> QED  BY <2>3, <3>1
  <2>8. \A j \in Ids, f \in NoCode : j # nextId =>
          \/ disk'[f][j] = disk[f][j]
          \/ boot.hand # None /\ j = boot.hand.id /\ f = "upl" /\ disk'[f][j] = None
    <3> SUFFICES ASSUME NEW j \in Ids, NEW f \in NoCode, j # nextId
                 PROVE disk'[f][j] = disk[f][j] \/ (j = h /\ f = "upl" /\ disk'[f][j] = None)
      BY ZenonT(60), <1>1
    <3>1. CASE f = "upl"  BY <2>7, <3>1
    <3>2. CASE f # "upl"  BY <2>2, <3>2, NoCodeIs
    <3> QED  BY <3>1, <3>2
  <2>9. \A j \in Ids : disk'["code"][j] = disk["code"][j]  BY <2>2, FamilyNames
  <2> QED  BY <2>1, <2>6, <2>8, <2>9 DEF Sealed
<1>11. Wanted(x)  BY <1>0 DEF Wanted, TypeOK
<1>12. boot.at \notin TooEarly("sendto")  BY <1>1 DEF TooEarly
<1>13. Handed(x)  BY <1>1 DEF Handed
<1>14. disk'["sendto"][nextId].tag = boot.hand.tag  BY <1>9 DEF Wrote
<1>15. x \notin exposed' => /\ seal # None => seal.item = x
                            /\ prep \in {None, x}
                            /\ wish'[x] # "new"
                            /\ wish'[x] = "stop" => st = "paused" /\ disk'["sendto"][nextId].tag = "paused"
  BY <1>1, <1>4, <1>14 DEF HandTrue
<1> QED
  BY <1>1, <1>2, <1>3, <1>10, <1>11, <1>12, <1>13, <1>15, OneSealed

LEMMA RestoreSendToKeeps == ASSUME RestartInv, RestoreSendTo PROVE RestartInv'
<1>0. TypeOK  BY InvTypes
<1>k. "sendto" \in Kinds  BY DEF Kinds
<1>1. Refile("sendto")  BY DEF RestoreSendTo
<1>u. marks' = marks /\ stages' = stages /\ hosts' = hosts /\ nap' = nap /\ wish' = wish
      /\ crashes' = crashes
  BY ZenonT(60) DEF RestoreSendTo
<1> DEFINE x == boot.hand.item
           upl == disk["upl"][boot.hand.id]
           st == IF boot.hand.tag = "paused" THEN "paused" ELSE "run"
           S(c) == IF c THEN None ELSE TakeUpload(x)
           P(c) == IF ~c /\ Matches(boot.hand.prep, x) THEN boot.hand.prep.item ELSE None
<1>2. PICK changed \in BOOLEAN :
         /\ Register(NewRow(x, "sendto", st, S(changed), P(changed), ""))
         /\ disk' = SendToDisk(S(changed), P(changed))
         /\ sess' = IF upl # None /\ S(changed) = None THEN sess \ {upl.item} ELSE sess
  BY DEF RestoreSendTo, SendToDisk, Hand
<1>3. /\ boot.at = "sendto" /\ boot.hand.prep \in Rec \cup {None}
      /\ x \notin exposed => HandTrue(boot.hand)
  BY <1>1, <1>k, RefileIs
<1>4. /\ TakeUpload(x) \in Rec \cup {None}
      /\ x \notin exposed /\ TakeUpload(x) # None => TakeUpload(x).item = x
  BY <1>1, TakeUploadIs
<1>5. /\ S(changed) \in Rec \cup {None}
      /\ x \notin exposed /\ S(changed) # None => S(changed).item = x
  BY <1>4
<1>6. P(changed) \in Items \cup {None} /\ (x \notin exposed => P(changed) \in {None, x})
  <2>1. CASE P(changed) = None  BY <2>1
  <2>2. CASE P(changed) # None
    <3>1. boot.hand.prep # None /\ P(changed) = boot.hand.prep.item  BY <2>2 DEF Matches
    <3>2. boot.hand.prep.item \in Items  BY <1>3, <3>1 DEF Rec
    <3>3. x \notin exposed => boot.hand.prep.item = x  BY <1>3, <3>1 DEF HandTrue, Fits
    <3> QED  BY <3>1, <3>2, <3>3
  <2> QED  BY <2>1, <2>2
<1>7. sess' \subseteq Items  BY <1>0, <1>2 DEF TypeOK
<1>8. st \in {"run", "paused"} /\ (boot.hand.tag = "paused" => st = "paused")  OBVIOUS
<1> HIDE DEF S, P, st
<1> QED  BY <1>1, <1>2, <1>5, <1>6, <1>7, <1>8, <1>u, SendToRestored

\* What finish leaves of a disk.
LEMMA FinishedIs ==
    ASSUME NEW d \in DiskT, NEW i \in Ids
    PROVE  LET e == FinishedDisk(d, i) IN
           /\ e \in DiskT
           /\ \A f \in Families, j \in Ids : f \in {"link", "dep", "code"} \/ j # i => e[f][j] = d[f][j]
           /\ \A f \in Families : f \notin {"link", "dep", "code"} => e[f][i] = None
<1> DEFINE e == FinishedDisk(d, i)
<1>1. e \in DiskT  BY ZenonT(60), FamilyNames DEF FinishedDisk, DiskT
<1>2. ASSUME NEW f \in Families, NEW j \in Ids
      PROVE e[f][j] = IF j = i /\ f \in {"dl", "send", "pend", "sendto", "prep", "upl"}
                      THEN None ELSE d[f][j]
  BY FamilyNames DEF FinishedDisk, DiskT
<1>3. \A f \in Families : f \notin {"link", "dep", "code"} <=> f \in {"dl", "send", "pend", "sendto", "prep", "upl"}
  BY DEF Families, Kinds
<1> HIDE DEF e
<1> QED  BY <1>1, <1>2, <1>3 DEF e

LEMMA StagesIs == ASSUME TypeOK, NEW i PROVE StagesWithout(i) \subseteq Items
  BY DEF TypeOK, StagesWithout

LEMMA BystandersIs ==
    ASSUME TypeOK, NEW i \in Ids, NEW x
    PROVE  /\ Bystanders(i, x) \subseteq Items
           /\ \A f \in Kinds \ {"dep"} : disk[f][i] # None => disk[f][i].item \in Bystanders(i, x) \cup {x}
<1>1. \A f \in Kinds : disk[f][i] # None => disk[f][i].item \in Items  BY DEF TypeOK, Rec, Families
<1> QED  BY <1>1 DEF Bystanders

\* A link whose file is gone.
LEMMA LinkGone ==
    ASSUME RestartInv, Refile("link"), nextId \in Ids, nextId' = nextId + 1,
           disk' = FinishedDisk(Del(disk, "upl", boot.hand.id), nextId),
           marks' = [marks EXCEPT ![nextId] = "no"], stages' = StagesWithout(nextId),
           exposed' = exposed \cup Bystanders(nextId, boot.hand.item),
           Ask(boot.hand.item, "done"), rows' = rows, hosts' = hosts, nap' = nap,
           crashes' = crashes, sess' \subseteq Items
    PROVE  RestartInv'
<1>0. TypeOK /\ disk \in DiskT  BY InvTypes
<1> DEFINE x == boot.hand.item
           h == boot.hand.id
           n == nextId
           d0 == Del(disk, "upl", h)
<1>k. "link" \in Kinds  BY DEF Kinds
<1>1. /\ boot.at = "link" /\ boot.hand # None /\ x \in Items /\ h \in Ids
      /\ boot'.at = boot.at /\ boot'.todo = boot.todo /\ boot'.hand = None
      /\ boot' \in [at : Phases, todo : [Kinds -> SUBSET ReadRec], codes : SUBSET ReadRec,
                    hand : HandRec \cup {None}]
      /\ InHand(x)
  BY <1>k, RefileIs
<1>2. Erased(disk, d0, "upl", h)
  <2>1. "upl" \in Families  BY FamilyNames
  <2> QED  BY <1>0, <1>1, <2>1, DelIs
<1>3. d0 \in DiskT  BY <1>2 DEF Erased
<1>d. disk' = FinishedDisk(d0, n)  OBVIOUS
<1> HIDE DEF d0
<1>4. /\ disk' \in DiskT
      /\ \A f \in Families, j \in Ids : f \in {"link", "dep", "code"} \/ j # n => disk'[f][j] = d0[f][j]
      /\ \A f \in Families : f \notin {"link", "dep", "code"} => disk'[f][n] = None
  BY <1>3, <1>d, FinishedIs
<1>5. /\ wish' \in [Items -> {"new", "go", "stop", "sleep", "gone", "done"}] /\ wish'[x] = "done"
      /\ \A y \in Items : y # x => wish'[y] = wish[y]
  BY <1>0, <1>1, AskIs
<1>6. rows[n] = None /\ hosts[n] = None /\ nextId' \in 1 .. MaxId + 1 /\ nextId <= nextId'
  BY NumberIs
<1>7. /\ Bystanders(n, x) \subseteq Items
      /\ \A f \in Kinds \ {"dep"} : disk[f][n] # None => disk[f][n].item \in Bystanders(n, x) \cup {x}
  BY <1>0, BystandersIs
<1>8. exposed \subseteq exposed' /\ exposed' \subseteq Items  BY <1>0, <1>7 DEF TypeOK
<1>9. /\ marks' \in [Ids -> {"no", "user", "system"}] /\ marks'[n] = "no"
      /\ \A j \in Ids : j # n => marks'[j] = marks[j]
  BY <1>0 DEF TypeOK
<1>10. stages' \subseteq Items  BY <1>0, StagesIs
<1>11. TypeOK'
  BY <1>0, <1>1, <1>4, <1>5, <1>6, <1>8, <1>9, <1>10 DEF TypeOK, DiskT
<1>12. \A f \in Families, j \in Ids : f # "upl" \/ j # h => d0[f][j] = disk[f][j]  BY <1>2 DEF Erased
<1>13. Wiped(n, x)
  <2>1. ~Live(n) /\ rows'[n] = None  BY <1>6 DEF Live
  <2>2. \A f \in NoCode : disk'[f][n] \in {disk[f][n], None}
    <3> SUFFICES ASSUME NEW f \in NoCode PROVE disk'[f][n] \in {disk[f][n], None}  OBVIOUS
    <3>1. f \in Families /\ f # "code"  BY NoCodeIs
    <3>2. CASE f \in {"link", "dep"}  BY <1>4, <1>12, <3>1, <3>2
    <3>3. CASE f \notin {"link", "dep"}  BY <1>4, <3>1, <3>3
    <3> QED  BY <3>2, <3>3
  <2>3. \A k \in Kinds : disk'[k][n] = disk[k][n] \/ disk[k][n].item \in exposed' \cup {x}
    <3> SUFFICES ASSUME NEW k \in Kinds, disk'[k][n] # disk[k][n]
                 PROVE disk[k][n].item \in exposed' \cup {x}
      OBVIOUS
    <3>1. k \in NoCode  BY KindFacts
    <3>2. k # "dep"  BY <1>4, <1>12, FamilyNames
    <3>3. disk[k][n] # None  BY <2>2, <3>1
    <3> QED  BY <1>7, <3>2, <3>3
  <2>4. disk'["dl"][n] = None  BY <1>4, FamilyNames
  <2>5. wish'[x] \notin Active  BY <1>5 DEF Active
  <2> QED  BY <1>1, <1>9, <2>1, <2>2, <2>3, <2>4, <2>5 DEF Wiped
<1>14. \A j \in Ids : Change(j)
  <2> SUFFICES ASSUME NEW j \in Ids, j # n PROVE Still(j) \/ Cleared(j)
    BY <1>1, <1>13 DEF Change
  <2>1. \A f \in NoCode : disk'[f][j] = d0[f][j]  BY <1>4, NoCodeIs
  <2>2. CASE j = h
    <3>1. \A f \in NoCode : disk'[f][j] = disk[f][j] \/ (disk'[f][j] = None /\ f = "upl")
      BY <1>2, <1>12, <2>1, <2>2, NoCodeIs DEF Erased
    <3> QED  BY <1>1, <1>9, <2>2, <3>1 DEF Cleared
  <2>3. CASE j # h
    <3>1. \A f \in NoCode : disk'[f][j] = disk[f][j]  BY <1>12, <2>1, <2>3, NoCodeIs
    <3> QED  BY <1>9, <3>1 DEF Still
  <2> QED  BY <2>2, <2>3
<1>15. \A y \in Items : WishMoves(y)
  <2> SUFFICES ASSUME NEW y \in Items PROVE WishMoves(y)  OBVIOUS
  <2>1. CASE y = x  BY <1>1, <1>5, <2>1 DEF WishMoves, Active
  <2>2. CASE y # x
    <3>1. ~InHand(y)  BY <2>2 DEF InHand
    <3> QED  BY <1>5, <2>2, <3>1 DEF WishMoves
  <2> QED  BY <2>1, <2>2
<1>16. CodesMove
  <2>1. \A j \in Ids : disk'["code"][j] = disk["code"][j]  BY <1>4, <1>12, FamilyNames
  <2> QED  BY <2>1, CodesStay
<1>17. \A j \in Ids : disk'["pend"][j] # None => disk'["pend"][j] = disk["pend"][j]
  BY <1>4, <1>12, FamilyNames
<1>18. nap' # None => Up  BY DEF RestartInv, PhaseInv
<1>19. Steady  BY <1>1, <1>6, <1>8, <1>14, <1>15, <1>16, <1>17, <1>18 DEF Steady
<1> QED  BY <1>11, <1>19, SteadyKeeps

LEMMA RestoreLinkKeeps == ASSUME RestartInv, RestoreLink PROVE RestartInv'
<1>0. TypeOK  BY InvTypes
<1>1. Refile("link")  BY DEF RestoreLink
<1>u. hosts' = hosts /\ nap' = nap /\ crashes' = crashes  BY DEF RestoreLink
<1> DEFINE x == boot.hand.item
           upl == disk["upl"][boot.hand.id]
           T(file) == IF file = "same" THEN TakeUpload(x) ELSE None
           S(file) == IF T(file) # None /\ T(file).tag = "link" THEN T(file)
                      ELSE [item |-> x, tag |-> "link"]
           d0 == Del(disk, "upl", boot.hand.id)
<1>2. PICK file \in {"same", "changed", "gone"} :
         /\ sess' = IF upl # None /\ T(file) = None THEN sess \ {upl.item} ELSE sess
         /\ IF file = "gone"
            THEN /\ nextId \in Ids /\ nextId' = nextId + 1
                 /\ disk' = FinishedDisk(d0, nextId)
                 /\ marks' = [marks EXCEPT ![nextId] = "no"]
                 /\ stages' = StagesWithout(nextId)
                 /\ exposed' = exposed \cup Bystanders(nextId, x)
                 /\ Ask(x, "done") /\ UNCHANGED rows
            ELSE /\ Register(NewRow(x, "link", "run", S(file), None, ""))
                 /\ disk' = Put(Put(d0, "link", nextId, x, ""), "upl", nextId, S(file).item, "link")
                 /\ UNCHANGED <<marks, stages, wish>>
  BY DEF RestoreLink, Hand
<1>3. sess' \subseteq Items  BY <1>0, <1>2 DEF TypeOK
<1>4. CASE file = "gone"
  <2>1. /\ nextId \in Ids /\ nextId' = nextId + 1
        /\ disk' = FinishedDisk(d0, nextId)
        /\ marks' = [marks EXCEPT ![nextId] = "no"]
        /\ stages' = StagesWithout(nextId)
        /\ exposed' = exposed \cup Bystanders(nextId, x)
        /\ Ask(x, "done") /\ rows' = rows
    BY <1>2, <1>4
  <2> QED  BY <1>1, <1>3, <1>u, <2>1, LinkGone
<1>5. CASE file # "gone"
  <2>1. /\ Register(NewRow(x, "link", "run", S(file), None, ""))
        /\ disk' = Put(Put(d0, "link", nextId, x, ""), "upl", nextId, S(file).item, "link")
        /\ marks' = marks /\ stages' = stages /\ wish' = wish
    BY <1>2, <1>5
  <2>2. /\ TakeUpload(x) \in Rec \cup {None}
        /\ x \notin exposed /\ TakeUpload(x) # None => TakeUpload(x).item = x
    BY <1>1, TakeUploadIs
  <2>3. T(file) \in Rec \cup {None} /\ (x \notin exposed /\ T(file) # None => T(file).item = x)
    BY <2>2
  <2>4. x \in Items
    <3>1. "link" \in Kinds  BY DEF Kinds
    <3> QED  BY <1>1, <3>1, RefileIs
  <2> HIDE DEF T
  <2>5. S(file) \in Rec /\ S(file).tag = "link" /\ (x \notin exposed => S(file).item = x)
    <3>1. CASE T(file) # None /\ T(file).tag = "link"  BY <2>3, <3>1
    <3>2. CASE ~(T(file) # None /\ T(file).tag = "link")
      <4>1. S(file) = [item |-> x, tag |-> "link"]  BY <3>2
      <4>2. "link" \in Tags  BY DEF Tags
      <4> QED  BY <2>4, <4>1, <4>2 DEF Rec
    <3> QED  BY <3>1, <3>2
  <2> HIDE DEF S
  <2> QED  BY <1>1, <1>3, <1>u, <2>1, <2>5, LinkRestored
<1> QED  BY <1>4, <1>5

LEMMA SeedFileKeeps == ASSUME RestartInv, NEW i \in Ids, SeedFile(i) PROVE RestartInv'
<1>0. TypeOK /\ disk \in DiskT  BY InvTypes
<1> DEFINE x == rows[i].item
           n == nextId
           row == NewRow(x, "send", "run", None, None, "owned")
           old == Stale("send", n)
<1>1. Live(i) /\ rows[i].kind = "dl" /\ rows[i].st = "run" /\ n \in Ids  BY DEF SeedFile, Is
<1>2. /\ rows[i] \in Row /\ x \in Items /\ RowPhase(rows[i]) /\ (x \notin exposed => RowTrue(i))
      /\ i < nextId
  BY <1>1, RowIs
<1>n. i # n /\ rows[n] = None /\ nextId' = nextId + 1 /\ nextId' \in 1 .. MaxId + 1 /\ nextId <= nextId'
  BY <1>1, <1>2, NumberIs DEF SeedFile
<1>u. marks' = marks /\ hosts' = hosts /\ nap' = nap /\ boot' = boot /\ wish' = wish
      /\ crashes' = crashes /\ sess' = sess
  BY DEF SeedFile
<1>k. "send" \in Kinds /\ "send" \in Families /\ "owned" \in Tags  BY FamilyNames DEF Kinds, Tags
<1>3. IsRow(row, x, "send", "run", None, None, "owned")  BY <1>2, <1>k, NewRowIs
<1>v. /\ rows' = [rows EXCEPT ![i].st = "handing", ![n] = row]
      /\ disk' = Put(disk, "send", n, x, "owned")
      /\ stages' = stages \cup {x}
      /\ exposed' = exposed \cup (IF old = {} THEN {} ELSE {x} \cup old)
  BY DEF SeedFile
<1>o. old \subseteq Items /\ \A f \in Shelf("send"), y \in Items :
         Filed(f, n, y) \/ Listed(f, n, y) => y \in old
  BY <1>0, <1>1, <1>k, StaleIs
<1> HIDE DEF row, old
<1>4. /\ rows'[i] = [rows[i] EXCEPT !.st = "handing"] /\ rows'[n] = row
      /\ \A j \in Ids : j # i /\ j # n => rows'[j] = rows[j]
  BY <1>0, <1>1, <1>n, <1>v DEF TypeOK
<1>5. /\ rows'[i] \in Row /\ rows'[i] # None /\ rows'[i].item = x /\ rows'[i].kind = "dl"
      /\ rows'[i].st = "handing" /\ rows'[i].seal = rows[i].seal /\ rows'[i].prep = rows[i].prep
  <2>1. rows'[i] \in Row  BY <1>2, <1>4 DEF Row
  <2> QED  BY <1>1, <1>2, <1>4, <2>1, RestartNone DEF Row
<1>6. rows' \in [Ids -> Row \cup {None}]
  <2>1. \A j \in Ids : rows'[j] \in Row \cup {None}  BY <1>0, <1>3, <1>4, <1>5 DEF TypeOK, IsRow
  <2>2. rows' = [j \in Ids |-> rows'[j]]  BY <1>0, <1>v DEF TypeOK
  <2> QED  BY <2>1, <2>2
<1>7. Wrote(disk, disk', "send", n, x, "owned")  BY <1>0, <1>1, <1>2, <1>k, <1>v, PutIs
<1>8. exposed \subseteq exposed' /\ exposed' \subseteq Items /\ stages' \subseteq Items
  BY <1>0, <1>2, <1>o, <1>v DEF TypeOK
<1>9. TypeOK'  BY <1>0, <1>6, <1>7, <1>8, <1>n, <1>u DEF TypeOK, DiskT, Wrote
<1>10. x \notin exposed' => RowTrue(i) /\ wish'[x] # "new" /\ wish'[x] # "stop"
  <2> SUFFICES ASSUME x \notin exposed' PROVE RowTrue(i) /\ wish'[x] # "new" /\ wish'[x] # "stop"
    OBVIOUS
  <2>1. RowTrue(i)  BY <1>2, <1>8
  <2> QED  BY <1>1, <1>u, <2>1 DEF RowTrue
<1>11. \A f \in NoCode : disk'[f][i] = disk[f][i]  BY <1>7, <1>n, NoCodeIs DEF Wrote
<1>12. Worked(i)
  <2>1. "dl" \in NoCode  BY KindFacts DEF Kinds
  <2>2. RowGood(i)
    <3> SUFFICES ASSUME x \notin exposed' PROVE RowGood(i)  BY <1>5 DEF RowGood
    <3>1. disk'["dl"][i] # None /\ disk'["dl"][i].item = x
      BY <1>1, <1>10, <1>11, <2>1 DEF RowTrue, Filed
    <3> QED  BY <1>5, <1>10, <3>1 DEF RowGood, RowTrue
  <2>3. Own(rows[i]) = {"dl"} /\ Own(rows'[i]) = {"dl"}  BY <1>1, <1>5 DEF Own, HandingSend
  <2>4. RowPhase(rows'[i])  BY <1>1, <1>2, <1>5, <1>u DEF RowPhase, HandingSend
  <2>5. ~HandingSend(rows'[i])  BY <1>5 DEF HandingSend
  <2> QED  BY <1>1, <1>5, <1>11, <1>u, <2>1, <2>2, <2>3, <2>4, <2>5 DEF Worked
<1>13. Begun(n)
  <2>1. RowPhase(row)  BY <1>3 DEF RowPhase, IsRow, HandingSend, TooEarly
  <2>2. "send" \in Own(row)  BY <1>3, OwnIs DEF IsRow
  <2>3. \A f \in NoCode : disk'[f][n] = disk[f][n] \/ (f \in Own(row) /\ disk'[f][n].item = x)
    BY <1>1, <1>7, <2>2, NoCodeIs DEF Wrote
  <2>4. RowGood(n)
    <3> SUFFICES ASSUME x \notin exposed' PROVE RowGood(n)  BY <1>3, <1>4 DEF RowGood, IsRow
    <3> QED  BY <1>3, <1>4, <1>7, <1>10 DEF RowGood, IsRow, Wrote
  <2>5. \A f \in Shelf(row.kind), y \in Items :
           Filed(f, n, y) \/ Listed(f, n, y) => y \in exposed' /\ row.item \in exposed'
    <3>1. \A y \in old : y \in exposed' /\ x \in exposed'  BY <1>v
    <3> QED  BY <1>3, <1>o, <3>1 DEF IsRow
  <2>6. boot.at = "load" => x \in exposed'  BY <1>1, <1>8, LoadRows
  <2>7. Seeded(x)
    <3>1. i \in RowsOf(x)  BY <1>1 DEF RowsOf
    <3> QED  BY <1>1, <1>4, <3>1 DEF Seeded
  <2>8. row.item = x /\ row.kind = "send" /\ row # None  BY <1>3 DEF IsRow
  <2> QED  BY <1>1, <1>4, <1>n, <1>u, <2>1, <2>3, <2>4, <2>5, <2>6, <2>7, <2>8 DEF Begun
<1>14. \A j \in Ids \ {n} : Still(j) \/ (Worked(j) /\ disk'["pend"][j] = disk["pend"][j])
  <2> SUFFICES ASSUME NEW j \in Ids \ {n}, j # i PROVE Still(j)
    <3>1. "pend" \in NoCode  BY KindFacts DEF Kinds
    <3> QED  BY <1>11, <1>12, <3>1
  <2>1. \A f \in NoCode : disk'[f][j] = disk[f][j]  BY <1>7, NoCodeIs DEF Wrote
  <2> QED  BY <1>4, <1>u, <2>1 DEF Still
<1>15. CodesMove
  <2>1. \A j \in Ids : disk'["code"][j] = disk["code"][j]  BY <1>7, FamilyNames DEF Wrote
  <2> QED  BY <1>u, <2>1, CodesStay
<1>16. disk'["pend"][n] = disk["pend"][n]  BY <1>1, <1>7, FamilyNames DEF Wrote
<1>17. rows'[n].item = x  BY <1>3, <1>4 DEF IsRow
<1> QED
  BY <1>1, <1>8, <1>9, <1>13, <1>14, <1>15, <1>16, <1>17, <1>u, OneBegun

\* The end of a row: what is left on disk and who is at risk.
LEMMA FinishKeeps == ASSUME RestartInv, NEW i \in Ids, Finish(i) PROVE RestartInv'
<1>0. TypeOK /\ disk \in DiskT  BY InvTypes
<1> DEFINE x == rows[i].item
           k == rows[i].kind
<1>1. Live(i) /\ (rows[i].st = "handing" => k = "dl")  BY DEF Finish
<1>2. rows[i] \in Row /\ x \in Items /\ k \in Kinds /\ ~HandingSend(rows[i])
  BY <1>1, RowIs DEF HandingSend
<1>u. hosts' = hosts /\ nextId' = nextId /\ nap' = nap /\ boot' = boot /\ crashes' = crashes
  BY DEF Finish
<1>3. /\ rows' \in [Ids -> Row \cup {None}] /\ rows'[i] = None
      /\ \A j \in Ids : j # i => rows'[j] = rows[j]
  BY <1>0 DEF Finish, TypeOK
<1>4. /\ wish' \in [Items -> {"new", "go", "stop", "sleep", "gone", "done"}]
      /\ wish'[x] = (IF RowsOf(x) = {i} THEN "done" ELSE wish[x])
      /\ \A y \in Items : y # x => wish'[y] = wish[y]
  BY <1>0, <1>2 DEF Finish, TypeOK
<1>5. wish'[x] \in Active => \E j \in Ids : rows'[j] # None /\ rows'[j].item = x
  <2> SUFFICES ASSUME wish'[x] \in Active PROVE \E j \in Ids : rows'[j] # None /\ rows'[j].item = x
    OBVIOUS
  <2>1. RowsOf(x) # {i}  BY <1>4 DEF Active
  <2>2. i \in RowsOf(x)  BY <1>1 DEF RowsOf
  <2>3. PICK j \in RowsOf(x) : j # i  BY <2>1, <2>2
  <2> QED  BY <1>3, <2>3 DEF RowsOf, Live
<1>6. /\ disk' \in DiskT
      /\ \A f \in Families, j \in Ids : f = "code" \/ j # i => disk'[f][j] = disk[f][j]
      /\ \A f \in NoCode : disk'[f][i] \in {disk[f][i], None}
      /\ \A f \in Own(rows[i]) : disk'[f][i] = None
      /\ \A f \in Kinds : disk'[f][i] = disk[f][i] \/ disk[f][i].item \in exposed' \cup {x}
                          \/ f \in Shelf(k)
      /\ \A j \in Ids : j # i => marks'[j] = marks[j]
      /\ \/ marks'[i] = "no" /\ disk'["dl"][i] = None
         \/ marks'[i] = marks[i] /\ disk'["dl"][i] = disk["dl"][i] /\ k # "dl"
      /\ marks' \in [Ids -> {"no", "user", "system"}] /\ stages' \subseteq Items /\ sess' \subseteq Items
      /\ exposed \subseteq exposed' /\ exposed' \subseteq Items
  <2>1. CASE k = "dep"
    <3>1. disk' = Del(disk, "dep", i) /\ marks' = marks /\ stages' = stages /\ sess' = sess
          /\ exposed' = exposed
      BY <2>1 DEF Finish
    <3>2. "dep" \in Families  BY FamilyNames
    <3>3. Erased(disk, disk', "dep", i)  BY <1>0, <3>1, <3>2, DelIs
    <3>4. Own(rows[i]) = {"dep"} /\ Shelf(k) = {"dep"}  BY <1>2, <2>1 DEF Own, Shelf
    <3>5. \A f \in NoCode : disk'[f][i] = disk[f][i] \/ (f = "dep" /\ disk'[f][i] = None)
      BY <3>3, NoCodeIs DEF Erased
    <3>6. \A f \in Families, j \in Ids : f = "code" \/ j # i => disk'[f][j] = disk[f][j]
      BY <3>3 DEF Erased
    <3>7. disk'["dl"][i] = disk["dl"][i] /\ disk'["dep"][i] = None /\ disk' \in DiskT
      BY <3>3, FamilyNames DEF Erased
    <3>8. Kinds \subseteq NoCode  BY KindFacts
    <3> QED  BY <1>0, <2>1, <3>1, <3>4, <3>5, <3>6, <3>7, <3>8 DEF TypeOK
  <2>2. CASE k # "dep"
    <3> DEFINE d == FinishedDisk(disk, i)
    <3>1. /\ disk' = IF k = "link" THEN Del(d, "link", i) ELSE d
          /\ marks' = [marks EXCEPT ![i] = "no"] /\ stages' = StagesWithout(i)
          /\ sess' = sess \ {x} /\ exposed' = exposed \cup Bystanders(i, x)
      BY <2>2 DEF Finish
    <3>2. /\ d \in DiskT
          /\ \A f \in Families, j \in Ids : f \in {"link", "dep", "code"} \/ j # i => d[f][j] = disk[f][j]
          /\ \A f \in Families : f \notin {"link", "dep", "code"} => d[f][i] = None
      BY <1>0, FinishedIs
    <3> HIDE DEF d
    <3>3. /\ disk' \in DiskT
          /\ \A f \in Families, j \in Ids : f \in {"dep", "code"} \/ j # i => disk'[f][j] = disk[f][j]
          /\ \A f \in Families : f \notin {"link", "dep", "code"} => disk'[f][i] = None
          /\ k = "link" => disk'["link"][i] = None
          /\ k # "link" => disk'["link"][i] = disk["link"][i]
      <4>1. CASE k = "link"
        <5>1. "link" \in Families  BY FamilyNames
        <5>2. d \in DiskT /\ disk' = Del(d, "link", i)  BY <3>1, <3>2, <4>1
        <5>3. Erased(d, disk', "link", i)  BY <5>1, <5>2, DelIs
        <5> QED  BY <3>2, <4>1, <5>3 DEF Erased
      <4>2. CASE k # "link"
        <5>1. disk' = d  BY <3>1, <4>2
        <5> QED  BY <3>2, <4>2, <5>1, FamilyNames
      <4> QED  BY <4>1, <4>2
    <3>4. /\ Bystanders(i, x) \subseteq Items
          /\ \A f \in Kinds \ {"dep"} : disk[f][i] # None => disk[f][i].item \in Bystanders(i, x) \cup {x}
      BY <1>0, BystandersIs
    <3>5. \A f \in NoCode : disk'[f][i] \in {disk[f][i], None}
      <4> SUFFICES ASSUME NEW f \in NoCode PROVE disk'[f][i] \in {disk[f][i], None}  OBVIOUS
      <4>1. f \in Families /\ f # "code"  BY NoCodeIs
      <4>2. CASE f = "dep"  BY <3>3, <4>1, <4>2
      <4>3. CASE f = "link"  BY <3>3, <4>3
      <4>4. CASE f \notin {"dep", "link"}  BY <3>3, <4>1, <4>4
      <4> QED  BY <4>2, <4>3, <4>4
    <3>6. \A f \in Own(rows[i]) : disk'[f][i] = None
      <4> SUFFICES ASSUME NEW f \in Own(rows[i]) PROVE disk'[f][i] = None  OBVIOUS
      <4>1. f \in NoCode /\ (f = "link" => k = "link") /\ (f = "dep" => k = "dep")  BY <1>2, OwnIs
      <4>2. f \in Families /\ f # "code"  BY <4>1, NoCodeIs
      <4> QED  BY <2>2, <3>3, <4>1, <4>2
    <3>7. \A f \in Kinds : disk'[f][i] = disk[f][i] \/ disk[f][i].item \in exposed' \cup {x}
      <4> SUFFICES ASSUME NEW f \in Kinds, disk'[f][i] # disk[f][i]
                   PROVE disk[f][i].item \in exposed' \cup {x}
        OBVIOUS
      <4>1. f \in NoCode  BY KindFacts
      <4>2. f # "dep"  BY <3>3, FamilyNames
      <4>3. disk[f][i] # None  BY <3>5, <4>1
      <4> QED  BY <3>1, <3>4, <4>2, <4>3
    <3>8. disk'["dl"][i] = None  BY <3>3, FamilyNames
    <3>9. /\ marks' \in [Ids -> {"no", "user", "system"}] /\ marks'[i] = "no"
          /\ \A j \in Ids : j # i => marks'[j] = marks[j]
      BY <1>0, <3>1 DEF TypeOK
    <3>10. stages' \subseteq Items  BY <1>0, <3>1, StagesIs
    <3>11. sess' \subseteq Items /\ exposed \subseteq exposed' /\ exposed' \subseteq Items
      BY <1>0, <3>1, <3>4 DEF TypeOK
    <3>12. \A f \in Families, j \in Ids : f = "code" \/ j # i => disk'[f][j] = disk[f][j]  BY <3>3
    <3>13. disk' \in DiskT  BY <3>3
    <3> QED  BY <3>5, <3>6, <3>7, <3>8, <3>9, <3>10, <3>11, <3>12, <3>13
  <2> QED  BY <2>1, <2>2
<1>7. TypeOK'  BY <1>0, <1>3, <1>4, <1>6, <1>u DEF TypeOK, DiskT
<1>8. Wiped(i, x)  BY <1>1, <1>3, <1>5, <1>6 DEF Wiped
<1>9. \A j \in Ids : Change(j)
  <2> SUFFICES ASSUME NEW j \in Ids, j # i PROVE Still(j)  BY <1>2, <1>8 DEF Change
  <2> QED  BY <1>3, <1>6, NoCodeIs DEF Still
<1>10. \A y \in Items : WishMoves(y)
  <2> SUFFICES ASSUME NEW y \in Items PROVE WishMoves(y)  OBVIOUS
  <2>1. ~(InHand(y) /\ boot'.hand = None)  BY <1>u DEF InHand
  <2>2. CASE y = x
    <3>1. i \in RowsOf(x)  BY <1>1 DEF RowsOf
    <3> QED  BY <1>4, <1>5, <2>1, <2>2, <3>1 DEF WishMoves
  <2>3. CASE y # x  BY <1>4, <2>1, <2>3 DEF WishMoves
  <2> QED  BY <2>2, <2>3
<1>11. CodesMove
  <2>1. \A j \in Ids : disk'["code"][j] = disk["code"][j]  BY <1>6, FamilyNames
  <2> QED  BY <1>u, <2>1, CodesStay
<1>12. \A j \in Ids : disk'["pend"][j] # None => disk'["pend"][j] = disk["pend"][j]
  <2>1. "pend" \in NoCode  BY KindFacts DEF Kinds
  <2> QED  BY <1>6, <2>1, NoCodeIs
<1>13. nextId <= nextId' /\ (nap' # None => Up)
  BY <1>0, <1>u, RestartConstants DEF TypeOK, RestartConstants, RestartInv, PhaseInv
<1>14. Steady  BY <1>6, <1>9, <1>10, <1>11, <1>12, <1>13, <1>u DEF Steady
<1> QED  BY <1>7, <1>14, SteadyKeeps

-----------------------------------------------------------------------------
(* The start, from one family to the next.                                 *)

\* A step of the start that moves no record of a transfer: what waits to be
\* restored is the same, before and after.
Onward ==
    /\ rows' = rows /\ marks' = marks /\ exposed' = exposed /\ wish' = wish /\ hosts' = hosts
    /\ nextId' = nextId /\ nap' = nap
    /\ boot.hand = None /\ boot'.hand = None
    /\ \A k \in Kinds, i \in Ids : disk'[k][i] = disk[k][i]
    /\ \A f \in {"upl", "prep"}, i \in Ids : disk'[f][i] \in {disk[f][i], None}
    /\ \A k \in Kinds, i \in Ids, x \in Items : Old(k, i, x)' <=> Old(k, i, x)

LEMMA OnwardKeeps ==
    ASSUME RestartInv, TypeOK', Onward
    PROVE  ClashInv' /\ HandClash' /\ OldInv' /\ HandInv' /\ RowsInv' /\ PlaceInv'
<1>0. TypeOK /\ ClashInv /\ OldInv /\ RowsInv /\ PlaceInv  BY DEF RestartInv
<1>u. /\ rows' = rows /\ marks' = marks /\ exposed' = exposed /\ wish' = wish
      /\ boot.hand = None /\ boot'.hand = None
      /\ \A k \in Kinds, i \in Ids : disk'[k][i] = disk[k][i]
  BY DEF Onward
<1>o. \A k \in Kinds, i \in Ids, x \in Items : Old(k, i, x)' <=> Old(k, i, x)  BY DEF Onward
<1>f. \A f \in {"upl", "prep"}, i \in Ids : disk'[f][i] \in {disk[f][i], None}  BY DEF Onward
<1>r. /\ \A x \in Items : RowsOf(x)' = RowsOf(x)
      /\ \A i \in Ids : Live(i)' <=> Live(i)
      /\ \A x \in Items : ~InHand(x) /\ ~InHand(x)'
  BY <1>u DEF RowsOf, Live, InHand
<1>1. ClashInv'  BY <1>0, <1>u, <1>o, <1>r DEF ClashInv, Shelf
<1>2. HandClash' /\ HandInv'  BY <1>u DEF HandClash, HandInv
<1>3. OldInv'
  <2> SUFFICES ASSUME NEW k \in Kinds, NEW i \in Ids, NEW x \in Items, Old(k, i, x)', x \notin exposed'
               PROVE OldTrue(k, i, x)'
    BY DEF OldInv
  <2>1. OldTrue(k, i, x)  BY <1>0, <1>o, <1>u DEF OldInv
  <2>2. RowsOf(x)' = {} /\ ~InHand(x)'  BY <1>r, <2>1 DEF OldTrue
  <2>3. \A l \in Kinds, j \in Ids : Old(l, j, x)' => l = k /\ j = i  BY <1>o, <2>1 DEF OldTrue
  <2>4. /\ wish'[x] # "new"
        /\ wish'[x] = "stop" => \/ k = "dl" /\ marks'[i] = "user"
                                \/ k = "sendto" /\ disk'["sendto"][i].tag = "paused"
    BY <1>u, <2>1 DEF OldTrue, Kinds
  <2>5. /\ k \in {"sendto", "link"} => Fits(disk["upl"][i], x)'
        /\ k = "sendto" => Fits(disk["prep"][i], x)'
    BY <1>f, <2>1 DEF OldTrue, Fits
  <2> QED  BY <2>2, <2>3, <2>4, <2>5 DEF OldTrue
<1>4. RowsInv'
  <2> SUFFICES ASSUME NEW i \in Ids, Live(i)', rows'[i].item \notin exposed' PROVE RowTrue(i)'
    BY DEF RowsInv
  <2>1. RowTrue(i) /\ rows[i].kind \in Kinds /\ Live(i) /\ rows[i].item \in Items
    BY <1>0, <1>r, <1>u, RowIs DEF RowsInv
  <2>2. RowsOf(rows[i].item)' = RowsOf(rows[i].item)  BY <1>u DEF RowsOf, Live
  <2>3. "sendto" \in Kinds  BY DEF Kinds
  <2> QED  BY <1>u, <2>1, <2>2, <2>3 DEF RowTrue, Filed, Pair
<1>5. PlaceInv'  BY <1>0, <1>o, <1>r, <1>u DEF PlaceInv
<1> QED  BY <1>1, <1>2, <1>3, <1>4, <1>5

\* The records of a family, as they are read.
LEMMA LoadIs ==
    ASSUME TypeOK, NEW f \in Families
    PROVE  /\ Load(f) \subseteq ReadRec
           /\ \A r \in Load(f) : /\ r.id \in Ids /\ disk[f][r.id] = [item |-> r.item, tag |-> r.tag]
                                 /\ disk[f][r.id] # None
                                 /\ disk[f][r.id].item = r.item /\ disk[f][r.id].tag = r.tag
           /\ \A r, q \in Load(f) : q.id = r.id => q = r
           /\ \A i \in Ids : disk[f][i] # None =>
                 \E r \in Load(f) : r.id = i /\ r.item = disk[f][i].item
<1>1. \A i \in Ids : disk[f][i] # None =>
         /\ disk[f][i] \in Rec /\ disk[f][i].item \in Items /\ disk[f][i].tag \in Tags
         /\ disk[f][i] = [item |-> disk[f][i].item, tag |-> disk[f][i].tag]
  BY DEF TypeOK, Rec
<1> DEFINE R(i) == [id |-> i, item |-> disk[f][i].item, tag |-> disk[f][i].tag]
<1>2. Load(f) = {R(i) : i \in {j \in Ids : disk[f][j] # None}}  BY DEF Load
<1>3. \A i \in Ids : R(i).id = i /\ R(i).item = disk[f][i].item /\ R(i).tag = disk[f][i].tag  OBVIOUS
<1>4. \A i \in Ids : disk[f][i] # None => R(i) \in ReadRec  BY <1>1 DEF ReadRec
<1> HIDE DEF R
<1>5. \A r \in Load(f) : r.id \in Ids /\ disk[f][r.id] # None /\ r = R(r.id)  BY <1>2, <1>3
<1>6. \A r, q \in Load(f) : q.id = r.id => q = r  BY <1>5
<1>7. Load(f) \subseteq ReadRec  BY <1>2, <1>4
<1>8. ASSUME NEW r \in Load(f)
      PROVE /\ disk[f][r.id] = [item |-> r.item, tag |-> r.tag]
            /\ disk[f][r.id].item = r.item /\ disk[f][r.id].tag = r.tag
  <2>1. r.id \in Ids /\ disk[f][r.id] # None /\ r = R(r.id)  BY <1>5
  <2>2. r.item = disk[f][r.id].item /\ r.tag = disk[f][r.id].tag  BY <1>3, <2>1
  <2> QED  BY <1>1, <2>1, <2>2
<1>9. \A i \in Ids : disk[f][i] # None => R(i) \in Load(f)  BY <1>2
<1> QED  BY <1>3, <1>5, <1>6, <1>7, <1>8, <1>9

\* A family is listed as it is filed once it has been read.
LEMMA LoadLists ==
    ASSUME TypeOK, NEW k \in Kinds, boot'.todo[k] = Load(k), NEW i \in Ids, NEW x
    PROVE  Listed(k, i, x)' <=> Filed(k, i, x)
<1>1. k \in Families  BY KindFacts
<1>2. /\ \A r \in Load(k) : disk[k][r.id] # None /\ disk[k][r.id].item = r.item
      /\ disk[k][i] # None => \E r \in Load(k) : r.id = i /\ r.item = disk[k][i].item
  BY ZenonT(60), <1>1, LoadIs
<1> QED  BY <1>2 DEF Listed, Filed

LEMMA LoadAllKeeps == ASSUME RestartInv, LoadAll PROVE RestartInv'
<1>0. TypeOK /\ disk \in DiskT  BY InvTypes
<1>1. boot.at = "load" /\ boot.hand = None  BY DEF LoadAll, RestartInv, PhaseInv, Kinds
<1>u. /\ rows' = rows /\ marks' = marks /\ exposed' = exposed /\ wish' = wish /\ hosts' = hosts
      /\ nextId' = nextId /\ nap' = nap /\ stages' = stages /\ sess' = sess /\ crashes' = crashes
  BY DEF LoadAll
<1> DEFINE T == [k \in Kinds |-> IF k \in {"link", "pend"} THEN {} ELSE Load(k)]
<1>b. boot' = [at |-> "dep", hand |-> None, codes |-> Load("code"), todo |-> T]  BY DEF LoadAll
<1>t. /\ \A k \in Kinds : T[k] = IF k \in {"link", "pend"} THEN {} ELSE Load(k)
      /\ T \in [Kinds -> SUBSET ReadRec] /\ Load("code") \subseteq ReadRec
  <2>1. \A f \in Families : Load(f) \subseteq ReadRec  BY <1>0, LoadIs
  <2>2. Kinds \subseteq Families /\ "code" \in Families  BY KindFacts
  <2> QED  BY <2>1, <2>2
<1> HIDE DEF T
<1>2. boot'.at = "dep" /\ boot'.hand = None /\ boot'.todo = T  BY <1>b
<1>3. boot' \in [at : Phases, todo : [Kinds -> SUBSET ReadRec], codes : SUBSET ReadRec,
                 hand : HandRec \cup {None}]
  BY <1>b, <1>t DEF Phases
<1>4. /\ disk' \in DiskT /\ \A i \in Ids : disk'["code"][i] = None
      /\ \A f \in NoCode, i \in Ids : disk'[f][i] = disk[f][i]
  <2>1. "code" \in Families  BY FamilyNames
  <2>2. disk' = [disk EXCEPT !["code"] = [i \in Ids |-> None]]  BY DEF LoadAll
  <2> QED  BY <1>0, <2>1, <2>2, NoCodeIs DEF DiskT
<1>5. TypeOK'  BY <1>0, <1>3, <1>4, <1>u DEF TypeOK, DiskT
<1>6. \A k \in Kinds : boot.todo[k] = {}  BY <1>1 DEF RestartInv, PhaseInv, Reading, Kinds
<1>7. Kinds \subseteq NoCode /\ "upl" \in NoCode /\ "prep" \in NoCode  BY KindFacts
<1>8. ASSUME NEW k \in Kinds, NEW i \in Ids, NEW x \in Items
      PROVE Old(k, i, x)' <=> Old(k, i, x)
  <2>1. Old(k, i, x) <=> Filed(k, i, x)  BY <1>1, <1>6 DEF Old, Listed, Unread
  <2>2. Filed(k, i, x)' <=> Filed(k, i, x)  BY <1>4, <1>7 DEF Filed
  <2>3. CASE k \in {"link", "pend"}
    <3>1. boot'.todo[k] = {}  BY <1>2, <1>t, <2>3
    <3>2. Unread(k)'  BY <1>2, <2>3 DEF Unread, TooEarly
    <3> QED  BY <2>1, <2>2, <3>1, <3>2 DEF Old, Listed
  <2>4. CASE k \notin {"link", "pend"}
    <3>1. boot'.todo[k] = Load(k)  BY <1>2, <1>t, <2>4
    <3>2. ~Unread(k)'  BY <1>2, <2>4 DEF Unread
    <3>3. Listed(k, i, x)' <=> Filed(k, i, x)  BY <1>0, <3>1, LoadLists
    <3> QED  BY <2>1, <3>2, <3>3 DEF Old
  <2> QED  BY <2>3, <2>4
<1>9. Onward  BY <1>1, <1>2, <1>4, <1>7, <1>8, <1>u DEF Onward
<1>10. ClashInv' /\ HandClash' /\ OldInv' /\ HandInv' /\ RowsInv' /\ PlaceInv'
  BY <1>5, <1>9, OnwardKeeps
<1>11. PendInv'
  <2>1. "pend" \in NoCode /\ "pend" \in Kinds  BY KindFacts DEF Kinds
  <2>2. boot'.todo["pend"] = {}  BY <1>2, <1>t, <2>1
  <2> QED  BY <1>2, <1>4, <2>1, <2>2 DEF RestartInv, PendInv
<1>12. PhaseInv'
  <2>1. \A k \in Kinds : boot'.todo[k] # {} => boot'.at \in Reading(k)
    BY <1>2, <1>t DEF Reading, Kinds, Phases
  <2>2. nap' = None  BY <1>1, <1>u DEF RestartInv, PhaseInv, Up
  <2>3. ASSUME NEW i \in Ids, Live(i)' PROVE i < nextId' /\ RowPhase(rows[i])'
    <3>1. rows[i] \in Row /\ i < nextId /\ RowPhase(rows[i]) /\ rows[i].kind \in Kinds
      BY <1>u, <2>3, RowIs DEF Live
    <3>2. rows[i].kind \in {"dl", "send"} /\ ~HandingSend(rows[i])
      BY <1>1, <3>1 DEF RowPhase, TooEarly, Kinds
    <3> QED  BY <1>2, <1>u, <3>1, <3>2 DEF RowPhase, TooEarly, HandingSend
  <2> QED  BY <1>2, <2>1, <2>2, <2>3 DEF PhaseInv
<1>13. TodoInv'
  <2> SUFFICES ASSUME NEW k \in Kinds, NEW r \in boot'.todo[k]
               PROVE /\ \A q \in boot'.todo[k] : q.id = r.id => q = r
                     /\ disk'[k][r.id] = [item |-> r.item, tag |-> r.tag]
                     /\ disk'[k][r.id].item = r.item
    BY <1>2 DEF TodoInv
  <2>1. boot'.todo[k] = Load(k)  BY <1>2, <1>t
  <2>2. k \in Families /\ k \in NoCode  BY KindFacts
  <2>3. /\ r.id \in Ids /\ disk[k][r.id] = [item |-> r.item, tag |-> r.tag]
        /\ disk[k][r.id].item = r.item /\ \A q \in Load(k) : q.id = r.id => q = r
    BY <1>0, <2>1, <2>2, LoadIs
  <2> QED  BY <1>4, <2>1, <2>2, <2>3
<1>14. RecordsInv'
  <2> SUFFICES ASSUME NEW f \in Families \ {"code"}, NEW i \in Ids, disk'[f][i] # None
               PROVE Awaited(f, i)'
    BY DEF RecordsInv
  <2>1. f \in NoCode /\ disk[f][i] # None  BY <1>4 DEF NoCode
  <2>2. CASE f \in {"upl", "prep"}  BY <1>2, <2>2 DEF Awaited
  <2>3. CASE f \in {"link", "pend"}  BY <1>2, <2>3 DEF Awaited, Unread, TooEarly, Kinds
  <2>4. CASE f \notin {"upl", "prep", "link", "pend"}
    <3>1. f \in Kinds  BY <2>1, <2>4, KindFacts
    <3>2. boot'.todo[f] = Load(f)  BY <1>2, <1>t, <2>4, <3>1
    <3>3. \E r \in Load(f) : r.id = i  BY <1>0, <2>1, LoadIs
    <3> QED  BY <3>1, <3>2, <3>3 DEF Awaited
  <2> QED  BY <2>2, <2>3, <2>4
<1>15. MarksInv'
  <2> SUFFICES ASSUME NEW i \in Ids, marks'[i] # "no", exposed' = {}, ~(Live(i)' /\ rows'[i].kind = "dl")
               PROVE \E r \in boot'.todo["dl"] : r.id = i
    BY DEF MarksInv
  <2>1. "dl" \in Kinds /\ "dl" \in Families  BY FamilyNames DEF Kinds
  <2>2. disk["dl"][i] # None  BY <1>6, <1>u, <2>1 DEF RestartInv, MarksInv, Live
  <2>3. boot'.todo["dl"] = Load("dl")  BY <1>2, <1>t, <2>1
  <2> QED  BY <1>0, <2>1, <2>2, <2>3, LoadIs
<1>16. CodesInv'  BY <1>4, <1>u DEF RestartInv, CodesInv, Live
<1> QED  BY <1>5, <1>10, <1>11, <1>12, <1>13, <1>14, <1>15, <1>16 DEF RestartInv

\* A row that is in its time stays so as the start goes on.
LEMMA PhaseForward ==
    ASSUME boot.at \in Phases \ {"up"}, boot'.at = After(boot.at), NEW row \in Row, RowPhase(row)
    PROVE  RowPhase(row)'
<1>1. \A k \in Kinds : boot'.at \in TooEarly(k) => boot.at \in TooEarly(k)
  BY DEF After, TooEarly, Kinds, Phases
<1>2. row.kind \in Kinds /\ "pend" \in Kinds  BY DEF Row, Kinds
<1>3. \A k \in Kinds : TooEarly(k)' = TooEarly(k)  BY DEF TooEarly
<1>4. HandingSend(row)' <=> HandingSend(row)  BY DEF HandingSend
<1> QED  BY <1>1, <1>2, <1>3, <1>4 DEF RowPhase

\* What a family has to be restored is awaited until its time comes.
LEMMA ProceedKeeps == ASSUME RestartInv, Proceed PROVE RestartInv'
<1>0. TypeOK /\ disk \in DiskT  BY InvTypes
<1> DEFINE to == After(boot.at)
           T == IF to \in {"link", "pend"} THEN [boot.todo EXCEPT ![to] = Load(to)] ELSE boot.todo
           C == IF to = "up" THEN {} ELSE boot.codes
<1>u. /\ rows' = rows /\ marks' = marks /\ exposed' = exposed /\ wish' = wish /\ hosts' = hosts
      /\ nextId' = nextId /\ nap' = nap /\ stages' = stages /\ sess' = sess /\ crashes' = crashes
      /\ disk' = disk
  BY DEF Proceed, files
<1>1. /\ boot.at \in {"dep", "sendto", "link", "pend", "dl", "send"}
      /\ boot.hand = None /\ boot.todo[boot.at] = {}
  BY DEF Proceed
<1>b. boot' = [boot EXCEPT !.at = to, !.codes = C, !.todo = T]  BY DEF Proceed
<1>c. /\ boot \in [at : Phases, todo : [Kinds -> SUBSET ReadRec], codes : SUBSET ReadRec,
                   hand : HandRec \cup {None}]
  BY <1>0 DEF TypeOK
<1>d. /\ to \in Phases /\ to # "load"
      /\ to \in {"link", "pend"} => to \in Kinds /\ boot.at \in TooEarly(to) /\ boot.at \notin Reading(to)
  BY <1>1 DEF After, Phases, Kinds, TooEarly, Reading
<1>e. \A k \in Kinds : k # to \/ to \notin {"link", "pend"} => (Unread(k) <=> k \in {"link", "pend"} /\ to \in TooEarly(k))
  BY <1>1 DEF After, Unread, TooEarly, Kinds
<1>g. /\ boot.at = "dep" => to = "preps"
      /\ boot.at \notin {"dl", "send", "up"} => to \notin {"dl", "send", "up"}
      /\ boot.at \notin {"load", "preps"}
  BY <1>1 DEF After
<1>h. \A k \in Kinds : boot.at \in Reading(k) /\ k # boot.at => to \in Reading(k)
  BY <1>1 DEF After, Reading, Kinds, Phases
<1>i. to \in {"link", "pend"} => to \in Reading(to)  BY DEF Reading
<1>j. to = After(boot.at)  OBVIOUS
<1> HIDE DEF to
<1>t. /\ T \in [Kinds -> SUBSET ReadRec]
      /\ \A k \in Kinds : k = to /\ to \in {"link", "pend"} => T[k] = Load(k) /\ boot.todo[k] = {}
      /\ \A k \in Kinds : k # to \/ to \notin {"link", "pend"} => T[k] = boot.todo[k]
  <2>1. to \in Kinds => Load(to) \subseteq ReadRec  BY <1>0, LoadIs, KindFacts
  <2>2. to \in {"link", "pend"} => boot.todo[to] = {}  BY <1>d DEF RestartInv, PhaseInv
  <2>3. boot.todo \in [Kinds -> SUBSET ReadRec]  BY <1>c
  <2>4. CASE to \in {"link", "pend"}
    <3>1. T = [boot.todo EXCEPT ![to] = Load(to)]  BY <2>4
    <3> HIDE DEF T
    <3> QED  BY <1>d, <2>1, <2>2, <2>3, <2>4, <3>1
  <2>5. CASE to \notin {"link", "pend"}
    <3>1. T = boot.todo  BY <2>5
    <3> HIDE DEF T
    <3> QED  BY <2>3, <2>5, <3>1
  <2> QED  BY <2>4, <2>5
<1>k. C \subseteq ReadRec  BY <1>c
<1> HIDE DEF T, C
<1>2. boot'.at = to /\ boot'.hand = None /\ boot'.todo = T  BY <1>1, <1>b, <1>c
<1>3. boot' \in [at : Phases, todo : [Kinds -> SUBSET ReadRec], codes : SUBSET ReadRec,
                 hand : HandRec \cup {None}]
  BY <1>b, <1>c, <1>d, <1>k, <1>t
<1>5. TypeOK'  BY <1>0, <1>3, <1>u DEF TypeOK
<1>6. \A k \in Kinds : (Unread(k)' <=> k \in {"link", "pend"} /\ to \in TooEarly(k))
  BY <1>2, <1>d DEF Unread, TooEarly
<1>7. to \notin TooEarly(to)  BY DEF TooEarly
<1>8. ASSUME NEW k \in Kinds, NEW i \in Ids, NEW x \in Items
      PROVE Old(k, i, x)' <=> Old(k, i, x)
  <2>1. Filed(k, i, x)' <=> Filed(k, i, x)  BY <1>u DEF Filed
  <2>2. CASE k = to /\ to \in {"link", "pend"}
    <3>1. boot'.todo[k] = Load(k) /\ boot.todo[k] = {}  BY <1>2, <1>t, <2>2
    <3>2. Unread(k) /\ ~Unread(k)'  BY <1>6, <1>7, <1>d, <2>2 DEF Unread
    <3>3. Listed(k, i, x)' <=> Filed(k, i, x)  BY <1>0, <3>1, LoadLists
    <3> QED  BY <3>1, <3>2, <3>3 DEF Old, Listed
  <2>3. CASE k # to \/ to \notin {"link", "pend"}
    <3>1. boot'.todo[k] = boot.todo[k]  BY <1>2, <1>t, <2>3
    <3>2. Unread(k)' <=> Unread(k)  BY <1>6, <1>e, <2>3
    <3> QED  BY <2>1, <3>1, <3>2 DEF Old, Listed
  <2> QED  BY <2>2, <2>3
<1>9. Onward
  <2>1. \A k \in Kinds, i \in Ids : disk'[k][i] = disk[k][i]  BY <1>u
  <2>2. \A f \in {"upl", "prep"}, i \in Ids : disk'[f][i] \in {disk[f][i], None}  BY <1>u
  <2> QED  BY <1>1, <1>2, <1>8, <1>u, <2>1, <2>2 DEF Onward
<1>10. ClashInv' /\ HandClash' /\ OldInv' /\ HandInv' /\ RowsInv' /\ PlaceInv'
  BY <1>5, <1>9, OnwardKeeps
<1>11. PendInv'
  <2>1. "pend" \in Families /\ "pend" \in Kinds  BY KindFacts DEF Kinds
  <2>2. \A i \in Ids : disk["pend"][i] # None => disk["pend"][i].tag \in PendTags
    BY DEF RestartInv, PendInv
  <2>3. \A r \in boot'.todo["pend"] : r.tag \in PendTags
    <3>1. CASE boot'.todo["pend"] = Load("pend")
      <4>1. \A r \in Load("pend") : r.id \in Ids /\ disk["pend"][r.id] # None /\ disk["pend"][r.id].tag = r.tag
        BY ZenonT(60), <1>0, <2>1, LoadIs
      <4> QED  BY <2>2, <3>1, <4>1
    <3>2. CASE boot'.todo["pend"] = boot.todo["pend"]  BY <3>2 DEF RestartInv, PendInv
    <3> QED  BY <1>2, <1>t, <2>1, <3>1, <3>2
  <2> QED  BY <1>2, <1>u, <2>2, <2>3 DEF PendInv, PendTags
<1>12. PhaseInv'
  <2>1. ASSUME NEW k \in Kinds, boot'.todo[k] # {} PROVE boot'.at \in Reading(k)
    <3>1. CASE k = to /\ to \in {"link", "pend"}  BY <1>2, <1>i, <3>1
    <3>2. CASE k # to \/ to \notin {"link", "pend"}
      <4>1. boot.todo[k] # {}  BY <1>2, <1>t, <2>1, <3>2
      <4>2. boot.at \in Reading(k) /\ k # boot.at  BY <1>1, <4>1 DEF RestartInv, PhaseInv
      <4> QED  BY <1>2, <1>h, <4>2
    <3> QED  BY <3>1, <3>2
  <2>2. nap' = None  BY <1>1, <1>u DEF RestartInv, PhaseInv, Up
  <2>3. ASSUME NEW i \in Ids, Live(i)' PROVE i < nextId' /\ RowPhase(rows[i])'
    <3>1. rows[i] \in Row /\ i < nextId /\ RowPhase(rows[i])
      BY <1>u, <2>3, RowIs DEF Live
    <3>2. boot.at \in Phases \ {"up"} /\ boot'.at = After(boot.at)  BY <1>1, <1>2, <1>c, <1>j
    <3>4. \A row \in Row : RowPhase(row) => RowPhase(row)'  BY <3>2, PhaseForward
    <3> QED  BY <1>u, <3>1, <3>4 DEF RowPhase, HandingSend
  <2>4. \A k \in Kinds : Reading(k)' = Reading(k)  BY DEF Reading
  <2> QED  BY <1>2, <2>1, <2>2, <2>3, <2>4 DEF PhaseInv
<1>13. TodoInv'
  <2> SUFFICES ASSUME NEW k \in Kinds, NEW r \in boot'.todo[k]
               PROVE /\ \A q \in boot'.todo[k] : q.id = r.id => q = r
                     /\ r.item \notin exposed => disk[k][r.id] = [item |-> r.item, tag |-> r.tag]
                     /\ disk[k][r.id] # None => disk[k][r.id].item \in exposed \cup {r.item}
    BY <1>2, <1>u DEF TodoInv
  <2>1. CASE k = to /\ to \in {"link", "pend"}
    <3>1. boot'.todo[k] = Load(k)  BY <1>2, <1>t, <2>1
    <3>2. k \in Families  BY KindFacts
    <3> QED  BY <1>0, <3>1, <3>2, LoadIs
  <2>2. CASE k # to \/ to \notin {"link", "pend"}
    <3>1. boot'.todo[k] = boot.todo[k]  BY <1>2, <1>t, <2>2
    <3> QED  BY <3>1 DEF RestartInv, TodoInv
  <2> QED  BY <2>1, <2>2
<1>14. RecordsInv'
  <2> SUFFICES ASSUME NEW f \in Families \ {"code"}, NEW i \in Ids, disk[f][i] # None, Awaited(f, i)
               PROVE Awaited(f, i)'
    BY <1>u DEF RestartInv, RecordsInv, Live, OfRow, Own, HandingSend
  <2>1. f \in NoCode  BY DEF NoCode
  <2>2. CASE f = "upl"  BY <1>2, <1>g, <2>2 DEF Awaited, Kinds
  <2>3. CASE f = "prep"
    <3>1. "sendto" \in Kinds /\ "sendto" \notin {"link", "pend"}  BY DEF Kinds
    <3>2. boot'.todo["sendto"] = boot.todo["sendto"]  BY <1>2, <1>t, <3>1
    <3> QED  BY <1>2, <1>g, <2>3, <3>2 DEF Awaited, Kinds
  <2>4. CASE f \in Kinds
    <3>1. CASE f = to /\ to \in {"link", "pend"}
      <4>1. boot'.todo[f] = Load(f)  BY <1>2, <1>t, <2>4, <3>1
      <4>2. \E r \in Load(f) : r.id = i  BY <1>0, LoadIs
      <4> QED  BY <2>4, <4>1, <4>2 DEF Awaited
    <3>2. CASE f # to \/ to \notin {"link", "pend"}
      <4>1. boot'.todo[f] = boot.todo[f]  BY <1>2, <1>t, <2>4, <3>2
      <4>2. Unread(f)' <=> Unread(f)  BY <1>6, <1>e, <2>4, <3>2
      <4> QED  BY <2>4, <4>1, <4>2, KindFacts DEF Awaited
    <3> QED  BY <3>1, <3>2
  <2> QED  BY <2>1, <2>2, <2>3, <2>4, KindFacts
<1>15. MarksInv'
  <2>1. "dl" \in Kinds /\ "dl" \notin {"link", "pend"}  BY DEF Kinds
  <2>2. boot'.todo["dl"] = boot.todo["dl"]  BY <1>2, <1>t, <2>1
  <2> QED  BY <1>1, <1>u, <2>2 DEF RestartInv, MarksInv, Live
<1>16. CodesInv'  BY <1>1, <1>u DEF RestartInv, CodesInv, Live, HandingSend
<1> QED  BY <1>5, <1>10, <1>11, <1>12, <1>13, <1>14, <1>15, <1>16 DEF RestartInv

\* What the two sweeps leave: the start goes on with the same records to
\* restore.
LEMMA SweptKeeps ==
    ASSUME RestartInv, TypeOK',
           boot.at \in {"preps", "sweep"}, boot'.at = After(boot.at),
           boot'.todo = boot.todo, boot'.hand = boot.hand,
           rows' = rows, marks' = marks, exposed' = exposed, wish' = wish, hosts' = hosts,
           nextId' = nextId, nap' = nap,
           \A k \in Kinds \cup {"code"}, i \in Ids : disk'[k][i] = disk[k][i],
           \A f \in {"upl", "prep"}, i \in Ids : disk'[f][i] \in {disk[f][i], None},
           boot.at = "preps" => \A i \in Ids : disk'["prep"][i] # None =>
                                   \E r \in boot.todo["sendto"] : r.id = i,
           boot.at = "sweep" => \A i \in Ids : disk'["upl"][i] = None
    PROVE  RestartInv'
<1>0. TypeOK  BY DEF RestartInv
<1>1. boot.hand = None  BY DEF RestartInv, PhaseInv, Kinds
<1>2. /\ boot.at = "preps" => boot'.at = "sendto"
      /\ boot.at = "sweep" => boot'.at = "dl"
  BY DEF After
<1>3. \A k \in Kinds : Unread(k)' <=> Unread(k)  BY <1>2 DEF Unread, TooEarly, Kinds
<1>4. \A k \in Kinds, i \in Ids, x \in Items : Old(k, i, x)' <=> Old(k, i, x)
  BY <1>3 DEF Old, Listed, Filed
<1>5. Onward  BY <1>1, <1>4 DEF Onward
<1>6. ClashInv' /\ HandClash' /\ OldInv' /\ HandInv' /\ RowsInv' /\ PlaceInv'
  BY <1>5, OnwardKeeps
<1>7. PendInv'
  <2>1. "pend" \in Kinds  BY DEF Kinds
  <2>2. \A i \in Ids : disk'["pend"][i] = disk["pend"][i]  BY <2>1
  <2>3. PendInv /\ PendTags' = PendTags  BY DEF RestartInv, PendTags
  <2>4. boot'.hand = None  BY <1>1
  <2>5. \A i \in Ids : disk'["pend"][i] # None => disk'["pend"][i].tag \in PendTags'
    BY <2>2, <2>3 DEF PendInv
  <2>6. \A r \in boot'.todo["pend"] : r.tag \in PendTags'  BY <2>3 DEF PendInv
  <2> QED  BY <2>4, <2>5, <2>6 DEF PendInv
<1>8. PhaseInv'
  <2>1. ASSUME NEW k \in Kinds, boot'.todo[k] # {} PROVE boot'.at \in Reading(k)
    <3>1. boot.at \in Reading(k)  BY <2>1 DEF RestartInv, PhaseInv
    <3> QED  BY <1>2, <3>1 DEF Reading, Kinds, Phases
  <2>2. nap' = None  BY DEF RestartInv, PhaseInv, Up
  <2>3. ASSUME NEW i \in Ids, Live(i)' PROVE i < nextId' /\ RowPhase(rows[i])'
    <3>1. rows[i] \in Row /\ i < nextId /\ RowPhase(rows[i])  BY <2>3, RowIs DEF Live
    <3>2. boot.at \in Phases \ {"up"}  BY DEF Phases
    <3>4. \A row \in Row : RowPhase(row) => RowPhase(row)'  BY <3>2, PhaseForward
    <3> QED  BY <3>1, <3>4 DEF RowPhase, HandingSend
  <2>4. \A k \in Kinds : Reading(k)' = Reading(k)  BY DEF Reading
  <2> QED  BY <1>1, <2>1, <2>2, <2>3, <2>4 DEF PhaseInv
<1>9. TodoInv'
  <2>1. \A k \in Kinds, i \in Ids : disk'[k][i] = disk[k][i]  OBVIOUS
  <2>2. \A k \in Kinds : \A r \in boot.todo[k] : r.id \in Ids  BY <1>0 DEF TypeOK, ReadRec
  <2> SUFFICES ASSUME NEW k \in Kinds, NEW r \in boot.todo[k]
               PROVE /\ \A q \in boot.todo[k] : q.id = r.id => q = r
                     /\ r.item \notin exposed => disk'[k][r.id] = [item |-> r.item, tag |-> r.tag]
                     /\ disk'[k][r.id] # None => disk'[k][r.id].item \in exposed \cup {r.item}
    BY <1>1 DEF TodoInv
  <2>3. disk'[k][r.id] = disk[k][r.id]  BY <2>1, <2>2
  <2> QED  BY <2>3 DEF RestartInv, TodoInv
<1>10. RecordsInv'
  <2> SUFFICES ASSUME NEW f \in Families \ {"code"}, NEW i \in Ids, disk'[f][i] # None
               PROVE \/ Live(i) /\ f \in Own(rows[i]) /\ OfRow(disk'[f][i], rows[i], f)
                     \/ Awaited(f, i)'
    BY DEF RecordsInv, Live, OfRow, Own, HandingSend
  <2>1. f \in NoCode  BY DEF NoCode
  <2>2. disk'[f][i] = disk[f][i]  BY <2>1, KindFacts
  <2>3. ASSUME Awaited(f, i) PROVE Awaited(f, i)'
    <3>2. CASE f = "upl"  BY <1>2, <2>3, <3>2 DEF Awaited, Kinds
    <3>3. CASE f = "prep"  BY <1>2, <2>3, <3>3 DEF Awaited, Kinds
    <3>4. CASE f \in Kinds  BY <1>3, <2>3, <3>4, KindFacts DEF Awaited
    <3> QED  BY <2>1, <3>2, <3>3, <3>4, KindFacts
  <2> QED  BY <2>2, <2>3 DEF RestartInv, RecordsInv
<1>11. MarksInv'  BY DEF RestartInv, MarksInv, Live
<1>12. CodesInv'  BY DEF RestartInv, CodesInv, Live, HandingSend
<1> QED  BY <1>6, <1>7, <1>8, <1>9, <1>10, <1>11, <1>12 DEF RestartInv

LEMMA SweepPrepsKeeps == ASSUME RestartInv, SweepPreps PROVE RestartInv'
<1>0. TypeOK /\ disk \in DiskT  BY InvTypes
<1>u. /\ rows' = rows /\ marks' = marks /\ exposed' = exposed /\ wish' = wish /\ hosts' = hosts
      /\ nextId' = nextId /\ nap' = nap /\ stages' = stages /\ sess' = sess /\ crashes' = crashes
  BY DEF SweepPreps
<1>b. boot.at = "preps" /\ boot' = [boot EXCEPT !.at = "sendto"]  BY DEF SweepPreps
<1>c. boot \in [at : Phases, todo : [Kinds -> SUBSET ReadRec], codes : SUBSET ReadRec,
                hand : HandRec \cup {None}]
  BY <1>0 DEF TypeOK
<1>1. /\ boot' \in [at : Phases, todo : [Kinds -> SUBSET ReadRec], codes : SUBSET ReadRec,
                    hand : HandRec \cup {None}]
      /\ boot'.at = "sendto" /\ boot'.todo = boot.todo /\ boot'.hand = boot.hand
  BY <1>b, <1>c DEF Phases
<1> DEFINE P == [i \in Ids |-> IF \E r \in boot.todo["sendto"] : r.id = i
                               THEN disk["prep"][i] ELSE None]
<1>2. "prep" \in Families /\ P \in [Ids -> Rec \cup {None}]  BY <1>0, FamilyNames DEF DiskT
<1>3. \A i \in Ids : /\ P[i] \in {disk["prep"][i], None}
                     /\ P[i] # None => \E r \in boot.todo["sendto"] : r.id = i
  OBVIOUS
<1>4. disk' = [disk EXCEPT !["prep"] = P]  BY DEF SweepPreps
<1> HIDE DEF P
<1>5. /\ disk' \in DiskT /\ disk'["prep"] = P
      /\ \A f \in Families : f # "prep" => disk'[f] = disk[f]
  BY <1>0, <1>2, <1>4 DEF DiskT
<1>6. TypeOK'  BY <1>0, <1>1, <1>5, <1>u DEF TypeOK, DiskT
<1>7. \A k \in Kinds \cup {"code"}, i \in Ids : disk'[k][i] = disk[k][i]
  BY <1>5, KindFacts DEF Families
<1>8. \A f \in {"upl", "prep"}, i \in Ids : disk'[f][i] \in {disk[f][i], None}
  BY <1>3, <1>5 DEF Families
<1>9. After("preps") = "sendto"  BY DEF After
<1> QED  BY <1>1, <1>3, <1>5, <1>6, <1>7, <1>8, <1>9, <1>b, <1>u, SweptKeeps

LEMMA SweepUploadsKeeps == ASSUME RestartInv, SweepUploads PROVE RestartInv'
<1>0. TypeOK /\ disk \in DiskT  BY InvTypes
<1>u. /\ rows' = rows /\ marks' = marks /\ exposed' = exposed /\ wish' = wish /\ hosts' = hosts
      /\ nextId' = nextId /\ nap' = nap /\ stages' = stages /\ crashes' = crashes
  BY DEF SweepUploads
<1>s. sess' \subseteq sess  BY DEF SweepUploads
<1>b. boot.at = "sweep" /\ boot' = [boot EXCEPT !.at = "dl"]  BY DEF SweepUploads
<1>c. boot \in [at : Phases, todo : [Kinds -> SUBSET ReadRec], codes : SUBSET ReadRec,
                hand : HandRec \cup {None}]
  BY <1>0 DEF TypeOK
<1>1. /\ boot' \in [at : Phases, todo : [Kinds -> SUBSET ReadRec], codes : SUBSET ReadRec,
                    hand : HandRec \cup {None}]
      /\ boot'.at = "dl" /\ boot'.todo = boot.todo /\ boot'.hand = boot.hand
  BY <1>b, <1>c DEF Phases
<1>2. "upl" \in Families  BY FamilyNames
<1>4. disk' = [disk EXCEPT !["upl"] = [i \in Ids |-> None]]  BY DEF SweepUploads
<1>5. /\ disk' \in DiskT /\ \A i \in Ids : disk'["upl"][i] = None
      /\ \A f \in Families : f # "upl" => disk'[f] = disk[f]
  BY <1>0, <1>2, <1>4 DEF DiskT
<1>6. TypeOK'  BY <1>0, <1>1, <1>5, <1>s, <1>u DEF TypeOK, DiskT
<1>7. \A k \in Kinds \cup {"code"}, i \in Ids : disk'[k][i] = disk[k][i]
  BY <1>5, KindFacts DEF Families
<1>8. \A f \in {"upl", "prep"}, i \in Ids : disk'[f][i] \in {disk[f][i], None}
  BY <1>5 DEF Families
<1>9. After("sweep") = "dl"  BY DEF After
<1> QED  BY <1>1, <1>5, <1>6, <1>7, <1>8, <1>9, <1>b, <1>u, SweptKeeps

\* The start takes a record: what was listed is now in hand, and only that.
LEMMA TakeKeeps == ASSUME RestartInv, Take PROVE RestartInv'
<1>0. TypeOK /\ disk \in DiskT  BY InvTypes
<1>u. /\ rows' = rows /\ exposed' = exposed /\ wish' = wish /\ hosts' = hosts
      /\ nextId' = nextId /\ nap' = nap /\ sess' = sess /\ crashes' = crashes
  BY DEF Take
<1> DEFINE k == boot.at
<1>1. k \in Kinds /\ boot.hand = None  BY DEF Take
<1>p. PICK r \in boot.todo[k] :
         /\ boot' = [boot EXCEPT !.todo[k] = @ \ {r},
                       !.hand = [id |-> r.id, item |-> r.item,
                                 tag |-> IF k = "dl" /\ marks[r.id] = "user" THEN "paused" ELSE r.tag,
                                 prep |-> IF k = "sendto" THEN disk["prep"][r.id] ELSE None]]
         /\ disk' = TakenDisk(k, r.id)
         /\ marks' = IF k = "dl" THEN [marks EXCEPT ![r.id] = "no"] ELSE marks
         /\ stages' = IF k = "send" THEN StagesWithout(r.id) ELSE stages
  BY DEF Take
<1>c. boot \in [at : Phases, todo : [Kinds -> SUBSET ReadRec], codes : SUBSET ReadRec,
                hand : HandRec \cup {None}]
  BY <1>0 DEF TypeOK
<1> DEFINE i == r.id  x0 == r.item
           h == [id |-> r.id, item |-> r.item,
                 tag |-> IF k = "dl" /\ marks[r.id] = "user" THEN "paused" ELSE r.tag,
                 prep |-> IF k = "sendto" THEN disk["prep"][r.id] ELSE None]
<1>2. r \in ReadRec /\ i \in Ids /\ x0 \in Items /\ r.tag \in Tags  BY <1>1, <1>c DEF ReadRec
<1>h. /\ h \in HandRec /\ h # None /\ h.id = i /\ h.item = x0
      /\ k = "dl" /\ marks[i] = "user" => h.tag = "paused"
      /\ k # "dl" => h.tag = r.tag
      /\ k = "sendto" => h.prep = disk["prep"][i]
  <2>1. disk["prep"][i] \in Rec \cup {None}  BY <1>0, <1>2, FamilyNames DEF DiskT
  <2>2. "paused" \in Tags  BY DEF Tags
  <2>3. h \in HandRec  BY <1>2, <2>1, <2>2 DEF HandRec
  <2> QED  BY <2>3, RestartNone
<1>b. boot' = [boot EXCEPT !.todo = [boot.todo EXCEPT ![k] = boot.todo[k] \ {r}], !.hand = h]
  <2>1. boot' = [boot EXCEPT !.todo[k] = @ \ {r}, !.hand = h]  BY <1>p
  <2> HIDE DEF h
  <2> QED  BY <1>1, <1>c, <2>1
<1>m. /\ \A j \in Ids : marks'[j] = IF k = "dl" /\ j = i THEN "no" ELSE marks[j]
      /\ marks' \in [Ids -> {"no", "user", "system"}]
  <2>1. marks' = IF k = "dl" THEN [marks EXCEPT ![i] = "no"] ELSE marks  BY <1>p
  <2>2. marks \in [Ids -> {"no", "user", "system"}]  BY <1>0 DEF TypeOK
  <2> QED  BY <1>2, <2>1, <2>2
<1>s. stages' \subseteq stages  BY <1>p DEF StagesWithout
<1>d. /\ disk' \in DiskT
      /\ \A f \in Families, j \in Ids :
            /\ f = k /\ j = i => disk'[f][j] = None
            /\ f = "prep" /\ j = i /\ k = "sendto" => disk'[f][j] = None
            /\ ~(f = k /\ j = i) /\ ~(f = "prep" /\ j = i /\ k = "sendto") => disk'[f][j] = disk[f][j]
  <2>1. disk' = TakenDisk(k, i)  BY <1>p
  <2>2. k \in Families /\ "prep" \in Families /\ k # "prep"  BY <1>1, KindFacts, FamilyNames
  <2> HIDE DEF k, i
  <2>3. PICK v \in Rec \cup {None} : v = IF k = "sendto" THEN None ELSE disk["prep"][i]
    BY <1>0, <1>2, <2>2 DEF DiskT
  <2>4. disk' = [disk EXCEPT ![k][i] = None, !["prep"][i] = v]  BY <2>1, <2>3 DEF TakenDisk
  <2>5. PICK A \in [Ids -> Rec \cup {None}] : A = [disk[k] EXCEPT ![i] = None]
    BY <1>0, <1>2, <2>2 DEF DiskT
  <2>6. PICK B \in [Ids -> Rec \cup {None}] : B = [disk["prep"] EXCEPT ![i] = v]
    BY <1>0, <1>2, <2>2, <2>3 DEF DiskT
  <2>7. disk' = [disk EXCEPT ![k] = A, !["prep"] = B]
    BY <1>0, <2>2, <2>4, <2>5, <2>6 DEF DiskT
  <2>8. disk' \in DiskT /\ disk'[k] = A /\ disk'["prep"] = B
        /\ \A f \in Families : f # k /\ f # "prep" => disk'[f] = disk[f]
    BY <1>0, <2>2, <2>7 DEF DiskT
  <2>9. \A j \in Ids : /\ A[j] = IF j = i THEN None ELSE disk[k][j]
                       /\ B[j] = IF j = i THEN v ELSE disk["prep"][j]
    BY <1>0, <1>2, <2>2, <2>5, <2>6 DEF DiskT
  <2> QED  BY <1>2, <2>2, <2>3, <2>8, <2>9
<1>x. k = boot.at  OBVIOUS
<1>r. r \in boot.todo[k] /\ i = r.id /\ x0 = r.item  BY <1>p
<1> HIDE DEF k, i, x0, h
<1>3. boot'.at = k /\ boot'.hand = h /\ boot'.todo = [boot.todo EXCEPT ![k] = boot.todo[k] \ {r}]
  BY <1>b, <1>c, <1>x
<1>t. /\ boot'.todo[k] = boot.todo[k] \ {r}
      /\ \A l \in Kinds : l # k => boot'.todo[l] = boot.todo[l]
      /\ \A l \in Kinds : boot'.todo[l] \subseteq boot.todo[l]
  BY <1>1, <1>3, <1>c
<1>4. boot' \in [at : Phases, todo : [Kinds -> SUBSET ReadRec], codes : SUBSET ReadRec,
                 hand : HandRec \cup {None}]
  BY <1>1, <1>b, <1>c, <1>h
<1>5. TypeOK'  BY <1>0, <1>4, <1>d, <1>m, <1>s, <1>u DEF TypeOK, DiskT
<1>6. \A q \in boot.todo[k] : q.id = i => q = r  BY <1>1, <1>r DEF RestartInv, TodoInv
<1>7. \A l \in Kinds : (Unread(l)' <=> Unread(l))  BY <1>3, <1>x DEF Unread, TooEarly
<1>8. ~Unread(k)  BY <1>1, <1>x DEF Unread, TooEarly, Kinds
<1>K. Kinds \subseteq Families /\ "prep" \notin Kinds  BY KindFacts
<1>9. Old(k, i, x0)  BY <1>r DEF Old, Listed
<1>10. \A y \in Items : Old(k, i, y) => y = x0  BY <1>6, <1>8, <1>r DEF Old, Listed
<1>11. ASSUME NEW l \in Kinds, NEW j \in Ids, NEW y \in Items
       PROVE Old(l, j, y)' <=> (Old(l, j, y) /\ ~(l = k /\ j = i))
  <2>1. CASE l = k /\ j = i
    <3>1. ~Listed(l, j, y)'  BY <1>6, <1>t, <2>1 DEF Listed
    <3> QED  BY <1>7, <1>8, <2>1, <3>1 DEF Old
  <2>2. CASE ~(l = k /\ j = i)
    <3>1. Listed(l, j, y)' <=> Listed(l, j, y)
      <4>1. CASE l = k  BY <1>r, <1>t, <2>2, <4>1 DEF Listed
      <4>2. CASE l # k  BY <1>t, <4>2 DEF Listed
      <4> QED  BY <4>1, <4>2
    <3>2. disk'[l][j] = disk[l][j]  BY <1>d, <1>K, <2>2
    <3> QED  BY <1>7, <2>2, <3>1, <3>2 DEF Old, Filed
  <2> QED  BY <2>1, <2>2
<1>12. /\ \A y \in Items : RowsOf(y)' = RowsOf(y)
       /\ \A j \in Ids : (Live(j)' <=> Live(j))
       /\ \A y \in Items : ~InHand(y) /\ (InHand(y)' <=> y = x0)
  BY <1>1, <1>3, <1>h, <1>u DEF RowsOf, Live, InHand
\* Whoever has the record's number and kind is at risk.
<1>13. ASSUME NEW j \in Ids, Live(j), k \in Shelf(rows[j].kind), j = i
       PROVE x0 \in exposed /\ rows[j].item \in exposed
  BY <1>1, <1>2, <1>9, <1>13 DEF RestartInv, ClashInv
<1>14. \A l, f \in Kinds : l \in Shelf(f) <=> f \in Shelf(l)  BY DEF Shelf, Kinds
<1>20. PendInv'
  <2>1. "pend" \in Kinds /\ "pend" \in Families  BY FamilyNames DEF Kinds
  <2>2. PendInv /\ PendTags' = PendTags  BY DEF RestartInv, PendTags
  <2>3. \A j \in Ids : disk'["pend"][j] # None => disk'["pend"][j].tag \in PendTags
    BY <1>d, <2>1, <2>2 DEF PendInv
  <2>4. \A q \in boot'.todo["pend"] : q.tag \in PendTags  BY <1>t, <2>1, <2>2 DEF PendInv
  <2>5. boot'.at = "pend" => boot'.hand.tag \in PendTags
    BY <1>3, <1>h, <1>r, <2>2 DEF PendInv
  <2> QED  BY <2>2, <2>3, <2>4, <2>5 DEF PendInv
<1>21. PhaseInv'
  <2>1. \A l \in Kinds : boot'.todo[l] # {} => boot'.at \in Reading(l)
    BY <1>3, <1>t, <1>x DEF RestartInv, PhaseInv
  <2>2. nap' = None  BY <1>1, <1>u, <1>x DEF RestartInv, PhaseInv, Up, Kinds
  <2>3. \A j \in Ids : Live(j)' => j < nextId' /\ RowPhase(rows[j])'
    BY <1>3, <1>12, <1>u, <1>x DEF RestartInv, PhaseInv, RowPhase, HandingSend, TooEarly
  <2>4. \A l \in Kinds : Reading(l)' = Reading(l)  BY DEF Reading
  <2> QED  BY <1>1, <1>3, <2>1, <2>2, <2>3, <2>4 DEF PhaseInv
<1>22. ClashInv'  BY <1>11, <1>12, <1>u DEF RestartInv, ClashInv, Shelf
<1>23. HandClash'
  <2> SUFFICES ASSUME Live(i), rows[i].kind \in Shelf(k)
               PROVE x0 \in exposed /\ rows[i].item \in exposed
    BY <1>2, <1>3, <1>12, <1>h, <1>u DEF HandClash, Shelf
  <2>1. rows[i].kind \in Kinds  BY <1>2, RowIs
  <2> QED  BY <1>1, <1>2, <1>13, <1>14, <2>1
<1>24. TodoInv'
  <2> SUFFICES ASSUME NEW l \in Kinds, NEW q \in boot'.todo[l]
               PROVE /\ \A p \in boot'.todo[l] : p.id = q.id => p = q
                     /\ q.item \notin exposed => disk'[l][q.id] = [item |-> q.item, tag |-> q.tag]
                     /\ disk'[l][q.id] # None => disk'[l][q.id].item \in exposed \cup {q.item}
                     /\ l = k => q.id # i
    BY ZenonT(60), <1>3, <1>h, <1>u DEF TodoInv
  <2>1. q \in boot.todo[l] /\ q.id \in Ids  BY <1>c, <1>t DEF ReadRec
  <2>2. l = k => q.id # i  BY <1>6, <1>t, <2>1
  <2>3. disk'[l][q.id] = disk[l][q.id]  BY <1>d, <1>K, <2>1, <2>2
  <2>4. /\ \A p \in boot.todo[l] : p.id = q.id => p = q
        /\ q.item \notin exposed => disk[l][q.id] = [item |-> q.item, tag |-> q.tag]
        /\ disk[l][q.id] # None => disk[l][q.id].item \in exposed \cup {q.item}
    BY <2>1 DEF RestartInv, TodoInv
  <2> QED  BY <1>t, <2>2, <2>3, <2>4
<1>25. RecordsInv'
  <2> SUFFICES ASSUME NEW f \in Families \ {"code"}, NEW j \in Ids, disk'[f][j] # None
               PROVE \/ Live(j) /\ f \in Own(rows[j]) /\ OfRow(disk'[f][j], rows[j], f)
                     \/ Awaited(f, j)'
    BY <1>u DEF RecordsInv, Live, OfRow, Own, HandingSend
  <2>1. f \in NoCode  BY DEF NoCode
  <2>2. disk'[f][j] = disk[f][j] /\ ~(f = k /\ j = i) /\ ~(f = "prep" /\ j = i /\ k = "sendto")
    BY <1>d
  <2>3. ASSUME Awaited(f, j) PROVE Awaited(f, j)'
    <3>2. CASE f = "upl"  BY <1>3, <1>x, <2>3, <3>2 DEF Awaited, Kinds
    <3>3. CASE f = "prep"
      <4>1. "sendto" \in Kinds  BY DEF Kinds
      <4>2. (\E q \in boot.todo["sendto"] : q.id = j) => \E q \in boot'.todo["sendto"] : q.id = j
        BY <1>r, <1>t, <2>2, <3>3, <4>1
      <4> QED  BY <1>3, <1>x, <2>3, <3>3, <4>2 DEF Awaited, Kinds
    <3>4. CASE f \in Kinds
      <4>1. (\E q \in boot.todo[f] : q.id = j) => \E q \in boot'.todo[f] : q.id = j
        BY <1>r, <1>t, <2>2, <3>4
      <4> QED  BY <1>7, <2>3, <3>4, <4>1, KindFacts DEF Awaited
    <3> QED  BY <2>1, <3>2, <3>3, <3>4, KindFacts
  <2> QED  BY <2>2, <2>3 DEF RestartInv, RecordsInv
<1>26. OldInv'
  <2> SUFFICES ASSUME NEW l \in Kinds, NEW j \in Ids, NEW y \in Items, Old(l, j, y)', y \notin exposed'
               PROVE OldTrue(l, j, y)'
    BY DEF OldInv
  <2>1. Old(l, j, y) /\ ~(l = k /\ j = i) /\ y \notin exposed  BY <1>11, <1>u
  <2>2. OldTrue(l, j, y)  BY <2>1 DEF RestartInv, OldInv
  <2>3. y # x0  BY <1>1, <1>2, <1>9, <2>1, <2>2 DEF OldTrue
  <2>4. RowsOf(y)' = {} /\ ~InHand(y)'  BY <1>12, <2>2, <2>3 DEF OldTrue
  <2>5. \A m \in Kinds, n \in Ids : Old(m, n, y)' => m = l /\ n = j  BY <1>11, <2>2 DEF OldTrue
  <2>6. disk'[l][j] = disk[l][j]  BY <1>d, <1>K, <2>1
  <2>7. /\ wish'[y] # "new"
        /\ wish'[y] = "stop" => \/ l = "dl" /\ marks'[j] = "user"
                                \/ l = "sendto" /\ disk'["sendto"][j].tag = "paused"
    BY <1>m, <1>u, <2>1, <2>2, <2>6 DEF OldTrue
  <2>8. /\ l \in {"sendto", "link"} => Fits(disk["upl"][j], y)'
        /\ l = "sendto" => Fits(disk["prep"][j], y)'
    <3>1. /\ "upl" \in Families /\ "prep" \in Families /\ k # "upl" /\ k # "prep"
      BY <1>1, FamilyNames, KindFacts
    <3>2. disk'["upl"][j] = disk["upl"][j] /\ disk'["prep"][j] \in {disk["prep"][j], None}
      BY <1>d, <3>1
    <3> QED  BY <2>2, <3>2 DEF OldTrue, Fits
  <2> QED  BY <2>4, <2>5, <2>7, <2>8 DEF OldTrue
<1>27. HandInv'
  <2> SUFFICES ASSUME x0 \notin exposed PROVE HandTrue(boot.hand)'
    BY <1>3, <1>h, <1>u DEF HandInv
  <2>1. OldTrue(k, i, x0)  BY <1>1, <1>2, <1>9 DEF RestartInv, OldInv
  <2>2. disk[k][i] = [item |-> x0, tag |-> r.tag]  BY <1>1, <1>r DEF RestartInv, TodoInv
  <2>3. RowsOf(x0)' = {}  BY <1>2, <1>12, <2>1 DEF OldTrue
  <2>4. /\ wish'[x0] # "new"
        /\ wish'[x0] = "stop" => k \in {"dl", "sendto"} /\ h.tag = "paused"
    BY <1>h, <1>u, <2>1, <2>2 DEF OldTrue
  <2>5. k \in {"sendto", "link"} => Fits(disk'["upl"][i], x0)
    <3>1. "upl" \in Families /\ k # "upl"  BY <1>1, FamilyNames, KindFacts
    <3>2. disk'["upl"][i] = disk["upl"][i]  BY <1>2, <1>d, <3>1
    <3> QED  BY <2>1, <3>2 DEF OldTrue
  <2>6. k = "sendto" => Fits(h.prep, x0)  BY <1>h, <2>1 DEF OldTrue
  <2> QED  BY <1>3, <1>h, <2>3, <2>4, <2>5, <2>6 DEF HandTrue, Fits
<1>28. RowsInv'
  <2> SUFFICES ASSUME NEW j \in Ids, Live(j)', rows'[j].item \notin exposed' PROVE RowTrue(j)'
    BY DEF RowsInv
  <2>1. /\ RowTrue(j) /\ rows[j].kind \in Kinds /\ rows[j] \in Row /\ Live(j)
        /\ rows[j].item \notin exposed
    BY <1>12, <1>u, RowIs DEF RestartInv, RowsInv
  <2>2. ~(rows[j].kind = k /\ j = i)
    <3>1. rows[j].kind \in Shelf(rows[j].kind)  BY <2>1 DEF Shelf, Kinds
    <3> QED  BY <1>13, <2>1, <3>1
  <2>3. disk'[rows[j].kind][j] = disk[rows[j].kind][j]  BY <1>d, <1>K, <2>1, <2>2
  <2>4. RowsOf(rows[j].item)' = RowsOf(rows[j].item)  BY <1>u DEF RowsOf, Live
  <2>5. Filed(rows[j].kind, j, rows[j].item)'  BY <1>u, <2>1, <2>3 DEF RowTrue, Filed
  <2>6. wish'[rows'[j].item] = "stop" =>
         \/ rows'[j].kind = "dl" /\ rows'[j].st \in {"stopping", "paused"} /\ marks'[j] = "user"
         \/ rows'[j].kind = "sendto" /\ rows'[j].st = "paused" /\ disk'["sendto"][j].tag = "paused"
    BY <1>m, <1>u, <2>1, <2>2, <2>3 DEF RowTrue
  <2> QED  BY <1>u, <2>1, <2>4, <2>5, <2>6 DEF RowTrue, Pair
<1>29. PlaceInv'
  <2> SUFFICES ASSUME NEW y \in Items, y \notin exposed, wish[y] \in {"go", "stop", "sleep"}
               PROVE RowsOf(y)' # {} \/ InHand(y)' \/ \E l \in Kinds, j \in Ids : Old(l, j, y)'
    BY <1>u DEF PlaceInv
  <2>1. CASE RowsOf(y) # {}  BY <1>12, <2>1
  <2>2. ASSUME NEW l \in Kinds, NEW j \in Ids, Old(l, j, y)
        PROVE InHand(y)' \/ Old(l, j, y)'
    BY <1>10, <1>11, <1>12, <2>2
  <2> QED  BY <1>12, <2>1, <2>2 DEF RestartInv, PlaceInv
<1>30. MarksInv'
  <2> SUFFICES ASSUME NEW j \in Ids, marks'[j] # "no", exposed = {}, ~(Live(j) /\ rows[j].kind = "dl")
               PROVE \E q \in boot'.todo["dl"] : q.id = j
    BY <1>12, <1>u DEF MarksInv
  <2>1. "dl" \in Kinds /\ k # "load"  BY <1>1 DEF Kinds
  <2>2. marks[j] # "no" /\ ~(k = "dl" /\ j = i)  BY <1>m
  <2>3. \E q \in boot.todo["dl"] : q.id = j  BY <1>x, <2>1, <2>2 DEF RestartInv, MarksInv
  <2> QED  BY <1>r, <1>t, <2>1, <2>2, <2>3
<1>31. CodesInv'
  <2>1. "code" \in Families /\ k # "code" /\ k # "load"
    BY <1>1, FamilyNames DEF Kinds
  <2>2. \A j \in Ids : disk'["code"][j] = disk["code"][j]  BY <1>d, <2>1
  <2> QED  BY <1>12, <1>u, <1>x, <2>1, <2>2 DEF RestartInv, CodesInv, HandingSend
<1> QED  BY <1>5, <1>20, <1>21, <1>22, <1>23, <1>24, <1>25, <1>26, <1>27, <1>28, <1>29, <1>30, <1>31
         DEF RestartInv

-----------------------------------------------------------------------------
(* The end of the process.                                                 *)

\* A record of an item not at risk is a row's own, or waits to be restored.
LEMMA Whose ==
    ASSUME RestartInv, NEW k \in Kinds, NEW i \in Ids, NEW x \in Items, Filed(k, i, x), x \notin exposed
    PROVE  Old(k, i, x) \/ (Live(i) /\ rows[i].item = x /\ k \in Own(rows[i]))
<1>1. k \in Families \ {"code"} /\ k \notin {"prep", "upl"} /\ k # "code"
  BY KindFacts, NoCodeIs
<1>2. CASE Live(i) /\ k \in Own(rows[i]) /\ OfRow(disk[k][i], rows[i], k)
  BY <1>1, <1>2 DEF OfRow, Filed
<1>3. CASE Awaited(k, i)
  <2>1. CASE Unread(k)  BY <2>1 DEF Old
  <2>2. ASSUME NEW r \in boot.todo[k], r.id = i PROVE Old(k, i, x)
    <3>1. disk[k][i].item \in exposed \cup {r.item}  BY <2>2 DEF RestartInv, TodoInv, Filed
    <3> QED  BY <2>2, <3>1 DEF Old, Listed, Filed
  <2> QED  BY <1>1, <1>3, <2>1, <2>2 DEF Awaited
<1> QED  BY <1>1, <1>2, <1>3 DEF RestartInv, RecordsInv, Filed

\* What the end of the process may leave of the records and the wishes.
Left ==
    /\ marks' = marks /\ stages' = stages /\ disk' \in DiskT
    /\ \A f \in Families, j \in Ids : disk'[f][j] \in {disk[f][j], None}
    /\ \A f \in Families \ {"sendto", "link"}, j \in Ids : disk'[f][j] = disk[f][j]
    /\ \A k \in Kinds, j \in Ids, x \in Items :
          x \notin exposed' /\ Filed(k, j, x) /\ ~Filed(k, j, x)' => wish'[x] = "done"
    /\ wish' \in [Items -> {"new", "go", "stop", "sleep", "gone", "done"}]
    /\ \A x \in Items : /\ wish'[x] \in Active => wish[x] \in Active
                        /\ wish'[x] = "stop" => wish[x] = "stop"
                        /\ wish'[x] = "new" => wish[x] = "new"

LEMMA EndKeeps == ASSUME RestartInv, End, Left PROVE RestartInv'
<1>0. TypeOK /\ disk \in DiskT  BY InvTypes
<1>l. /\ marks' = marks /\ stages' = stages /\ disk' \in DiskT
      /\ \A f \in Families, j \in Ids : disk'[f][j] \in {disk[f][j], None}
      /\ \A f \in Families \ {"sendto", "link"}, j \in Ids : disk'[f][j] = disk[f][j]
  BY DEF Left
<1>d. \A k \in Kinds, j \in Ids, x \in Items :
         x \notin exposed' /\ Filed(k, j, x) /\ ~Filed(k, j, x)' => wish'[x] = "done"
  BY DEF Left
<1>w. \A x \in Items : /\ wish'[x] \in Active => wish[x] \in Active
                       /\ wish'[x] = "stop" => wish[x] = "stop"
                       /\ wish'[x] = "new" => wish[x] = "new"
  BY DEF Left
<1>e. /\ crashes < MaxCrashes /\ crashes' = crashes + 1
      /\ rows' = [i \in Ids |-> None] /\ hosts' = [i \in Ids |-> None]
      /\ nextId' = FirstId /\ nap' = None /\ boot' = Fresh /\ sess' = sess
  BY DEF End
<1>x. /\ exposed \subseteq exposed' /\ exposed' \subseteq Items
      /\ boot.hand # None => boot.hand.item \in exposed'
      /\ \A i \in Ids : Live(i) /\ (rows[i].st = "handing" \/ Mixed(i)) => rows[i].item \in exposed'
  <2>1. exposed' = exposed \cup (IF boot.hand = None THEN {} ELSE {boot.hand.item})
                    \cup {rows[i].item : i \in {j \in Ids : Live(j) /\ rows[j].st = "handing"}}
                    \cup {rows[i].item : i \in {j \in Ids : Live(j) /\ Mixed(j)}}
    BY DEF End
  <2>2. boot.hand # None => boot.hand.item \in Items  BY <1>0 DEF TypeOK, HandRec
  <2>3. \A i \in Ids : Live(i) => rows[i].item \in Items  BY RowIs
  <2>4. exposed \subseteq Items  BY <1>0 DEF TypeOK
  <2> QED  BY <2>1, <2>2, <2>3, <2>4
<1>b. /\ boot'.at = "load" /\ boot'.hand = None /\ boot'.codes = {}
      /\ boot'.todo = [k \in Kinds |-> {}] /\ \A k \in Kinds : boot'.todo[k] = {}
  BY <1>e DEF Fresh
<1>n. \A i \in Ids : ~Live(i)' /\ rows'[i] = None /\ hosts'[i] = None  BY <1>e DEF Live
<1>1. TypeOK'
  <2>1. boot' \in [at : Phases, todo : [Kinds -> SUBSET ReadRec], codes : SUBSET ReadRec,
                   hand : HandRec \cup {None}]
    BY <1>e DEF Fresh, Phases
  <2>2. nextId' \in 1 .. MaxId + 1 /\ crashes' \in 0 .. MaxCrashes
    BY <1>0, <1>e, RestartConstants DEF FirstId, RestartConstants, TypeOK
  <2>3. wish' \in [Items -> {"new", "go", "stop", "sleep", "gone", "done"}]  BY DEF Left
  <2>4. rows' \in [Ids -> Row \cup {None}] /\ hosts' \in [Ids -> Items \cup {None}]  BY <1>e
  <2> QED  BY <1>0, <1>e, <1>l, <1>x, <2>1, <2>2, <2>3, <2>4 DEF TypeOK, DiskT
<1>2. PendInv' /\ PhaseInv'
  <2>1. "pend" \in Kinds /\ "pend" \in Families \ {"sendto", "link"}  BY FamilyNames DEF Kinds
  <2>2. PendTags' = PendTags /\ PendInv  BY DEF RestartInv, PendTags
  <2>3. PendInv'  BY <1>b, <1>l, <2>1, <2>2 DEF PendInv
  <2>4. PhaseInv'  BY <1>b, <1>e, <1>n DEF PhaseInv
  <2> QED  BY <2>3, <2>4
<1>3. ClashInv' /\ HandClash' /\ TodoInv' /\ HandInv' /\ RowsInv'
  BY <1>b, <1>n DEF ClashInv, HandClash, TodoInv, HandInv, RowsInv
<1>4. RecordsInv'
  <2>1. \A f \in Families \ {"code"}, i \in Ids : Awaited(f, i)'
    BY <1>b DEF Awaited, Unread, Families
  <2> QED  BY <2>1 DEF RecordsInv
<1>5. CodesInv'  BY <1>b, <1>n DEF CodesInv
<1>6. MarksInv'
  <2> SUFFICES ASSUME NEW i \in Ids, marks[i] # "no", exposed' = {} PROVE disk'["dl"][i] # None
    BY <1>b, <1>l DEF MarksInv
  <2>1. "dl" \in Kinds /\ "dl" \in Families \ {"sendto", "link"}  BY FamilyNames DEF Kinds
  <2>2. exposed = {}  BY <1>x
  <2>3. ASSUME Live(i), rows[i].kind = "dl" PROVE disk["dl"][i] # None
    BY <2>2, <2>3 DEF RestartInv, RowsInv, RowTrue, Filed
  <2>4. ASSUME NEW r \in boot.todo["dl"], r.id = i PROVE disk["dl"][i] # None
    <3>1. r \in ReadRec /\ r.item \in Items  BY <1>0, <2>1 DEF TypeOK, ReadRec
    <3>2. Old("dl", i, r.item)  BY <2>4 DEF Old, Listed
    <3> QED  BY <2>1, <2>2, <3>1, <3>2, OldFiled DEF Filed
  <2>5. disk["dl"][i] # None  BY <2>2, <2>3, <2>4 DEF RestartInv, MarksInv
  <2> QED  BY <1>l, <2>1, <2>5
<1>7. \A k \in Kinds, i \in Ids, x \in Items : Old(k, i, x)' <=> Filed(k, i, x)'
  BY <1>b DEF Old, Listed, Unread
<1>8. ASSUME NEW k \in Kinds, NEW i \in Ids, NEW x \in Items, Filed(k, i, x)'
      PROVE Filed(k, i, x) /\ disk'[k][i] = disk[k][i]
  BY <1>8, <1>l, KindFacts DEF Filed
\* A row that is not at risk has one record, of its kind.
<1>9. ASSUME NEW k \in Kinds, NEW i \in Ids, NEW x \in Items, x \notin exposed',
             Live(i), rows[i].item = x, k \in Own(rows[i])
      PROVE k = rows[i].kind /\ rows[i].st # "handing" /\ ~Mixed(i)
  <2>1. rows[i].st # "handing" /\ ~Mixed(i)  BY <1>9, <1>x
  <2>2. rows[i] \in Row  BY <1>9, RowIs
  <2> QED  BY <1>9, <2>1, <2>2, KindFacts DEF Own, HandingSend, Kinds, Row
<1>10. OldInv'
  <2> SUFFICES ASSUME NEW k \in Kinds, NEW i \in Ids, NEW x \in Items, Filed(k, i, x)', x \notin exposed'
               PROVE OldTrue(k, i, x)'
    BY <1>7 DEF OldInv
  <2>1. Filed(k, i, x) /\ disk'[k][i] = disk[k][i] /\ x \notin exposed  BY <1>8, <1>x
  <2>2. RowsOf(x)' = {} /\ ~InHand(x)'  BY <1>b, <1>n DEF RowsOf, InHand
  <2>3. /\ disk'["upl"][i] = disk["upl"][i] /\ disk'["prep"][i] = disk["prep"][i]
    BY <1>l, FamilyNames
  <2>4. CASE Old(k, i, x)
    <3>1. OldTrue(k, i, x)  BY <2>1, <2>4 DEF RestartInv, OldInv
    <3>2. ASSUME NEW l \in Kinds, NEW j \in Ids, Old(l, j, x)' PROVE l = k /\ j = i
      <4>1. Filed(l, j, x)  BY <1>7, <1>8, <3>2
      <4>2. Old(l, j, x)  BY <2>1, <3>1, <4>1, Whose DEF OldTrue, RowsOf
      <4> QED  BY <3>1, <4>2 DEF OldTrue
    <3>3. /\ wish'[x] # "new"
          /\ wish'[x] = "stop" => \/ k = "dl" /\ marks'[i] = "user"
                                  \/ k = "sendto" /\ disk'["sendto"][i].tag = "paused"
      BY <1>l, <1>w, <2>1, <3>1 DEF OldTrue
    <3>4. /\ k \in {"sendto", "link"} => Fits(disk["upl"][i], x)'
          /\ k = "sendto" => Fits(disk["prep"][i], x)'
      BY <2>3, <3>1 DEF OldTrue, Fits
    <3> QED  BY <2>2, <3>2, <3>3, <3>4 DEF OldTrue
  <2>5. CASE Live(i) /\ rows[i].item = x /\ k \in Own(rows[i])
    <3>0. k = rows[i].kind /\ rows[i].st # "handing" /\ ~Mixed(i)  BY <1>9, <2>5
    <3>1. RowTrue(i)  BY <2>1, <2>5 DEF RestartInv, RowsInv
    <3>2. ASSUME NEW l \in Kinds, NEW j \in Ids, Old(l, j, x)' PROVE l = k /\ j = i
      <4>1. Filed(l, j, x)  BY <1>7, <1>8, <3>2
      <4>2. ~Old(l, j, x)  BY <2>1, <2>5 DEF RestartInv, OldInv, OldTrue, RowsOf
      <4>3. Live(j) /\ rows[j].item = x /\ l \in Own(rows[j])  BY <2>1, <4>1, <4>2, Whose
      <4>4. l = rows[j].kind /\ rows[j].st # "handing"  BY <1>9, <4>3
      <4>5. j \in RowsOf(rows[i].item)  BY <2>5, <4>3 DEF RowsOf
      <4>6. j = i  BY <3>0, <3>1, <4>4, <4>5 DEF RowTrue, Pair
      <4> QED  BY <3>0, <4>4, <4>6
    <3>3. /\ wish'[x] # "new"
          /\ wish'[x] = "stop" => \/ k = "dl" /\ marks'[i] = "user"
                                  \/ k = "sendto" /\ disk'["sendto"][i].tag = "paused"
      BY <1>l, <1>w, <2>1, <2>5, <3>0, <3>1 DEF RowTrue
    <3>4. Fits(disk["upl"][i], x)' /\ Fits(disk["prep"][i], x)'
      BY <2>3, <2>5, <3>0 DEF Mixed, Fits
    <3> QED  BY <2>2, <3>2, <3>3, <3>4 DEF OldTrue
  <2> QED  BY <2>1, <2>4, <2>5, Whose
<1>11. PlaceInv'
  <2> SUFFICES ASSUME NEW x \in Items, x \notin exposed', wish'[x] \in Active
               PROVE \E k \in Kinds, i \in Ids : Filed(k, i, x)'
    BY <1>7 DEF PlaceInv, Active
  <2>1. wish[x] \in {"go", "stop", "sleep"} /\ x \notin exposed /\ wish'[x] # "done"
    BY <1>w, <1>x DEF Active
  <2>2. ASSUME NEW i \in RowsOf(x) PROVE \E k \in Kinds, j \in Ids : Filed(k, j, x)'
    <3>1. i \in Ids /\ Live(i) /\ rows[i].item = x  BY <2>2 DEF RowsOf
    <3>2. Filed(rows[i].kind, i, x) /\ rows[i].kind \in Kinds
      BY <2>1, <3>1, RowIs DEF RestartInv, RowsInv, RowTrue
    <3> QED  BY <1>d, <2>1, <3>1, <3>2
  <2>3. ASSUME NEW k \in Kinds, NEW i \in Ids, Old(k, i, x) PROVE Filed(k, i, x)'
    BY <1>d, <2>1, <2>3, OldFiled
  <2>4. ~InHand(x)  BY <1>x DEF InHand
  <2> QED  BY <2>1, <2>2, <2>3, <2>4 DEF RestartInv, PlaceInv
<1> QED  BY <1>1, <1>2, <1>3, <1>4, <1>5, <1>6, <1>10, <1>11 DEF RestartInv

\* What is wanted after a sleep was wanted before.
LEMMA WakeIs ==
    ASSUME TypeOK
    PROVE  /\ Wake \in [Items -> {"new", "go", "stop", "sleep", "gone", "done"}]
           /\ \A x \in Items : /\ Wake[x] \in Active => wish[x] \in Active
                               /\ Wake[x] = "stop" => wish[x] = "stop"
                               /\ Wake[x] = "new" => wish[x] = "new"
  BY DEF TypeOK, Wake, Active

LEMMA CrashKeeps == ASSUME RestartInv, Crash PROVE RestartInv'
<1>0. TypeOK /\ disk \in DiskT  BY InvTypes
<1>1. End /\ wish' = Wake /\ disk' = disk /\ marks' = marks /\ stages' = stages  BY DEF Crash, files
<1>2. \A k \in Kinds, j \in Ids, x \in Items : Filed(k, j, x)' <=> Filed(k, j, x)  BY <1>1 DEF Filed
<1>3. Left  BY <1>0, <1>1, <1>2, WakeIs DEF Left
<1> QED  BY <1>1, <1>3, EndKeeps

LEMMA CrashInFinishKeeps == ASSUME RestartInv, NEW i \in Ids, CrashInFinish(i) PROVE RestartInv'
<1>0. TypeOK /\ disk \in DiskT  BY InvTypes
<1>1. /\ End /\ Live(i) /\ rows[i].kind \in {"sendto", "link"}
      /\ disk' = Del(Del(disk, "sendto", i), "link", i)
      /\ wish' = [Wake EXCEPT ![rows[i].item] = "done"]
      /\ marks' = marks /\ stages' = stages
  BY DEF CrashInFinish
<1>2. rows[i].item \in Items  BY <1>1, RowIs
<1>3. /\ disk' \in DiskT
      /\ \A f \in Families, j \in Ids :
            /\ f \in {"sendto", "link"} /\ j = i => disk'[f][j] = None
            /\ ~(f \in {"sendto", "link"} /\ j = i) => disk'[f][j] = disk[f][j]
  <2>1. "sendto" \in Families /\ "link" \in Families  BY FamilyNames
  <2> QED  BY <1>0, <1>1, <2>1 DEF Del, DiskT
<1>4. /\ wish' \in [Items -> {"new", "go", "stop", "sleep", "gone", "done"}]
      /\ wish'[rows[i].item] = "done"
      /\ \A x \in Items : wish'[x] = Wake[x] \/ wish'[x] = "done"
  BY <1>0, <1>1, <1>2, WakeIs
<1>5. \A x \in Items : /\ wish'[x] \in Active => wish[x] \in Active
                       /\ wish'[x] = "stop" => wish[x] = "stop"
                       /\ wish'[x] = "new" => wish[x] = "new"
  BY <1>0, <1>4, WakeIs DEF Active
<1>6. exposed \subseteq exposed'  BY <1>1 DEF End
<1>7. ASSUME NEW k \in Kinds, NEW j \in Ids, NEW x \in Items,
             x \notin exposed', Filed(k, j, x), ~Filed(k, j, x)'
      PROVE wish'[x] = "done"
  <2>1. k \in {"sendto", "link"} /\ j = i  BY <1>3, <1>7, KindFacts DEF Filed
  <2>2. k \in Shelf(rows[i].kind)  BY <1>1, <2>1 DEF Shelf
  <2>3. ~Old(k, i, x)  BY <1>1, <1>6, <1>7, <2>2 DEF RestartInv, ClashInv
  <2>4. rows[i].item = x  BY <1>6, <1>7, <2>1, <2>3, Whose
  <2> QED  BY <1>4, <2>4
<1>8. /\ \A f \in Families, j \in Ids : disk'[f][j] \in {disk[f][j], None}
      /\ \A f \in Families \ {"sendto", "link"}, j \in Ids : disk'[f][j] = disk[f][j]
  BY <1>3
<1>9. Left  BY <1>1, <1>3, <1>4, <1>5, <1>7, <1>8 DEF Left
<1> QED  BY <1>1, <1>9, EndKeeps

-----------------------------------------------------------------------------
(* Every step.                                                             *)

LEMMA StutterKeeps == ASSUME RestartInv, UNCHANGED vars PROVE RestartInv'
<1>1. /\ disk' = disk /\ marks' = marks /\ stages' = stages /\ sess' = sess /\ rows' = rows
      /\ hosts' = hosts /\ nextId' = nextId /\ nap' = nap /\ boot' = boot /\ wish' = wish
      /\ exposed' = exposed /\ crashes' = crashes
  BY DEF vars, files
<1>2. TypeOK'  BY <1>1 DEF RestartInv, TypeOK
<1>3. Steady
  <2>1. \A i \in Ids : Change(i)  BY <1>1 DEF Change, Still
  <2>2. CodesMove  BY <1>1 DEF CodesMove
  <2>3. \A x \in Items : WishMoves(x)
    <3> SUFFICES ASSUME NEW x \in Items PROVE WishMoves(x)  OBVIOUS
    <3>1. ~(InHand(x) /\ boot'.hand = None)  BY <1>1 DEF InHand
    <3> QED  BY <1>1, <3>1 DEF WishMoves
  <2>4. nap # None => Up  BY DEF RestartInv, PhaseInv
  <2>5. nextId <= nextId'  BY <1>1 DEF RestartInv, TypeOK
  <2> QED  BY <1>1, <2>1, <2>2, <2>3, <2>4, <2>5 DEF Steady
<1> QED  BY <1>2, <1>3, SteadyKeeps

LEMMA NextKeeps == ASSUME RestartInv, [Next]_vars PROVE RestartInv'
<1>1. CASE Start
  <2>1. PICK x \in Items : \/ SendTo(x) \/ CreateLink(x) \/ StartDownload(x)
                           \/ \E tag \in {"", "code"} : StartShare(x, tag)
    BY <1>1 DEF Start
  <2> QED  BY <2>1, SendToKeeps, CreateLinkKeeps, StartDownloadKeeps, StartShareKeeps
<1>2. CASE Task
  <2>1. PICK i \in Ids : \/ Prepare(i) \/ Upload(i) \/ UploadFails(i) \/ Deposit(i)
                         \/ BeginServing(i)
                         \/ HandOver(i) \/ CodeUsed(i) \/ CodeEnds(i) \/ SeedFile(i)
                         \/ Finish(i) \/ Settle(i) \/ DiskFull(i)
    BY <1>2 DEF Task
  <2> QED  BY <2>1, PrepareKeeps, UploadKeeps, UploadFailsKeeps, DepositKeeps, BeginServingKeeps,
              HandOverKeeps, CodeUsedKeeps, CodeEndsKeeps, SeedFileKeeps, FinishKeeps, SettleKeeps,
              DiskFullKeeps
<1>3. CASE User
  BY <1>3, PauseKeeps, ResumeKeeps, SuspendPauseKeeps, CancelKeeps, SuspendMarkKeeps,
     ResumeSuspendedKeeps DEF User
<1>4. CASE Restore
  BY <1>4, LoadAllKeeps, ProceedKeeps, SweepPrepsKeeps, SweepUploadsKeeps, TakeKeeps,
     RestoreDepositedKeeps, RestoreSendToKeeps, RestoreLinkKeeps, RestoreShareKeeps,
     RestoreDownloadKeeps, RestoreSendKeeps DEF Restore
<1>5. CASE Crash  BY <1>5, CrashKeeps
<1>6. ASSUME NEW i \in Ids, CrashInFinish(i) PROVE RestartInv'  BY <1>6, CrashInFinishKeeps
<1>7. CASE UNCHANGED vars  BY <1>7, StutterKeeps
<1> QED  BY <1>1, <1>2, <1>3, <1>4, <1>5, <1>6, <1>7 DEF Next

-----------------------------------------------------------------------------
(* The theorems.                                                           *)

\* The invariant holds in every state of the manager, whatever the user asks,
\* whatever task ends when, and wherever in a start or a finish the process is
\* killed, any number of times.
THEOREM RestartIsSound == Spec => []RestartInv
<1>1. Init => RestartInv  BY InitInv
<1>2. RestartInv /\ [Next]_vars => RestartInv'  BY NextKeeps
<1> QED  BY <1>1, <1>2, PTL DEF Spec

\* What is on disk and what is on the list agree (register, the persist_* and
\* remove_* files, resume_incomplete): once a start is over every transfer not
\* put at risk has its record under the number it goes by and its own key and
\* preparation, and no record, marker or code is left of one that is not there.
THEOREM DiskAndListAgree == Spec => []DiskAgrees
<1>1. RestartInv => DiskAgrees  BY InvGives
<1> QED  BY <1>1, RestartIsSound, PTL

\* Nothing asked for and not put at risk is missing after a start, on the list
\* twice, or running again although somebody paused it - through any number of
\* ends of the process, in the middle of resume_incomplete or of finish.
THEOREM TransfersComeBackOnce == Spec => []ComesBackOnce
<1>1. RestartInv => ComesBackOnce  BY InvGives
<1> QED  BY <1>1, RestartIsSound, PTL

=============================================================================
