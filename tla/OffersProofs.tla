---------------------------- MODULE OffersProofs ----------------------------
(***************************************************************************)
(* Proofs about an offer and what it leaves behind: what becomes of it     *)
(* once the relay has handed it over (Intake), what the sender keeps of a  *)
(* deposit (Receipts), and the slot at the relay with the requests held    *)
(* open for it (Inbox).  No theorem here uses two of the three: they share *)
(* the module, not their state.                                            *)
(*                                                                         *)
(* Intake.  `ClaimInv` is that the removal from the engine's map is a      *)
(* claim: who removed an offer is the only one who will start it, and it   *)
(* has not been started.  `QueueInv` is about the window between the       *)
(* arrival of an offer and its question: what waits, and what the task     *)
(* has in hand, is not a question yet, so it can supersede older posts but *)
(* is no older post itself, and the newest post of a file outlives the     *)
(* others.  `AskInv` follows a question through the two channels and the   *)
(* snapshot of a window.                                                   *)
(*                                                                         *)
(* Receipts.  `RowsInv`, `DiskInv` and `StoreInv` tie the row of a deposit,*)
(* its record and its blob together; `NewsInv` and `DropsInv` say what an  *)
(* event not yet filed, and a removal not yet done, still stand for.       *)
(***************************************************************************)
EXTENDS Intake, Receipts, Inbox, FiniteSetTheorems, SequenceTheorems, TLAPS

-----------------------------------------------------------------------------
(* Receipts: the inductive invariant.                                      *)

Kind == Over \cup {"link", "deposited"}
RowType == [dep : Dep, st : Over \cup {"uploading", "deposited", "removed"}, eye : BOOLEAN]
EventType == [kind : Kind, id : Nat \ {0}, dep : Dep, ticket : BOOLEAN]
LogType == [dep : Dep, st : Over \cup {"deposited"}, shown : BOOLEAN]

ReceiptsTypeOK ==
    /\ list \in Seq(RowType) /\ news \in Seq(EventType)
    /\ disk \in [Dep -> {"none", "kept", "owed"}]
    /\ blob \in [Dep -> {"none", "held", "gone"}]
    /\ clock \in [Dep -> {"fresh", "expired", "reapable"}]
    /\ receipt \in [Dep -> [tid : Nat, ticket : BOOLEAN]]
    /\ log \in SUBSET LogType /\ IsFiniteSet(log)
    /\ ask \in [Dep -> {"none", "packed", "created", "waiting", "answered"}]
    /\ drops \in SUBSET [id : Nat, found : BOOLEAN]
    /\ filed \in SUBSET Dep /\ ticketed \in SUBSET Dep

Made(d) == ask[d] \notin {"none", "packed"}

RowsInv ==
    /\ \A n \in 1..Len(list) :
        /\ list[n].st = "uploading" => blob[list[n].dep] = "none" /\ Made(list[n].dep)
        /\ list[n].st = "deposited" => blob[list[n].dep] # "none"
    /\ \A n, m \in 1..Len(list) :
        (list[n].st = "uploading" /\ list[m].st = "uploading" /\ list[n].dep = list[m].dep) => n = m

DiskInv ==
    \A d \in Dep :
        /\ disk[d] = "owed" => d \in Sealed
        /\ disk[d] # "none" => Made(d) /\ (blob[d] = "none" <=> d \in Linked)

StoreInv ==
    \A d \in Dep :
        /\ ~Made(d) => blob[d] = "none"
        /\ blob[d] = "none" => /\ clock[d] = "fresh" /\ receipt[d] = NoReceipt
                              /\ d \notin filed /\ d \notin ticketed
        /\ clock[d] = "reapable" => blob[d] = "gone"

NewsInv ==
    \A i \in 1..Len(news) :
        news[i].kind \in {"link", "deposited"} => blob[news[i].dep] # "none"

DropsInv == \A t \in drops : t.id \in 1..Len(list) /\ blob[list[t.id].dep] # "none"

ReceiptsInv ==
    ReceiptsTypeOK /\ RowsInv /\ DiskInv /\ StoreInv /\ NewsInv /\ DropsInv /\ ReceiptsAreKept

LEMMA InitReceipts == ReceiptsInit => ReceiptsInv
<1> SUFFICES ASSUME ReceiptsInit PROVE ReceiptsInv  OBVIOUS
<1>1. ReceiptsTypeOK
  BY FS_EmptySet DEF ReceiptsInit, ReceiptsTypeOK, NoReceipt
<1>2. RowsInv /\ NewsInv /\ DropsInv
  BY DEF ReceiptsInit, RowsInv, NewsInv, DropsInv
<1>3. DiskInv /\ StoreInv
  BY DEF ReceiptsInit, DiskInv, StoreInv, Made
<1>4. ReceiptsAreKept
  BY DEF ReceiptsInit, ReceiptsAreKept, TokenIsKept, TicketIsKept
<1> QED  BY <1>1, <1>2, <1>3, <1>4 DEF ReceiptsInv

LEMMA RowIs ==
    ASSUME list \in Seq(RowType), NEW n \in 1..Len(list)
    PROVE  list[n] \in RowType /\ list[n].dep \in Dep
<1>1. list[n] \in RowType  OBVIOUS
<1> QED  BY <1>1 DEF RowType

LEMMA NewsIs ==
    ASSUME news \in Seq(EventType), NEW j \in 1..Len(news)
    PROVE  news[j] \in EventType /\ news[j].dep \in Dep
<1>1. news[j] \in EventType  OBVIOUS
<1> QED  BY <1>1 DEF EventType

LEMMA RowSet ==
    ASSUME list \in Seq(RowType), NEW n \in 1..Len(list), NEW r \in RowType,
           list' = [list EXCEPT ![n] = r]
    PROVE  /\ list' \in Seq(RowType) /\ Len(list') = Len(list) /\ list'[n] = r
           /\ \A m \in 1..Len(list) : m # n => list'[m] = list[m]
OBVIOUS

LEMMA SetStIs ==
    ASSUME list \in Seq(RowType), NEW n \in 1..Len(list),
           NEW st \in Over \cup {"uploading", "deposited", "removed"}, SetSt(n, st)
    PROVE  /\ list' \in Seq(RowType) /\ Len(list') = Len(list)
           /\ list'[n] \in RowType /\ list'[n].dep = list[n].dep /\ list'[n].st = st
           /\ \A m \in 1..Len(list) : m # n => list'[m] = list[m]
<1> DEFINE r == [list[n] EXCEPT !.st = st]
<1>1. list[n] \in RowType  BY RowIs
<1>2. r \in RowType /\ r.dep = list[n].dep /\ r.st = st
  BY <1>1 DEF RowType
<1>3. list' = [list EXCEPT ![n] = r]
  BY DEF SetSt
<1> HIDE DEF r
<1> QED  BY <1>2, <1>3, RowSet

LEMMA EventIs ==
    ASSUME NEW k \in Kind, NEW n \in Nat \ {0}, NEW d \in Dep, NEW b \in BOOLEAN
    PROVE  /\ Event(k, n, d, b) \in EventType
           /\ Event(k, n, d, b).kind = k /\ Event(k, n, d, b).dep = d
BY DEF Event, EventType

\* An event is told to the intake after what it has not taken yet.
LEMMA EmitOne ==
    ASSUME news \in Seq(EventType), NEW e \in EventType, Emit(<<e>>)
    PROVE  /\ news' \in Seq(EventType)
           /\ \A i \in 1..Len(news') : news'[i] = e \/ \E j \in 1..Len(news) : news'[i] = news[j]
<1>1. news' = news \o <<e>> /\ <<e>> \in Seq(EventType) /\ Len(<<e>>) = 1 /\ <<e>>[1] = e
  BY DEF Emit
<1>2. news' \in Seq(EventType) /\ Len(news') = Len(news) + 1
  BY <1>1, ConcatProperties
<1>3. \A i \in 1..Len(news') : news'[i] = IF i <= Len(news) THEN news[i] ELSE e
  BY <1>1, <1>2, ConcatProperties
<1> QED  BY <1>2, <1>3

LEMMA EmitTwo ==
    ASSUME news \in Seq(EventType), NEW e \in EventType, NEW f \in EventType, Emit(<<e, f>>)
    PROVE  /\ news' \in Seq(EventType)
           /\ \A i \in 1..Len(news') :
                news'[i] = e \/ news'[i] = f \/ \E j \in 1..Len(news) : news'[i] = news[j]
<1>1. /\ news' = news \o <<e, f>> /\ <<e, f>> \in Seq(EventType)
      /\ Len(<<e, f>>) = 2 /\ <<e, f>>[1] = e /\ <<e, f>>[2] = f
  BY DEF Emit
<1>2. news' \in Seq(EventType) /\ Len(news') = Len(news) + 2
  BY <1>1, ConcatProperties
<1>3. \A i \in 1..Len(news') :
        news'[i] = IF i <= Len(news) THEN news[i] ELSE IF i = Len(news) + 1 THEN e ELSE f
  BY <1>1, <1>2, ConcatProperties
<1> QED  BY <1>2, <1>3

\* A request that goes on changes nothing that is kept.
LEMMA RequestKeeps ==
    ASSUME ReceiptsInv, ask' \in [Dep -> {"none", "packed", "created", "waiting", "answered"}],
           \A d \in Dep : Made(d) => Made(d)',
           UNCHANGED <<list, news, disk, blob, clock, receipt, log, drops, filed, ticketed, revoked>>
    PROVE  ReceiptsInv'
<1>1. ReceiptsTypeOK'
  BY DEF ReceiptsInv, ReceiptsTypeOK
<1>2. RowsInv'
  <2>1. \A n \in 1..Len(list) : list[n].dep \in Dep
    BY RowIs DEF ReceiptsInv, ReceiptsTypeOK
  <2> QED  BY <2>1 DEF ReceiptsInv, RowsInv
<1>3. DiskInv' /\ StoreInv'
  BY DEF ReceiptsInv, DiskInv, StoreInv
<1>4. NewsInv' /\ DropsInv'
  BY DEF ReceiptsInv, NewsInv, DropsInv
<1>5. ReceiptsAreKept'
  BY DEF ReceiptsInv, ReceiptsAreKept, TokenIsKept, TicketIsKept
<1> QED  BY <1>1, <1>2, <1>3, <1>4, <1>5 DEF ReceiptsInv

LEMMA RequestsKeep ==
    ASSUME ReceiptsInv, NEW d \in Dep, Pack(d) \/ Refuse(d) \/ Wait(d) \/ Answer(d) \/ CleanUp(d)
    PROVE  ReceiptsInv'
<1>1. ask \in [Dep -> {"none", "packed", "created", "waiting", "answered"}]
  BY DEF ReceiptsInv, ReceiptsTypeOK
<1>2. UNCHANGED <<list, news, disk, blob, clock, receipt, log, drops, filed, ticketed, revoked>>
  BY DEF Pack, Refuse, Wait, Answer, CleanUp
<1>3. \/ ask' = ask
      \/ ask[d] = "none" /\ ask' = [ask EXCEPT ![d] = "packed"]
      \/ ask' = [ask EXCEPT ![d] = "waiting"]
      \/ ask' = [ask EXCEPT ![d] = "answered"]
  BY DEF Pack, Refuse, Wait, Answer, CleanUp
<1>4. \A x \in Dep : Made(x) => Made(x)'
  BY <1>1, <1>3 DEF Made
<1>5. ask' \in [Dep -> {"none", "packed", "created", "waiting", "answered"}]
  BY <1>1, <1>3
<1> QED  BY <1>2, <1>4, <1>5, RequestKeeps

-----------------------------------------------------------------------------
(* The parts of the invariant under the kinds of change there are.         *)

AskType == [Dep -> {"none", "packed", "created", "waiting", "answered"}]
BlobType == [Dep -> {"none", "held", "gone"}]

\* No file comes to the relay: one that is there may go, and a receipt that is
\* revoked.
FilesGo ==
    /\ receipt' \in [Dep -> [tid : Nat, ticket : BOOLEAN]]
    /\ \A d \in Dep : receipt'[d] = receipt[d] \/ (receipt'[d] = NoReceipt /\ d \in revoked')
    /\ blob' \in BlobType
    /\ \A d \in Dep : blob'[d] = blob[d] \/ (blob[d] # "none" /\ blob'[d] = "gone")

LEMMA RowsStay ==
    ASSUME ReceiptsInv, FilesGo, UNCHANGED ask,
           Len(list') = Len(list), list' \in Seq(RowType),
           \A n \in 1..Len(list) :
                list'[n] = list[n] \/ (list'[n].dep = list[n].dep /\ list'[n].st \in Over \cup {"removed"})
    PROVE  RowsInv'
<1>1. \A n \in 1..Len(list) : list[n].dep \in Dep
  BY RowIs DEF ReceiptsInv, ReceiptsTypeOK
<1>2. \A n \in 1..Len(list) :
        /\ list'[n].dep = list[n].dep
        /\ list'[n].st = "uploading" => list[n].st = "uploading"
        /\ list'[n].st = "deposited" => list[n].st = "deposited"
  BY DEF Over
<1>3. \A d \in Dep : (blob'[d] = "none") <=> (blob[d] = "none")
  BY DEF FilesGo
<1>4. RowsInv  BY DEF ReceiptsInv
<1> QED  BY <1>1, <1>2, <1>3, <1>4 DEF RowsInv, Made

LEMMA DiskStays ==
    ASSUME ReceiptsInv, FilesGo, UNCHANGED ask, \A d \in Dep : disk'[d] \in {disk[d], "none"}
    PROVE  DiskInv'
BY DEF ReceiptsInv, FilesGo, DiskInv, Made

LEMMA StoreStays ==
    ASSUME ReceiptsInv, FilesGo, UNCHANGED <<ask, clock, filed, ticketed>>,
           revoked \subseteq revoked'
    PROVE  StoreInv' /\ ReceiptsAreKept'
<1>1. StoreInv'
  BY DEF ReceiptsInv, FilesGo, StoreInv, Made
<1>2. ReceiptsAreKept'
  BY DEF ReceiptsInv, ReceiptsTypeOK, FilesGo, ReceiptsAreKept, TokenIsKept, TicketIsKept
<1> QED  BY <1>1, <1>2

\* Only what is on the relay is announced.
LEMMA NewsStay ==
    ASSUME ReceiptsInv, \A d \in Dep : blob[d] # "none" => blob'[d] # "none",
           news' \in Seq(EventType),
           \A i \in 1..Len(news') :
                \/ news'[i].kind \in {"link", "deposited"} => blob'[news'[i].dep] # "none"
                \/ \E j \in 1..Len(news) : news'[i] = news[j]
    PROVE  NewsInv'
<1>1. \A j \in 1..Len(news) : news[j].dep \in Dep
  BY NewsIs DEF ReceiptsInv, ReceiptsTypeOK
<1> QED  BY <1>1 DEF ReceiptsInv, NewsInv

LEMMA DropsStay ==
    ASSUME ReceiptsInv, \A d \in Dep : blob[d] # "none" => blob'[d] # "none",
           Len(list') >= Len(list), Len(list') \in Nat,
           \A n \in 1..Len(list) : list'[n].dep = list[n].dep,
           \A t \in drops' : t \in drops \/ (t.id \in 1..Len(list) /\ blob[list[t.id].dep] # "none")
    PROVE  DropsInv'
<1>1. \A n \in 1..Len(list) : list[n].dep \in Dep
  BY RowIs DEF ReceiptsInv, ReceiptsTypeOK
<1>2. Len(list) \in Nat
  BY DEF ReceiptsInv, ReceiptsTypeOK
<1>3. DropsInv
  BY DEF ReceiptsInv
<1> QED  BY <1>1, <1>2, <1>3 DEF DropsInv

\* A row ends: its record goes, and the intake is told.
LEMMA RowEnds ==
    ASSUME ReceiptsInv, FilesGo, NEW n \in 1..Len(list), NEW st \in Over,
           list' \in Seq(RowType), Len(list') = Len(list),
           list'[n].dep = list[n].dep, list'[n].st = st,
           \A m \in 1..Len(list) : m # n => list'[m] = list[m],
           disk' = [disk EXCEPT ![list[n].dep] = "none"],
           Emit(<<Event(st, n, list[n].dep, FALSE)>>),
           drops' \subseteq drops, revoked \subseteq revoked',
           UNCHANGED <<ask, clock, log, filed, ticketed>>
    PROVE  ReceiptsInv'
<1> DEFINE d == list[n].dep
           e == Event(st, n, d, FALSE)
<1>1. d \in Dep /\ ReceiptsTypeOK /\ n \in Nat \ {0}
  BY RowIs DEF ReceiptsInv, ReceiptsTypeOK
<1>2. e \in EventType /\ e.kind = st
  BY <1>1, EventIs DEF Kind
<1>3. st \notin {"link", "deposited"}
  BY DEF Over
<1> HIDE DEF e, d
<1>4. /\ news' \in Seq(EventType)
      /\ \A i \in 1..Len(news') : news'[i] = e \/ \E j \in 1..Len(news) : news'[i] = news[j]
  <2>1. news \in Seq(EventType) /\ Emit(<<e>>)
    BY <1>1 DEF ReceiptsTypeOK, e, d
  <2> QED  BY <2>1, <1>2, EmitOne
<1>5. \A x \in Dep : blob[x] # "none" => blob'[x] # "none"
  BY DEF FilesGo
<1>6. ReceiptsTypeOK'
  BY <1>1, <1>4 DEF ReceiptsTypeOK, FilesGo, BlobType
<1>7. RowsInv'
  BY RowsStay
<1>8. DiskInv'
  BY <1>1, DiskStays DEF ReceiptsTypeOK
<1>9. StoreInv' /\ ReceiptsAreKept'
  BY StoreStays
<1>10. NewsInv'
  BY <1>2, <1>3, <1>4, <1>5, NewsStay
<1>11. DropsInv'
  <2>1. \A m \in 1..Len(list) : list'[m].dep = list[m].dep  OBVIOUS
  <2>2. Len(list') \in Nat /\ Len(list') >= Len(list)  BY <1>1 DEF ReceiptsTypeOK
  <2> QED  BY <1>5, <2>1, <2>2, DropsStay
<1> QED  BY <1>6, <1>7, <1>8, <1>9, <1>10, <1>11 DEF ReceiptsInv

-----------------------------------------------------------------------------
(* The actions.                                                            *)

LEMMA NoFileMoves ==
    ASSUME ReceiptsInv, UNCHANGED <<blob, receipt>>
    PROVE  FilesGo
BY DEF ReceiptsInv, ReceiptsTypeOK, FilesGo, BlobType

LEMMA FileGoes ==
    ASSUME ReceiptsInv, NEW d \in Dep, blob[d] # "none", blob' = [blob EXCEPT ![d] = "gone"],
           UNCHANGED receipt
    PROVE  FilesGo
BY DEF ReceiptsInv, ReceiptsTypeOK, FilesGo, BlobType

\* Files go from the relay, and nothing else happens.
LEMMA FilesGone ==
    ASSUME ReceiptsInv, FilesGo,
           UNCHANGED <<list, disk, clock, log, news, ask, drops, filed, ticketed>>,
           revoked \subseteq revoked'
    PROVE  ReceiptsInv'
<1>1. ReceiptsTypeOK /\ Len(list) \in Nat  BY DEF ReceiptsInv, ReceiptsTypeOK
<1>2. \A x \in Dep : blob[x] # "none" => blob'[x] # "none"
  BY DEF FilesGo
<1>3. ReceiptsTypeOK'
  BY <1>1 DEF ReceiptsTypeOK, FilesGo, BlobType
<1>4. RowsInv'  BY <1>1, RowsStay DEF ReceiptsTypeOK
<1>5. DiskInv'  BY DiskStays
<1>6. StoreInv' /\ ReceiptsAreKept'  BY StoreStays
<1>7. NewsInv'  BY <1>1, <1>2, NewsStay DEF ReceiptsTypeOK
<1>8. DropsInv'  BY <1>1, <1>2, DropsStay
<1> QED  BY <1>3, <1>4, <1>5, <1>6, <1>7, <1>8 DEF ReceiptsInv

LEMMA FailUploadKeeps ==
    ASSUME ReceiptsInv, NEW n \in 1..Len(list), FailUpload(n)
    PROVE  ReceiptsInv'
<1>1. list \in Seq(RowType)  BY DEF ReceiptsInv, ReceiptsTypeOK
<1>2. /\ list' \in Seq(RowType) /\ Len(list') = Len(list)
      /\ list'[n].dep = list[n].dep /\ list'[n].st = "failed"
      /\ \A m \in 1..Len(list) : m # n => list'[m] = list[m]
  BY <1>1, SetStIs DEF FailUpload, Over
<1>3. "failed" \in Over  BY DEF Over
<1>4. FilesGo  BY NoFileMoves DEF FailUpload
<1> QED  BY <1>2, <1>3, <1>4, RowEnds DEF FailUpload

LEMMA ConfirmKeeps ==
    ASSUME ReceiptsInv, NEW n \in 1..Len(list), Confirm(n)
    PROVE  ReceiptsInv'
<1> DEFINE d == list[n].dep
           word == IF blob[d] = "held" THEN "failed" ELSE "completed"
           r == [dep |-> d, st |-> word, eye |-> FALSE]
<1>1. list \in Seq(RowType) /\ d \in Dep  BY RowIs DEF ReceiptsInv, ReceiptsTypeOK
<1>2. word \in Over  BY DEF Over
<1> HIDE DEF word
<1>3. r \in RowType /\ r.dep = d /\ r.st = word
  BY <1>1, <1>2 DEF RowType
<1>4. /\ list' = [list EXCEPT ![n] = r] /\ disk' = [disk EXCEPT ![list[n].dep] = "none"]
      /\ Emit(<<Event(word, n, list[n].dep, FALSE)>>)
  BY DEF Confirm, word
<1>5. /\ list' \in Seq(RowType) /\ Len(list') = Len(list)
      /\ list'[n] = r
      /\ \A m \in 1..Len(list) : m # n => list'[m] = list[m]
  BY <1>1, <1>3, <1>4, RowSet
<1>6. UNCHANGED <<blob, ask, clock, receipt, log, filed, ticketed, drops, revoked>>
  BY DEF Confirm
<1>7. FilesGo  BY <1>6, NoFileMoves
<1> QED  BY <1>2, <1>3, <1>4, <1>5, <1>6, <1>7, RowEnds

\* cancel, of a row that uploads, that is deposited, or that is over.
LEMMA CancelRowKeeps ==
    ASSUME ReceiptsInv, FilesGo, NEW n \in Numbers, CancelRow(n), revoked \subseteq revoked',
           UNCHANGED <<blob, ask, clock, log, filed, ticketed>>
    PROVE  ReceiptsInv'
<1>1. list \in Seq(RowType) /\ n \in 1..Len(list) /\ Len(list) \in Nat /\ n \in Nat
  BY DEF ReceiptsInv, ReceiptsTypeOK, Numbers
<1>3. CASE list[n].st = "uploading"
  <2>1. /\ SetSt(n, "cancelled") /\ disk' = [disk EXCEPT ![list[n].dep] = "none"]
        /\ Emit(<<Event("cancelled", n, list[n].dep, FALSE)>>) /\ UNCHANGED drops
    BY <1>3 DEF CancelRow
  <2>2. /\ list' \in Seq(RowType) /\ Len(list') = Len(list)
        /\ list'[n].dep = list[n].dep /\ list'[n].st = "cancelled"
        /\ \A m \in 1..Len(list) : m # n => list'[m] = list[m]
    BY <1>1, <2>1, SetStIs DEF Over
  <2>3. "cancelled" \in Over  BY DEF Over
  <2> QED  BY <1>1, <2>1, <2>2, <2>3, RowEnds
<1>4. CASE list[n].st # "uploading"
  <2>1. UNCHANGED <<list, disk, news>>
    BY <1>4 DEF CancelRow, Quiet
  <2>2. /\ drops' \in SUBSET [id : Nat, found : BOOLEAN]
        /\ \A t \in drops' : t \in drops \/ (t.id \in 1..Len(list) /\ blob[list[t.id].dep] # "none")
    <3>1. CASE list[n].st = "deposited"
      <4> DEFINE t == [id |-> n, found |-> disk[list[n].dep] = "kept"]
      <4>1. drops' = drops \cup {t}
        BY <3>1 DEF CancelRow
      <4>2. blob[list[n].dep] # "none"
        BY <1>1, <3>1 DEF ReceiptsInv, RowsInv
      <4>3. t.id = n /\ t \in [id : Nat, found : BOOLEAN]
        BY <1>1
      <4> HIDE DEF t
      <4> QED  BY <1>1, <4>1, <4>2, <4>3 DEF ReceiptsInv, ReceiptsTypeOK
    <3>2. CASE list[n].st # "deposited"
      <4>1. drops' = drops
        BY <1>4, <3>2 DEF CancelRow
      <4> QED  BY <4>1 DEF ReceiptsInv, ReceiptsTypeOK
    <3> QED  BY <3>1, <3>2
  <2>3. ReceiptsTypeOK'
    BY <2>1, <2>2 DEF ReceiptsInv, ReceiptsTypeOK, FilesGo
  <2>4. RowsInv' /\ DiskInv' /\ NewsInv'
    BY <2>1 DEF ReceiptsInv, RowsInv, DiskInv, NewsInv, Made
  <2>5. StoreInv' /\ ReceiptsAreKept'
    BY StoreStays
  <2>6. DropsInv'
    BY <1>1, <2>1, <2>2, DropsStay
  <2> QED  BY <2>3, <2>4, <2>5, <2>6 DEF ReceiptsInv
<1> QED  BY <1>3, <1>4

LEMMA CancelKeeps ==
    ASSUME ReceiptsInv, NEW n \in 1..Len(list), Cancel(n)
    PROVE  ReceiptsInv'
BY CancelRowKeeps, NoFileMoves DEF Cancel

LEMMA DroppedKeeps ==
    ASSUME ReceiptsInv, NEW t \in drops, Dropped(t)
    PROVE  ReceiptsInv'
<1> DEFINE n == t.id
           d == list[n].dep
<1>1. list \in Seq(RowType) /\ n \in 1..Len(list) /\ blob[d] # "none"
  BY DEF ReceiptsInv, ReceiptsTypeOK, DropsInv
<1>2. d \in Dep  BY <1>1, RowIs
<1>3. /\ SetSt(n, "cancelled") /\ disk' = [disk EXCEPT ![d] = "none"]
      /\ Emit(<<Event("cancelled", n, d, FALSE)>>) /\ drops' \subseteq drops
      /\ UNCHANGED <<ask, clock, receipt, log, filed, ticketed, revoked>>
  BY DEF Dropped
<1>4. FilesGo
  <2>1. blob' = [blob EXCEPT ![d] = "gone"] \/ blob' = blob
    BY DEF Dropped, Withdraw
  <2> QED  BY <1>1, <1>2, <1>3, <2>1, FileGoes, NoFileMoves
<1> HIDE DEF n
<1>5. /\ list' \in Seq(RowType) /\ Len(list') = Len(list)
      /\ list'[n].dep = list[n].dep /\ list'[n].st = "cancelled"
      /\ \A m \in 1..Len(list) : m # n => list'[m] = list[m]
  BY <1>1, <1>3, SetStIs DEF Over
<1>6. "cancelled" \in Over  BY DEF Over
<1> QED  BY <1>1, <1>3, <1>4, <1>5, <1>6, RowEnds

LEMMA BlobGoesKeeps ==
    ASSUME ReceiptsInv, NEW d \in Dep, BlobGoes(d)
    PROVE  ReceiptsInv'
<1>1. /\ blob[d] = "held" /\ blob' = [blob EXCEPT ![d] = "gone"]
      /\ UNCHANGED <<list, disk, clock, receipt, log, news, ask, drops, filed, ticketed, revoked>>
  BY DEF BlobGoes
<1> QED  BY <1>1, FileGoes, FilesGone

LEMMA PersistKeeps ==
    ASSUME ReceiptsInv, NEW d \in Dep, Persist(d)
    PROVE  ReceiptsInv'
<1>1. /\ disk[d] = "owed" /\ disk' = [disk EXCEPT ![d] = "kept"]
      /\ UNCHANGED <<list, blob, clock, receipt, log, news, ask, drops, filed, ticketed, revoked>>
  BY DEF Persist
<1>2. ReceiptsTypeOK'
  BY <1>1 DEF ReceiptsInv, ReceiptsTypeOK
<1>3. DiskInv'
  BY <1>1 DEF ReceiptsInv, ReceiptsTypeOK, DiskInv, Made
<1>4. RowsInv' /\ StoreInv' /\ NewsInv' /\ DropsInv'
  BY <1>1 DEF ReceiptsInv, RowsInv, StoreInv, NewsInv, DropsInv, Made
<1>5. ReceiptsAreKept'
  BY <1>1 DEF ReceiptsInv, ReceiptsAreKept, TokenIsKept, TicketIsKept
<1> QED  BY <1>2, <1>3, <1>4, <1>5 DEF ReceiptsInv

LEMMA TickKeeps ==
    ASSUME ReceiptsInv, NEW d \in Dep, Tick(d)
    PROVE  ReceiptsInv'
<1>1. /\ blob[d] # "none"
      /\ UNCHANGED <<list, disk, blob, receipt, log, news, ask, drops, filed, ticketed, revoked>>
      /\ \/ clock' = [clock EXCEPT ![d] = "expired"]
         \/ blob[d] = "gone" /\ clock' = [clock EXCEPT ![d] = "reapable"]
  BY DEF Tick
<1>2. ReceiptsTypeOK'
  BY <1>1 DEF ReceiptsInv, ReceiptsTypeOK
<1>3. StoreInv'
  BY <1>1 DEF ReceiptsInv, ReceiptsTypeOK, StoreInv, Made
<1>4. RowsInv' /\ DiskInv' /\ NewsInv' /\ DropsInv'
  BY <1>1 DEF ReceiptsInv, RowsInv, DiskInv, NewsInv, DropsInv, Made
<1>5. ReceiptsAreKept'
  BY <1>1 DEF ReceiptsInv, ReceiptsAreKept, TokenIsKept, TicketIsKept
<1> QED  BY <1>2, <1>3, <1>4, <1>5 DEF ReceiptsInv

LEMMA CreateKeeps ==
    ASSUME ReceiptsInv, NEW d \in Dep, Create(d)
    PROVE  ReceiptsInv'
<1> DEFINE r == Entry(d, "uploading")
           k == Len(list) + 1
<1>1. /\ ask[d] = "packed" /\ ask' = [ask EXCEPT ![d] = "created"] /\ list' = Append(list, r)
      /\ disk' = IF d \in Linked THEN [disk EXCEPT ![d] = "kept"] ELSE disk
      /\ UNCHANGED <<blob, clock, receipt, log, news, drops, filed, ticketed, revoked>>
  BY DEF Create
<1>2. ReceiptsTypeOK  BY DEF ReceiptsInv
<1>3. r \in RowType /\ r.dep = d /\ r.st = "uploading"
  BY DEF Entry, RowType
<1> HIDE DEF r
<1>4. /\ list' \in Seq(RowType) /\ Len(list') = k /\ list'[k] = r /\ Len(list) \in Nat
      /\ \A m \in 1..Len(list) : list'[m] = list[m]
  BY <1>1, <1>2, <1>3 DEF ReceiptsTypeOK
<1>5. ReceiptsTypeOK'
  BY <1>1, <1>2, <1>4 DEF ReceiptsTypeOK
<1>6. /\ ask' \in AskType /\ ~Made(d) /\ Made(d)' /\ blob[d] = "none"
      /\ \A x \in Dep : x # d => (Made(x)' <=> Made(x))
  BY <1>1, <1>2 DEF ReceiptsInv, ReceiptsTypeOK, StoreInv, Made, AskType
<1>7. RowsInv'
  <2>1. \A m \in 1..Len(list) : list[m].dep \in Dep
    BY <1>2, RowIs DEF ReceiptsTypeOK
  <2>2. \A m \in 1..Len(list) : list[m].st = "uploading" => list[m].dep # d
    BY <1>6 DEF ReceiptsInv, RowsInv
  <2>3. \A m \in 1..Len(list') : m = k \/ m \in 1..Len(list)
    BY <1>4
  <2>4. RowsInv  BY DEF ReceiptsInv
  <2>5. \A m \in 1..Len(list') :
          /\ list'[m].st = "uploading" => blob'[list'[m].dep] = "none" /\ Made(list[m].dep)'
          /\ list'[m].st = "deposited" => blob'[list'[m].dep] # "none"
    <3>1. SUFFICES ASSUME NEW m \in 1..Len(list')
                   PROVE  /\ list'[m].st = "uploading" => blob'[list'[m].dep] = "none" /\ Made(list[m].dep)'
                          /\ list'[m].st = "deposited" => blob'[list'[m].dep] # "none"
      OBVIOUS
    <3>2. CASE m = k
      BY <1>1, <1>3, <1>4, <1>6, <3>2 DEF Made
    <3>3. CASE m \in 1..Len(list)
      BY <1>1, <1>4, <1>6, <2>1, <2>4, <3>3 DEF RowsInv, Made
    <3> QED  BY <2>3, <3>2, <3>3
  <2>6. \A n, m \in 1..Len(list') :
          (list'[n].st = "uploading" /\ list'[m].st = "uploading" /\ list'[n].dep = list'[m].dep) => n = m
    BY <1>3, <1>4, <2>2, <2>3, <2>4 DEF RowsInv
  <2> QED  BY <2>5, <2>6 DEF RowsInv
<1>8. DiskInv'
  BY <1>1, <1>2, <1>6 DEF ReceiptsInv, ReceiptsTypeOK, DiskInv
<1>9. StoreInv'
  BY <1>1, <1>6 DEF ReceiptsInv, StoreInv
<1>10. NewsInv'
  BY <1>1 DEF ReceiptsInv, NewsInv
<1>11. DropsInv'
  <2>1. Len(list') \in Nat /\ Len(list') >= Len(list)  BY <1>4
  <2> QED  BY <1>1, <1>4, <2>1, DropsStay
<1>12. ReceiptsAreKept'
  BY <1>1 DEF ReceiptsInv, ReceiptsAreKept, TokenIsKept, TicketIsKept
<1> QED  BY <1>5, <1>7, <1>8, <1>9, <1>10, <1>11, <1>12 DEF ReceiptsInv

LEMMA LandKeeps ==
    ASSUME ReceiptsInv, NEW n \in 1..Len(list), Land(n)
    PROVE  ReceiptsInv'
<1> DEFINE d == list[n].dep
<1>1. ReceiptsTypeOK /\ RowsInv /\ list \in Seq(RowType) /\ Len(list) \in Nat
  BY DEF ReceiptsInv, ReceiptsTypeOK
<1>2. d \in Dep  BY <1>1, RowIs
<1>3. /\ list[n].st = "uploading" /\ blob' = [blob EXCEPT ![d] = "held"]
      /\ UNCHANGED <<clock, receipt, log, ask, drops, filed, ticketed, revoked>>
  BY DEF Land
<1>4. blob[d] = "none" /\ Made(d)  BY <1>1, <1>3 DEF RowsInv
<1>5. /\ blob' \in BlobType /\ blob'[d] = "held"
      /\ \A x \in Dep : x # d => blob'[x] = blob[x]
  BY <1>1, <1>2, <1>3 DEF ReceiptsTypeOK, BlobType
<1>6. /\ list' \in Seq(RowType) /\ Len(list') = Len(list)
      /\ list'[n].dep = d /\ list'[n].st # "uploading"
      /\ \A m \in 1..Len(list) : m # n => list'[m] = list[m]
  <2>1. CASE d \in Linked
    <3>1. SetSt(n, "completed")  BY <2>1 DEF Land
    <3> QED  BY <1>1, <3>1, SetStIs DEF Over
  <2>2. CASE d \notin Linked
    <3> DEFINE r == Entry(d, "deposited")
    <3>1. list' = [list EXCEPT ![n] = r]  BY <2>2 DEF Land
    <3>2. r \in RowType /\ r.dep = d /\ r.st = "deposited"
      BY <1>2 DEF Entry, RowType
    <3> HIDE DEF r
    <3> QED  BY <1>1, <3>1, <3>2, RowSet
  <2> QED  BY <2>1, <2>2
<1>7. /\ disk' \in [Dep -> {"none", "kept", "owed"}]
      /\ disk'[d] = IF d \in Linked THEN "none" ELSE "owed"
      /\ \A x \in Dep : x # d => disk'[x] = disk[x]
  BY ZenonT(60), <1>1, <1>2 DEF Land, ReceiptsTypeOK
<1>8. /\ news' \in Seq(EventType)
      /\ \A i \in 1..Len(news') : news'[i].dep = d \/ \E j \in 1..Len(news) : news'[i] = news[j]
  <2>1. n \in Nat \ {0} /\ news \in Seq(EventType)  BY <1>1 DEF ReceiptsTypeOK
  <2>2. CASE d \in Linked
    <3> DEFINE e == Event("link", n, d, FALSE)
               f == Event("completed", n, d, FALSE)
    <3>1. Emit(<<e, f>>)  BY <2>2 DEF Land
    <3>2. e \in EventType /\ e.dep = d /\ f \in EventType /\ f.dep = d
      BY ZenonT(60), <1>2, <2>1, EventIs DEF Kind, Over
    <3> HIDE DEF e, f
    <3> QED  BY <2>1, <3>1, <3>2, EmitTwo
  <2>3. CASE d \notin Linked
    <3> DEFINE e == Event("deposited", n, d, TRUE)
    <3>1. Emit(<<e>>)  BY <2>3 DEF Land
    <3>2. e \in EventType /\ e.dep = d
      BY ZenonT(60), <1>2, <2>1, EventIs DEF Kind, Over
    <3> HIDE DEF e
    <3> QED  BY <2>1, <3>1, <3>2, EmitOne
  <2> QED  BY <2>2, <2>3
<1> HIDE DEF d
<1>9. \A x \in Dep : blob[x] # "none" => blob'[x] # "none"
  BY <1>5
<1>10. ReceiptsTypeOK'
  BY <1>1, <1>3, <1>5, <1>6, <1>7, <1>8 DEF ReceiptsTypeOK, BlobType
<1>11. RowsInv'
  <2>1. \A m \in 1..Len(list) : list[m].dep \in Dep /\ list'[m].dep = list[m].dep
    BY <1>1, <1>6, RowIs DEF d
  <2>2. \A m \in 1..Len(list) : list'[m].st = "uploading" => list[m].st = "uploading" /\ list[m].dep # d
    BY <1>1, <1>3, <1>6 DEF RowsInv, d
  <2>3. \A m \in 1..Len(list) : list'[m].st = "deposited" => m = n \/ list[m].st = "deposited"
    BY <1>6
  <2>4. \A m \in 1..Len(list) :
          /\ list'[m].st = "uploading" => blob'[list[m].dep] = "none" /\ Made(list[m].dep)
          /\ list'[m].st = "deposited" => blob'[list[m].dep] # "none"
    BY <1>1, <1>5, <1>9, <2>1, <2>2, <2>3 DEF RowsInv, d
  <2>5. \A k, m \in 1..Len(list) :
          (list'[k].st = "uploading" /\ list'[m].st = "uploading" /\ list[k].dep = list[m].dep) => k = m
    BY <1>1, <2>2 DEF RowsInv
  <2> QED  BY SMTT(30), <1>3, <1>6, <2>1, <2>4, <2>5 DEF RowsInv, Made
<1>12. DiskInv'
  <2>1. d \notin Linked => d \in Sealed  BY <1>2 DEF Dep
  <2>2. \A x \in Dep : Made(x)' <=> Made(x)  BY <1>3 DEF Made
  <2> QED  BY <1>4, <1>5, <1>7, <2>1, <2>2 DEF ReceiptsInv, DiskInv
<1>13. StoreInv'
  <2>1. \A x \in Dep : Made(x)' <=> Made(x)  BY <1>3 DEF Made
  <2> QED  BY <1>3, <1>4, <1>5, <2>1 DEF ReceiptsInv, StoreInv
<1>14. NewsInv'
  <2>1. \A i \in 1..Len(news') :
            \/ news'[i].kind \in {"link", "deposited"} => blob'[news'[i].dep] # "none"
            \/ \E j \in 1..Len(news) : news'[i] = news[j]
    BY <1>5, <1>8
  <2> QED  BY <1>8, <1>9, <2>1, NewsStay
<1>15. DropsInv'
  <2>1. \A m \in 1..Len(list) : list'[m].dep = list[m].dep  BY <1>6 DEF d
  <2>2. Len(list') \in Nat /\ Len(list') >= Len(list)  BY <1>1, <1>6
  <2> QED  BY <1>3, <1>9, <2>1, <2>2, DropsStay
<1>16. ReceiptsAreKept'
  <2>1. d \notin filed /\ d \notin ticketed
    BY <1>2, <1>4 DEF ReceiptsInv, StoreInv
  <2> QED  BY <1>1, <1>3, <1>5, <2>1 DEF ReceiptsInv, ReceiptsTypeOK, ReceiptsAreKept, TokenIsKept, TicketIsKept
<1> QED  BY <1>10, <1>11, <1>12, <1>13, <1>14, <1>15, <1>16 DEF ReceiptsInv

LEMMA FileEventKeeps ==
    ASSUME ReceiptsInv, FileEvent
    PROVE  ReceiptsInv'
<1> DEFINE e == Head(news)
<1>1. ReceiptsTypeOK  BY DEF ReceiptsInv
<1>2. /\ news # <<>> /\ news' = Tail(news)
      /\ UNCHANGED <<list, disk, blob, clock, ask, drops, revoked>>
  BY DEF FileEvent
<1>3. 1 \in 1..Len(news) /\ e = news[1]  BY <1>1, <1>2 DEF ReceiptsTypeOK
<1>4. e \in EventType /\ e.dep \in Dep  BY <1>1, <1>3, NewsIs DEF ReceiptsTypeOK
<1>5. e.kind \in Kind /\ e.id \in Nat \ {0} /\ e.ticket \in BOOLEAN  BY <1>4 DEF EventType
<1>6. e.kind \in {"link", "deposited"} => blob[e.dep] # "none"
  BY <1>3 DEF ReceiptsInv, NewsInv
<1>7. log' \in SUBSET LogType /\ IsFiniteSet(log')
  <2>1. CASE e.kind = "link"
    BY <1>1, <2>1 DEF FileEvent, ReceiptsTypeOK
  <2>2. CASE e.kind # "link"
    <3> DEFINE h == [dep |-> e.dep, st |-> e.kind, shown |-> TRUE]
               T == {h : n \in {e.id} \cap Numbers}
    <3>1. log' = log \cup T  BY <2>2 DEF FileEvent, Logged
    <3>2. h \in LogType  BY <1>4, <1>5, <2>2 DEF LogType, Kind
    <3>3. T \in SUBSET {h}  OBVIOUS
    <3>4. IsFiniteSet(T)
      <4> HIDE DEF T, h
      <4>1. IsFiniteSet({h})  BY FS_Singleton
      <4> QED  BY <3>3, <4>1, FS_Subset
    <3> HIDE DEF T, h
    <3>5. IsFiniteSet(log \cup T)  BY <1>1, <3>4, FS_Union DEF ReceiptsTypeOK
    <3> QED  BY <1>1, <3>1, <3>2, <3>3, <3>5 DEF ReceiptsTypeOK
  <2> QED  BY <2>1, <2>2
<1>8. news' \in Seq(EventType) /\ Len(news') \in Nat
      /\ \A i \in 1..Len(news') : i + 1 \in 1..Len(news) /\ news'[i] = news[i + 1]
  BY <1>1, <1>2 DEF ReceiptsTypeOK
<1>9. NewsInv'
  BY <1>2, <1>8 DEF ReceiptsInv, NewsInv
<1>10. RowsInv' /\ DiskInv' /\ DropsInv'
  BY <1>2 DEF ReceiptsInv, RowsInv, DiskInv, DropsInv, Made
<1> HIDE DEF e
<1>11. CASE e.kind \in {"link", "deposited"}
  <2> DEFINE s == Saved(e.dep, e.id, e.ticket)
  <2>1. /\ receipt' = [receipt EXCEPT ![e.dep] = s] /\ filed' = filed \cup {e.dep}
        /\ ticketed' = ticketed \cup {d \in {e.dep} : e.ticket}
    BY <1>11 DEF FileEvent, e
  <2>2. receipt[e.dep].ticket \in BOOLEAN  BY <1>1, <1>4 DEF ReceiptsTypeOK
  <2>3. /\ s \in [tid : Nat, ticket : BOOLEAN] /\ s.tid # 0
        /\ s.ticket <=> (e.ticket \/ receipt[e.dep].ticket)
    BY <1>5, <2>2 DEF Saved
  <2>4. s # NoReceipt  BY <2>3 DEF NoReceipt
  <2> HIDE DEF s
  <2>5. ReceiptsTypeOK'
    BY <1>1, <1>2, <1>4, <1>7, <1>8, <2>1, <2>3 DEF ReceiptsTypeOK
  <2>6. StoreInv'
    BY <1>1, <1>2, <1>4, <1>6, <1>11, <2>1 DEF ReceiptsInv, StoreInv, Made, ReceiptsTypeOK
  <2>7. TokenIsKept'
    BY <1>1, <1>2, <1>4, <2>1, <2>4 DEF ReceiptsInv, ReceiptsTypeOK, ReceiptsAreKept, TokenIsKept
  <2>8. TicketIsKept'
    <3>1. SUFFICES ASSUME NEW d \in ticketed' \ revoked, blob[d] = "held"
                   PROVE  receipt'[d].ticket
      BY <1>2 DEF TicketIsKept
    <3>2. CASE d # e.dep
      BY <1>1, <2>1, <3>1, <3>2 DEF ReceiptsInv, ReceiptsTypeOK, ReceiptsAreKept, TicketIsKept
    <3>3. CASE d = e.dep
      <4>1. receipt'[d] = s  BY <1>1, <1>4, <2>1, <3>3 DEF ReceiptsTypeOK
      <4>2. e.ticket \/ d \in ticketed  BY <2>1, <3>1
      <4>3. d \in ticketed => receipt[d].ticket
        BY <3>1 DEF ReceiptsInv, ReceiptsAreKept, TicketIsKept
      <4> QED  BY <2>3, <3>3, <4>1, <4>2, <4>3, Zenon
    <3> QED  BY <3>2, <3>3
  <2> QED  BY <1>9, <1>10, <2>5, <2>6, <2>7, <2>8 DEF ReceiptsInv, ReceiptsAreKept
<1>12. CASE e.kind \notin {"link", "deposited"}
  <2>1. UNCHANGED <<receipt, filed, ticketed>>
    BY <1>12 DEF FileEvent, e
  <2>2. ReceiptsTypeOK'
    BY <1>1, <1>2, <1>7, <1>8, <2>1 DEF ReceiptsTypeOK
  <2>3. StoreInv' /\ ReceiptsAreKept'
    BY <1>2, <2>1, NoFileMoves, StoreStays
  <2> QED  BY <1>9, <1>10, <2>2, <2>3 DEF ReceiptsInv
<1> QED  BY <1>11, <1>12

LEMMA HiddenIs ==
    ASSUME log \in SUBSET LogType, IsFiniteSet(log), NEW d, NEW st
    PROVE  Hidden(d, st) \in SUBSET LogType /\ IsFiniteSet(Hidden(d, st))
<1> DEFINE f == [h \in log |-> [h EXCEPT !.shown = h.shown /\ ~(h.dep = d /\ h.st = st)]]
<1>1. f \in Surjection(log, Hidden(d, st))
  BY DEF Surjection, Hidden
<1>2. IsFiniteSet(Hidden(d, st))
  BY <1>1, FS_Surjection
<1>3. Hidden(d, st) \in SUBSET LogType
  BY DEF Hidden, LogType
<1> QED  BY <1>2, <1>3

LEMMA ForgetKeeps ==
    ASSUME ReceiptsInv, NEW n \in 1..Len(list), Forget(n)
    PROVE  ReceiptsInv'
<1>1. ReceiptsTypeOK /\ list \in Seq(RowType) /\ Len(list) \in Nat
  BY DEF ReceiptsInv, ReceiptsTypeOK
<1>2. /\ SetSt(n, "removed") /\ log' = Hidden(list[n].dep, list[n].st)
      /\ UNCHANGED <<disk, blob, clock, receipt, news, ask, drops, filed, ticketed, revoked>>
  BY DEF Forget
<1>3. /\ list' \in Seq(RowType) /\ Len(list') = Len(list)
      /\ list'[n].dep = list[n].dep /\ list'[n].st = "removed"
      /\ \A m \in 1..Len(list) : m # n => list'[m] = list[m]
  BY <1>1, <1>2, SetStIs
<1>4. ReceiptsTypeOK'
  BY <1>1, <1>2, <1>3, HiddenIs DEF ReceiptsTypeOK
<1>5. FilesGo  BY <1>2, NoFileMoves
<1>6. RowsInv'  BY <1>2, <1>3, <1>5, RowsStay
<1>7. StoreInv' /\ ReceiptsAreKept'  BY <1>2, <1>5, StoreStays
<1>8. DiskInv' /\ NewsInv'
  BY <1>2 DEF ReceiptsInv, DiskInv, NewsInv, Made
<1>9. DropsInv'
  <2>1. \A m \in 1..Len(list) : list'[m].dep = list[m].dep  BY <1>3
  <2>2. Len(list') \in Nat /\ Len(list') >= Len(list)  BY <1>1, <1>3
  <2> QED  BY <1>2, <2>1, <2>2, DropsStay
<1> QED  BY <1>4, <1>6, <1>7, <1>8, <1>9 DEF ReceiptsInv

LEMMA ListDepositsKeeps ==
    ASSUME ReceiptsInv, ListDeposits
    PROVE  ReceiptsInv'
<1>1. /\ receipt' = [d \in Dep |-> IF Reapable(d) THEN NoReceipt ELSE receipt[d]]
      /\ UNCHANGED <<list, disk, blob, clock, log, news, ask, drops, filed, ticketed, revoked>>
  BY DEF ListDeposits
<1>2. ReceiptsTypeOK'
  BY <1>1 DEF ReceiptsInv, ReceiptsTypeOK, NoReceipt
<1>3. RowsInv' /\ DiskInv' /\ NewsInv' /\ DropsInv'
  BY <1>1 DEF ReceiptsInv, RowsInv, DiskInv, NewsInv, DropsInv, Made
<1>4. StoreInv'
  BY <1>1 DEF ReceiptsInv, StoreInv, Made
<1>5. ReceiptsAreKept'
  <2>1. \A d \in Dep : blob[d] = "held" => receipt'[d] = receipt[d]
    BY <1>1 DEF ReceiptsInv, StoreInv, Reapable
  <2> QED  BY <1>1, <2>1 DEF ReceiptsInv, ReceiptsTypeOK, ReceiptsAreKept, TokenIsKept, TicketIsKept
<1> QED  BY <1>2, <1>3, <1>4, <1>5 DEF ReceiptsInv

LEMMA RevokeDepositKeeps ==
    ASSUME ReceiptsInv, NEW d \in Dep, RevokeDeposit(d)
    PROVE  ReceiptsInv'
<1>1. /\ receipt[d] # NoReceipt /\ receipt' = [receipt EXCEPT ![d] = NoReceipt]
      /\ revoked' = revoked \cup {d}
      /\ UNCHANGED <<clock, log, ask, filed, ticketed>>
  BY DEF RevokeDeposit
<1>2. blob[d] # "none"
  BY <1>1 DEF ReceiptsInv, StoreInv
<1>3. /\ receipt' \in [Dep -> [tid : Nat, ticket : BOOLEAN]]
      /\ \A x \in Dep : receipt'[x] = receipt[x] \/ (receipt'[x] = NoReceipt /\ x \in revoked')
  BY <1>1 DEF ReceiptsInv, ReceiptsTypeOK, NoReceipt
<1>4. blob' = blob \/ blob' = [blob EXCEPT ![d] = "gone"]
  BY DEF RevokeDeposit, Withdraw
<1>5. FilesGo
  BY <1>2, <1>3, <1>4 DEF ReceiptsInv, ReceiptsTypeOK, FilesGo, BlobType
<1>6. CASE receipt[d].tid \in Numbers
  <2>1. CancelRow(receipt[d].tid) /\ UNCHANGED blob
    BY <1>6 DEF RevokeDeposit
  <2> QED  BY <1>1, <1>5, <1>6, <2>1, CancelRowKeeps
<1>7. CASE receipt[d].tid \notin Numbers
  <2>1. UNCHANGED <<list, disk, drops, news>>
    BY <1>7 DEF RevokeDeposit, Quiet
  <2> QED  BY <1>1, <1>5, <2>1, FilesGone
<1> QED  BY <1>6, <1>7

LEMMA StopKeeps ==
    ASSUME ReceiptsInv, Stop
    PROVE  ReceiptsInv'
<1>1. /\ list' = <<>> /\ news' = <<>> /\ drops' = {}
      /\ disk' = [d \in Dep |-> IF disk[d] = "owed" THEN "none" ELSE disk[d]]
      /\ ask' = [d \in Dep |-> IF ask[d] = "none" THEN "none" ELSE "answered"]
      /\ UNCHANGED <<blob, clock, receipt, log, filed, ticketed, revoked>>
  BY DEF Stop
<1>2. ReceiptsTypeOK'
  BY <1>1 DEF ReceiptsInv, ReceiptsTypeOK
<1>3. RowsInv' /\ NewsInv' /\ DropsInv'
  BY <1>1 DEF RowsInv, NewsInv, DropsInv
<1>4. DiskInv' /\ StoreInv'
  BY <1>1 DEF ReceiptsInv, DiskInv, StoreInv, Made
<1>5. ReceiptsAreKept'
  BY <1>1 DEF ReceiptsInv, ReceiptsAreKept, TokenIsKept, TicketIsKept
<1> QED  BY <1>2, <1>3, <1>4, <1>5 DEF ReceiptsInv

LEMMA SetToSeqIs ==
    ASSUME NEW S, IsFiniteSet(S)
    PROVE  /\ SetToSeq(S) \in Seq(S)
           /\ \A i, j \in 1..Len(SetToSeq(S)) : SetToSeq(S)[i] = SetToSeq(S)[j] => i = j
<1> DEFINE c == Cardinality(S)
<1>1. c \in Nat /\ \E f \in [1..c -> S] : IsInjective(f)
  BY FS_CardinalityType DEF ExistsBijection, Bijection, Injection
<1>2. SetToSeq(S) \in [1..c -> S] /\ IsInjective(SetToSeq(S))
  BY <1>1 DEF SetToSeq
<1> HIDE DEF c
<1>3. SetToSeq(S) \in Seq(S) /\ Len(SetToSeq(S)) = c /\ DOMAIN SetToSeq(S) = 1..c
  BY <1>1, <1>2
<1> QED  BY <1>2, <1>3 DEF IsInjective

LEMMA RowsAre ==
    ASSUME NEW ds \in Seq(Dep), NEW st \in {"deposited", "uploading"}
    PROVE  /\ Rows(ds, st) \in Seq(RowType) /\ Len(Rows(ds, st)) = Len(ds)
           /\ \A i \in 1..Len(ds) : Rows(ds, st)[i].dep = ds[i] /\ Rows(ds, st)[i].st = st
<1>1. \A i \in 1..Len(ds) : Rows(ds, st)[i] = Entry(ds[i], st)
  BY DEF Rows
<1>2. \A d \in Dep : Entry(d, st) \in RowType /\ Entry(d, st).dep = d /\ Entry(d, st).st = st
  BY DEF Entry, RowType
<1>3. Rows(ds, st) \in [1..Len(ds) -> RowType]
  BY <1>2 DEF Rows
<1> QED  BY <1>1, <1>2, <1>3

LEMMA FinishedIs ==
    ASSUME log \in SUBSET LogType, IsFiniteSet(log)
    PROVE  /\ IsFiniteSet(Finished)
           /\ \A r \in Finished : r \in RowType /\ r.st \in Over
<1> DEFINE T == {x \in log : Board /\ x.shown}
           f == [h \in T |-> [dep |-> h.dep, st |-> IF h.st = "deposited" THEN "failed" ELSE h.st,
                              eye |-> FALSE]]
<1>1. T \in SUBSET log  OBVIOUS
<1>2. IsFiniteSet(T)
  <2> HIDE DEF T
  <2> QED  BY <1>1, FS_Subset
<1>3. f \in Surjection(T, Finished)
  BY DEF Surjection, Finished
<1>4. IsFiniteSet(Finished)
  <2> HIDE DEF T, f
  <2> QED  BY <1>2, <1>3, FS_Surjection
<1>5. ASSUME NEW r \in Finished
      PROVE  r \in RowType /\ r.st \in Over
  <2>1. PICK h \in log : r = [dep |-> h.dep, st |-> IF h.st = "deposited" THEN "failed" ELSE h.st,
                              eye |-> FALSE]
    BY <1>5, Zenon DEF Finished
  <2>2. h.dep \in Dep /\ h.st \in Over \cup {"deposited"}  BY DEF LogType
  <2>3. r.dep = h.dep /\ r.eye = FALSE /\ r.st \in Over
    BY <2>1, <2>2 DEF Over
  <2> QED  BY <2>1, <2>2, <2>3 DEF RowType
<1> QED  BY <1>4, <1>5

LEMMA StartKeeps ==
    ASSUME ReceiptsInv, drops = {}, Start
    PROVE  ReceiptsInv'
<1> DEFINE ds == SetToSeq(Restorable \cap Sealed)
           ls == SetToSeq(Restorable \cap Linked)
           fs == SetToSeq(Finished)
           A == Rows(ds, "deposited")
           B == Rows(ls, "uploading")
<1>1. /\ list' = A \o B \o fs /\ news' = Restored(ds)
      /\ disk' = [d \in Dep |-> IF d \in Restorable THEN "kept" ELSE "none"]
      /\ UNCHANGED <<blob, clock, receipt, log, ask, drops, filed, ticketed, revoked>>
  BY DEF Start
<1>2. ReceiptsTypeOK /\ DiskInv  BY DEF ReceiptsInv
<1>3. \A d \in Restorable : d \in Dep /\ disk[d] = "kept"
  BY DEF Restorable
<1>4. /\ ds \in Seq(Restorable \cap Sealed) /\ ls \in Seq(Restorable \cap Linked)
      /\ \A i, j \in 1..Len(ls) : ls[i] = ls[j] => i = j
  <2>1. IsFiniteSet(Sealed) /\ IsFiniteSet(Linked)
    BY ReceiptsConstants DEF ReceiptsConstants
  <2>2. IsFiniteSet(Restorable \cap Sealed) /\ IsFiniteSet(Restorable \cap Linked)
    BY <2>1, FS_Subset
  <2> QED  BY <2>2, SetToSeqIs
<1>5. fs \in Seq(Finished) /\ \A r \in Finished : r \in RowType /\ r.st \in Over
  BY <1>2, FinishedIs, SetToSeqIs DEF ReceiptsTypeOK
<1> HIDE DEF ds, ls, fs
<1>6. /\ ds \in Seq(Dep) /\ ls \in Seq(Dep)
      /\ \A i \in 1..Len(ds) : ds[i] \in Restorable /\ ds[i] \in Sealed
      /\ \A i \in 1..Len(ls) : ls[i] \in Restorable /\ ls[i] \in Linked
  BY <1>3, <1>4
<1>7. /\ A \in Seq(RowType) /\ Len(A) = Len(ds)
      /\ \A i \in 1..Len(ds) : A[i].dep = ds[i] /\ A[i].st = "deposited"
  BY <1>6, RowsAre
<1>8. /\ B \in Seq(RowType) /\ Len(B) = Len(ls)
      /\ \A i \in 1..Len(ls) : B[i].dep = ls[i] /\ B[i].st = "uploading"
  BY <1>6, RowsAre
<1>9. fs \in Seq(RowType) /\ \A i \in 1..Len(fs) : fs[i].st \in Over
  BY <1>5
<1> HIDE DEF A, B
<1>10. /\ A \o B \in Seq(RowType) /\ Len(A \o B) = Len(A) + Len(B)
       /\ \A i \in 1..Len(A) + Len(B) : (A \o B)[i] = IF i <= Len(A) THEN A[i] ELSE B[i - Len(A)]
  <2>1. A \o B \in Seq(RowType) /\ Len(A \o B) = Len(A) + Len(B)
    BY <1>7, <1>8, ConcatProperties
  <2>2. \A i \in 1..Len(A) + Len(B) : (A \o B)[i] = IF i <= Len(A) THEN A[i] ELSE B[i - Len(A)]
    BY <1>7, <1>8
  <2> QED  BY <2>1, <2>2
<1>11. /\ list' \in Seq(RowType) /\ Len(list') = Len(A) + Len(B) + Len(fs)
       /\ \A i \in 1..Len(list') :
            list'[i] = IF i <= Len(A) + Len(B) THEN (A \o B)[i] ELSE fs[i - (Len(A) + Len(B))]
  BY <1>1, <1>9, <1>10, ConcatProperties
<1>12. Len(A) \in Nat /\ Len(B) \in Nat /\ Len(fs) \in Nat
  BY <1>7, <1>8, <1>9
<1>13. \A n \in 1..Len(list') :
        \/ n \in 1..Len(A) /\ list'[n] = A[n]
        \/ n - Len(A) \in 1..Len(B) /\ list'[n] = B[n - Len(A)]
        \/ n - (Len(A) + Len(B)) \in 1..Len(fs) /\ list'[n] = fs[n - (Len(A) + Len(B))]
  BY <1>10, <1>11, <1>12
<1>14. \A n \in 1..Len(list') :
        /\ list'[n].st = "uploading" => n - Len(A) \in 1..Len(ls) /\ list'[n].dep = ls[n - Len(A)]
        /\ list'[n].st = "deposited" => n \in 1..Len(ds) /\ list'[n].dep = ds[n]
  BY ZenonT(60), <1>7, <1>8, <1>9, <1>13 DEF Over
<1>15. RowsInv'
  <2>1. \A n \in 1..Len(list') :
          /\ list'[n].st = "uploading" =>
                list'[n].dep \in Linked /\ list'[n].dep \in Dep /\ disk[list'[n].dep] = "kept"
          /\ list'[n].st = "deposited" =>
                list'[n].dep \in Sealed /\ list'[n].dep \in Dep /\ disk[list'[n].dep] = "kept"
    BY <1>3, <1>6, <1>14
  <2>2. Sealed \cap Linked = {}  BY ReceiptsConstants DEF ReceiptsConstants
  <2>3. \A n \in 1..Len(list') :
          /\ list'[n].st = "uploading" => blob[list'[n].dep] = "none" /\ Made(list'[n].dep)
          /\ list'[n].st = "deposited" => blob[list'[n].dep] # "none"
    BY <1>2, <2>1, <2>2 DEF DiskInv
  <2>4. \A n, m \in 1..Len(list') :
          (list'[n].st = "uploading" /\ list'[m].st = "uploading" /\ list'[n].dep = list'[m].dep)
              => n = m
    <3>1. SUFFICES ASSUME NEW n \in 1..Len(list'), NEW m \in 1..Len(list'),
                          list'[n].st = "uploading", list'[m].st = "uploading",
                          list'[n].dep = list'[m].dep
                   PROVE  n = m
      OBVIOUS
    <3>2. /\ n - Len(A) \in 1..Len(ls) /\ m - Len(A) \in 1..Len(ls)
          /\ ls[n - Len(A)] = ls[m - Len(A)]
      BY <1>14, <3>1
    <3>3. n - Len(A) = m - Len(A)  BY <1>4, <3>2
    <3> QED  BY <1>12, <3>3
  <2> QED  BY <1>1, <2>3, <2>4 DEF RowsInv, Made
<1>16. /\ news' \in Seq(EventType) /\ Len(news') = Len(ds)
       /\ \A i \in 1..Len(ds) : news'[i].dep = ds[i]
  <2> DEFINE ev(i) == Event("deposited", i, ds[i], FALSE)
  <2>1. ASSUME NEW i \in 1..Len(ds)
        PROVE  ev(i) \in EventType /\ ev(i).dep = ds[i]
    <3>1. i \in Nat \ {0} /\ ds[i] \in Dep /\ "deposited" \in Kind
      BY <1>6, <2>1 DEF Kind
    <3> QED  BY <3>1, EventIs
  <2>2. news' = [i \in 1..Len(ds) |-> ev(i)]
    BY <1>1 DEF Restored
  <2> HIDE DEF ev
  <2>3. news' \in [1..Len(ds) -> EventType] /\ Len(ds) \in Nat  BY <1>6, <2>1, <2>2
  <2> QED  BY <2>1, <2>2, <2>3
<1>17. NewsInv'
  <2>1. Sealed \cap Linked = {}  BY ReceiptsConstants DEF ReceiptsConstants
  <2>2. \A i \in 1..Len(ds) : blob[ds[i]] # "none"
    BY <1>2, <1>3, <1>6, <2>1 DEF DiskInv
  <2> QED  BY <1>1, <1>16, <2>2 DEF NewsInv
<1>18. ReceiptsTypeOK'
  BY <1>1, <1>2, <1>11, <1>16 DEF ReceiptsTypeOK
<1>19. DiskInv'
  BY <1>1, <1>2, <1>3 DEF DiskInv, Made
<1>20. StoreInv' /\ ReceiptsAreKept'
  BY <1>1, NoFileMoves, StoreStays
<1>21. DropsInv'
  BY <1>1 DEF DropsInv
<1> QED  BY <1>15, <1>17, <1>18, <1>19, <1>20, <1>21 DEF ReceiptsInv

\* Nothing is under way while the process is down.
DownInv == ~up => drops = {}

LEMMA DownKeeps ==
    ASSUME DownInv, ReceiptsNext
    PROVE  DownInv'
<1>1. CASE \E d \in Dep : \/ Pack(d) \/ Refuse(d) \/ Create(d) \/ Wait(d) \/ Answer(d)
                          \/ CleanUp(d) \/ Persist(d) \/ BlobGoes(d) \/ Tick(d)
  BY <1>1 DEF DownInv, Pack, Refuse, Create, Wait, Answer, CleanUp, Persist, BlobGoes, Tick
<1>2. CASE \E d \in Dep : RevokeDeposit(d)
  BY <1>2 DEF DownInv, RevokeDeposit
<1>3. CASE \E n \in 1..Len(list) : Land(n) \/ FailUpload(n) \/ Confirm(n) \/ Forget(n)
  BY <1>3 DEF DownInv, Land, FailUpload, Confirm, Forget
<1>4. CASE \E n \in 1..Len(list) : Cancel(n)
  BY <1>4 DEF DownInv, Cancel
<1>5. CASE \E t \in drops : Dropped(t)
  BY <1>5 DEF DownInv, Dropped
<1>6. CASE FileEvent \/ ListDeposits \/ Stop \/ Start
  BY <1>6 DEF DownInv, FileEvent, ListDeposits, Stop, Start
<1> QED  BY <1>1, <1>2, <1>3, <1>4, <1>5, <1>6 DEF ReceiptsNext

LEMMA NextReceipts ==
    ASSUME ReceiptsInv, DownInv, [ReceiptsNext]_receiptVars
    PROVE  ReceiptsInv'
<1>1. ASSUME NEW d \in Dep, \/ Pack(d) \/ Refuse(d) \/ Create(d) \/ Wait(d) \/ Answer(d)
                            \/ CleanUp(d) \/ Persist(d) \/ BlobGoes(d) \/ Tick(d)
                            \/ RevokeDeposit(d)
      PROVE  ReceiptsInv'
  BY <1>1, RequestsKeep, CreateKeeps, PersistKeeps, BlobGoesKeeps, TickKeeps, RevokeDepositKeeps
<1>2. ASSUME NEW n \in 1..Len(list),
             Land(n) \/ FailUpload(n) \/ Confirm(n) \/ Cancel(n) \/ Forget(n)
      PROVE  ReceiptsInv'
  BY <1>2, LandKeeps, FailUploadKeeps, ConfirmKeeps, CancelKeeps, ForgetKeeps
<1>3. ASSUME NEW t \in drops, Dropped(t)
      PROVE  ReceiptsInv'
  BY <1>3, DroppedKeeps
<1>4. ASSUME FileEvent \/ ListDeposits \/ Stop
      PROVE  ReceiptsInv'
  BY <1>4, FileEventKeeps, ListDepositsKeeps, StopKeeps
<1>5. ASSUME Start
      PROVE  ReceiptsInv'
  BY <1>5, StartKeeps DEF DownInv, Start
<1>6. ASSUME UNCHANGED receiptVars
      PROVE  ReceiptsInv'
  BY <1>6, NoFileMoves, FilesGone DEF receiptVars
<1> QED  BY <1>1, <1>2, <1>3, <1>4, <1>5, <1>6 DEF ReceiptsNext

\* A receipt, once filed, keeps the token and the ticket for as long as the
\* relay holds the file and the owner has not revoked it: through any number
\* of restarts, filings, sweeps and withdrawals (deposits.rs, save and reap;
\* daemon.rs, revoke_deposit).
THEOREM ReceiptsKept == ReceiptsSpec => []ReceiptsAreKept
<1>1. ReceiptsInit => ReceiptsInv /\ DownInv
  BY InitReceipts DEF ReceiptsInit, DownInv
<1>2. ReceiptsInv /\ DownInv /\ [ReceiptsNext]_receiptVars => (ReceiptsInv /\ DownInv)'
  <2>1. DownInv /\ UNCHANGED receiptVars => DownInv'
    BY DEF DownInv, receiptVars
  <2> QED  BY <2>1, NextReceipts, DownKeeps
<1>3. ReceiptsInv => ReceiptsAreKept
  BY DEF ReceiptsInv
<1> QED  BY <1>1, <1>2, <1>3, PTL DEF ReceiptsSpec

-----------------------------------------------------------------------------
(* Intake: the inductive invariant.                                        *)

TaskStep == {"idle", "dropping", "sweeping", "retiring", "taking", "parking", "asking"}
TaskType == [at : TaskStep, offer : Offered \cup {""}, olds : SUBSET Offered]
CallType == [at : {"none", "taking", "rejecting"}, offer : Offered \cup {""}]
SideType == [kind : {"gone", "question"}, offer : Offered]
SlotType == [Offered -> {"unsent", "listed", "acked"}]
FetchType == [Offered -> {"none", "running", "paused", "done"}]

IntakeTypeOK ==
    /\ slot \in SlotType /\ fetch \in FetchType /\ begun \in [Offered -> Nat]
    /\ met \in SUBSET Offered /\ pending \in SUBSET Offered /\ parked \in SUBSET Offered
    /\ queue \in Seq(Offered) /\ answered \in SUBSET Offered
    /\ task \in TaskType /\ (task.at # "idle" => task.offer \in Offered)
    /\ call \in [Asker -> CallType]
    /\ \A c \in Asker : call[c].at # "none" => call[c].offer \in Offered

WindowTypeOK ==
    /\ chan \in Seq(Offered) /\ board \in SUBSET Offered
    /\ side \in Seq(SideType) /\ snap \in Seq(SUBSET Offered)

\* Who has claimed an offer and not started its download yet.
TaskTakes(o) == task.at = "taking" /\ task.offer = o
CallTakes(c, o) == call[c].at = "taking" /\ call[c].offer = o

\* The removal from the engine's map is the claim, and there is one of them.
ClaimInv ==
    /\ pending \subseteq met
    /\ \A o \in Offered :
        /\ begun[o] <= 1
        /\ (o \in pending \/ o \notin met) => begun[o] = 0 /\ ~TaskTakes(o)
        /\ TaskTakes(o) => begun[o] = 0
        /\ \A c \in Asker :
            /\ (o \in pending \/ o \notin met) => ~CallTakes(c, o)
            /\ CallTakes(c, o) => begun[o] = 0 /\ ~TaskTakes(o)
            /\ \A b \in Asker : (CallTakes(b, o) /\ CallTakes(c, o)) => b = c

\* What is under way has been decided about.
AnswerInv ==
    /\ \A o \in Offered : fetch[o] # "none" => o \in answered
    /\ task.at \in {"taking", "dropping"} => task.offer \in answered
    /\ \A c \in Asker : call[c].at # "none" => call[c].offer \in answered

Spoken(o) == \E x \in answered : SamePost(x, o)
Safe(o) == slot[o] = "listed" \/ Spoken(o)

\* What waits for the intake task waits once, is not a question yet, and is
\* still to be had; so is what the task is putting in the place of older posts.
QueueInv ==
    /\ parked \subseteq met
    /\ \A i \in 1..Len(queue) :
        queue[i] \in met /\ queue[i] \notin parked /\ Safe(queue[i])
    /\ \A i, j \in 1..Len(queue) : queue[i] = queue[j] => i = j
    /\ task.at # "idle" =>
        task.offer \in met /\ \A i \in 1..Len(queue) : queue[i] # task.offer
    /\ task.at \in {"sweeping", "retiring"} =>
        /\ Safe(task.offer) /\ task.offer \notin task.olds /\ task.olds \subseteq met
        /\ \A x \in task.olds : SamePost(x, task.offer)
        /\ \A i \in 1..Len(queue) : queue[i] \notin task.olds
    /\ task.at = "retiring" => task.olds # {}

Askable(o) == Sender[o] = Me => o \in Locked
AskInv ==
    /\ \A o \in board \cup parked : Askable(o)
    /\ task.at \in {"parking", "asking"} => Askable(task.offer)
    /\ \A i \in 1..Len(side) : side[i].kind = "question" => Askable(side[i].offer)
    /\ \A i \in 1..Len(snap) : \A o \in snap[i] : Askable(o)

CoreInv == IntakeTypeOK /\ ClaimInv /\ AnswerInv /\ QueueInv /\ NoFileLost
IntakeInv == CoreInv /\ WindowTypeOK /\ AskInv

-----------------------------------------------------------------------------

LEMMA InitIntake == IntakeInit => IntakeInv
<1> SUFFICES ASSUME IntakeInit PROVE IntakeInv  OBVIOUS
<1>1. /\ task.at = "idle" /\ task.offer = "" /\ task.olds = {}
      /\ task \in TaskType /\ queue = <<>> /\ parked = {} /\ side = <<>> /\ snap = <<>> /\ board = {}
  BY DEF IntakeInit, Resting, TaskType, TaskStep
<1>2. \A c \in Asker : call[c].at = "none"
  BY DEF IntakeInit, NoCall
<1>3. IntakeTypeOK
  <2>1. call \in [Asker -> CallType]
    BY DEF IntakeInit, NoCall, CallType
  <2>2. slot \in SlotType /\ fetch \in FetchType /\ begun \in [Offered -> Nat] /\ queue \in Seq(Offered)
    BY DEF IntakeInit, SlotType, FetchType
  <2> QED  BY <1>1, <1>2, <2>1, <2>2 DEF IntakeInit, IntakeTypeOK
<1>4. WindowTypeOK
  BY DEF IntakeInit, WindowTypeOK
<1>5. ClaimInv
  <2>1. \A o \in Offered : begun[o] = 0  BY DEF IntakeInit
  <2>2. \A o \in Offered : ~TaskTakes(o) /\ \A c \in Asker : ~CallTakes(c, o)
    BY <1>1, <1>2 DEF TaskTakes, CallTakes
  <2>3. pending \subseteq met  BY DEF IntakeInit
  <2> QED  BY <2>1, <2>2, <2>3 DEF ClaimInv
<1>6. AnswerInv /\ NoFileLost
  BY <1>1, <1>2 DEF IntakeInit, AnswerInv, NoFileLost
<1>7. QueueInv
  <2>1. Len(queue) = 0 /\ parked = {} /\ task.at = "idle"  BY <1>1
  <2> QED  BY <2>1 DEF QueueInv
<1>8. AskInv
  <2>1. Len(side) = 0 /\ Len(snap) = 0 /\ board = {} /\ parked = {} /\ task.at = "idle"  BY <1>1
  <2> QED  BY <2>1 DEF AskInv
<1> QED  BY <1>3, <1>4, <1>5, <1>6, <1>7, <1>8 DEF IntakeInv, CoreInv

-----------------------------------------------------------------------------
(* The parts of the invariant under the kinds of change there are.         *)

LEMMA AckIs ==
    ASSUME slot \in SlotType, NEW os \in SUBSET Offered, Ack(os)
    PROVE  /\ slot' \in SlotType
           /\ \A o \in Offered : slot'[o] = slot[o] \/ (o \in os /\ slot'[o] = "acked")
BY DEF Ack, SlotType

\* An offer leaves the relay only if a post of its file has been decided about.
Settles ==
    /\ slot' \in SlotType /\ answered' \in SUBSET Offered /\ answered \subseteq answered'
    /\ \A o \in Offered :
        \/ slot'[o] = slot[o]
        \/ slot[o] = "unsent" /\ slot'[o] = "listed"
        \/ \E x \in answered' : SamePost(x, o)

LEMMA SafeStays ==
    ASSUME CoreInv, Settles
    PROVE  NoFileLost' /\ \A o \in Offered : Safe(o) => Safe(o)'
<1>1. \A o \in Offered : Safe(o) => Safe(o)'
  BY DEF Settles, Safe, Spoken, SamePost
<1>2. NoFileLost'
  <2>1. SUFFICES ASSUME NEW o \in Offered, slot'[o] # "unsent"
                 PROVE  \E x \in Offered : SamePost(x, o) /\ (x \in answered' \/ slot'[x] = "listed")
    BY DEF NoFileLost, SamePost
  <2>2. CASE \E x \in answered' : SamePost(x, o)
    BY <2>2 DEF Settles
  <2>3. CASE slot[o] = "unsent" /\ slot'[o] = "listed"
    BY <2>3 DEF SamePost
  <2>4. CASE slot'[o] = slot[o]
    <3>1. PICK x \in Offered : SamePost(x, o) /\ (x \in answered \/ slot[x] = "listed")
      BY <2>1, <2>4 DEF CoreInv, NoFileLost
    <3>2. CASE x \in answered
      BY <3>1, <3>2 DEF Settles
    <3>3. CASE slot[x] = "listed"
      <4>1. slot'[x] = "listed" \/ \E y \in answered' : SamePost(y, x)
        BY <3>3 DEF Settles
      <4>2. ASSUME NEW y \in answered', SamePost(y, x)
            PROVE  y \in Offered /\ SamePost(y, o)
        BY <3>1, <4>2 DEF SamePost, Settles
      <4> QED  BY <3>1, <4>1, <4>2
    <3> QED  BY <3>1, <3>2, <3>3
  <2> QED  BY <2>1, <2>2, <2>3, <2>4 DEF Settles
<1> QED  BY <1>1, <1>2

LEMMA ClaimStays ==
    ASSUME CoreInv, pending' \subseteq pending, met' = met, begun' = begun,
           \A o \in Offered : TaskTakes(o)' => TaskTakes(o),
           \A c \in Asker, o \in Offered : CallTakes(c, o)' => CallTakes(c, o)
    PROVE  ClaimInv'
BY DEF CoreInv, ClaimInv

LEMMA QueueStays ==
    ASSUME CoreInv, \A o \in Offered : Safe(o) => Safe(o)',
           parked' \subseteq parked, met \subseteq met', UNCHANGED <<queue, task>>
    PROVE  QueueInv'
<1>1. \A i \in 1..Len(queue) : queue[i] \in Offered
  BY DEF CoreInv, IntakeTypeOK
<1>2. task.at # "idle" => task.offer \in Offered
  BY DEF CoreInv, IntakeTypeOK
<1>3. \A i \in 1..Len(queue) : Safe(queue[i]) => Safe(queue[i])'
  BY <1>1 DEF Safe, Spoken, SamePost
<1>4. task.at # "idle" => (Safe(task.offer) => Safe(task.offer)')
  BY <1>2 DEF Safe, Spoken, SamePost
<1>5. QueueInv  BY DEF CoreInv
<1> QED  BY <1>3, <1>4, <1>5 DEF QueueInv, SamePost

LEMMA AnswerStays ==
    ASSUME CoreInv, answered \subseteq answered', UNCHANGED <<task, call>>,
           \A o \in Offered : fetch'[o] # "none" => (fetch[o] # "none" \/ o \in answered')
    PROVE  AnswerInv'
BY DEF CoreInv, AnswerInv

\* Nothing but the window, the address book and the bound moves.
LEMMA CoreStays ==
    ASSUME CoreInv,
           UNCHANGED <<slot, met, pending, parked, queue, task, call, fetch, begun, answered>>
    PROVE  CoreInv'
<1>1. Settles
  BY DEF CoreInv, IntakeTypeOK, Settles
<1>2. NoFileLost' /\ \A o \in Offered : Safe(o) => Safe(o)'
  BY <1>1, SafeStays
<1>3. ClaimInv'
  BY ClaimStays DEF TaskTakes, CallTakes
<1>4. QueueInv'
  BY <1>2, QueueStays
<1>5. AnswerInv'
  BY AnswerStays
<1>6. IntakeTypeOK'
  BY DEF CoreInv, IntakeTypeOK
<1> QED  BY <1>2, <1>3, <1>4, <1>5, <1>6 DEF CoreInv

\* The intake task says something on the side channel.
LEMMA SayIs ==
    ASSUME side \in Seq(SideType), NEW k \in {"gone", "question"}, NEW o \in Offered, Say(k, o)
    PROVE  /\ side' \in Seq(SideType)
           /\ \A i \in 1..Len(side') :
                \/ side'[i].kind = k /\ side'[i].offer = o
                \/ i \in 1..Len(side) /\ side'[i] = side[i]
<1> DEFINE e == [kind |-> k, offer |-> o]
<1>1. e \in SideType /\ e.kind = k /\ e.offer = o  BY DEF SideType
<1>2. side' = Append(side, e)  BY DEF Say
<1> HIDE DEF e
<1> QED  BY <1>1, <1>2

\* What is asked about stays askable if the window and its channels do not move.
LEMMA AskStays ==
    ASSUME AskInv, parked' \subseteq parked, board' \subseteq board, UNCHANGED <<side, snap>>,
           task'.at \notin {"parking", "asking"} \/ task' = task
    PROVE  AskInv'
BY DEF AskInv, Askable

\* ... and if an offer is announced to be gone.
LEMMA AskStaysGone ==
    ASSUME AskInv, WindowTypeOK, parked' \subseteq parked, board' \subseteq board, UNCHANGED snap,
           NEW o \in Offered, Say("gone", o),
           task'.at \notin {"parking", "asking"} \/ task' = task
    PROVE  AskInv' /\ side' \in Seq(SideType)
<1>1. /\ side' \in Seq(SideType)
      /\ \A i \in 1..Len(side') :
            \/ side'[i].kind = "gone" /\ side'[i].offer = o
            \/ i \in 1..Len(side) /\ side'[i] = side[i]
  BY SayIs DEF WindowTypeOK
<1> QED  BY <1>1 DEF AskInv, Askable

-----------------------------------------------------------------------------
(* The window and the address book.                                        *)

LEMMA WindowKeeps ==
    ASSUME IntakeInv, WindowHears \/ WindowHearsSide \/ WindowAsks \/ WindowLoads
                          \/ \E p \in Peer, w \in {"stranger", "trusted", "blocked"} : EditBook(p, w)
    PROVE  IntakeInv'
<1>1. UNCHANGED <<slot, met, pending, parked, queue, task, call, fetch, begun, answered>>
  BY DEF WindowHears, WindowHearsSide, WindowAsks, WindowLoads, EditBook
<1>2. CoreInv'
  BY <1>1, CoreStays DEF IntakeInv
<1>3. parked \in SUBSET Offered /\ WindowTypeOK /\ AskInv
  BY DEF IntakeInv, CoreInv, IntakeTypeOK
<1>4. CASE WindowHears
  <2> DEFINE o == Head(chan)
  <2>1. /\ chan # <<>> /\ chan' = Tail(chan) /\ UNCHANGED <<side, snap>>
        /\ board' = IF Stamped(o) THEN Drawn(o) \ {o} ELSE Drawn(o) \cup {o}
    BY <1>4 DEF WindowHears
  <2>2. o \in Offered /\ chan' \in Seq(Offered)  BY <1>3, <2>1 DEF WindowTypeOK
  <2>3. ~Stamped(o) => Askable(o)
    BY DEF Stamped, AutoAccepts, Askable
  <2> HIDE DEF o
  <2>4. \A x \in board' : x \in board \/ (x = o /\ ~Stamped(o))
    BY <2>1 DEF Drawn
  <2>5. \A x \in board' : Askable(x) /\ x \in Offered
    BY <1>3, <2>2, <2>3, <2>4 DEF AskInv, WindowTypeOK
  <2>6. AskInv'
    BY <1>1, <1>3, <2>1, <2>5 DEF AskInv, Askable
  <2>7. WindowTypeOK'
    BY <1>3, <2>1, <2>2, <2>5 DEF WindowTypeOK
  <2> QED  BY <1>2, <2>6, <2>7 DEF IntakeInv
<1>5. CASE WindowHearsSide
  <2> DEFINE e == Head(side)
  <2>1. /\ side # <<>> /\ side' = Tail(side) /\ UNCHANGED <<chan, snap>>
        /\ board' = IF e.kind = "gone" THEN board \ {e.offer} ELSE Drawn(e.offer) \cup {e.offer}
    BY <1>5 DEF WindowHearsSide
  <2>2. /\ 1 \in 1..Len(side) /\ e = side[1] /\ side' \in Seq(SideType) /\ e \in SideType
        /\ \A i \in 1..Len(side') : i + 1 \in 1..Len(side) /\ side'[i] = side[i + 1]
    BY <1>3, <2>1 DEF WindowTypeOK
  <2>3. e.offer \in Offered /\ e.kind \in {"gone", "question"}
    BY <2>2 DEF SideType
  <2>4. e.kind = "question" => Askable(e.offer)
    BY <1>3, <2>2 DEF AskInv
  <2> HIDE DEF e
  <2>5. \A x \in board' : x \in board \/ (x = e.offer /\ e.kind = "question")
    BY <2>1, <2>3 DEF Drawn
  <2>6. \A x \in board' : Askable(x) /\ x \in Offered
    BY <1>3, <2>3, <2>4, <2>5 DEF AskInv, WindowTypeOK
  <2>7. AskInv'
    BY <1>1, <1>3, <2>1, <2>2, <2>6 DEF AskInv, Askable
  <2>8. WindowTypeOK'
    BY <1>3, <2>1, <2>2, <2>6 DEF WindowTypeOK
  <2> QED  BY <1>2, <2>7, <2>8 DEF IntakeInv
<1>6. CASE WindowAsks
  <2>1. snap' = <<parked>> /\ UNCHANGED <<chan, side, board>>
    BY <1>6 DEF WindowAsks
  <2>2. snap' \in Seq(SUBSET Offered) /\ Len(snap') = 1 /\ snap'[1] = parked
    BY <1>3, <2>1
  <2>3. AskInv'
    BY <1>1, <1>3, <2>1, <2>2 DEF AskInv, Askable
  <2>4. WindowTypeOK'
    BY <1>3, <2>1, <2>2 DEF WindowTypeOK
  <2> QED  BY <1>2, <2>3, <2>4 DEF IntakeInv
<1>7. CASE WindowLoads
  <2>1. snap # <<>> /\ board' = snap[1] /\ snap' = <<>> /\ UNCHANGED <<chan, side>>
    BY <1>7 DEF WindowLoads
  <2>2. 1 \in 1..Len(snap) /\ snap[1] \in SUBSET Offered
    BY <1>3, <2>1 DEF WindowTypeOK
  <2>3. Len(snap') = 0  BY <2>1
  <2>4. AskInv'
    BY <1>1, <1>3, <2>1, <2>2, <2>3 DEF AskInv, Askable
  <2>5. WindowTypeOK'
    BY <1>3, <2>1, <2>2 DEF WindowTypeOK
  <2> QED  BY <1>2, <2>4, <2>5 DEF IntakeInv
<1>8. CASE \E p \in Peer, w \in {"stranger", "trusted", "blocked"} : EditBook(p, w)
  <2>1. UNCHANGED <<chan, side, board, snap>>
    BY <1>8 DEF EditBook
  <2>2. AskInv'
    BY <1>1, <1>3, <2>1, AskStays
  <2>3. WindowTypeOK'
    BY <1>3, <2>1 DEF WindowTypeOK
  <2> QED  BY <1>2, <2>2, <2>3 DEF IntakeInv
<1> QED  BY <1>4, <1>5, <1>6, <1>7, <1>8

-----------------------------------------------------------------------------
(* The relay and the poll.                                                 *)

LEMMA SendKeeps ==
    ASSUME IntakeInv, NEW o \in Offered, Send(o)
    PROVE  IntakeInv'
<1>1. /\ slot[o] = "unsent" /\ slot' = [slot EXCEPT ![o] = "listed"]
      /\ UNCHANGED <<met, pending, parked, queue, task, call, fetch, begun, answered, chan, side,
                     board, snap>>
  BY DEF Send
<1>2. CoreInv /\ WindowTypeOK /\ AskInv /\ IntakeTypeOK  BY DEF IntakeInv, CoreInv
<1>3. Settles
  BY <1>1, <1>2 DEF IntakeTypeOK, Settles, SlotType
<1>4. NoFileLost' /\ \A x \in Offered : Safe(x) => Safe(x)'
  BY <1>2, <1>3, SafeStays
<1>5. ClaimInv' /\ QueueInv' /\ AnswerInv'
  BY <1>1, <1>2, <1>4, ClaimStays, QueueStays, AnswerStays DEF TaskTakes, CallTakes
<1>6. IntakeTypeOK'
  BY <1>1, <1>2, <1>3 DEF IntakeTypeOK, Settles
<1>7. AskInv' /\ WindowTypeOK'
  BY <1>1, <1>2, AskStays DEF WindowTypeOK
<1> QED  BY <1>4, <1>5, <1>6, <1>7 DEF IntakeInv, CoreInv

\* A download that runs or waits is one somebody decided about.
LEMMA FetchIsSpoken ==
    ASSUME CoreInv, NEW o \in Offered, Known(o)
    PROVE  Spoken(o)
<1>1. PICK x \in FetchOf(o) : TRUE  BY DEF Known
<1>2. x \in Offered /\ SamePost(x, o) /\ fetch[x] # "none"  BY DEF FetchOf
<1> QED  BY <1>2 DEF CoreInv, AnswerInv, Spoken

LEMMA ArriveKeeps ==
    ASSUME IntakeInv, NEW o \in Offered, Arrive(o)
    PROVE  IntakeInv'
<1>1. /\ slot[o] = "listed" /\ o \notin met /\ met' = met \cup {o}
      /\ UNCHANGED <<parked, task, call, fetch, begun, answered, side, board, snap>>
  BY DEF Arrive
<1>2. CoreInv /\ WindowTypeOK /\ AskInv /\ IntakeTypeOK /\ ClaimInv /\ QueueInv
  BY DEF IntakeInv, CoreInv
<1>3. AskInv'
  BY <1>1, <1>2, AskStays
<1>4. AnswerInv'
  BY <1>1, <1>2, AnswerStays
<1>5. CASE ArriveKnown(o)
  <2>1. Known(o) /\ pending' = pending \ Copies(o) /\ UNCHANGED <<queue, chan>>
    BY <1>5 DEF ArriveKnown
  <2>2. Spoken(o)  BY <1>2, <2>1, FetchIsSpoken
  <2>3. Copies(o) \cup {o} \in SUBSET Offered /\ \A x \in Copies(o) \cup {o} : Spoken(x)
    BY <1>2, <2>2 DEF Copies, Spoken, SamePost, IntakeTypeOK
  <2>4. Settles
    <3>1. slot' = slot \/ Ack(Copies(o) \cup {o})
      BY <1>5 DEF ArriveKnown
    <3>2. CASE slot' = slot
      BY <1>1, <1>2, <3>2 DEF Settles, IntakeTypeOK
    <3>3. CASE Ack(Copies(o) \cup {o})
      <4>1. /\ slot' \in SlotType
            /\ \A x \in Offered : slot'[x] = slot[x] \/ (x \in Copies(o) \cup {o} /\ slot'[x] = "acked")
        BY <1>2, <2>3, <3>3, AckIs DEF IntakeTypeOK
      <4> QED  BY <1>1, <1>2, <2>3, <4>1 DEF Settles, IntakeTypeOK, Spoken
    <3> QED  BY <3>1, <3>2, <3>3
  <2>5. NoFileLost' /\ \A x \in Offered : Safe(x) => Safe(x)'
    BY <1>2, <2>4, SafeStays
  <2>6. QueueInv'
    BY <1>1, <1>2, <2>1, <2>5, QueueStays
  <2>7. ClaimInv'
    BY <1>1, <1>2, <2>1 DEF ClaimInv, TaskTakes, CallTakes
  <2>8. IntakeTypeOK'
    BY <1>1, <1>2, <2>1, <2>4 DEF IntakeTypeOK, Settles
  <2>9. WindowTypeOK'
    BY <1>1, <1>2, <2>1 DEF WindowTypeOK
  <2> QED  BY <1>3, <1>4, <2>5, <2>6, <2>7, <2>8, <2>9 DEF IntakeInv, CoreInv
<1>6. CASE ArriveNew(o)
  <2>1. /\ pending' = pending \cup {o} /\ UNCHANGED slot
        /\ queue' = Append(queue, o) /\ chan' = Append(chan, o)
    BY <1>6 DEF ArriveNew
  <2>2. Settles
    BY <1>1, <1>2, <2>1 DEF Settles, IntakeTypeOK
  <2>3. NoFileLost' /\ \A x \in Offered : Safe(x) => Safe(x)'
    BY <1>2, <2>2, SafeStays
  <2>4. /\ queue' \in Seq(Offered) /\ chan' \in Seq(Offered) /\ Len(queue) \in Nat
        /\ Len(queue') = Len(queue) + 1 /\ queue'[Len(queue) + 1] = o
        /\ \A i \in 1..Len(queue) : queue'[i] = queue[i] /\ queue[i] \in Offered
    BY <1>2, <2>1 DEF IntakeTypeOK, WindowTypeOK
  <2>5. \A i \in 1..Len(queue') : i \in 1..Len(queue) \/ i = Len(queue) + 1
    BY <2>4
  <2>6. QueueInv'
    <3>1. \A i \in 1..Len(queue) : queue[i] \in met /\ queue[i] # o
      BY <1>1, <1>2 DEF QueueInv
    <3>2. Safe(o) /\ o \notin parked  BY <1>1, <1>2 DEF Safe, QueueInv
    <3>3. parked' \subseteq met'  BY <1>1, <1>2 DEF QueueInv
    <3>4. \A i \in 1..Len(queue') :
            queue'[i] \in met' /\ queue'[i] \notin parked' /\ queue'[i] \in Offered
      BY <1>1, <1>2, <2>4, <2>5, <3>1, <3>2 DEF QueueInv
    <3>5. \A i \in 1..Len(queue') : slot'[queue'[i]] = "listed" \/ \E x \in answered' : SamePost(x, queue'[i])
      <4>1. ASSUME NEW i \in 1..Len(queue)
            PROVE  slot[queue[i]] = "listed" \/ \E x \in answered : SamePost(x, queue[i])
        BY <1>2 DEF QueueInv, Safe, Spoken
      <4> QED  BY <1>1, <2>1, <2>4, <2>5, <4>1
    <3>6. \A i, j \in 1..Len(queue') : queue'[i] = queue'[j] => i = j
      BY <1>2, <2>4, <2>5, <3>1 DEF QueueInv
    <3>7. task.at # "idle" => task.offer \in met' /\ \A i \in 1..Len(queue') : queue'[i] # task.offer
      BY <1>1, <1>2, <2>4, <2>5 DEF QueueInv
    <3>8. task.at \in {"sweeping", "retiring"} =>
            /\ slot[task.offer] = "listed" \/ \E x \in answered : SamePost(x, task.offer)
            /\ task.offer \notin task.olds /\ task.olds \subseteq met'
            /\ \A x \in task.olds : SamePost(x, task.offer)
            /\ \A i \in 1..Len(queue') : queue'[i] \notin task.olds
      BY <1>1, <1>2, <2>4, <2>5 DEF QueueInv, Safe, Spoken
    <3>9. task.at = "retiring" => task.olds # {}  BY <1>2 DEF QueueInv
    <3> QED  BY <1>1, <2>1, <3>3, <3>4, <3>5, <3>6, <3>7, <3>8, <3>9 DEF QueueInv, Safe, Spoken, SamePost
  <2>7. ClaimInv'
    BY <1>1, <1>2, <2>1 DEF ClaimInv, TaskTakes, CallTakes
  <2>8. IntakeTypeOK'
    BY <1>1, <1>2, <2>1, <2>2, <2>4 DEF IntakeTypeOK, Settles
  <2>9. WindowTypeOK'
    BY <1>1, <1>2, <2>1, <2>4 DEF WindowTypeOK
  <2> QED  BY <1>3, <1>4, <2>3, <2>6, <2>7, <2>8, <2>9 DEF IntakeInv, CoreInv
<1> QED  BY <1>5, <1>6 DEF Arrive

-----------------------------------------------------------------------------
(* The intake task.                                                        *)

LEMMA TaskAtIs ==
    ASSUME NEW a \in TaskStep, NEW o \in Offered, NEW s \in SUBSET Offered
    PROVE  /\ TaskAt(a, o, s) \in TaskType
           /\ TaskAt(a, o, s).at = a /\ TaskAt(a, o, s).offer = o /\ TaskAt(a, o, s).olds = s
BY DEF TaskAt, TaskType

LEMMA RestingIs ==
    Resting \in TaskType /\ Resting.at = "idle" /\ Resting.olds = {}
BY DEF Resting, TaskType, TaskStep

\* The task has its offer in hand no longer, or goes on to decide about it.
LEMMA TaskMoves ==
    ASSUME CoreInv, \A o \in Offered : Safe(o) => Safe(o)',
           task.at # "idle", parked' \subseteq parked \cup {task.offer}, UNCHANGED <<met, queue>>,
           \/ task'.at = "idle"
           \/ task'.offer = task.offer /\ task'.at \notin {"sweeping", "retiring"}
    PROVE  QueueInv'
<1>1. \A i \in 1..Len(queue) : queue[i] \in Offered
  BY DEF CoreInv, IntakeTypeOK
<1>2. \A i \in 1..Len(queue) : Safe(queue[i]) => Safe(queue[i])'
  BY <1>1 DEF Safe, Spoken, SamePost
<1>3. QueueInv  BY DEF CoreInv
<1> QED  BY <1>2, <1>3 DEF QueueInv

LEMMA IntakeTakesKeeps ==
    ASSUME IntakeInv, IntakeTakes
    PROVE  IntakeInv'
<1> DEFINE o == Head(queue)
<1>1. CoreInv /\ WindowTypeOK /\ AskInv /\ IntakeTypeOK /\ QueueInv /\ AnswerInv
  BY DEF IntakeInv, CoreInv
<1>2. /\ task.at = "idle" /\ queue # <<>> /\ queue' = Tail(queue)
      /\ UNCHANGED <<slot, met, parked, call, fetch, begun, chan, side, board, snap>>
  BY DEF IntakeTakes
<1>3. /\ queue' \in Seq(Offered) /\ o = queue[1] /\ 1 \in 1..Len(queue) /\ o \in Offered
      /\ Len(queue) \in Nat
      /\ \A i \in 1..Len(queue') : i + 1 \in 1..Len(queue) /\ queue'[i] = queue[i + 1] /\ i + 1 # 1
  BY <1>1, <1>2 DEF IntakeTypeOK
<1>4. /\ pending' \subseteq pending /\ answered \subseteq answered' /\ answered' \subseteq Offered
      /\ \/ o \in answered' /\ task' = TaskAt("dropping", o, {})
         \/ answered' = answered /\ task' = TaskAt("sweeping", o, Supersedes(o))
  BY <1>1, <1>3 DEF IntakeTakes, IntakeTypeOK
<1> HIDE DEF o
<1>5. /\ task' \in TaskType /\ task'.offer = o
      /\ \/ task'.at = "dropping" /\ o \in answered'
         \/ task'.at = "sweeping" /\ task'.olds = Supersedes(o)
  <2>1. Supersedes(o) \in SUBSET Offered /\ {} \in SUBSET Offered
    BY <1>1 DEF Supersedes, IntakeTypeOK
  <2>2. "dropping" \in TaskStep /\ "sweeping" \in TaskStep  BY DEF TaskStep
  <2> QED  BY <1>3, <1>4, <2>1, <2>2, TaskAtIs
<1>6. Settles
  BY <1>1, <1>2, <1>4 DEF Settles, IntakeTypeOK
<1>7. NoFileLost' /\ \A x \in Offered : Safe(x) => Safe(x)'
  BY <1>1, <1>6, SafeStays
<1>8. ClaimInv'
  BY <1>1, <1>2, <1>4, <1>5, ClaimStays DEF TaskTakes, CallTakes
<1>9. AnswerInv'
  BY <1>1, <1>2, <1>4, <1>5 DEF AnswerInv
<1>10. QueueInv'
  <2>1. \A i \in 1..Len(queue') : queue'[i] \in met /\ queue'[i] \notin parked /\ queue'[i] # o
    BY <1>1, <1>3 DEF QueueInv
  <2>2. \A i, j \in 1..Len(queue') : queue'[i] = queue'[j] => i = j
    <3>1. SUFFICES ASSUME NEW i \in 1..Len(queue'), NEW j \in 1..Len(queue'), queue'[i] = queue'[j]
                   PROVE  i = j
      OBVIOUS
    <3>2. i + 1 = j + 1  BY <1>1, <1>3, <3>1 DEF QueueInv
    <3> QED  BY <3>2
  <2>3. ASSUME NEW i \in 1..Len(queue')
        PROVE  slot[queue'[i]] = "listed" \/ \E x \in answered' : SamePost(x, queue'[i])
    BY <1>1, <1>3, <1>4 DEF QueueInv, Safe, Spoken
  <2>4. o \in met /\ (slot[o] = "listed" \/ \E x \in answered' : SamePost(x, o)) /\ o \notin parked
    BY <1>1, <1>3, <1>4 DEF QueueInv, Safe, Spoken
  <2>5. Supersedes(o) \subseteq parked /\ \A x \in Supersedes(o) : SamePost(x, o)
    BY DEF Supersedes
  <2>6. parked \subseteq met  BY <1>1 DEF QueueInv
  <2> QED  BY <1>2, <1>5, <2>1, <2>2, <2>3, <2>4, <2>5, <2>6 DEF QueueInv, Safe, Spoken, SamePost
<1>11. IntakeTypeOK'
  BY <1>1, <1>2, <1>3, <1>4, <1>5 DEF IntakeTypeOK
<1>12. AskInv' /\ WindowTypeOK'
  BY <1>1, <1>2, <1>5, AskStays DEF WindowTypeOK
<1> QED  BY <1>7, <1>8, <1>9, <1>10, <1>11, <1>12 DEF IntakeInv, CoreInv

LEMMA IntakeDropsKeeps ==
    ASSUME IntakeInv, IntakeDrops
    PROVE  IntakeInv'
<1> DEFINE o == task.offer
<1>1. CoreInv /\ WindowTypeOK /\ AskInv /\ IntakeTypeOK /\ QueueInv /\ AnswerInv
  BY DEF IntakeInv, CoreInv
<1>2. /\ task.at = "dropping" /\ Ack({o}) /\ Say("gone", o) /\ task' = Resting
      /\ UNCHANGED <<met, pending, parked, queue, call, fetch, begun, answered, chan, board, snap>>
  BY DEF IntakeDrops
<1>3. o \in Offered /\ o \in answered
  BY <1>1, <1>2 DEF AnswerInv, IntakeTypeOK
<1>4. task' \in TaskType /\ task'.at = "idle"  BY <1>2, RestingIs
<1>5. Settles
  <2>1. /\ slot' \in SlotType
        /\ \A x \in Offered : slot'[x] = slot[x] \/ (x \in {o} /\ slot'[x] = "acked")
    BY <1>1, <1>2, <1>3, AckIs DEF IntakeTypeOK
  <2> QED  BY <1>1, <1>2, <1>3, <2>1 DEF Settles, IntakeTypeOK, SamePost
<1>6. NoFileLost' /\ \A x \in Offered : Safe(x) => Safe(x)'
  BY <1>1, <1>5, SafeStays
<1>7. ClaimInv'
  BY <1>1, <1>2, <1>4, ClaimStays DEF TaskTakes, CallTakes
<1>8. AnswerInv'
  BY <1>1, <1>2, <1>4 DEF AnswerInv
<1>9. QueueInv'
  BY <1>1, <1>2, <1>4, <1>6, TaskMoves
<1>10. IntakeTypeOK'
  BY <1>1, <1>2, <1>4, <1>5 DEF IntakeTypeOK, Settles
<1>11. AskInv' /\ WindowTypeOK'
  BY <1>1, <1>2, <1>3, <1>4, AskStaysGone DEF WindowTypeOK
<1> QED  BY <1>6, <1>7, <1>8, <1>9, <1>10, <1>11 DEF IntakeInv, CoreInv

LEMMA IntakeRetiresKeeps ==
    ASSUME IntakeInv, IntakeRetires
    PROVE  IntakeInv'
<1>1. CoreInv /\ WindowTypeOK /\ AskInv /\ IntakeTypeOK /\ QueueInv /\ AnswerInv
  BY DEF IntakeInv, CoreInv
<1>2. /\ task.at = "sweeping" /\ task.olds # {} /\ task' = TaskAt("retiring", task.offer, task.olds)
      /\ parked' \subseteq parked /\ pending' \subseteq pending
      /\ UNCHANGED <<slot, met, queue, call, fetch, begun, answered, chan, side, board, snap>>
  BY DEF IntakeRetires
<1>3. task.offer \in Offered /\ task.olds \in SUBSET Offered
  BY <1>1, <1>2 DEF IntakeTypeOK, TaskType
<1>4. /\ task' \in TaskType /\ task'.at = "retiring" /\ task'.offer = task.offer
      /\ task'.olds = task.olds
  <2>1. "retiring" \in TaskStep  BY DEF TaskStep
  <2> QED  BY <1>2, <1>3, <2>1, TaskAtIs
<1>5. Settles
  BY <1>1, <1>2 DEF Settles, IntakeTypeOK
<1>6. NoFileLost' /\ \A x \in Offered : Safe(x) => Safe(x)'
  BY <1>1, <1>5, SafeStays
<1>7. ClaimInv'
  BY <1>1, <1>2, <1>4, ClaimStays DEF TaskTakes, CallTakes
<1>8. AnswerInv'
  BY <1>1, <1>2, <1>4 DEF AnswerInv
<1>9. QueueInv'
  BY <1>1, <1>2, <1>4 DEF QueueInv, Safe, Spoken, SamePost
<1>10. IntakeTypeOK'
  BY <1>1, <1>2, <1>3, <1>4 DEF IntakeTypeOK
<1>11. AskInv' /\ WindowTypeOK'
  BY <1>1, <1>2, <1>4, AskStays DEF WindowTypeOK
<1> QED  BY <1>6, <1>7, <1>8, <1>9, <1>10, <1>11 DEF IntakeInv, CoreInv

\* An older post is acked, and the newer one stands for its file.
LEMMA IntakeRetiredKeeps ==
    ASSUME IntakeInv, IntakeRetired
    PROVE  IntakeInv'
<1> DEFINE x == CHOOSE x \in task.olds : TRUE
           o == task.offer
<1>1. CoreInv /\ WindowTypeOK /\ AskInv /\ IntakeTypeOK /\ QueueInv /\ AnswerInv
  BY DEF IntakeInv, CoreInv
<1>2. /\ task.at = "retiring" /\ Ack({x}) /\ Say("gone", x)
      /\ task' = TaskAt("sweeping", o, task.olds \ {x})
      /\ UNCHANGED <<met, pending, parked, queue, call, fetch, begun, answered, chan, board, snap>>
  BY DEF IntakeRetired
<1>3. o \in Offered /\ task.olds \in SUBSET Offered
  BY <1>1, <1>2 DEF IntakeTypeOK, TaskType
<1>4. x \in task.olds
  BY <1>1, <1>2 DEF QueueInv
<1> HIDE DEF x
<1>5. x \in Offered /\ x # o /\ SamePost(x, o) /\ Safe(o) /\ \A i \in 1..Len(queue) : queue[i] # x
  BY <1>1, <1>2, <1>3, <1>4 DEF QueueInv
<1>6. /\ task' \in TaskType /\ task'.at = "sweeping" /\ task'.offer = o
      /\ task'.olds = task.olds \ {x}
  <2>1. "sweeping" \in TaskStep /\ task.olds \ {x} \in SUBSET Offered  BY <1>3 DEF TaskStep
  <2> QED  BY <1>2, <1>3, <2>1, TaskAtIs
<1>7. /\ slot' \in SlotType
      /\ \A y \in Offered : y # x => slot'[y] = slot[y]
  BY <1>1, <1>2, <1>5, AckIs DEF IntakeTypeOK
<1>8. \A y \in Offered :
        (y # x /\ (slot[y] = "listed" \/ \E z \in answered : SamePost(z, y)))
            => (slot'[y] = "listed" \/ \E z \in answered : SamePost(z, y))
  BY <1>7
<1>9. NoFileLost'
  <2>1. SUFFICES ASSUME NEW p \in Offered, slot'[p] # "unsent"
                 PROVE  \E y \in Offered : SamePost(y, p) /\ (y \in answered \/ slot'[y] = "listed")
    BY <1>2 DEF NoFileLost, SamePost
  <2>2. CASE SamePost(x, p)
    <3>1. SamePost(o, p)  BY <1>5, <2>2 DEF SamePost
    <3>2. CASE slot[o] = "listed"
      BY <1>3, <1>5, <1>7, <3>1, <3>2
    <3>3. CASE \E z \in answered : SamePost(z, o)
      BY <1>1, <3>1, <3>3 DEF SamePost, IntakeTypeOK
    <3> QED  BY <1>5, <3>2, <3>3 DEF Safe, Spoken
  <2>3. CASE ~SamePost(x, p)
    <3>1. p # x  BY <2>3 DEF SamePost
    <3>2. PICK y \in Offered : SamePost(y, p) /\ (y \in answered \/ slot[y] = "listed")
      BY <1>1, <1>7, <2>1, <3>1 DEF CoreInv, NoFileLost
    <3>3. y # x  BY <2>3, <3>2
    <3> QED  BY <1>7, <3>2, <3>3
  <2> QED  BY <2>2, <2>3
<1>10. ClaimInv'
  BY <1>1, <1>2, <1>6, ClaimStays DEF TaskTakes, CallTakes
<1>11. AnswerInv'
  BY <1>1, <1>2, <1>6 DEF AnswerInv
<1>12. QueueInv'
  <2>1. \A i \in 1..Len(queue) :
          /\ queue[i] \in met /\ queue[i] \notin parked /\ queue[i] # o /\ queue[i] \notin task.olds
          /\ slot'[queue[i]] = "listed" \/ \E z \in answered : SamePost(z, queue[i])
    <3>1. \A i \in 1..Len(queue) : queue[i] \in Offered  BY <1>1 DEF IntakeTypeOK
    <3> QED  BY <1>1, <1>2, <1>5, <1>8, <3>1 DEF QueueInv, Safe, Spoken
  <2>2. slot'[o] = "listed" \/ \E z \in answered : SamePost(z, o)
    BY <1>3, <1>5, <1>8 DEF Safe, Spoken
  <2>3. /\ parked \subseteq met /\ o \in met /\ o \notin task.olds /\ task.olds \subseteq met
        /\ \A y \in task.olds : SamePost(y, o)
        /\ \A i, j \in 1..Len(queue) : queue[i] = queue[j] => i = j
    BY <1>1, <1>2 DEF QueueInv
  <2> HIDE DEF o
  <2> QED  BY ZenonT(60), <1>2, <1>6, <2>1, <2>2, <2>3 DEF QueueInv, Safe, Spoken, SamePost
<1>13. IntakeTypeOK'
  BY <1>1, <1>2, <1>3, <1>6, <1>7 DEF IntakeTypeOK
<1>14. AskInv' /\ WindowTypeOK'
  BY <1>1, <1>2, <1>5, <1>6, AskStaysGone DEF WindowTypeOK
<1> QED  BY <1>9, <1>10, <1>11, <1>12, <1>13, <1>14 DEF IntakeInv, CoreInv

\* The download of a claimed offer is started, or the one there is goes on.
LEMMA StartFetchIs ==
    ASSUME CoreInv, NEW o \in Offered, o \in answered, UNCHANGED answered, StartFetch(o)
    PROVE  /\ Settles /\ fetch' \in FetchType /\ begun' \in [Offered -> Nat]
           /\ \A x \in Offered : fetch'[x] # "none" => x \in answered
           /\ begun'[o] \in {begun[o], begun[o] + 1}
           /\ \A x \in Offered : x # o => begun'[x] = begun[x]
<1>1. IntakeTypeOK /\ AnswerInv  BY DEF CoreInv
<1>2. Settles
  <2>1. {o} \ Mail \in SUBSET Offered /\ Ack({o} \ Mail)  BY DEF StartFetch
  <2>2. /\ slot' \in SlotType
        /\ \A x \in Offered : slot'[x] = slot[x] \/ (x \in {o} \ Mail /\ slot'[x] = "acked")
    BY <1>1, <2>1, AckIs DEF IntakeTypeOK
  <2> QED  BY <1>1, <2>2 DEF Settles, IntakeTypeOK, SamePost
<1>3. CASE Known(o)
  <2>1. /\ fetch' = [x \in Offered |-> IF x \in FetchOf(o) THEN "running" ELSE fetch[x]]
        /\ UNCHANGED begun
    BY <1>3 DEF StartFetch
  <2>2. \A x \in FetchOf(o) : x \in Offered /\ fetch[x] # "none"  BY DEF FetchOf
  <2>3. fetch' \in FetchType  BY <1>1, <2>1 DEF IntakeTypeOK, FetchType
  <2>4. \A x \in Offered : fetch'[x] # "none" => x \in answered
    BY <1>1, <2>1, <2>2 DEF AnswerInv
  <2> QED  BY <1>1, <1>2, <2>1, <2>3, <2>4 DEF IntakeTypeOK
<1>4. CASE ~Known(o)
  <2>1. fetch' = [fetch EXCEPT ![o] = "running"] /\ begun' = [begun EXCEPT ![o] = @ + 1]
    BY <1>4 DEF StartFetch
  <2>2. fetch' \in FetchType /\ begun' \in [Offered -> Nat]
    BY <1>1, <2>1 DEF IntakeTypeOK, FetchType
  <2>3. \A x \in Offered : fetch'[x] # "none" => x \in answered
    BY <1>1, <2>1 DEF AnswerInv, IntakeTypeOK, FetchType
  <2>4. begun'[o] = begun[o] + 1 /\ \A x \in Offered : x # o => begun'[x] = begun[x]
    BY <1>1, <2>1 DEF IntakeTypeOK
  <2> QED  BY <1>2, <2>2, <2>3, <2>4
<1> QED  BY <1>3, <1>4

LEMMA IntakeTookKeeps ==
    ASSUME IntakeInv, IntakeTook
    PROVE  IntakeInv'
<1> DEFINE o == task.offer
<1>1. CoreInv /\ WindowTypeOK /\ AskInv /\ IntakeTypeOK /\ QueueInv /\ AnswerInv /\ ClaimInv
  BY DEF IntakeInv, CoreInv
<1>2. /\ task.at = "taking" /\ StartFetch(o) /\ Say("gone", o) /\ task' = Resting
      /\ UNCHANGED <<met, pending, parked, queue, call, answered, chan, board, snap>>
  BY DEF IntakeTook
<1>3. o \in Offered /\ o \in answered
  BY <1>1, <1>2 DEF AnswerInv, IntakeTypeOK
<1>4. task' \in TaskType /\ task'.at = "idle"  BY <1>2, RestingIs
<1>5. /\ Settles /\ fetch' \in FetchType /\ begun' \in [Offered -> Nat]
      /\ \A x \in Offered : fetch'[x] # "none" => x \in answered
      /\ begun'[o] \in {begun[o], begun[o] + 1}
      /\ \A x \in Offered : x # o => begun'[x] = begun[x]
  BY <1>1, <1>2, <1>3, StartFetchIs
<1>6. NoFileLost' /\ \A x \in Offered : Safe(x) => Safe(x)'
  BY <1>1, <1>5, SafeStays
<1>7. ClaimInv'
  <2>1. TaskTakes(o)  BY <1>2 DEF TaskTakes
  <2>2. \A x \in Offered : ~TaskTakes(x)'  BY <1>4 DEF TaskTakes
  <2>3. \A c \in Asker, x \in Offered : CallTakes(c, x)' <=> CallTakes(c, x)
    BY <1>2 DEF CallTakes
  <2>4. /\ begun[o] = 0 /\ o \notin pending /\ o \in met
        /\ \A c \in Asker : ~CallTakes(c, o)
    BY <1>1, <1>3, <2>1 DEF ClaimInv
  <2>5. begun'[o] <= 1  BY <1>5, <2>4
  <2> HIDE DEF o
  <2> QED  BY <1>1, <1>2, <1>5, <2>2, <2>3, <2>4, <2>5 DEF ClaimInv
<1>8. AnswerInv'
  BY <1>1, <1>2, <1>4, <1>5 DEF AnswerInv
<1>9. QueueInv'
  BY <1>1, <1>2, <1>4, <1>6, TaskMoves
<1>10. IntakeTypeOK'
  BY <1>1, <1>2, <1>4, <1>5 DEF IntakeTypeOK, Settles
<1>11. AskInv' /\ WindowTypeOK'
  BY <1>1, <1>2, <1>3, <1>4, AskStaysGone DEF WindowTypeOK
<1> QED  BY <1>6, <1>7, <1>8, <1>9, <1>10, <1>11 DEF IntakeInv, CoreInv

\* Whoever removes an offer from the engine's map has claimed it alone.
LEMMA IntakeDecidesKeeps ==
    ASSUME IntakeInv, IntakeDecides
    PROVE  IntakeInv'
<1> DEFINE o == task.offer
<1>1. CoreInv /\ WindowTypeOK /\ AskInv /\ IntakeTypeOK /\ QueueInv /\ AnswerInv /\ ClaimInv
  BY DEF IntakeInv, CoreInv
<1>2. /\ task.at = "sweeping"
      /\ UNCHANGED <<slot, met, parked, queue, call, fetch, begun, chan, board, snap>>
  BY DEF IntakeDecides
<1>3. o \in Offered  BY <1>1, <1>2 DEF IntakeTypeOK
<1>4. /\ pending' \subseteq pending /\ answered \subseteq answered' /\ answered' \in SUBSET Offered
      /\ \/ task' = TaskAt("parking", o, {}) /\ ~AutoAccepts(o) /\ side' = side
         \/ task' = TaskAt("taking", o, {}) /\ o \in pending /\ o \notin pending' /\ o \in answered'
               /\ side' = side
         \/ task' = TaskAt("asking", o, {}) /\ o \in Locked /\ side' = side
         \/ task' = Resting /\ Say("gone", o)
  BY <1>1, <1>3 DEF IntakeDecides, Take, Refused, IntakeTypeOK
<1>5. /\ task' \in TaskType /\ task'.at \in {"parking", "taking", "asking", "idle"}
      /\ task'.at # "idle" => task'.offer = o /\ side' = side
      /\ task'.at = "parking" => ~AutoAccepts(o)
      /\ task'.at = "taking" => o \in pending /\ o \notin pending' /\ o \in answered'
      /\ task'.at = "asking" => o \in Locked
      /\ task'.at = "idle" => Say("gone", o)
  <2>1. {"parking", "taking", "asking"} \subseteq TaskStep /\ {} \in SUBSET Offered  BY DEF TaskStep
  <2>2. CASE task' = TaskAt("parking", o, {}) /\ ~AutoAccepts(o) /\ side' = side
    BY <1>3, <2>1, <2>2, TaskAtIs
  <2>3. CASE task' = TaskAt("taking", o, {}) /\ o \in pending /\ o \notin pending' /\ o \in answered'
               /\ side' = side
    BY <1>3, <2>1, <2>3, TaskAtIs
  <2>4. CASE task' = TaskAt("asking", o, {}) /\ o \in Locked /\ side' = side
    BY <1>3, <2>1, <2>4, TaskAtIs
  <2>5. CASE task' = Resting /\ Say("gone", o)
    BY <2>5, RestingIs
  <2> QED  BY <1>4, <2>2, <2>3, <2>4, <2>5
<1> HIDE DEF o
<1>6. Settles
  BY <1>1, <1>2, <1>4 DEF Settles, IntakeTypeOK
<1>7. NoFileLost' /\ \A x \in Offered : Safe(x) => Safe(x)'
  BY <1>1, <1>6, SafeStays
<1>8. ClaimInv'
  <2>1. \A x \in Offered : TaskTakes(x)' => x = o /\ o \in pending /\ o \notin pending'
    BY <1>5 DEF TaskTakes
  <2>2. \A c \in Asker, x \in Offered : CallTakes(c, x)' <=> CallTakes(c, x)
    BY <1>2 DEF CallTakes
  <2>3. o \in pending => /\ o \in met /\ begun[o] = 0 /\ \A c \in Asker : ~CallTakes(c, o)
    BY <1>1, <1>3 DEF ClaimInv
  <2>4. pending' \subseteq met'  BY <1>1, <1>2, <1>4 DEF ClaimInv
  <2> QED  BY <1>1, <1>2, <1>3, <1>4, <2>1, <2>2, <2>3, <2>4 DEF ClaimInv
<1>9. AnswerInv'
  BY <1>1, <1>2, <1>4, <1>5 DEF AnswerInv
<1>10. QueueInv'
  <2>1. task'.at # "idle" => task'.offer = task.offer  BY <1>5 DEF o
  <2> QED  BY <1>1, <1>2, <1>5, <1>7, <2>1, TaskMoves
<1>11. IntakeTypeOK'
  BY <1>1, <1>2, <1>3, <1>4, <1>5 DEF IntakeTypeOK
<1>12. AskInv' /\ WindowTypeOK'
  <2>1. CASE task'.at = "idle"
    BY <1>1, <1>2, <1>3, <1>5, <2>1, AskStaysGone DEF WindowTypeOK
  <2>2. CASE task'.at = "taking"
    BY <1>1, <1>2, <1>5, <2>2, AskStays DEF WindowTypeOK
  <2>3. CASE task'.at \in {"parking", "asking"}
    <3>1. task'.offer = o /\ side' = side /\ Askable(o)
      BY <1>5, <2>3 DEF AutoAccepts, Askable
    <3>2. AskInv'
      BY <1>1, <1>2, <3>1 DEF AskInv, Askable
    <3> QED  BY <1>1, <1>2, <3>1, <3>2 DEF WindowTypeOK
  <2> QED  BY <1>5, <2>1, <2>2, <2>3
<1> QED  BY <1>7, <1>8, <1>9, <1>10, <1>11, <1>12 DEF IntakeInv, CoreInv

LEMMA IntakeParksKeeps ==
    ASSUME IntakeInv, IntakeParks
    PROVE  IntakeInv'
<1> DEFINE o == task.offer
<1>1. CoreInv /\ WindowTypeOK /\ AskInv /\ IntakeTypeOK /\ QueueInv /\ AnswerInv /\ ClaimInv
  BY DEF IntakeInv, CoreInv
<1>2. /\ task.at \in {"parking", "asking"} /\ parked' = parked \cup {o} /\ task' = Resting
      /\ side' = side \/ Say("question", o)
      /\ UNCHANGED <<slot, met, pending, queue, call, fetch, begun, answered, chan, board, snap>>
  BY DEF IntakeParks
<1>3. o \in Offered /\ Askable(o) /\ o \in met
  BY <1>1, <1>2 DEF IntakeTypeOK, AskInv, QueueInv
<1>4. task' \in TaskType /\ task'.at = "idle"  BY <1>2, RestingIs
<1>5. Settles
  BY <1>1, <1>2 DEF Settles, IntakeTypeOK
<1>6. NoFileLost' /\ \A x \in Offered : Safe(x) => Safe(x)'
  BY <1>1, <1>5, SafeStays
<1>7. ClaimInv'
  BY <1>1, <1>2, <1>4, ClaimStays DEF TaskTakes, CallTakes
<1>8. AnswerInv'
  BY <1>1, <1>2, <1>4 DEF AnswerInv
<1>9. QueueInv'
  BY <1>1, <1>2, <1>4, <1>6, TaskMoves
<1>10. IntakeTypeOK'
  BY <1>1, <1>2, <1>3, <1>4 DEF IntakeTypeOK
<1>11. /\ side' \in Seq(SideType)
       /\ \A i \in 1..Len(side') : side'[i].kind = "question" => Askable(side'[i].offer)
  <2>1. CASE side' = side
    BY <1>1, <2>1 DEF WindowTypeOK, AskInv
  <2>2. CASE Say("question", o)
    <3>1. /\ side' \in Seq(SideType)
          /\ \A i \in 1..Len(side') :
                \/ side'[i].kind = "question" /\ side'[i].offer = o
                \/ i \in 1..Len(side) /\ side'[i] = side[i]
      BY <1>1, <1>3, <2>2, SayIs DEF WindowTypeOK
    <3> QED  BY <1>1, <1>3, <3>1 DEF AskInv
  <2> QED  BY <1>2, <2>1, <2>2
<1>12. AskInv' /\ WindowTypeOK'
  BY <1>1, <1>2, <1>3, <1>4, <1>11 DEF AskInv, Askable, WindowTypeOK
<1> QED  BY <1>6, <1>7, <1>8, <1>9, <1>10, <1>12 DEF IntakeInv, CoreInv

-----------------------------------------------------------------------------
(* The requests.                                                           *)

\* A request is under way about an offer, and no other has changed.
LEMMA AskMoves ==
    ASSUME call \in [Asker -> CallType], NEW c \in Asker, NEW o \in Offered,
           NEW a \in {"taking", "rejecting"},
           call' = [call EXCEPT ![c] = [at |-> a, offer |-> o]]
    PROVE  /\ call' \in [Asker -> CallType]
           /\ call'[c].at = a /\ call'[c].offer = o
           /\ \A b \in Asker : b # c => call'[b] = call[b]
<1> DEFINE r == [at |-> a, offer |-> o]
<1>1. r \in CallType /\ r.at = a /\ r.offer = o  BY DEF CallType
<1> HIDE DEF r
<1>2. call' = [call EXCEPT ![c] = r]  BY DEF r
<1> QED  BY <1>1, <1>2

LEMMA AskAcceptKeeps ==
    ASSUME IntakeInv, NEW c \in Asker, NEW o \in Offered, AskAccept(c, o)
    PROVE  IntakeInv'
<1>1. CoreInv /\ WindowTypeOK /\ AskInv /\ IntakeTypeOK /\ QueueInv /\ AnswerInv /\ ClaimInv
  BY DEF IntakeInv, CoreInv
<1>2. /\ call[c] = NoCall /\ o \in pending /\ pending' = pending \ {o}
      /\ answered' = answered \cup {o}
      /\ call' = [call EXCEPT ![c] = [at |-> "taking", offer |-> o]]
      /\ UNCHANGED <<slot, met, parked, queue, task, fetch, begun, chan, side, board, snap>>
  BY DEF AskAccept, Take
<1>3. /\ call' \in [Asker -> CallType] /\ call'[c].at = "taking" /\ call'[c].offer = o
      /\ \A b \in Asker : b # c => call'[b] = call[b]
  BY <1>1, <1>2, AskMoves DEF IntakeTypeOK
<1>4. Settles
  BY <1>1, <1>2 DEF Settles, IntakeTypeOK
<1>5. NoFileLost' /\ \A x \in Offered : Safe(x) => Safe(x)'
  BY <1>1, <1>4, SafeStays
<1>6. ClaimInv'
  <2>1. \A b \in Asker, x \in Offered :
          CallTakes(b, x)' => (b = c /\ x = o) \/ (b # c /\ CallTakes(b, x))
    BY <1>3 DEF CallTakes
  <2>2. \A x \in Offered : TaskTakes(x)' <=> TaskTakes(x)  BY <1>2 DEF TaskTakes
  <2>3. o \in met /\ begun[o] = 0 /\ ~TaskTakes(o) /\ \A b \in Asker : ~CallTakes(b, o)
    BY <1>1, <1>2 DEF ClaimInv
  <2>4. pending' \subseteq met'  BY <1>1, <1>2 DEF ClaimInv
  <2> QED  BY <1>1, <1>2, <2>1, <2>2, <2>3, <2>4 DEF ClaimInv
<1>7. AnswerInv'
  BY <1>1, <1>2, <1>3 DEF AnswerInv
<1>8. QueueInv'
  BY <1>1, <1>2, <1>5, QueueStays
<1>9. IntakeTypeOK'
  BY <1>1, <1>2, <1>3 DEF IntakeTypeOK
<1>10. AskInv' /\ WindowTypeOK'
  BY <1>1, <1>2, AskStays DEF WindowTypeOK
<1> QED  BY <1>5, <1>6, <1>7, <1>8, <1>9, <1>10 DEF IntakeInv, CoreInv

LEMMA AskRejectKeeps ==
    ASSUME IntakeInv, NEW c \in Asker, NEW o \in Offered, AskReject(c, o)
    PROVE  IntakeInv'
<1>1. CoreInv /\ WindowTypeOK /\ AskInv /\ IntakeTypeOK /\ QueueInv /\ AnswerInv /\ ClaimInv
  BY DEF IntakeInv, CoreInv
<1>2. /\ parked' = parked \ {o} /\ pending' = pending \ {o} /\ answered' = answered \cup {o}
      /\ call' = [call EXCEPT ![c] = [at |-> "rejecting", offer |-> o]]
      /\ UNCHANGED <<slot, met, queue, task, fetch, begun, chan, side, board, snap>>
  BY DEF AskReject
<1>3. /\ call' \in [Asker -> CallType] /\ call'[c].at = "rejecting" /\ call'[c].offer = o
      /\ \A b \in Asker : b # c => call'[b] = call[b]
  BY <1>1, <1>2, AskMoves DEF IntakeTypeOK
<1>4. Settles
  BY <1>1, <1>2 DEF Settles, IntakeTypeOK
<1>5. NoFileLost' /\ \A x \in Offered : Safe(x) => Safe(x)'
  BY <1>1, <1>4, SafeStays
<1>6. ClaimInv'
  <2>1. \A b \in Asker, x \in Offered : CallTakes(b, x)' => CallTakes(b, x)
    BY <1>3 DEF CallTakes
  <2>2. \A x \in Offered : TaskTakes(x)' => TaskTakes(x)  BY <1>2 DEF TaskTakes
  <2> QED  BY <1>1, <1>2, <2>1, <2>2, ClaimStays
<1>7. AnswerInv'
  BY <1>1, <1>2, <1>3 DEF AnswerInv
<1>8. QueueInv'
  BY <1>1, <1>2, <1>5, QueueStays
<1>9. IntakeTypeOK'
  BY <1>1, <1>2, <1>3 DEF IntakeTypeOK
<1>10. AskInv' /\ WindowTypeOK'
  BY <1>1, <1>2, AskStays DEF WindowTypeOK
<1> QED  BY <1>5, <1>6, <1>7, <1>8, <1>9, <1>10 DEF IntakeInv, CoreInv

LEMMA AskEndsKeeps ==
    ASSUME IntakeInv, NEW c \in Asker, AskEnds(c)
    PROVE  IntakeInv'
<1> DEFINE o == call[c].offer
<1>1. CoreInv /\ WindowTypeOK /\ AskInv /\ IntakeTypeOK /\ QueueInv /\ AnswerInv /\ ClaimInv
  BY DEF IntakeInv, CoreInv
<1>2. /\ call[c].at # "none" /\ Say("gone", o) /\ board' = board \ {o}
      /\ call' = [call EXCEPT ![c] = NoCall]
      /\ UNCHANGED <<met, pending, queue, task, answered, chan, snap>>
      /\ parked' \subseteq parked
  BY DEF AskEnds
<1>3. o \in Offered /\ o \in answered
  BY <1>1, <1>2 DEF AnswerInv, IntakeTypeOK
<1>4. /\ call' \in [Asker -> CallType] /\ call'[c].at = "none"
      /\ \A b \in Asker : b # c => call'[b] = call[b]
  <2>1. NoCall \in CallType /\ NoCall.at = "none"  BY DEF NoCall, CallType
  <2> QED  BY <1>1, <1>2, <2>1 DEF IntakeTypeOK
<1>5. \A b \in Asker, x \in Offered : CallTakes(b, x)' => b # c /\ CallTakes(b, x)
  BY <1>4 DEF CallTakes
<1>6. \A x \in Offered : TaskTakes(x)' <=> TaskTakes(x)  BY <1>2 DEF TaskTakes
<1>7. /\ Settles /\ fetch' \in FetchType /\ begun' \in [Offered -> Nat] /\ ClaimInv'
      /\ \A x \in Offered : fetch'[x] # "none" => x \in answered
  <2>1. CASE call[c].at = "taking"
    <3>1. StartFetch(o)  BY <2>1 DEF AskEnds
    <3>2. /\ Settles /\ fetch' \in FetchType /\ begun' \in [Offered -> Nat]
          /\ \A x \in Offered : fetch'[x] # "none" => x \in answered
          /\ begun'[o] \in {begun[o], begun[o] + 1}
          /\ \A x \in Offered : x # o => begun'[x] = begun[x]
      BY <1>1, <1>2, <1>3, <3>1, StartFetchIs
    <3>3. CallTakes(c, o)  BY <2>1 DEF CallTakes
    <3>4. /\ begun[o] = 0 /\ ~TaskTakes(o) /\ o \notin pending /\ o \in met
          /\ \A b \in Asker : CallTakes(b, o) => b = c
      BY <1>1, <1>3, <3>3 DEF ClaimInv
    <3>5. begun'[o] <= 1  BY <3>2, <3>4
    <3>6. pending' \subseteq met'  BY <1>1, <1>2 DEF ClaimInv
    <3> HIDE DEF o
    <3>7. ClaimInv'
      BY <1>1, <1>2, <1>5, <1>6, <3>2, <3>4, <3>5, <3>6 DEF ClaimInv
    <3> QED  BY <3>2, <3>7
  <2>2. CASE call[c].at # "taking"
    <3>1. Ack({o}) /\ UNCHANGED <<fetch, begun>>  BY <2>2 DEF AskEnds
    <3>2. /\ slot' \in SlotType
          /\ \A x \in Offered : slot'[x] = slot[x] \/ (x \in {o} /\ slot'[x] = "acked")
      BY <1>1, <1>3, <3>1, AckIs DEF IntakeTypeOK
    <3>3. Settles
      BY <1>1, <1>2, <1>3, <3>2 DEF Settles, IntakeTypeOK, SamePost
    <3>4. ClaimInv'
      BY <1>1, <1>2, <1>5, <1>6, <3>1, ClaimStays
    <3> QED  BY <1>1, <3>1, <3>3, <3>4 DEF IntakeTypeOK, AnswerInv
  <2> QED  BY <2>1, <2>2
<1>8. NoFileLost' /\ \A x \in Offered : Safe(x) => Safe(x)'
  BY <1>1, <1>7, SafeStays
<1>9. AnswerInv'
  BY <1>1, <1>2, <1>4, <1>7 DEF AnswerInv
<1>10. QueueInv'
  BY <1>1, <1>2, <1>8, QueueStays
<1>11. IntakeTypeOK'
  BY <1>1, <1>2, <1>4, <1>7 DEF IntakeTypeOK, Settles
<1>12. AskInv' /\ WindowTypeOK'
  <2>1. board' \subseteq board  BY <1>2
  <2>2. task' = task /\ UNCHANGED <<snap, chan>> /\ Say("gone", o) /\ parked' \subseteq parked
    BY <1>2
  <2>3. AskInv' /\ side' \in Seq(SideType)
    BY <1>1, <1>3, <2>1, <2>2, AskStaysGone
  <2> QED  BY <1>1, <2>1, <2>2, <2>3 DEF WindowTypeOK
<1> QED  BY <1>7, <1>8, <1>9, <1>10, <1>11, <1>12 DEF IntakeInv, CoreInv

-----------------------------------------------------------------------------
(* The downloads, and the end of the process.                              *)

LEMMA PauseFetchKeeps ==
    ASSUME IntakeInv, NEW o \in Offered, PauseFetch(o)
    PROVE  IntakeInv'
<1>1. CoreInv /\ WindowTypeOK /\ AskInv /\ IntakeTypeOK  BY DEF IntakeInv, CoreInv
<1>2. /\ fetch[o] = "running" /\ fetch' = [fetch EXCEPT ![o] = "paused"]
      /\ UNCHANGED <<slot, met, pending, parked, queue, task, call, begun, answered, chan, side,
                     board, snap>>
  BY DEF PauseFetch
<1>3. fetch' \in FetchType /\ \A x \in Offered : fetch'[x] # "none" => fetch[x] # "none"
  BY <1>1, <1>2 DEF IntakeTypeOK, FetchType
<1>4. Settles
  BY <1>1, <1>2 DEF Settles, IntakeTypeOK
<1>5. NoFileLost' /\ \A x \in Offered : Safe(x) => Safe(x)'
  BY <1>1, <1>4, SafeStays
<1>6. ClaimInv' /\ QueueInv'
  BY <1>1, <1>2, <1>5, ClaimStays, QueueStays DEF TaskTakes, CallTakes
<1>7. AnswerInv'
  BY <1>1, <1>2, <1>3, AnswerStays
<1>8. IntakeTypeOK'
  BY <1>1, <1>2, <1>3 DEF IntakeTypeOK
<1>9. AskInv' /\ WindowTypeOK'
  BY <1>1, <1>2, AskStays DEF WindowTypeOK
<1> QED  BY <1>5, <1>6, <1>7, <1>8, <1>9 DEF IntakeInv, CoreInv

LEMMA FetchEndsKeeps ==
    ASSUME IntakeInv, NEW o \in Offered, FetchEnds(o)
    PROVE  IntakeInv'
<1>1. CoreInv /\ WindowTypeOK /\ AskInv /\ IntakeTypeOK /\ AnswerInv  BY DEF IntakeInv, CoreInv
<1>2. /\ fetch[o] = "running"
      /\ UNCHANGED <<met, pending, parked, queue, task, call, begun, answered, chan, side, board, snap>>
      /\ \/ fetch' = [fetch EXCEPT ![o] = "done"] /\ Ack({o} \cap Mail)
         \/ fetch' = [fetch EXCEPT ![o] = "none"] /\ slot' = slot
  BY DEF FetchEnds
<1>3. fetch' \in FetchType /\ \A x \in Offered : fetch'[x] # "none" => fetch[x] # "none"
  BY <1>1, <1>2 DEF IntakeTypeOK, FetchType
<1>4. Settles
  <2>1. CASE slot' = slot
    BY <1>1, <1>2, <2>1 DEF Settles, IntakeTypeOK
  <2>2. CASE Ack({o} \cap Mail)
    <3>1. {o} \cap Mail \in SUBSET Offered /\ o \in answered
      BY <1>1, <1>2 DEF AnswerInv
    <3>2. /\ slot' \in SlotType
          /\ \A x \in Offered : slot'[x] = slot[x] \/ (x \in {o} \cap Mail /\ slot'[x] = "acked")
      BY <1>1, <2>2, <3>1, AckIs DEF IntakeTypeOK
    <3> QED  BY <1>1, <1>2, <3>1, <3>2 DEF Settles, IntakeTypeOK, SamePost
  <2> QED  BY <1>2, <2>1, <2>2
<1>5. NoFileLost' /\ \A x \in Offered : Safe(x) => Safe(x)'
  BY <1>1, <1>4, SafeStays
<1>6. ClaimInv' /\ QueueInv'
  BY <1>1, <1>2, <1>5, ClaimStays, QueueStays DEF TaskTakes, CallTakes
<1>7. AnswerInv'
  BY <1>1, <1>2, <1>3, AnswerStays
<1>8. IntakeTypeOK'
  BY <1>1, <1>2, <1>3, <1>4 DEF IntakeTypeOK, Settles
<1>9. AskInv' /\ WindowTypeOK'
  BY <1>1, <1>2, AskStays DEF WindowTypeOK
<1> QED  BY <1>5, <1>6, <1>7, <1>8, <1>9 DEF IntakeInv, CoreInv

\* What the end of the process forgets is still on the relay.
LEMMA DieKeeps ==
    ASSUME IntakeInv, Die
    PROVE  IntakeInv'
<1>1. CoreInv /\ IntakeTypeOK /\ AnswerInv /\ NoFileLost  BY DEF IntakeInv, CoreInv
<1>2. /\ met' = {} /\ pending' = {} /\ parked' = {} /\ task' = Resting /\ board' = {} /\ slot' = slot
      /\ call' = [c \in Asker |-> NoCall] /\ begun' = [o \in Offered |-> 0]
      /\ fetch' = [o \in Offered |-> IF o \in Mail /\ fetch[o] = "running" THEN "none" ELSE fetch[o]]
      /\ answered' = {o \in answered : slot[o] # "listed" \/ fetch'[o] # "none"}
  BY DEF Die
<1>3. /\ queue' \in Seq(Offered) /\ Len(queue') = 0 /\ chan' \in Seq(Offered)
      /\ side' \in Seq(SideType) /\ Len(side') = 0 /\ snap' \in Seq(SUBSET Offered) /\ Len(snap') = 0
  BY DEF Die
<1>4. task' \in TaskType /\ task'.at = "idle"  BY <1>2, RestingIs
<1>5. call' \in [Asker -> CallType] /\ \A c \in Asker : call'[c].at = "none"
  BY <1>2 DEF NoCall, CallType
<1>6. fetch' \in FetchType /\ \A x \in Offered : fetch'[x] # "none" => fetch[x] # "none"
  BY <1>1, <1>2 DEF IntakeTypeOK, FetchType
<1>7. begun' \in [Offered -> Nat] /\ \A x \in Offered : begun'[x] = 0  BY <1>2
<1>8. IntakeTypeOK'
  BY <1>1, <1>2, <1>3, <1>4, <1>5, <1>6, <1>7 DEF IntakeTypeOK
<1>9. ClaimInv'
  <2>1. \A x \in Offered : ~TaskTakes(x)' /\ \A c \in Asker : ~CallTakes(c, x)'
    BY <1>4, <1>5 DEF TaskTakes, CallTakes
  <2> QED  BY <1>2, <1>7, <2>1 DEF ClaimInv
<1>10. AnswerInv'
  <2>1. \A x \in Offered : fetch'[x] # "none" => x \in answered'
    BY <1>1, <1>2, <1>6 DEF AnswerInv
  <2> QED  BY <1>4, <1>5, <2>1 DEF AnswerInv
<1>11. QueueInv'
  BY <1>2, <1>3, <1>4 DEF QueueInv
<1>12. NoFileLost'
  <2>1. \A x \in answered : x \in answered' \/ slot[x] = "listed"  BY <1>2
  <2> QED  BY <1>1, <1>2, <2>1 DEF NoFileLost, SamePost
<1>13. AskInv' /\ WindowTypeOK'
  BY <1>2, <1>3, <1>4 DEF AskInv, WindowTypeOK
<1> QED  BY <1>8, <1>9, <1>10, <1>11, <1>12, <1>13 DEF IntakeInv, CoreInv

LEMMA NextIntake == IntakeInv /\ [IntakeNext]_intakeVars => IntakeInv'
<1> SUFFICES ASSUME IntakeInv, [IntakeNext]_intakeVars PROVE IntakeInv'  OBVIOUS
<1>1. CASE UNCHANGED intakeVars
  <2>1. UNCHANGED <<slot, met, pending, parked, queue, task, call, fetch, begun, answered>>
    BY <1>1 DEF intakeVars
  <2>2. UNCHANGED <<chan, side, board, snap>>  BY <1>1 DEF intakeVars
  <2>3. CoreInv /\ AskInv /\ WindowTypeOK  BY DEF IntakeInv
  <2>4. CoreInv'  BY <2>1, <2>3, CoreStays
  <2>5. AskInv'  BY <2>1, <2>2, <2>3, AskStays
  <2> QED  BY <2>2, <2>3, <2>4, <2>5 DEF IntakeInv, WindowTypeOK
<1>2. CASE IntakeStep
  BY <1>2, IntakeTakesKeeps, IntakeDropsKeeps, IntakeRetiresKeeps, IntakeRetiredKeeps,
     IntakeDecidesKeeps, IntakeTookKeeps, IntakeParksKeeps DEF IntakeStep
<1>3. CASE \E o \in Offered : Send(o) \/ Arrive(o) \/ PauseFetch(o) \/ FetchEnds(o)
  BY <1>3, SendKeeps, ArriveKeeps, PauseFetchKeeps, FetchEndsKeeps
<1>4. CASE \E c \in Asker : AskEnds(c) \/ \E o \in Offered : AskAccept(c, o) \/ AskReject(c, o)
  BY <1>4, AskEndsKeeps, AskAcceptKeeps, AskRejectKeeps
<1>5. CASE WindowHears \/ WindowHearsSide \/ WindowAsks \/ WindowLoads
             \/ \E p \in Peer, w \in {"stranger", "trusted", "blocked"} : EditBook(p, w)
  BY <1>5, WindowKeeps
<1>6. CASE Die
  BY <1>6, DieKeeps
<1> QED  BY <1>1, <1>2, <1>3, <1>4, <1>5, <1>6 DEF IntakeNext

\* Every offer is taken at most once, no file is lost unanswered, and nothing
\* is asked about what our own devices send: for any set of offers, senders
\* and requests in flight, and however often the process ends (OffersAccounted).
THEOREM OffersAreAccounted == IntakeSpec => []OffersAccounted
<1>1. IntakeInv => OffersAccounted
  BY DEF IntakeInv, CoreInv, ClaimInv, AskInv, Askable, OffersAccounted, TakenOnce, OwnAsksNothing
<1> QED  BY <1>1, InitIntake, NextIntake, PTL DEF IntakeSpec

-----------------------------------------------------------------------------
(***************************************************************************)
(* The inbox, for any number of offers, devices and Notify objects.        *)
(*                                                                         *)
(* The inductive invariant says of each request which handler it is in     *)
(* (Shape), that everyone who waits is on the Notify in the map            *)
(* (WaitersReachable), and that nobody sleeps through news (NoLostWakeup). *)
(* Each part needs the ones before it: notify_inbox reaches a sleeper only *)
(* through the map, and a guard's drop spares the map's entry only because *)
(* every waiting request counts as a reference to it.                      *)
(*                                                                         *)
(* What a request is answered rests on GotInv: rows are picked under the   *)
(* slot's lock against what the device said it has, and what it has only   *)
(* changes when its request is answered.                                   *)
(***************************************************************************)

USE InboxConstants, InboxNone DEF InboxConstants, InboxNone

\* Which handler a request is in, by who sent it and by where it stands.
Shape ==
    \A c \in Client :
        /\ c \in Device => req[c].op \in {"none", "poll"}
        /\ c \in Offer => req[c].op \in {"none", "post", "status"}
        /\ req[c].pc \in {"arm", "look", "hold", "drop", "release", "mark"}
               => req[c].op \in {"poll", "status"}

Inv == TypeOK /\ Shape /\ WaitersReachable /\ NoLostWakeup

-----------------------------------------------------------------------------
(* Records.                                                                *)

\* Every request the handlers build is a request.
LEMMA StartedReq ==
    ASSUME NEW op \in {"none", "post", "poll", "status"},
           NEW pc \in {"idle", "check", "put", "arm"},
           NEW n \in Notify \cup {None}
    PROVE  /\ Started(op, pc, n) \in Req
           /\ Started(op, pc, n).op = op /\ Started(op, pc, n).pc = pc
           /\ Started(op, pc, n).notify = n
  BY DEF Started, Req

LEMMA IdleReq == Idle \in Req /\ Idle.op = "none" /\ Idle.pc = "idle"
                     /\ Idle.notify = None
  BY StartedReq DEF Idle

LEMMA AnsweringReq ==
    ASSUME NEW q \in Req, NEW pc \in {"drop", "mark"},
           NEW got \in SUBSET Offer, NEW word \in Word \cup {"none"}
    PROVE  Answering(q, pc, got, word) \in Req
  BY DEF Answering, Req

LEMMA AgainReq == ASSUME NEW q \in Req PROVE Again(q) \in Req
  BY DEF Again, Req

\* notify_inbox keeps every request where it is.
LEMMA NotifyReq ==
    ASSUME NEW f \in [Client -> Req]
    PROVE  /\ NotifyInbox(f) \in [Client -> Req]
           /\ \A c \in Client : /\ NotifyInbox(f)[c].op = f[c].op
                                /\ NotifyInbox(f)[c].pc = f[c].pc
                                /\ NotifyInbox(f)[c].notify = f[c].notify
  <1>1. ASSUME NEW c \in Client
        PROVE  /\ [f[c] EXCEPT !.woken = TRUE] \in Req
               /\ [f[c] EXCEPT !.woken = TRUE].op = f[c].op
               /\ [f[c] EXCEPT !.woken = TRUE].pc = f[c].pc
               /\ [f[c] EXCEPT !.woken = TRUE].notify = f[c].notify
    <2>1. f[c] \in Req
      OBVIOUS
    <2>2. QED
      BY <2>1 DEF Req
  <1>2. QED
    BY <1>1 DEF NotifyInbox

\* A request whose pc alone changes is still a request.
LEMMA MoveReq ==
    ASSUME TypeOK, NEW c \in Client,
           NEW pc \in {"look", "hold", "answer", "wake", "drop", "release"}
    PROVE  [req EXCEPT ![c].pc = pc] \in [Client -> Req]
  BY DEF TypeOK, Req

\* The words and rows read from the table.
LEMMA StatusWordType ==
    ASSUME TypeOK, NEW o \in Offer PROVE StatusWord(o) \in Word
  BY DEF TypeOK, StatusWord, Word

LEMMA VisibleOffers == Visible \subseteq Offer
  BY DEF Visible, InTable

\* Nobody but the map holds the Notify of the last guard.
LEMMA LastGuardAlone ==
    ASSUME TypeOK, NEW c \in Client, NEW e \in Client, c # e,
           req[c].notify = waiters, req[e].notify = waiters, waiters # None
    PROVE  ~LastGuard(req[c].notify)
  <1> DEFINE S == {x \in Client : req[x].notify = req[c].notify}
  <1>1. IsFiniteSet(Client)
    BY FS_Union DEF Client
  <1>2. IsFiniteSet(S)
    BY <1>1, FS_Subset
  <1>3. {c, e} \subseteq S
    OBVIOUS
  <1>4. Cardinality({c, e}) = 2 /\ IsFiniteSet({c, e})
    <2>1. Cardinality({c}) = 1 /\ IsFiniteSet({c})
      BY FS_Singleton
    <2>2. {c, e} = {c} \cup {e}
      OBVIOUS
    <2>3. e \notin {c}
      OBVIOUS
    <2>4. /\ IsFiniteSet({c} \cup {e})
          /\ Cardinality({c} \cup {e}) = Cardinality({c}) + 1
      BY <2>1, <2>3, FS_AddElement, Zenon
    <2>5. QED
      BY <2>1, <2>2, <2>4
  <1>5. Cardinality(S) >= 2 /\ Cardinality(S) \in Nat
    <2>1. Cardinality({c, e}) <= Cardinality(S)
      BY <1>2, <1>3, FS_Subset
    <2>2. Cardinality(S) \in Nat
      BY <1>2, FS_CardinalityType
    <2>3. QED
      BY <1>4, <2>1, <2>2
  <1>6. StrongCount(req[c].notify) = Cardinality(S) + 1
    BY DEF StrongCount
  <1>7. QED
    BY <1>5, <1>6 DEF LastGuard

-----------------------------------------------------------------------------
(* The invariant at the start and over each step.                          *)

LEMMA InitInv == Init => Inv
  <1> SUFFICES ASSUME Init PROVE Inv
    OBVIOUS
  <1>1. TypeOK
    BY IdleReq DEF Init, TypeOK
  <1>2. \A c \in Client : req[c].op = "none" /\ req[c].pc = "idle"
    BY IdleReq DEF Init
  <1>3. QED
    BY <1>1, <1>2
       DEF Inv, Shape, WaitersReachable, Waiting, NoLostWakeup, HasNews, At

LEMMA StepPostStart ==
    ASSUME Inv, NEW o \in Offer, PostStart(o)
    PROVE  Inv'
  <1>1. req' \in [Client -> Req]
    BY StartedReq DEF Inv, TypeOK, PostStart, Client
  <1>2. TypeOK'
    BY <1>1, StartedReq
       DEF Inv, TypeOK, PostStart
  <1>3. Shape'
    BY <1>1, StartedReq
       DEF Inv, TypeOK, Shape, Client, At, Held, PostStart, Started
  <1>4. WaitersReachable'
    BY <1>1, StartedReq
       DEF Inv, TypeOK, Shape, WaitersReachable, Waiting, Client, At,
           Held, PostStart, Started
  <1>5. NoLostWakeup'
    <2>1. req[o].pc = "idle" /\ req'[o].op = "post" /\ req'[o].pc = "check"
      BY StartedReq, IdleReq DEF Inv, TypeOK, PostStart, Client
    <2>2. \A e \in Client \ {o} : req'[e] = req[e]
      BY DEF Inv, TypeOK, PostStart
    <2>3. \A e \in Offer \ {o} : known'[e] = known[e]
      BY DEF Inv, TypeOK, PostStart
    <2>4. rows' = rows /\ held' = held /\ acking' = acking
      BY DEF PostStart
    <2>5. WakePending => WakePending'
      BY <2>1, <2>2, <2>4 DEF WakePending
    <2>6. ASSUME NEW e \in Client, HasNews(e)' PROVE HasNews(e) /\ e # o
      BY <2>1, <2>2, <2>3, <2>4, <2>6
         DEF Inv, Shape, HasNews, At, NewsFor, Visible, InTable, StatusWord,
             Client
    <2>7. QED
      BY <2>2, <2>5, <2>6 DEF Inv, NoLostWakeup
  <1>6. QED
    BY <1>2, <1>3, <1>4, <1>5 DEF Inv

LEMMA StepPostCheck ==
    ASSUME Inv, NEW o \in Offer, PostCheck(o)
    PROVE  Inv'
  <1>1. req' \in [Client -> Req]
    BY StartedReq, IdleReq DEF Inv, TypeOK, PostCheck, Client
  <1>2. TypeOK'
    BY <1>1, StartedReq, IdleReq
       DEF Inv, TypeOK, PostCheck
  <1>3. Shape'
    BY <1>1, StartedReq, IdleReq
       DEF Inv, TypeOK, Shape, Client, At, Held, PostCheck, Started, Idle
  <1>4. WaitersReachable'
    BY <1>1, StartedReq, IdleReq
       DEF Inv, TypeOK, Shape, WaitersReachable, Waiting, Client, At,
           Held, PostCheck, Started, Idle
  <1>5. NoLostWakeup'
    BY <1>1, StartedReq, IdleReq
       DEF TypeOK, Client, Held, Armed, Inv, Shape, WaitersReachable,
           Waiting, NoLostWakeup, HasNews, WakePending, At, NewsFor,
           Visible, InTable, StatusWord, PostCheck, Started, Idle
  <1>6. QED
    BY <1>2, <1>3, <1>4, <1>5 DEF Inv

LEMMA StepInboxPut ==
    ASSUME Inv, NEW o \in Offer, InboxPut(o)
    PROVE  Inv'
  <1>1. req' \in [Client -> Req]
    BY MoveReq DEF Inv, InboxPut, Client
  <1>2. TypeOK'
    BY <1>1
       DEF Inv, TypeOK, InboxPut, Row
  <1>3. Shape'
    BY <1>1
       DEF Inv, TypeOK, Shape, Client, At, Held, InboxPut
  <1>4. WaitersReachable'
    BY <1>1
       DEF Inv, TypeOK, Shape, WaitersReachable, Waiting, Client, At,
           Held, InboxPut
  <1>5. NoLostWakeup'
    BY <1>1
       DEF TypeOK, Client, Held, Armed, Inv, Shape, WaitersReachable,
           Waiting, NoLostWakeup, HasNews, WakePending, At, NewsFor,
           Visible, InTable, StatusWord, InboxPut
  <1>6. QED
    BY <1>2, <1>3, <1>4, <1>5 DEF Inv

LEMMA StepPostNotify ==
    ASSUME Inv, NEW o \in Offer, PostNotify(o)
    PROVE  Inv'
  <1>1. req' \in [Client -> Req]
    <2>1. [req EXCEPT ![o].pc = "answer"] \in [Client -> Req]
      BY MoveReq DEF Inv, Client
    <2>2. QED
      BY <2>1, NotifyReq DEF PostNotify
  <1>2. TypeOK'
    BY <1>1
       DEF Inv, TypeOK, PostNotify
  <1>3. Shape'
    BY <1>1
       DEF Inv, TypeOK, Shape, Client, At, Held, PostNotify, NotifyInbox
  <1>4. WaitersReachable'
    BY <1>1
       DEF Inv, TypeOK, Shape, WaitersReachable, Waiting, Client, At,
           Held, PostNotify, NotifyInbox
  <1>5. NoLostWakeup'
    BY <1>1
       DEF TypeOK, Client, Held, Armed, Inv, Shape, WaitersReachable,
           Waiting, NoLostWakeup, HasNews, WakePending, At, NewsFor,
           Visible, InTable, StatusWord, PostNotify, NotifyInbox
  <1>6. QED
    BY <1>2, <1>3, <1>4, <1>5 DEF Inv

LEMMA StepPostAnswer ==
    ASSUME Inv, NEW o \in Offer, PostAnswer(o)
    PROVE  Inv'
  <1>1. req' \in [Client -> Req]
    BY IdleReq DEF Inv, TypeOK, PostAnswer, Client
  <1>2. TypeOK'
    BY <1>1, IdleReq
       DEF Inv, TypeOK, PostAnswer, Word
  <1>3. Shape'
    BY <1>1, IdleReq
       DEF Inv, TypeOK, Shape, Client, At, Held, PostAnswer, Idle,
           Started
  <1>4. WaitersReachable'
    BY <1>1, IdleReq
       DEF Inv, TypeOK, Shape, WaitersReachable, Waiting, Client, At,
           Held, PostAnswer, Idle, Started
  <1>5. NoLostWakeup'
    BY <1>1, IdleReq
       DEF TypeOK, Client, Held, Armed, Inv, Shape, WaitersReachable,
           Waiting, NoLostWakeup, HasNews, WakePending, At, NewsFor,
           Visible, InTable, StatusWord, PostAnswer, Idle, Started
  <1>6. QED
    BY <1>2, <1>3, <1>4, <1>5 DEF Inv

LEMMA StepArm ==
    ASSUME Inv, NEW c \in Client, Arm(c)
    PROVE  Inv'
  <1>1. req' \in [Client -> Req]
    BY MoveReq DEF Inv, Arm
  <1>2. TypeOK'
    BY <1>1
       DEF Inv, TypeOK, Arm
  <1>3. Shape'
    BY <1>1
       DEF Inv, TypeOK, Shape, Client, At, Held, Arm
  <1>4. WaitersReachable'
    BY <1>1
       DEF Inv, TypeOK, Shape, WaitersReachable, Waiting, Client, At,
           Held, Arm
  <1>5. NoLostWakeup'
    BY <1>1
       DEF TypeOK, Client, Held, Armed, Inv, Shape, WaitersReachable,
           Waiting, NoLostWakeup, HasNews, WakePending, At, NewsFor,
           Visible, InTable, StatusWord, Arm
  <1>6. QED
    BY <1>2, <1>3, <1>4, <1>5 DEF Inv

LEMMA StepWakeUp ==
    ASSUME Inv, NEW c \in Client, WakeUp(c)
    PROVE  Inv'
  <1>1. req' \in [Client -> Req]
    BY AgainReq DEF Inv, TypeOK, WakeUp
  <1>2. TypeOK'
    BY <1>1
       DEF Inv, TypeOK, WakeUp
  <1>3. Shape'
    BY <1>1
       DEF Inv, TypeOK, Shape, Client, At, Held, WakeUp, Again
  <1>4. WaitersReachable'
    BY <1>1
       DEF Inv, TypeOK, Shape, WaitersReachable, Waiting, Client, At,
           Held, WakeUp, Again
  <1>5. NoLostWakeup'
    BY <1>1
       DEF TypeOK, Client, Held, Armed, Inv, Shape, WaitersReachable,
           Waiting, NoLostWakeup, HasNews, WakePending, At, NewsFor,
           Visible, InTable, StatusWord, WakeUp, Again
  <1>6. QED
    BY <1>2, <1>3, <1>4, <1>5 DEF Inv

LEMMA StepIdleRecheck ==
    ASSUME Inv, NEW c \in Client, IdleRecheck(c)
    PROVE  Inv'
  <1>1. req' \in [Client -> Req]
    BY AgainReq DEF Inv, TypeOK, IdleRecheck
  <1>2. TypeOK'
    BY <1>1
       DEF Inv, TypeOK, IdleRecheck
  <1>3. Shape'
    BY <1>1
       DEF Inv, TypeOK, Shape, Client, At, Held, IdleRecheck, Again
  <1>4. WaitersReachable'
    BY <1>1
       DEF Inv, TypeOK, Shape, WaitersReachable, Waiting, Client, At,
           Held, IdleRecheck, Again
  <1>5. NoLostWakeup'
    BY <1>1
       DEF TypeOK, Client, Held, Armed, Inv, Shape, WaitersReachable,
           Waiting, NoLostWakeup, HasNews, WakePending, At, NewsFor,
           Visible, InTable, StatusWord, IdleRecheck, Again
  <1>6. QED
    BY <1>2, <1>3, <1>4, <1>5 DEF Inv

LEMMA StepDeadline ==
    ASSUME Inv, NEW c \in Client, Deadline(c)
    PROVE  Inv'
  <1>1. req' \in [Client -> Req]
    <2>1. req[c] \in Req /\ req \in [Client -> Req]
      BY DEF Inv, TypeOK
    <2>2. [req[c] EXCEPT !.over = TRUE] \in Req
      BY <2>1 DEF Req
    <2>3. QED
      BY <2>1, <2>2 DEF Deadline
  <1>2. TypeOK'
    BY <1>1
       DEF Inv, TypeOK, Deadline
  <1>3. Shape'
    BY <1>1
       DEF Inv, TypeOK, Shape, Client, At, Held, Deadline
  <1>4. WaitersReachable'
    BY <1>1
       DEF Inv, TypeOK, Shape, WaitersReachable, Waiting, Client, At,
           Held, Deadline
  <1>5. NoLostWakeup'
    BY <1>1
       DEF TypeOK, Client, Held, Armed, Inv, Shape, WaitersReachable,
           Waiting, NoLostWakeup, HasNews, WakePending, At, NewsFor,
           Visible, InTable, StatusWord, Deadline
  <1>6. QED
    BY <1>2, <1>3, <1>4, <1>5 DEF Inv

LEMMA StepHangUp ==
    ASSUME Inv, NEW c \in Client, HangUp(c)
    PROVE  Inv'
  <1>1. req' \in [Client -> Req]
    BY AnsweringReq DEF Inv, TypeOK, HangUp, Leave
  <1>2. TypeOK'
    BY <1>1
       DEF Inv, TypeOK, HangUp
  <1>3. Shape'
    BY <1>1
       DEF Inv, TypeOK, Shape, Client, At, Held, HangUp, Leave, Answering
  <1>4. WaitersReachable'
    BY <1>1
       DEF Inv, TypeOK, Shape, WaitersReachable, Waiting, Client, At,
           Held, HangUp, Leave, Answering
  <1>5. NoLostWakeup'
    BY <1>1
       DEF TypeOK, Client, Held, Armed, Inv, Shape, WaitersReachable,
           Waiting, NoLostWakeup, HasNews, WakePending, At, NewsFor,
           Visible, InTable, StatusWord, HangUp, Leave, Answering
  <1>6. QED
    BY <1>2, <1>3, <1>4, <1>5 DEF Inv

LEMMA StepDropGuard ==
    ASSUME Inv, NEW c \in Client, DropGuard(c)
    PROVE  Inv'
  <1>1. req' \in [Client -> Req]
    BY MoveReq DEF Inv, DropGuard
  <1>2. TypeOK'
    BY <1>1
       DEF Inv, TypeOK, DropGuard
  <1>3. Shape'
    BY <1>1
       DEF Inv, TypeOK, Shape, Client, At, Held, DropGuard
  <1>4. WaitersReachable'
    <2>1. Waiting(c) /\ req[c].notify = waiters /\ waiters # None
      BY DEF Inv, Shape, WaitersReachable, Waiting, DropGuard
    <2>2. \A e \in Client \ {c} : req'[e] = req[e]
      BY DEF Inv, TypeOK, DropGuard
    <2>3. ~Waiting(c)'
      BY DEF Inv, TypeOK, DropGuard, Waiting
    <2>4. ASSUME NEW e \in Client, Waiting(e)'
          PROVE  req'[e].notify = waiters' /\ waiters' # None
      <3>1. e # c /\ req'[e] = req[e]
        BY <2>2, <2>3, <2>4
      <3>2. req[e].notify = waiters
        BY <2>4, <3>1 DEF Inv, WaitersReachable, Waiting
      <3>3. ~LastGuard(req[c].notify)
        BY <2>1, <3>1, <3>2, LastGuardAlone DEF Inv
      <3>4. QED
        BY <2>1, <3>1, <3>2, <3>3 DEF DropGuard
    <2>5. QED
      BY <2>4 DEF WaitersReachable
  <1>5. NoLostWakeup'
    BY <1>1
       DEF TypeOK, Client, Held, Armed, Inv, Shape, WaitersReachable,
           Waiting, NoLostWakeup, HasNews, WakePending, At, NewsFor,
           Visible, InTable, StatusWord, DropGuard
  <1>6. QED
    BY <1>2, <1>3, <1>4, <1>5 DEF Inv

LEMMA StepLost ==
    ASSUME Inv, NEW c \in Client, Lost(c)
    PROVE  Inv'
  <1>1. req' \in [Client -> Req]
    BY IdleReq DEF Inv, TypeOK, Lost
  <1>2. TypeOK'
    BY <1>1, IdleReq
       DEF Inv, TypeOK, Lost
  <1>3. Shape'
    BY <1>1, IdleReq
       DEF Inv, TypeOK, Shape, Client, At, Held, Lost, Idle, Started
  <1>4. WaitersReachable'
    BY <1>1, IdleReq
       DEF Inv, TypeOK, Shape, WaitersReachable, Waiting, Client, At,
           Held, Lost, Idle, Started
  <1>5. NoLostWakeup'
    BY <1>1, IdleReq
       DEF TypeOK, Client, Held, Armed, Inv, Shape, WaitersReachable,
           Waiting, NoLostWakeup, HasNews, WakePending, At, NewsFor,
           Visible, InTable, StatusWord, Lost, Idle, Started
  <1>6. QED
    BY <1>2, <1>3, <1>4, <1>5 DEF Inv

LEMMA StepPollStart ==
    ASSUME Inv, NEW d \in Device, PollStart(d)
    PROVE  Inv'
  <1>1. req' \in [Client -> Req]
    BY StartedReq DEF Inv, TypeOK, PollStart, Client
  <1>2. TypeOK'
    BY <1>1 DEF Inv, TypeOK, PollStart, Register
  <1>3. Shape'
    <2>1. PICK n \in Notify : req' = [req EXCEPT ![d] = Started("poll", "arm", n)]
      BY DEF PollStart
    <2>2. QED
      BY <2>1, StartedReq DEF Inv, TypeOK, Shape, Client
  <1>4. WaitersReachable'
    <2>1. PICK n \in Notify :
              /\ Register(n)
              /\ req' = [req EXCEPT ![d] = Started("poll", "arm", n)]
      BY DEF PollStart
    <2>2. req'[d].notify = n /\ waiters' = n /\ n # None
      BY <2>1, StartedReq DEF Inv, TypeOK, Register, Client
    <2>3. \A e \in Client \ {d} : req'[e] = req[e]
      BY <2>1 DEF Inv, TypeOK
    <2>4. ASSUME NEW e \in Client, e # d, Waiting(e)'
          PROVE  req'[e].notify = waiters'
      BY <2>1, <2>3, <2>4 DEF Inv, WaitersReachable, Waiting, Register
    <2>5. QED
      BY <2>2, <2>4 DEF WaitersReachable
  <1>5. NoLostWakeup'
    <2>1. PICK n \in Notify : req' = [req EXCEPT ![d] = Started("poll", "arm", n)]
      BY DEF PollStart
    <2>2. /\ req'[d].pc = "arm" /\ req[d].pc = "idle"
          /\ \A e \in Client \ {d} : req'[e] = req[e]
      BY <2>1, StartedReq, IdleReq DEF Inv, TypeOK, Client, PollStart
    <2>3. rows' = rows /\ held' = held /\ acking' = acking /\ known' = known
      BY DEF PollStart
    <2>4. WakePending => WakePending'
      BY <2>2, <2>3 DEF WakePending
    <2>5. ASSUME NEW e \in Client, HasNews(e)' PROVE HasNews(e) /\ e # d
      BY <2>2, <2>3, <2>5
         DEF HasNews, At, NewsFor, Visible, InTable, StatusWord
    <2>6. QED
      BY <2>2, <2>4, <2>5 DEF Inv, NoLostWakeup
  <1>6. QED
    BY <1>2, <1>3, <1>4, <1>5 DEF Inv

LEMMA StepPollLook ==
    ASSUME Inv, NEW d \in Device, PollLook(d)
    PROVE  Inv'
  <1>1. req' \in [Client -> Req]
    <2>1. req \in [Client -> Req] /\ req[d] \in Req
      BY DEF Inv, TypeOK, Client
    <2>2. /\ Answering(req[d], "mark", Visible, "none") \in Req
          /\ Answering(req[d], "drop", {}, "none") \in Req
      BY <2>1, AnsweringReq, VisibleOffers
    <2>3. [req EXCEPT ![d].pc = "hold"] \in [Client -> Req]
      BY MoveReq DEF Inv, Client
    <2>4. QED
      BY <2>1, <2>2, <2>3 DEF PollLook, Leave
  <1>2. TypeOK'
    BY <1>1
       DEF Inv, TypeOK, PollLook
  <1>3. Shape'
    BY <1>1
       DEF Inv, TypeOK, Shape, Client, At, Held, PollLook, Leave,
           Answering
  <1>4. WaitersReachable'
    BY <1>1
       DEF Inv, TypeOK, Shape, WaitersReachable, Waiting, Client, At,
           Held, PollLook, Leave, Answering
  <1>5. NoLostWakeup'
    BY <1>1
       DEF TypeOK, Client, Held, Armed, Inv, Shape, WaitersReachable,
           Waiting, NoLostWakeup, HasNews, WakePending, At, NewsFor,
           Visible, InTable, StatusWord, PollLook, Leave, Answering
  <1>6. QED
    BY <1>2, <1>3, <1>4, <1>5 DEF Inv

LEMMA StepPollMark ==
    ASSUME Inv, NEW d \in Device, PollMark(d)
    PROVE  Inv'
  <1>1. req' \in [Client -> Req]
    BY MoveReq DEF Inv, PollMark, Client
  <1>2. TypeOK'
    <2>1. rows' \in [Offer -> Row \cup {None}]
      <3>1. ASSUME NEW o \in Offer, rows[o] # None
            PROVE  Arrived(rows[o]) \in Row
        <4>1. rows[o] \in Row
          BY <3>1 DEF Inv, TypeOK
        <4>2. QED
          BY <4>1 DEF Arrived, Row
      <3>2. QED
        BY <3>1 DEF Inv, TypeOK, PollMark, InTable
    <2>2. QED
      BY <1>1, <2>1 DEF Inv, TypeOK, PollMark
  <1>3. Shape'
    BY <1>1
       DEF Inv, TypeOK, Shape, Client, At, Held, PollMark, Arrived
  <1>4. WaitersReachable'
    BY <1>1
       DEF Inv, TypeOK, Shape, WaitersReachable, Waiting, Client, At,
           Held, PollMark, Arrived
  <1>5. NoLostWakeup'
    <2>1. req'[d].pc = "wake" /\ d \in Client
      BY DEF Inv, TypeOK, PollMark, Client
    <2>2. QED
      BY <2>1 DEF NoLostWakeup, WakePending
  <1>6. QED
    BY <1>2, <1>3, <1>4, <1>5 DEF Inv

LEMMA StepPollNotify ==
    ASSUME Inv, NEW d \in Device, PollNotify(d)
    PROVE  Inv'
  <1>1. req' \in [Client -> Req]
    <2>1. [req EXCEPT ![d].pc = "drop"] \in [Client -> Req]
      BY MoveReq DEF Inv, Client
    <2>2. QED
      BY <2>1, NotifyReq DEF PollNotify
  <1>2. TypeOK'
    BY <1>1
       DEF Inv, TypeOK, PollNotify
  <1>3. Shape'
    BY <1>1
       DEF Inv, TypeOK, Shape, Client, At, Held, PollNotify, NotifyInbox
  <1>4. WaitersReachable'
    BY <1>1
       DEF Inv, TypeOK, Shape, WaitersReachable, Waiting, Client, At,
           Held, PollNotify, NotifyInbox
  <1>5. NoLostWakeup'
    BY <1>1
       DEF TypeOK, Client, Held, Armed, Inv, Shape, WaitersReachable,
           Waiting, NoLostWakeup, HasNews, WakePending, At, NewsFor,
           Visible, InTable, StatusWord, PollNotify, NotifyInbox
  <1>6. QED
    BY <1>2, <1>3, <1>4, <1>5 DEF Inv

LEMMA StepPollAnswer ==
    ASSUME Inv, NEW d \in Device, PollAnswer(d)
    PROVE  Inv'
  <1>1. req' \in [Client -> Req]
    BY IdleReq DEF Inv, TypeOK, PollAnswer, Client
  <1>2. TypeOK'
    <2>1. req[d].got \in SUBSET Offer
      BY DEF Inv, TypeOK, Req, Client
    <2>2. QED
      BY <1>1, <2>1 DEF Inv, TypeOK, PollAnswer, HeldAfter
  <1>3. Shape'
    BY <1>1, IdleReq
       DEF Inv, TypeOK, Shape, Client, At, Held, PollAnswer, Idle,
           Started
  <1>4. WaitersReachable'
    BY <1>1, IdleReq
       DEF Inv, TypeOK, Shape, WaitersReachable, Waiting, Client, At,
           Held, PollAnswer, Idle, Started
  <1>5. NoLostWakeup'
    <2>1. /\ req'[d].pc = "idle" /\ req[d].pc = "release"
          /\ \A e \in Client \ {d} : req'[e] = req[e]
      BY IdleReq DEF Inv, TypeOK, PollAnswer, Client, At
    <2>2. /\ rows' = rows /\ acking' = acking /\ known' = known
          /\ \A e \in Device \ {d} : held'[e] = held[e]
      BY DEF Inv, TypeOK, PollAnswer
    <2>3. WakePending => WakePending'
      BY <2>1, <2>2 DEF WakePending
    <2>4. ASSUME NEW e \in Client, HasNews(e)' PROVE HasNews(e) /\ e # d
      BY <2>1, <2>2, <2>4
         DEF Inv, Shape, Client, HasNews, At, NewsFor, Visible, InTable,
             StatusWord
    <2>5. QED
      BY <2>1, <2>3, <2>4 DEF Inv, NoLostWakeup
  <1>6. QED
    BY <1>2, <1>3, <1>4, <1>5 DEF Inv

LEMMA StepStatusStart ==
    ASSUME Inv, NEW o \in Offer, StatusStart(o)
    PROVE  Inv'
  <1>1. req' \in [Client -> Req]
    BY StartedReq DEF Inv, TypeOK, StatusStart, Client
  <1>2. TypeOK'
    BY <1>1 DEF Inv, TypeOK, StatusStart, Register
  <1>3. Shape'
    <2>1. PICK n \in Notify : req' = [req EXCEPT ![o] = Started("status", "arm", n)]
      BY DEF StatusStart
    <2>2. QED
      BY <2>1, StartedReq DEF Inv, TypeOK, Shape, Client
  <1>4. WaitersReachable'
    <2>1. PICK n \in Notify :
              /\ Register(n)
              /\ req' = [req EXCEPT ![o] = Started("status", "arm", n)]
      BY DEF StatusStart
    <2>2. req'[o].notify = n /\ waiters' = n /\ n # None
      BY <2>1, StartedReq DEF Inv, TypeOK, Register, Client
    <2>3. \A e \in Client \ {o} : req'[e] = req[e]
      BY <2>1 DEF Inv, TypeOK
    <2>4. ASSUME NEW e \in Client, e # o, Waiting(e)'
          PROVE  req'[e].notify = waiters'
      BY <2>1, <2>3, <2>4 DEF Inv, WaitersReachable, Waiting, Register
    <2>5. QED
      BY <2>2, <2>4 DEF WaitersReachable
  <1>5. NoLostWakeup'
    <2>1. PICK n \in Notify : req' = [req EXCEPT ![o] = Started("status", "arm", n)]
      BY DEF StatusStart
    <2>2. /\ req'[o].pc = "arm" /\ req[o].pc = "idle"
          /\ \A e \in Client \ {o} : req'[e] = req[e]
      BY <2>1, StartedReq, IdleReq DEF Inv, TypeOK, Client, StatusStart
    <2>3. rows' = rows /\ held' = held /\ acking' = acking /\ known' = known
      BY DEF StatusStart
    <2>4. WakePending => WakePending'
      BY <2>2, <2>3 DEF WakePending
    <2>5. ASSUME NEW e \in Client, HasNews(e)' PROVE HasNews(e) /\ e # o
      BY <2>2, <2>3, <2>5
         DEF HasNews, At, NewsFor, Visible, InTable, StatusWord
    <2>6. QED
      BY <2>2, <2>4, <2>5 DEF Inv, NoLostWakeup
  <1>6. QED
    BY <1>2, <1>3, <1>4, <1>5 DEF Inv

LEMMA StepStatusLook ==
    ASSUME Inv, NEW o \in Offer, StatusLook(o)
    PROVE  Inv'
  <1>1. req' \in [Client -> Req]
    <2>1. req \in [Client -> Req] /\ req[o] \in Req
      BY DEF Inv, TypeOK, Client
    <2>2. Answering(req[o], "drop", {}, StatusWord(o)) \in Req
      BY <2>1, AnsweringReq, StatusWordType DEF Inv
    <2>3. [req EXCEPT ![o].pc = "hold"] \in [Client -> Req]
      BY MoveReq DEF Inv, Client
    <2>4. QED
      BY <2>1, <2>2, <2>3 DEF StatusLook, Leave
  <1>2. TypeOK'
    BY <1>1
       DEF Inv, TypeOK, StatusLook
  <1>3. Shape'
    BY <1>1
       DEF Inv, TypeOK, Shape, Client, At, Held, StatusLook, Leave,
           Answering
  <1>4. WaitersReachable'
    BY <1>1
       DEF Inv, TypeOK, Shape, WaitersReachable, Waiting, Client, At,
           Held, StatusLook, Leave, Answering
  <1>5. NoLostWakeup'
    BY <1>1
       DEF TypeOK, Client, Held, Armed, Inv, Shape, WaitersReachable,
           Waiting, NoLostWakeup, HasNews, WakePending, At, NewsFor,
           Visible, InTable, StatusWord, StatusLook, Leave, Answering
  <1>6. QED
    BY <1>2, <1>3, <1>4, <1>5 DEF Inv

LEMMA StepStatusAnswer ==
    ASSUME Inv, NEW o \in Offer, StatusAnswer(o)
    PROVE  Inv'
  <1>1. req' \in [Client -> Req]
    BY IdleReq DEF Inv, TypeOK, StatusAnswer, Client
  <1>2. TypeOK'
    <2>1. req[o].word \in Word \cup {"none"}
      BY DEF Inv, TypeOK, Req, Client
    <2>2. QED
      BY <1>1, <2>1 DEF Inv, TypeOK, StatusAnswer
  <1>3. Shape'
    BY <1>1, IdleReq
       DEF Inv, TypeOK, Shape, Client, At, Held, StatusAnswer, Idle,
           Started
  <1>4. WaitersReachable'
    BY <1>1, IdleReq
       DEF Inv, TypeOK, Shape, WaitersReachable, Waiting, Client, At,
           Held, StatusAnswer, Idle, Started
  <1>5. NoLostWakeup'
    <2>1. /\ req'[o].pc = "idle" /\ req[o].pc = "release"
          /\ \A e \in Client \ {o} : req'[e] = req[e]
      BY IdleReq DEF Inv, TypeOK, StatusAnswer, Client, At
    <2>2. /\ rows' = rows /\ acking' = acking /\ held' = held
          /\ \A e \in Offer \ {o} : known'[e] = known[e]
      BY DEF Inv, TypeOK, StatusAnswer
    <2>3. WakePending => WakePending'
      BY <2>1, <2>2 DEF WakePending
    <2>4. ASSUME NEW e \in Client, HasNews(e)' PROVE HasNews(e) /\ e # o
      BY <2>1, <2>2, <2>4
         DEF Inv, Shape, Client, HasNews, At, NewsFor, Visible, InTable,
             StatusWord
    <2>5. QED
      BY <2>1, <2>3, <2>4 DEF Inv, NoLostWakeup
  <1>6. QED
    BY <1>2, <1>3, <1>4, <1>5 DEF Inv

LEMMA StepRetract ==
    ASSUME Inv, NEW o \in Offer, Retract(o)
    PROVE  Inv'
  <1>1. req' \in [Client -> Req]
    BY DEF Inv, TypeOK, Retract
  <1>2. TypeOK'
    BY <1>1
       DEF Inv, TypeOK, Retract
  <1>3. Shape'
    BY <1>1
       DEF Inv, TypeOK, Shape, Client, At, Held, Retract
  <1>4. WaitersReachable'
    BY <1>1
       DEF Inv, TypeOK, Shape, WaitersReachable, Waiting, Client, At,
           Held, Retract
  <1>5. NoLostWakeup'
    <2>1. /\ req' = req /\ held' = held /\ acking' = acking /\ known' = known
          /\ Visible' \subseteq Visible
          /\ \A e \in Offer : StatusWord(e)' \in {StatusWord(e), "gone"}
      BY DEF Inv, TypeOK, Row, Retract, Visible, InTable, StatusWord
    <2>2. \A e \in Client : HasNews(e)' => HasNews(e)
      BY <2>1 DEF Inv, Shape, Client, HasNews, At, NewsFor
    <2>3. QED
      BY <2>1, <2>2 DEF Inv, NoLostWakeup, WakePending
  <1>6. QED
    BY <1>2, <1>3, <1>4, <1>5 DEF Inv

LEMMA StepRowExpires ==
    ASSUME Inv, NEW o \in Offer, RowExpires(o)
    PROVE  Inv'
  <1>1. req' \in [Client -> Req]
    BY DEF Inv, TypeOK, RowExpires
  <1>2. TypeOK'
    <2>1. rows[o] \in Row
      BY DEF Inv, TypeOK, RowExpires
    <2>2. [rows[o] EXCEPT !.live = FALSE] \in Row
      BY <2>1 DEF Row
    <2>3. rows' = [rows EXCEPT ![o] = [rows[o] EXCEPT !.live = FALSE]]
      BY DEF RowExpires
    <2>4. rows' \in [Offer -> Row \cup {None}]
      BY <2>2, <2>3 DEF Inv, TypeOK
    <2>5. QED
      BY <1>1, <2>4 DEF Inv, TypeOK, RowExpires
  <1>3. Shape'
    BY <1>1
       DEF Inv, TypeOK, Shape, Client, At, Held, RowExpires
  <1>4. WaitersReachable'
    BY <1>1
       DEF Inv, TypeOK, Shape, WaitersReachable, Waiting, Client, At,
           Held, RowExpires
  <1>5. NoLostWakeup'
    <2>1. /\ req' = req /\ held' = held /\ acking' = acking /\ known' = known
          /\ Visible' \subseteq Visible
          /\ \A e \in Offer : StatusWord(e)' \in {StatusWord(e), "gone"}
      BY DEF Inv, TypeOK, Row, RowExpires, Visible, InTable, StatusWord
    <2>2. \A e \in Client : HasNews(e)' => HasNews(e)
      BY <2>1 DEF Inv, Shape, Client, HasNews, At, NewsFor
    <2>3. QED
      BY <2>1, <2>2 DEF Inv, NoLostWakeup, WakePending
  <1>6. QED
    BY <1>2, <1>3, <1>4, <1>5 DEF Inv

LEMMA StepInboxReap ==
    ASSUME Inv, InboxReap
    PROVE  Inv'
  <1>1. req' \in [Client -> Req]
    BY DEF Inv, TypeOK, InboxReap
  <1>2. TypeOK'
    BY <1>1
       DEF Inv, TypeOK, InboxReap
  <1>3. Shape'
    BY <1>1
       DEF Inv, TypeOK, Shape, Client, At, Held, InboxReap
  <1>4. WaitersReachable'
    BY <1>1
       DEF Inv, TypeOK, Shape, WaitersReachable, Waiting, Client, At,
           Held, InboxReap
  <1>5. NoLostWakeup'
    <2>1. /\ req' = req /\ held' = held /\ acking' = acking /\ known' = known
          /\ Visible' \subseteq Visible
          /\ \A e \in Offer : StatusWord(e)' \in {StatusWord(e), "gone"}
      BY DEF Inv, TypeOK, Row, InboxReap, Visible, InTable, StatusWord
    <2>2. \A e \in Client : HasNews(e)' => HasNews(e)
      BY <2>1 DEF Inv, Shape, Client, HasNews, At, NewsFor
    <2>3. QED
      BY <2>1, <2>2 DEF Inv, NoLostWakeup, WakePending
  <1>6. QED
    BY <1>2, <1>3, <1>4, <1>5 DEF Inv

LEMMA StepMarkTaken ==
    ASSUME Inv, NEW d \in Device, NEW o \in Offer, MarkTaken(d, o)
    PROVE  Inv'
  <1>1. req' \in [Client -> Req]
    BY DEF Inv, TypeOK, MarkTaken
  <1>2. TypeOK'
    BY ZenonT(60), <1>1
       DEF Inv, TypeOK, MarkTaken, Row
  <1>3. Shape'
    BY <1>1
       DEF Inv, TypeOK, Shape, Client, At, Held, MarkTaken
  <1>4. WaitersReachable'
    BY <1>1
       DEF Inv, TypeOK, Shape, WaitersReachable, Waiting, Client, At,
           Held, MarkTaken
  <1>5. NoLostWakeup'
    <2>1. acking' # {}
      BY DEF MarkTaken
    <2>2. QED
      BY <2>1 DEF NoLostWakeup, WakePending
  <1>6. QED
    BY <1>2, <1>3, <1>4, <1>5 DEF Inv

LEMMA StepAckNotify ==
    ASSUME Inv, NEW d \in Device, AckNotify(d)
    PROVE  Inv'
  <1>1. req' \in [Client -> Req]
    BY NotifyReq DEF Inv, TypeOK, AckNotify
  <1>2. TypeOK'
    BY <1>1
       DEF Inv, TypeOK, AckNotify
  <1>3. Shape'
    BY <1>1
       DEF Inv, TypeOK, Shape, Client, At, Held, AckNotify, NotifyInbox
  <1>4. WaitersReachable'
    BY <1>1
       DEF Inv, TypeOK, Shape, WaitersReachable, Waiting, Client, At,
           Held, AckNotify, NotifyInbox
  <1>5. NoLostWakeup'
    BY <1>1
       DEF TypeOK, Client, Held, Armed, Inv, Shape, WaitersReachable,
           Waiting, NoLostWakeup, HasNews, WakePending, At, NewsFor,
           Visible, InTable, StatusWord, AckNotify, NotifyInbox
  <1>6. QED
    BY <1>2, <1>3, <1>4, <1>5 DEF Inv

LEMMA StepRelayRestart ==
    ASSUME Inv, RelayRestart
    PROVE  Inv'
  <1>1. req' \in [Client -> Req]
    BY IdleReq DEF RelayRestart
  <1>2. TypeOK'
    BY <1>1, IdleReq
       DEF Inv, TypeOK, RelayRestart
  <1>3. Shape'
    BY <1>1, IdleReq
       DEF Inv, TypeOK, Shape, Client, At, Held, RelayRestart, Idle,
           Started
  <1>4. WaitersReachable'
    BY <1>1, IdleReq
       DEF Inv, TypeOK, Shape, WaitersReachable, Waiting, Client, At,
           Held, RelayRestart, Idle, Started
  <1>5. NoLostWakeup'
    BY <1>1, IdleReq
       DEF TypeOK, Client, Held, Armed, Inv, Shape, WaitersReachable,
           Waiting, NoLostWakeup, HasNews, WakePending, At, NewsFor,
           Visible, InTable, StatusWord, RelayRestart, Idle, Started
  <1>6. QED
    BY <1>2, <1>3, <1>4, <1>5 DEF Inv

LEMMA StepDeviceRestart ==
    ASSUME Inv, NEW d \in Device, DeviceRestart(d)
    PROVE  Inv'
  <1>1. req' \in [Client -> Req]
    BY DEF Inv, TypeOK, DeviceRestart
  <1>2. TypeOK'
    BY <1>1, IdleReq
       DEF Inv, TypeOK, DeviceRestart
  <1>3. Shape'
    BY <1>1, IdleReq
       DEF Inv, TypeOK, Shape, Client, At, Held, DeviceRestart
  <1>4. WaitersReachable'
    BY <1>1, IdleReq
       DEF Inv, TypeOK, Shape, WaitersReachable, Waiting, Client, At,
           Held, DeviceRestart
  <1>5. NoLostWakeup'
    <2>1. /\ req' = req /\ rows' = rows /\ acking' = acking /\ known' = known
          /\ req[d].pc = "idle"
          /\ \A e \in Device \ {d} : held'[e] = held[e]
      BY IdleReq DEF Inv, TypeOK, DeviceRestart
    <2>2. ASSUME NEW e \in Client, HasNews(e)' PROVE HasNews(e)
      BY <2>1, <2>2
         DEF Inv, Shape, Client, HasNews, At, NewsFor, Visible, InTable,
             StatusWord
    <2>3. QED
      BY <2>1, <2>2 DEF Inv, NoLostWakeup, WakePending
  <1>6. QED
    BY <1>2, <1>3, <1>4, <1>5 DEF Inv

LEMMA NextInv == Inv /\ [Next]_vars => Inv'
  <1> SUFFICES ASSUME Inv, [Next]_vars PROVE Inv'
    OBVIOUS
  <1>1. ASSUME NEW o \in Offer, Post(o) PROVE Inv'
    BY <1>1, StepPostStart, StepPostCheck, StepInboxPut, StepPostNotify, StepPostAnswer DEF Post
  <1>2. ASSUME NEW o \in Offer, Status(o) PROVE Inv'
    BY <1>2, StepStatusStart, StepStatusLook, StepStatusAnswer DEF Status
  <1>3. ASSUME NEW d \in Device, Poll(d) PROVE Inv'
    BY <1>3, StepPollStart, StepPollLook, StepPollMark, StepPollNotify, StepPollAnswer DEF Poll
  <1>4. ASSUME NEW c \in Client, Hold(c) PROVE Inv'
    BY <1>4, StepArm, StepWakeUp, StepIdleRecheck, StepDeadline, StepHangUp, StepDropGuard, StepLost DEF Hold
  <1>5. ASSUME NEW d \in Device, AckOffer(d) PROVE Inv'
    BY <1>5, StepMarkTaken, StepAckNotify DEF AckOffer
  <1>6. ASSUME Restart PROVE Inv'
    BY <1>6, StepRelayRestart, StepDeviceRestart DEF Restart
  <1>7. ASSUME UNCHANGED vars PROVE Inv'
    BY <1>7
       DEF vars, TypeOK, Inv, Shape, WaitersReachable, Waiting,
           NoLostWakeup, HasNews, WakePending, At, NewsFor, Visible,
           InTable, StatusWord
  <1>8. QED
    BY <1>1, <1>2, <1>3, <1>4, <1>5, <1>6, <1>7, StepRetract, StepRowExpires,
       StepInboxReap DEF Next

-----------------------------------------------------------------------------
(* Theorems.                                                               *)

\* The rows, the map and the requests stay within their types (TypeOK) for
\* every number of offers, devices and Notify objects.
THEOREM InboxTypeCorrect == Spec => []TypeOK
  <1>1. Inv => TypeOK
    BY DEF Inv
  <1>2. QED
    BY InitInv, NextInv, <1>1, PTL DEF Spec

\* A request that is waiting always sleeps on the Notify that notify_inbox
\* finds in the map: the strong_count test of InboxWaiterGuard::drop never
\* takes the entry from under anybody.
THEOREM WaitersStayReachable == Spec => []WaitersReachable
  <1>1. Inv => WaitersReachable
    BY DEF Inv
  <1>2. QED
    BY InitInv, NextInv, <1>1, PTL DEF Spec

\* No held poll or status request sleeps through what it waits for, whatever
\* the interleaving with posts, reads, acks, hang-ups and restarts: the idle
\* recheck of inbox_get_handler and inbox_status_handler is never needed.
THEOREM WakeupsAreNotLost == Spec => []NoLostWakeup
  <1>1. Inv => NoLostWakeup
    BY DEF Inv
  <1>2. QED
    BY InitInv, NextInv, <1>1, PTL DEF Spec

-----------------------------------------------------------------------------
(* Answers.                                                                *)

\* An answer under way has a row that its device did not have when it asked.
GotInv == \A d \in Device : req[d].got # {} => ~(req[d].got \subseteq held[d])

\* Whoever does not answer a poll leaves the answers as they are, or drops them.
LEMMA GotStays ==
    ASSUME GotInv, UNCHANGED held,
           \A d \in Device : req'[d].got = req[d].got \/ req'[d].got = {}
    PROVE  GotInv'
  BY DEF GotInv

LEMMA NotifyGot ==
    ASSUME NEW f \in [Client -> Req], NEW c \in Client
    PROVE  NotifyInbox(f)[c].got = f[c].got
  <1>1. [f[c] EXCEPT !.woken = TRUE].got = f[c].got
    <2>1. f[c] \in Req
      OBVIOUS
    <2>2. QED
      BY <2>1 DEF Req
  <1>2. QED
    BY <1>1 DEF NotifyInbox

LEMMA IdleGot == Idle.got = {}
  BY DEF Idle, Started

\* A request that goes on, alone.
LEMMA OneMoves ==
    ASSUME Inv, GotInv, NEW c \in Client, NEW q \in Req, q.got \in {req[c].got, {}},
           req' = [req EXCEPT ![c] = q], UNCHANGED held
    PROVE  GotInv'
  <1>1. req \in [Client -> Req]
    BY DEF Inv, TypeOK
  <1>2. \A d \in Device : req'[d].got = req[d].got \/ req'[d].got = {}
    BY <1>1 DEF Client
  <1>3. QED
    BY <1>2, GotStays

LEMMA PcMoves ==
    ASSUME Inv, GotInv, NEW c \in Client, NEW pc, UNCHANGED held,
           req' = [req EXCEPT ![c].pc = pc]
    PROVE  GotInv'
  <1>1. \A d \in Device : req'[d].got = req[d].got
    BY DEF Inv, TypeOK, Req, Client
  <1>2. QED
    BY <1>1, GotStays

LEMMA PostGot ==
    ASSUME Inv, GotInv, NEW o \in Offer, Post(o)
    PROVE  GotInv'
  <1>1. o \in Client /\ UNCHANGED held
    BY DEF Post, PostStart, PostCheck, InboxPut, PostNotify, PostAnswer, Client
  <1>2. \A d \in Device : d # o /\ d \in Client
    BY DEF Client
  <1>3. CASE PostNotify(o)
    <2>1. [req EXCEPT ![o].pc = "answer"] \in [Client -> Req]
      BY <1>1, MoveReq DEF Inv
    <2>2. \A d \in Device : [req EXCEPT ![o].pc = "answer"][d].got = req[d].got
      BY <1>2 DEF Inv, TypeOK
    <2>3. \A d \in Device : req'[d].got = req[d].got
      BY <1>2, <1>3, <2>1, <2>2, NotifyGot DEF PostNotify
    <2>4. QED
      BY <1>1, <2>3, GotStays
  <1>4. CASE ~PostNotify(o)
    <2>1. \A d \in Device : req'[d] = req[d]
      BY <1>2, <1>4
         DEF Post, PostStart, PostCheck, InboxPut, PostAnswer, Inv, TypeOK
    <2>2. QED
      BY <1>1, <2>1, GotStays
  <1>5. QED
    BY <1>3, <1>4

LEMMA StatusGot ==
    ASSUME Inv, GotInv, NEW o \in Offer, Status(o)
    PROVE  GotInv'
  <1>1. \A d \in Device : d # o /\ d \in Client
    BY DEF Client
  <1>2. UNCHANGED held /\ \A d \in Device : req'[d] = req[d]
    BY <1>1 DEF Status, StatusStart, StatusLook, StatusAnswer, Leave, Inv, TypeOK
  <1>3. QED
    BY <1>2, GotStays

LEMMA HoldGot ==
    ASSUME Inv, GotInv, NEW c \in Client, Hold(c)
    PROVE  GotInv'
  <1>1. req[c] \in Req /\ UNCHANGED held
    BY DEF Inv, TypeOK, Hold, Arm, WakeUp, IdleRecheck, Deadline, HangUp, DropGuard, Lost
  <1>2. CASE Arm(c)
    BY <1>1, <1>2, PcMoves DEF Arm
  <1>3. CASE WakeUp(c) \/ IdleRecheck(c)
    <2>1. Again(req[c]) \in Req /\ Again(req[c]).got = {}
      BY <1>1, AgainReq DEF Again
    <2>2. req' = [req EXCEPT ![c] = Again(req[c])]
      BY <1>3 DEF WakeUp, IdleRecheck
    <2>3. QED
      BY <1>1, <2>1, <2>2, OneMoves
  <1>4. CASE Deadline(c)
    <2>1. req' = [req EXCEPT ![c].over = TRUE]
      BY <1>4 DEF Deadline
    <2>2. \A d \in Device : req'[d].got = req[d].got
      BY <2>1 DEF Inv, TypeOK, Req, Client
    <2>3. QED
      BY <1>1, <2>2, GotStays
  <1>5. CASE HangUp(c)
    <2>1. /\ Answering(req[c], "drop", {}, "none") \in Req
          /\ Answering(req[c], "drop", {}, "none").got = {}
      BY <1>1, AnsweringReq DEF Answering
    <2>2. QED
      BY <1>1, <1>5, <2>1, OneMoves DEF HangUp, Leave
  <1>6. CASE DropGuard(c)
    BY <1>1, <1>6, PcMoves DEF DropGuard
  <1>7. CASE Lost(c)
    BY <1>1, <1>7, IdleReq, IdleGot, OneMoves DEF Lost
  <1>8. QED
    BY <1>2, <1>3, <1>4, <1>5, <1>6, <1>7 DEF Hold

LEMMA PollGot ==
    ASSUME Inv, GotInv, NEW d \in Device, Poll(d)
    PROVE  GotInv'
  <1>1. d \in Client /\ req[d] \in Req /\ req \in [Client -> Req]
    BY DEF Inv, TypeOK, Client
  <1>2. CASE PollStart(d)
    <2>1. PICK n \in Notify : req' = [req EXCEPT ![d] = Started("poll", "arm", n)]
      BY <1>2 DEF PollStart
    <2>2. Started("poll", "arm", n) \in Req /\ Started("poll", "arm", n).got = {}
      BY StartedReq DEF Started
    <2>3. UNCHANGED held
      BY <1>2 DEF PollStart
    <2>4. QED
      BY <1>1, <2>1, <2>2, <2>3, OneMoves
  <1>3. CASE PollLook(d)
    <2>1. CASE NewsFor(d)
      <3>1. req' = [req EXCEPT ![d] = Answering(req[d], "mark", Visible, "none")]
        BY <1>3, <2>1 DEF PollLook
      <3>2. req'[d].got = Visible /\ \A e \in Device : e # d => req'[e] = req[e]
        BY <1>1, <3>1 DEF Answering, Client
      <3>3. held' = held /\ ~(Visible \subseteq held[d])
        BY <1>3, <2>1 DEF PollLook, NewsFor
      <3>4. QED
        BY <3>2, <3>3 DEF GotInv
    <2>2. CASE ~NewsFor(d) /\ req[d].over
      <3>1. /\ Answering(req[d], "drop", {}, "none") \in Req
            /\ Answering(req[d], "drop", {}, "none").got = {}
        BY <1>1, AnsweringReq DEF Answering
      <3>2. QED
        BY <1>1, <1>3, <2>2, <3>1, OneMoves DEF PollLook, Leave
    <2>3. CASE ~NewsFor(d) /\ ~req[d].over
      BY <1>1, <1>3, <2>3, PcMoves DEF PollLook
    <2>4. QED
      BY <2>1, <2>2, <2>3
  <1>4. CASE PollMark(d)
    BY <1>1, <1>4, PcMoves DEF PollMark
  <1>5. CASE PollNotify(d)
    <2>1. [req EXCEPT ![d].pc = "drop"] \in [Client -> Req]
      BY <1>1, MoveReq DEF Inv
    <2>2. \A e \in Device : e \in Client /\ [req EXCEPT ![d].pc = "drop"][e].got = req[e].got
      BY <1>1 DEF Client, Req
    <2>3. \A e \in Device : req'[e].got = req[e].got
      BY <1>5, <2>1, <2>2, NotifyGot DEF PollNotify
    <2>4. QED
      BY <1>5, <2>3, GotStays DEF PollNotify
  <1>6. CASE PollAnswer(d)
    <2>1. req'[d].got = {} /\ \A e \in Device : e # d => req'[e] = req[e] /\ held'[e] = held[e]
      BY <1>1, <1>6, IdleGot DEF PollAnswer, Client, Inv, TypeOK
    <2>2. QED
      BY <2>1 DEF GotInv
  <1>7. QED
    BY <1>2, <1>3, <1>4, <1>5, <1>6 DEF Poll

LEMMA AckGot ==
    ASSUME Inv, GotInv, NEW d \in Device, AckOffer(d)
    PROVE  GotInv'
  <1>1. CASE AckNotify(d)
    <2>1. req \in [Client -> Req] /\ Device \subseteq Client
      BY DEF Inv, TypeOK, Client
    <2>2. \A e \in Device : req'[e].got = req[e].got
      BY <1>1, <2>1, NotifyGot DEF AckNotify
    <2>3. QED
      BY <1>1, <2>2, GotStays DEF AckNotify
  <1>2. CASE \E o \in Offer : MarkTaken(d, o)
    BY <1>2, GotStays DEF MarkTaken
  <1>3. QED
    BY <1>1, <1>2 DEF AckOffer

LEMMA NextGot == Inv /\ GotInv /\ [Next]_vars => GotInv'
  <1> SUFFICES ASSUME Inv, GotInv, [Next]_vars PROVE GotInv'
    OBVIOUS
  <1>1. CASE \/ \E o \in Offer : Retract(o) \/ RowExpires(o)
             \/ InboxReap \/ UNCHANGED vars
    BY <1>1, GotStays DEF Retract, RowExpires, InboxReap, vars
  <1>2. CASE RelayRestart
    <2>1. UNCHANGED held /\ \A d \in Device : req'[d].got = {}
      BY <1>2, IdleGot DEF RelayRestart, Client
    <2>2. QED
      BY <2>1, GotStays
  <1>3. ASSUME NEW d \in Device, DeviceRestart(d) PROVE GotInv'
    <2>1. /\ req' = req /\ req[d].got = {}
          /\ \A e \in Device : e # d => held'[e] = held[e]
      BY <1>3, IdleGot DEF DeviceRestart, Inv, TypeOK
    <2>2. QED
      BY <2>1 DEF GotInv
  <1>4. QED
    BY <1>1, <1>2, <1>3, PostGot, StatusGot, HoldGot, PollGot, AckGot DEF Next, Restart

\* A row leaves the table when it has expired or its sender takes it back.
LEMMA RowsLeave == Inv /\ [Next]_vars => GoneOnlyByExpiryOrRetraction
  <1> SUFFICES ASSUME Inv, [Next]_vars, NEW o \in Offer, rows[o] # None, rows'[o] = None,
                      rows[o].live
               PROVE  Retract(o)
    BY DEF GoneOnlyByExpiryOrRetraction
  <1>1. rows \in [Offer -> Row \cup {None}] /\ rows[o] \in Row /\ rows'[o] \notin Row
    BY DEF Inv, TypeOK
  <1>2. rows' # rows
    OBVIOUS
  <1>3. ASSUME NEW p \in Offer, Post(p) PROVE FALSE
    <2>1. InboxPut(p)
      BY <1>2, <1>3 DEF Post, PostStart, PostCheck, PostNotify, PostAnswer
    <2>2. [live |-> TRUE, arrived |-> FALSE, taken |-> FALSE] \in Row
      BY DEF Row
    <2>3. QED
      BY <1>1, <2>1, <2>2 DEF InboxPut
  <1>4. ASSUME NEW p \in Offer, RowExpires(p) PROVE FALSE
    <2>1. [rows[o] EXCEPT !.live = FALSE] \in Row
      BY <1>1 DEF Row
    <2>2. QED
      BY <1>1, <1>4, <2>1 DEF RowExpires
  <1>5. ASSUME NEW d \in Device, Poll(d) PROVE FALSE
    <2>1. PollMark(d)
      BY <1>2, <1>5 DEF Poll, PollStart, PollLook, PollNotify, PollAnswer
    <2>2. Arrived(rows[o]) \in Row
      BY <1>1 DEF Arrived, Row
    <2>3. QED
      BY <1>1, <2>1, <2>2 DEF PollMark
  <1>6. ASSUME NEW d \in Device, AckOffer(d) PROVE FALSE
    <2>1. PICK p \in Offer : MarkTaken(d, p)
      BY <1>2, <1>6 DEF AckOffer, AckNotify
    <2>2. [rows[o] EXCEPT !.taken = TRUE] \in Row
      BY <1>1 DEF Row
    <2>3. QED
      BY <1>1, <2>1, <2>2 DEF MarkTaken
  <1>7. ~InboxReap
    BY <1>1 DEF InboxReap
  <1>8. ASSUME NEW p \in Offer, Status(p) \/ Retract(p) PROVE Retract(o)
    BY <1>1, <1>2, <1>8 DEF Status, StatusStart, StatusLook, StatusAnswer, Retract
  <1>9. ASSUME NEW c \in Client, Hold(c) PROVE FALSE
    BY <1>2, <1>9
       DEF Hold, Arm, WakeUp, IdleRecheck, Deadline, HangUp, DropGuard, Lost
  <1>10. ~Restart /\ ~UNCHANGED vars
    BY <1>2 DEF Restart, RelayRestart, DeviceRestart, vars
  <1>11. QED
    BY <1>3, <1>4, <1>5, <1>6, <1>7, <1>8, <1>9, <1>10 DEF Next

\* No poll is answered with rows its device has already, however rows, devices
\* and the relay change while it is held (inbox_get_handler); and no row leaves
\* its slot, taken or not, before it has expired or its sender withdraws it.
THEOREM AnswersStaySound == Spec => AnswersAreSound
  <1>1. Init => GotInv
    BY IdleGot DEF Init, GotInv, Client
  <1>2. Inv /\ GotInv /\ [Next]_vars => (Inv /\ GotInv)'
    BY NextInv, NextGot
  <1>3. Inv /\ GotInv /\ [Next]_vars => [NoStorm /\ GoneOnlyByExpiryOrRetraction]_vars
    BY RowsLeave DEF GotInv, NoStorm
  <1>4. QED
    BY InitInv, <1>1, <1>2, <1>3, PTL DEF Spec, AnswersAreSound

-----------------------------------------------------------------------------
(* The ladder.                                                             *)

\* What a sender has heard, and what it is being told, is not ahead of the row.
ClimbInv ==
    \A o \in Offer :
        /\ known[o] # "none" => Rank(known[o]) <= Rank(StatusWord(o))
        /\ req[o].op = "post" => known[o] = "none"
        /\ req[o].op = "status" => known[o] # "none"
        /\ req[o].op = "status" /\ req[o].word # "none" =>
              /\ Rank(known[o]) <= Rank(req[o].word)
              /\ Rank(req[o].word) <= Rank(StatusWord(o))

LEMMA RankType ==
    /\ \A w \in Word \cup {"none"} : Rank(w) \in Nat
    /\ \A w \in Word : Rank(w) >= Rank("pending") /\ Rank(w) <= Rank("gone")
    /\ Rank("none") <= Rank("pending") /\ Rank("pending") <= Rank("fetched")
    /\ Rank("fetched") <= Rank("taken")
  BY DEF Rank, Word

\* What a step leaves of a sender's request when it is not its own.
Stands(o) == \/ req'[o].op = "none"
             \/ req'[o].op = req[o].op /\ req'[o].word \in {req[o].word, "none"}
\* No row of the table goes back.
RowsClimb == \A o \in Offer : Rank(StatusWord(o)) <= Rank(StatusWord(o)')

LEMMA ClimbTypes ==
    ASSUME Inv, NEW o \in Offer
    PROVE  /\ o \in Client /\ req[o] \in Req /\ known[o] \in Word \cup {"none"}
           /\ req[o].word \in Word \cup {"none"} /\ StatusWord(o) \in Word
           /\ Rank(known[o]) \in Nat /\ Rank(StatusWord(o)) \in Nat /\ Rank(req[o].word) \in Nat
  <1>1. /\ o \in Client /\ req[o] \in Req /\ known[o] \in Word \cup {"none"}
    BY DEF Inv, TypeOK, Client
  <1>2. req[o].word \in Word \cup {"none"}
    BY <1>1 DEF Req
  <1>3. StatusWord(o) \in Word
    BY StatusWordType DEF Inv
  <1>4. QED
    BY <1>1, <1>2, <1>3, RankType

LEMMA ClimbStays ==
    ASSUME Inv, Inv', ClimbInv, UNCHANGED known, RowsClimb, \A o \in Offer : Stands(o)
    PROVE  ClimbInv'
  <1> SUFFICES ASSUME NEW o \in Offer
      PROVE (/\ known[o] # "none" => Rank(known[o]) <= Rank(StatusWord(o))
             /\ req[o].op = "post" => known[o] = "none"
             /\ req[o].op = "status" => known[o] # "none"
             /\ req[o].op = "status" /\ req[o].word # "none" =>
                   /\ Rank(known[o]) <= Rank(req[o].word)
                   /\ Rank(req[o].word) <= Rank(StatusWord(o)))'
    BY DEF ClimbInv
  <1>1. /\ Rank(known[o]) \in Nat /\ Rank(StatusWord(o)) \in Nat /\ Rank(req[o].word) \in Nat
    BY ClimbTypes
  <1>2. StatusWord(o)' \in Word
    BY StatusWordType DEF Inv, StatusWord, TypeOK, Word
  <1>3. Rank(StatusWord(o)') \in Nat /\ Rank(StatusWord(o)) <= Rank(StatusWord(o)')
    BY <1>2, RankType DEF RowsClimb
  <1>4. /\ known[o] # "none" => Rank(known[o]) <= Rank(StatusWord(o))
        /\ req[o].op = "post" => known[o] = "none"
        /\ req[o].op = "status" => known[o] # "none"
        /\ req[o].op = "status" /\ req[o].word # "none" =>
              /\ Rank(known[o]) <= Rank(req[o].word)
              /\ Rank(req[o].word) <= Rank(StatusWord(o))
    BY DEF ClimbInv
  <1>5. known'[o] # "none" => Rank(known'[o]) <= Rank(StatusWord(o)')
    BY <1>1, <1>3, <1>4
  <1>6. /\ req'[o].op = "post" => known'[o] = "none"
        /\ req'[o].op = "status" => known'[o] # "none"
    BY <1>4 DEF Stands
  <1>7. req'[o].op = "status" /\ req'[o].word # "none" =>
            /\ Rank(known'[o]) <= Rank(req'[o].word)
            /\ Rank(req'[o].word) <= Rank(StatusWord(o)')
    BY <1>1, <1>3, <1>4 DEF Stands
  <1>8. QED
    BY <1>5, <1>6, <1>7 DEF Rank

\* A table that stays, and the words of one row.
LEMMA SameRows == ASSUME Inv, UNCHANGED rows PROVE RowsClimb
  <1>1. ASSUME NEW o \in Offer PROVE StatusWord(o)' = StatusWord(o)
    BY DEF StatusWord
  <1>2. QED
    BY <1>1, ClimbTypes DEF RowsClimb

LEMMA RowStep ==
    ASSUME Inv, NEW o \in Offer,
           \/ rows'[o] = rows[o]
           \/ rows'[o] = None
           \/ /\ rows[o] \in Row /\ rows'[o] \in Row
              /\ rows[o].arrived => rows'[o].arrived
              /\ rows[o].taken => rows'[o].taken
    PROVE  Rank(StatusWord(o)) <= Rank(StatusWord(o)')
  <1>1. StatusWord(o) \in Word /\ Rank(StatusWord(o)) \in Nat
    BY ClimbTypes
  <1>2. CASE rows'[o] = rows[o]
    BY <1>1, <1>2 DEF StatusWord
  <1>3. CASE rows'[o] = None
    <2>1. StatusWord(o)' = "gone"
      BY <1>3 DEF StatusWord
    <2>2. QED
      BY <1>1, <2>1, RankType
  <1>4. CASE /\ rows[o] \in Row /\ rows'[o] \in Row
             /\ rows[o].arrived => rows'[o].arrived
             /\ rows[o].taken => rows'[o].taken
    <2>1. rows[o] # None /\ rows'[o] # None
      BY <1>4, InboxNone
    <2>2. /\ StatusWord(o) = IF rows[o].taken THEN "taken"
                             ELSE IF rows[o].arrived THEN "fetched" ELSE "pending"
          /\ StatusWord(o)' = IF rows'[o].taken THEN "taken"
                              ELSE IF rows'[o].arrived THEN "fetched" ELSE "pending"
      BY <2>1 DEF StatusWord
    <2>3. QED
      BY <1>4, <2>2 DEF Rank
  <1>5. QED
    BY <1>2, <1>3, <1>4

LEMMA NotifyWord ==
    ASSUME NEW f \in [Client -> Req], NEW c \in Client
    PROVE  NotifyInbox(f)[c].word = f[c].word
  <1>1. [f[c] EXCEPT !.woken = TRUE].word = f[c].word
    <2>1. f[c] \in Req
      OBVIOUS
    <2>2. QED
      BY <2>1 DEF Req
  <1>2. QED
    BY <1>1 DEF NotifyInbox

\* One request goes on.
LEMMA OneStands ==
    ASSUME Inv, NEW c \in Client, NEW q, req' = [req EXCEPT ![c] = q],
           q.op = "none" \/ (q.op = req[c].op /\ q.word \in {req[c].word, "none"})
    PROVE  \A o \in Offer : Stands(o)
  BY DEF Inv, TypeOK, Client, Stands

LEMMA PcStands ==
    ASSUME Inv, NEW c \in Client, NEW pc, req' = [req EXCEPT ![c].pc = pc]
    PROVE  \A o \in Offer : Stands(o)
  BY DEF Inv, TypeOK, Req, Client, Stands

LEMMA IdleStands ==
    ASSUME Inv, NEW c \in Client, req' = [req EXCEPT ![c] = Idle]
    PROVE  \A o \in Offer : Stands(o)
  BY IdleReq, OneStands

LEMMA DeviceStands ==
    ASSUME Inv, NEW d \in Device, NEW q, req' = [req EXCEPT ![d] = q]
    PROVE  \A o \in Offer : Stands(o)
  <1>1. \A o \in Offer : o # d /\ o \in Client
    BY InboxConstants DEF InboxConstants, Client
  <1>2. QED
    BY <1>1 DEF Inv, TypeOK, Stands

LEMMA WordStands ==
    ASSUME Inv, NEW c \in Client, NEW pc \in {"answer", "drop"},
           req' = NotifyInbox([req EXCEPT ![c].pc = pc])
    PROVE  \A o \in Offer : Stands(o)
  <1> DEFINE f == [req EXCEPT ![c].pc = pc]
  <1>1. f \in [Client -> Req]
    BY MoveReq DEF Inv
  <1>2. \A o \in Offer : o \in Client /\ f[o].op = req[o].op /\ f[o].word = req[o].word
    BY DEF Inv, TypeOK, Req, Client
  <1> HIDE DEF f
  <1>3. \A o \in Offer : req'[o].op = f[o].op /\ req'[o].word = f[o].word
    BY <1>1, <1>2, NotifyReq, NotifyWord DEF f
  <1>4. QED
    BY <1>2, <1>3 DEF Stands

LEMMA HoldStands ==
    ASSUME Inv, NEW c \in Client, Hold(c)
    PROVE  UNCHANGED <<rows, known>> /\ \A o \in Offer : Stands(o)
  <1>1. UNCHANGED <<rows, known>>
    BY DEF Hold, Arm, WakeUp, IdleRecheck, Deadline, HangUp, DropGuard, Lost
  <1>2. CASE Arm(c) \/ DropGuard(c)
    BY <1>2, PcStands DEF Arm, DropGuard
  <1>3. CASE WakeUp(c) \/ IdleRecheck(c)
    <2>1. req' = [req EXCEPT ![c] = Again(req[c])]
      BY <1>3 DEF WakeUp, IdleRecheck
    <2>2. Again(req[c]).op = req[c].op /\ Again(req[c]).word = "none"
      BY DEF Again
    <2>3. PICK q : q = Again(req[c])
      OBVIOUS
    <2>4. QED
      BY <1>1, <2>1, <2>2, <2>3, OneStands
  <1>4. CASE Deadline(c)
    <2>1. req' = [req EXCEPT ![c].over = TRUE]
      BY <1>4 DEF Deadline
    <2>2. \A o \in Offer : req'[o].op = req[o].op /\ req'[o].word = req[o].word
      BY <2>1 DEF Inv, TypeOK, Req, Client
    <2>3. QED
      BY <1>1, <2>2 DEF Stands
  <1>5. CASE HangUp(c)
    <2>1. req' = [req EXCEPT ![c] = Answering(req[c], "drop", {}, "none")]
      BY <1>5 DEF HangUp, Leave
    <2>2. /\ Answering(req[c], "drop", {}, "none").op = req[c].op
          /\ Answering(req[c], "drop", {}, "none").word = "none"
      BY DEF Answering
    <2>3. PICK q : q = Answering(req[c], "drop", {}, "none")
      OBVIOUS
    <2>4. QED
      BY <1>1, <2>1, <2>2, <2>3, OneStands
  <1>6. CASE Lost(c)
    BY <1>6, IdleStands DEF Lost
  <1>7. QED
    BY <1>1, <1>2, <1>3, <1>4, <1>5, <1>6 DEF Hold

LEMMA PollStands ==
    ASSUME Inv, NEW d \in Device, Poll(d)
    PROVE  UNCHANGED known /\ RowsClimb /\ \A o \in Offer : Stands(o)
  <1>1. UNCHANGED known /\ d \in Client
    BY DEF Poll, PollStart, PollLook, PollMark, PollNotify, PollAnswer, Client
  <1>2. CASE PollStart(d) \/ PollLook(d) \/ PollAnswer(d)
    <2>1. UNCHANGED rows /\ \E q : req' = [req EXCEPT ![d] = q]
      <3>1. CASE PollStart(d)
        BY <3>1 DEF PollStart
      <3>2. CASE PollLook(d)
        <4>1. UNCHANGED rows
          BY <3>2 DEF PollLook
        <4>2. [req EXCEPT ![d].pc = "hold"] = [req EXCEPT ![d] = [req[d] EXCEPT !.pc = "hold"]]
          BY <1>1 DEF Inv, TypeOK
        <4>3. QED
          BY <3>2, <4>1, <4>2 DEF PollLook, Leave
      <3>3. CASE PollAnswer(d)
        BY <3>3 DEF PollAnswer
      <3>4. QED
        BY <1>2, <3>1, <3>2, <3>3
    <2>2. QED
      BY <1>1, <2>1, SameRows, DeviceStands
  <1>3. CASE PollMark(d)
    <2>1. ASSUME NEW o \in Offer PROVE Rank(StatusWord(o)) <= Rank(StatusWord(o)')
      <3>1. rows'[o] = IF o \in req[d].got \cap InTable THEN Arrived(rows[o]) ELSE rows[o]
        BY <1>3 DEF PollMark
      <3>2. CASE o \in req[d].got \cap InTable
        <4>1. rows[o] \in Row
          BY <3>2 DEF InTable, Inv, TypeOK
        <4>2. /\ Arrived(rows[o]) \in Row /\ Arrived(rows[o]).arrived
              /\ Arrived(rows[o]).taken = rows[o].taken
          BY <4>1 DEF Arrived, Row
        <4>3. QED
          BY <3>1, <3>2, <4>1, <4>2, RowStep
      <3>3. QED
        BY <3>1, <3>2, RowStep
    <2>2. QED
      BY <1>1, <1>3, <2>1, PcStands DEF PollMark, RowsClimb
  <1>4. CASE PollNotify(d)
    BY <1>1, <1>4, SameRows, WordStands DEF PollNotify
  <1>5. QED
    BY <1>2, <1>3, <1>4 DEF Poll

LEMMA TableClimbs ==
    ASSUME Inv, \/ \E o \in Offer : Retract(o) \/ RowExpires(o)
                \/ \E d \in Device, o \in Offer : MarkTaken(d, o)
                \/ InboxReap
    PROVE  UNCHANGED <<known, req>> /\ RowsClimb
  <1>1. UNCHANGED <<known, req>>
    BY DEF Retract, RowExpires, MarkTaken, InboxReap
  <1>2. ASSUME NEW p \in Offer PROVE Rank(StatusWord(p)) <= Rank(StatusWord(p)')
    <2>1. rows \in [Offer -> Row \cup {None}]
      BY DEF Inv, TypeOK
    <2>2. ASSUME NEW o \in Offer, Retract(o) PROVE rows'[p] \in {rows[p], None}
      BY <2>1, <2>2 DEF Retract
    <2>3. ASSUME InboxReap PROVE rows'[p] \in {rows[p], None}
      BY <2>3 DEF InboxReap
    <2>4. ASSUME NEW o \in Offer, RowExpires(o)
          PROVE  \/ rows'[p] = rows[p]
                 \/ /\ rows[p] \in Row /\ rows'[p] \in Row
                    /\ rows'[p].arrived = rows[p].arrived /\ rows'[p].taken = rows[p].taken
      <3>1. CASE p # o
        BY <2>1, <2>4, <3>1 DEF RowExpires
      <3>2. CASE p = o
        <4>1. rows[p] \in Row /\ rows'[p] = [rows[p] EXCEPT !.live = FALSE]
          BY <2>1, <2>4, <3>2 DEF RowExpires
        <4>2. QED
          BY <4>1 DEF Row
      <3>3. QED
        BY <3>1, <3>2
    <2>5. ASSUME NEW d \in Device, NEW o \in Offer, MarkTaken(d, o)
          PROVE  \/ rows'[p] = rows[p]
                 \/ /\ rows[p] \in Row /\ rows'[p] \in Row
                    /\ rows'[p].arrived = rows[p].arrived /\ rows'[p].taken
      <3>1. CASE p # o \/ rows[p] = None
        BY <2>1, <2>5, <3>1 DEF MarkTaken
      <3>2. CASE p = o /\ rows[p] # None
        <4>1. rows[p] \in Row /\ rows'[p] = [rows[p] EXCEPT !.taken = TRUE]
          BY <2>1, <2>5, <3>2 DEF MarkTaken
        <4>2. QED
          BY <4>1 DEF Row
      <3>3. QED
        BY <3>1, <3>2
    <2>6. \/ rows'[p] = rows[p]
          \/ rows'[p] = None
          \/ /\ rows[p] \in Row /\ rows'[p] \in Row
             /\ rows[p].arrived => rows'[p].arrived
             /\ rows[p].taken => rows'[p].taken
      BY <2>2, <2>3, <2>4, <2>5
    <2>7. QED
      BY <2>6, RowStep
  <1>3. QED
    BY <1>1, <1>2 DEF RowsClimb

LEMMA PostClimbs ==
    ASSUME Inv, Inv', ClimbInv, NEW o \in Offer, Post(o)
    PROVE  ClimbInv'
  <1>1. o \in Client /\ req \in [Client -> Req] /\ known \in [Offer -> Word \cup {"none"}]
        /\ rows \in [Offer -> Row \cup {None}]
    BY DEF Inv, TypeOK, Client
  <1>2. ASSUME NEW p \in Offer, p # o
        PROVE  Rank(StatusWord(p)') = Rank(StatusWord(p)) /\ known'[p] = known[p]
    BY <1>1, <1>2
       DEF Post, PostStart, PostCheck, InboxPut, PostNotify, PostAnswer, StatusWord
  <1>3. CASE PostCheck(o) \/ PostNotify(o)
    <2>1. UNCHANGED <<rows, known>>
      BY <1>3 DEF PostCheck, PostNotify
    <2>2. ASSUME PostCheck(o) PROVE \A p \in Offer : Stands(p)
      <3>1. req[o].op = "post" /\ \E q \in {Started("post", "put", None), Idle} :
                                      req' = [req EXCEPT ![o] = q]
        BY <2>2 DEF PostCheck, At
      <3>2. PICK q \in {Started("post", "put", None), Idle} : req' = [req EXCEPT ![o] = q]
        BY <3>1
      <3>3. q.op = "none" \/ (q.op = "post" /\ q.word = "none")
        BY <3>2 DEF Started, Idle
      <3>4. QED
        BY <1>1, <3>1, <3>2, <3>3, OneStands
    <2>3. ASSUME PostNotify(o) PROVE \A p \in Offer : Stands(p)
      BY <1>1, <2>3, WordStands DEF PostNotify
    <2>4. QED
      BY <1>3, <2>1, <2>2, <2>3, SameRows, ClimbStays
  <1>4. CASE PostStart(o) \/ InboxPut(o) \/ PostAnswer(o)
    <2>1. ASSUME NEW p \in Offer, p # o PROVE req'[p] = req[p]
      <3>1. p \in Client
        BY DEF Client
      <3>2. QED
        BY <1>1, <1>4, <2>1, <3>1 DEF PostStart, InboxPut, PostAnswer
    <2>2. \/ req'[o].op = "post" /\ known'[o] = "none"
          \/ req'[o].op = "none" /\ known'[o] \in {"none", "pending"}
      <3>1. CASE PostStart(o)
        BY <1>1, <3>1 DEF PostStart, Started
      <3>2. CASE InboxPut(o)
        <4>1. req[o].op = "post" /\ known'[o] = known[o] /\ known[o] = "none"
          BY <3>2 DEF InboxPut, At, ClimbInv
        <4>2. req'[o].op = req[o].op
          BY <1>1, <3>2 DEF InboxPut, Req
        <4>3. QED
          BY <4>1, <4>2
      <3>3. CASE PostAnswer(o)
        <4>1. req[o].op = "post" /\ known[o] = "none"
          BY <3>3 DEF PostAnswer, At, ClimbInv
        <4>2. req'[o] = Idle /\ known'[o] \in {"none", "pending"}
          BY <1>1, <3>3, <4>1 DEF PostAnswer
        <4>3. QED
          BY <4>2, IdleReq
      <3>4. QED
        BY <1>4, <3>1, <3>2, <3>3
    <2>3. Rank("pending") <= Rank(StatusWord(o)')
      <3>1. StatusWord(o)' \in Word
        BY DEF Inv, StatusWord, TypeOK, Word
      <3>2. QED
        BY <3>1, RankType
    <2>4. SUFFICES ASSUME NEW p \in Offer
          PROVE (/\ known[p] # "none" => Rank(known[p]) <= Rank(StatusWord(p))
                 /\ req[p].op = "post" => known[p] = "none"
                 /\ req[p].op = "status" => known[p] # "none"
                 /\ req[p].op = "status" /\ req[p].word # "none" =>
                       /\ Rank(known[p]) <= Rank(req[p].word)
                       /\ Rank(req[p].word) <= Rank(StatusWord(p)))'
      BY DEF ClimbInv
    <2>5. CASE p = o
      BY <2>2, <2>3, <2>5
    <2>6. CASE p # o
      BY <1>2, <2>1, <2>6 DEF ClimbInv
    <2>7. QED
      BY <2>5, <2>6
  <1>5. QED
    BY <1>3, <1>4 DEF Post

LEMMA StatusClimbs ==
    ASSUME Inv, Inv', ClimbInv, NEW o \in Offer, Status(o)
    PROVE  ClimbInv'
  <1>1. /\ o \in Client /\ req \in [Client -> Req] /\ req[o] \in Req
        /\ known \in [Offer -> Word \cup {"none"}]
        /\ Rank(known[o]) \in Nat /\ Rank(StatusWord(o)) \in Nat /\ Rank(req[o].word) \in Nat
    BY ClimbTypes DEF Inv, TypeOK, Client
  <1>2. UNCHANGED rows /\ \A p \in Offer : StatusWord(p)' = StatusWord(p)
    BY DEF Status, StatusStart, StatusLook, StatusAnswer, StatusWord
  <1>3. ASSUME NEW p \in Offer, p # o PROVE req'[p] = req[p] /\ known'[p] = known[p]
    <2>1. p \in Client
      BY DEF Client
    <2>2. QED
      BY <1>1, <1>3, <2>1 DEF Status, StatusStart, StatusLook, StatusAnswer, Leave
  <1>4. /\ known[o] # "none" => Rank(known[o]) <= Rank(StatusWord(o))
        /\ req[o].op = "status" => known[o] # "none"
        /\ req[o].op = "status" /\ req[o].word # "none" =>
              /\ Rank(known[o]) <= Rank(req[o].word)
              /\ Rank(req[o].word) <= Rank(StatusWord(o))
    BY DEF ClimbInv
  <1>5. /\ known'[o] # "none" => Rank(known'[o]) <= Rank(StatusWord(o))
        /\ req'[o].op # "post"
        /\ req'[o].op = "status" =>
              /\ known'[o] # "none"
              /\ req'[o].word # "none" => /\ Rank(known'[o]) <= Rank(req'[o].word)
                                          /\ Rank(req'[o].word) <= Rank(StatusWord(o))
    <2>1. CASE StatusStart(o)
      <3>1. known[o] # "none" /\ known' = known
        BY <2>1 DEF StatusStart, Watched
      <3>2. PICK n \in Notify : req' = [req EXCEPT ![o] = Started("status", "arm", n)]
        BY <2>1 DEF StatusStart
      <3>3. req'[o].op = "status" /\ req'[o].word = "none"
        BY <1>1, <3>2 DEF Started
      <3>4. QED
        BY <1>4, <3>1, <3>3
    <2>2. CASE StatusLook(o)
      <3>1. known' = known /\ req[o].op = "status"
        BY <2>2 DEF StatusLook, At
      <3>2. CASE req' = [req EXCEPT ![o].pc = "hold"]
        <4>1. req'[o].op = req[o].op /\ req'[o].word = req[o].word
          BY <1>1, <3>2 DEF Req
        <4>2. QED
          BY <1>4, <3>1, <4>1
      <3>3. CASE req' = Leave(o, {}, StatusWord(o))
        <4>1. req'[o].op = req[o].op /\ req'[o].word = StatusWord(o)
          BY <1>1, <3>3 DEF Leave, Answering
        <4>2. QED
          BY <1>1, <1>4, <3>1, <4>1
      <3>4. QED
        BY <2>2, <3>2, <3>3 DEF StatusLook
    <2>3. CASE StatusAnswer(o)
      <3>1. req'[o] = Idle /\ req[o].op = "status"
        BY <1>1, <2>3 DEF StatusAnswer, At
      <3>2. known'[o] = IF req[o].word = "none" THEN known[o] ELSE req[o].word
        BY <1>1, <2>3 DEF StatusAnswer
      <3>3. QED
        BY <1>1, <1>4, <3>1, <3>2, IdleReq
    <2>4. QED
      BY <2>1, <2>2, <2>3 DEF Status
  <1>6. SUFFICES ASSUME NEW p \in Offer
        PROVE (/\ known[p] # "none" => Rank(known[p]) <= Rank(StatusWord(p))
               /\ req[p].op = "post" => known[p] = "none"
               /\ req[p].op = "status" => known[p] # "none"
               /\ req[p].op = "status" /\ req[p].word # "none" =>
                     /\ Rank(known[p]) <= Rank(req[p].word)
                     /\ Rank(req[p].word) <= Rank(StatusWord(p)))'
    BY DEF ClimbInv
  <1>7. CASE p = o
    BY <1>2, <1>5, <1>7
  <1>8. CASE p # o
    BY <1>2, <1>3, <1>8 DEF ClimbInv
  <1>9. QED
    BY <1>7, <1>8

LEMMA NextClimbs == Inv /\ ClimbInv /\ [Next]_vars => ClimbInv'
  <1> SUFFICES ASSUME Inv, ClimbInv, [Next]_vars PROVE ClimbInv'
    OBVIOUS
  <1>1. Inv'
    BY NextInv
  <1>2. ASSUME UNCHANGED <<known, req>>, RowsClimb PROVE ClimbInv'
    <2>1. \A o \in Offer : Stands(o)
      BY <1>2 DEF Stands
    <2>2. QED
      BY <1>1, <1>2, <2>1, ClimbStays
  <1>3. CASE \/ \E o \in Offer : Retract(o) \/ RowExpires(o)
             \/ \E d \in Device, o \in Offer : MarkTaken(d, o)
             \/ InboxReap
    BY <1>2, <1>3, TableClimbs
  <1>4. CASE UNCHANGED vars \/ \E d \in Device : DeviceRestart(d)
    <2>1. UNCHANGED <<known, req, rows>>
      BY <1>4 DEF vars, DeviceRestart
    <2>2. QED
      BY <1>2, <2>1, SameRows
  <1>5. CASE RelayRestart
    <2>1. UNCHANGED <<known, rows>> /\ \A o \in Offer : req'[o] = Idle
      BY <1>5 DEF RelayRestart, Client
    <2>2. \A o \in Offer : Stands(o)
      BY <2>1, IdleReq DEF Stands
    <2>3. QED
      BY <1>1, <2>1, <2>2, SameRows, ClimbStays
  <1>6. ASSUME NEW c \in Client, Hold(c) PROVE ClimbInv'
    BY <1>1, <1>6, HoldStands, SameRows, ClimbStays
  <1>7. ASSUME NEW d \in Device, Poll(d) PROVE ClimbInv'
    BY <1>1, <1>7, PollStands, ClimbStays
  <1>8. ASSUME NEW d \in Device, AckNotify(d) PROVE ClimbInv'
    <2>1. UNCHANGED <<known, rows>> /\ req' = NotifyInbox(req) /\ req \in [Client -> Req]
      BY <1>8 DEF AckNotify, Inv, TypeOK
    <2>2. \A o \in Offer : o \in Client
      BY DEF Client
    <2>3. \A o \in Offer : Stands(o)
      BY <2>1, <2>2, NotifyReq, NotifyWord DEF Stands
    <2>4. QED
      BY <1>1, <2>1, <2>3, SameRows, ClimbStays
  <1>9. QED
    BY <1>1, <1>3, <1>4, <1>5, <1>6, <1>7, <1>8, PostClimbs, StatusClimbs
       DEF Next, Restart, AckOffer

\* A sender hears no less than before: only an answer and a new offer change what
\* it knows, and an answer is no lower than that when it is given.
LEMMA KnownClimbs ==
    ASSUME Inv, ClimbInv, [Next]_vars, NEW o \in Offer, known'[o] # "none"
    PROVE  Rank(known'[o]) >= Rank(known[o])
  <1>1. /\ known \in [Offer -> Word \cup {"none"}] /\ Rank(known[o]) \in Nat
        /\ Rank(req[o].word) \in Nat /\ Rank("none") <= Rank("pending")
        /\ Rank("none") \in Nat /\ Rank("pending") \in Nat
    BY ClimbTypes, RankType DEF Inv, TypeOK, Word
  <1>2. CASE known'[o] = known[o]
    BY <1>1, <1>2
  <1>3. CASE known'[o] # known[o]
    <2>1. \E p \in Offer : PostStart(p) \/ PostAnswer(p) \/ StatusAnswer(p)
      <3>1. ~(UNCHANGED known)
        BY <1>3
      <3>2. ~(\E c \in Client : Hold(c)) /\ ~(\E d \in Device : Poll(d) \/ AckOffer(d))
        BY <3>1 DEF Hold, Arm, WakeUp, IdleRecheck, Deadline, HangUp, DropGuard, Lost,
                    Poll, PollStart, PollLook, PollMark, PollNotify, PollAnswer,
                    AckOffer, MarkTaken, AckNotify
      <3>3. ~Restart /\ ~InboxReap /\ ~(UNCHANGED vars)
            /\ ~(\E p \in Offer : Retract(p) \/ RowExpires(p))
        BY <3>1 DEF Restart, RelayRestart, DeviceRestart, InboxReap, vars, Retract, RowExpires
      <3>4. PICK p \in Offer : Post(p) \/ Status(p)
        BY <3>2, <3>3 DEF Next
      <3>5. QED
        BY <3>1, <3>4 DEF Post, PostCheck, InboxPut, PostNotify, Status, StatusStart, StatusLook
    <2>2. PICK p \in Offer : PostStart(p) \/ PostAnswer(p) \/ StatusAnswer(p)
      BY <2>1
    <2>3. p = o
      BY <1>1, <1>3, <2>2 DEF PostStart, PostAnswer, StatusAnswer
    <2>4. ~PostStart(o)
      BY <1>1 DEF PostStart
    <2>5. CASE PostAnswer(o)
      <3>1. known[o] = "none" /\ known'[o] = "pending"
        BY <1>1, <1>3, <2>5 DEF PostAnswer, At, ClimbInv
      <3>2. QED
        BY <1>1, <3>1
    <2>6. CASE StatusAnswer(o)
      <3>1. req[o].op = "status" /\ req[o].word # "none" /\ known'[o] = req[o].word
        BY <1>1, <1>3, <2>6 DEF StatusAnswer, At
      <3>2. QED
        BY <1>1, <3>1 DEF ClimbInv
    <2>7. QED
      BY <2>2, <2>3, <2>4, <2>5, <2>6
  <1>4. QED
    BY <1>2, <1>3

\* What a sender has heard of its offer never goes back, for any number of devices
\* that read and ack it, whatever is lost and whoever restarts: an arrival stamped
\* late does not undo an ack (inbox_mark_arrived), and an answer under way is not
\* overtaken by the row (inbox_status_handler).
THEOREM SendersOnlyClimb == Spec => [][NeverBack]_vars
  <1>1. Init => ClimbInv
    <2>1. Init => \A o \in Offer : known[o] = "none" /\ req[o] = Idle
      BY DEF Init, Client
    <2>2. QED
      BY <2>1, IdleReq DEF ClimbInv
  <1>2. Inv /\ ClimbInv /\ [Next]_vars => (Inv /\ ClimbInv)'
    BY NextInv, NextClimbs
  <1>3. Inv /\ ClimbInv /\ [Next]_vars => [NeverBack]_vars
    BY KnownClimbs DEF NeverBack
  <1>4. QED
    BY InitInv, <1>1, <1>2, <1>3, PTL DEF Spec

=============================================================================
