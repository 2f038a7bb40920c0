--------------------------- MODULE StorageProofs ---------------------------
(***************************************************************************)
(* Proofs about the two places where the bytes of a transfer come to rest: *)
(* the relay's store (Mailbox), for every set of claims, sessions and      *)
(* requests and every value of the bounds, and the files of a download     *)
(* (Receive), for every number of pieces, peers, liars, faults and every   *)
(* window. They share this module, not their state.                        *)
(***************************************************************************)
EXTENDS Mailbox, Receive, FiniteSetTheorems, TLAPS

Writing == {"append", "commit", "renamed", "inserted"}

\* A request names the claim and the session its step needs.
Shape ==
    \A r \in Request :
        /\ req[r].op \in {"deposit", "fetch", "held", "renamed", "inserted"} =>
                req[r].claim \in Claim
        /\ req[r].op \in Writing => req[r].up \in Upload
        /\ req[r].op \notin Writing => req[r].up = None

\* The AppendGuard: a session in use is open and has one user.
SessionHeld ==
    \A r \in Request : req[r].op \in Writing =>
        /\ IsOpen(req[r].up)
        /\ \A q \in Request \ {r} : req[q].up # req[r].up

\* A claim being written has one writer and no row yet.
ClaimHeld ==
    \A r \in Request : req[r].op \in {"deposit", "renamed"} =>
        /\ entries[req[r].claim] = None
        /\ \A q \in Request \ {r} :
               req[q].op \in {"deposit", "renamed"} =>
                    req[q].claim # req[r].claim

\* Nothing has been spent on a claim before it has its row.
Unspent ==
    \A r \in Request : req[r].op \in {"deposit", "renamed"} =>
        spent[req[r].claim] = 0

\* Files are as long as the requests that write them think.
Lengths ==
    /\ \A u \in Upload : IsOpen(u) /\ part[u] # None =>
            part[u].len <= uploads[u].length
    /\ \A r \in Request :
        /\ req[r].op = "deposit" /\ bin[req[r].claim] # None =>
                bin[req[r].claim].len = req[r].len
        /\ req[r].op = "append" /\ part[req[r].up] # None =>
                part[req[r].up].len = req[r].len
        /\ req[r].op = "renamed" /\ bin[req[r].claim] # None =>
                bin[req[r].claim].len = uploads[req[r].up].length
        /\ req[r].op = "commit" /\ part[req[r].up] # None =>
                part[req[r].up].len = uploads[req[r].up].length

Inv == TypeOK /\ DownloadsAccounted /\ Shape /\ SessionHeld /\ ClaimHeld
       /\ Unspent /\ Lengths

-----------------------------------------------------------------------------
(* What keeps the files of live rows out of the sweep's reach.             *)

\* A burned claim waiting for its file to be opened is nobody else's.
BurnOwned ==
    \A r \in Request :
        /\ req[r].burn =>
            /\ req[r].op = "fetch"
            /\ entries[req[r].claim] = None
            /\ \A q \in Request : req[q].op \in {"deposit", "renamed"} =>
                    req[q].claim # req[r].claim

\* A request at work has its file, younger than the sweep will take.
PendingYoung ==
    \A r \in Request :
        /\ req[r].op = "deposit" => /\ bin[req[r].claim] # None
                                   /\ bin[req[r].claim].age <= MaxStall
        /\ req[r].op = "renamed" => /\ bin[req[r].claim] # None
                                   /\ bin[req[r].claim].age <= MaxWait
        /\ req[r].op \in {"append", "commit"} => part[req[r].up] # None
        /\ req[r].op = "commit" => part[req[r].up].age <= MaxWait

\* A row that the sweep's snapshot missed is newer than the snapshot, so its
\* file was still being worked on when the snapshot was taken.
RowsYoung ==
    \A c \in Claim :
        entries[c] # None /\ fate[c] # "cut" /\ c \notin sweep.claims =>
            /\ sweep.pc = "ids" => bin[c].age + MaxWalk < Grace + sweep.elapsed
            /\ sweep.pc = "walk" => bin[c].age < Grace + sweep.elapsed

\* A session that the sweep's snapshot missed was opened after it.
PartsYoung ==
    sweep.pc = "walk" =>
        /\ \A u \in Upload :
            IsOpen(u) /\ u \notin sweep.ids /\ part[u] # None =>
                part[u].age <= sweep.elapsed
        /\ \A r \in Request :
            req[r].op = "renamed" /\ req[r].up \notin sweep.ids =>
                bin[req[r].claim].age <= sweep.elapsed

SafeInv == /\ Inv /\ BlobBacked /\ BurnOwned /\ PendingYoung /\ RowsYoung
           /\ PartsYoung

USE MailboxConstants, NoneAssumption DEF MailboxConstants, NoneAssumption

LEMMA InitInv == Init => Inv
  BY DEF Init, Inv, TypeOK, DownloadsAccounted, Shape, SessionHeld, ClaimHeld,
         Unspent, Lengths, Idle, Doing, SweepIdle, Req, Op, Sweep, Fate, Writing

LEMMA GrantsTyped ==
    \A ttl \in AskedTtl, max \in AskedMax :
        GrantTtl(ttl) \in 0..MaxTtl /\ GrantMax(max) \in 1..MaxDownloadsCap
  BY DEF AskedTtl, AskedMax, GrantTtl, GrantMax, Min2

-----------------------------------------------------------------------------
(* Every action keeps Inv.                                                 *)

-----------------------------------------------------------------------------
(* Every action keeps Inv.                                                 *)

LEMMA StepDepositStart ==
    ASSUME Inv, NEW r \in Request, NEW c \in Claim,
           DepositStart(r, c)
    PROVE  Inv'
  <1>1. TypeOK'
    <2>1. bin' \in [Claim -> File \cup {None}]
      BY DEF Inv, TypeOK, DepositStart, NewHistory, File, AgeCap
    <2>2. req' \in [Request -> Req]
      BY DEF Inv, TypeOK, DepositStart, NewHistory, Req, Op, Idle, Doing
    <2>3. spent' \in [Claim -> 0..MaxDownloadsCap]
      BY DEF Inv, TypeOK, DepositStart, NewHistory
    <2>4. fate' \in [Claim -> Fate]
      BY DEF Inv, TypeOK, DepositStart, NewHistory, Fate
    <2> QED BY <2>1, <2>2, <2>3, <2>4 DEF Inv, TypeOK, DepositStart
  <1>2. DownloadsAccounted'
    BY DEF Inv, TypeOK, DownloadsAccounted, EntryRow, DepositStart,
       FreshClaim, NewHistory
  <1>3. Unspent'
    BY DEF Inv, TypeOK, Shape, Unspent, ClaimHeld, Req, Idle, Doing, Writing,
       DepositStart, FreshClaim, NewHistory
  <1>4. Shape'
    BY DEF Inv, TypeOK, Shape, Writing, Req, Idle, Doing, DepositStart,
       FreshClaim, NewHistory
  <1>5. SessionHeld'
    BY DEF Inv, TypeOK, Shape, SessionHeld, Writing, IsOpen, Req, Idle, Doing,
       DepositStart, FreshClaim, NewHistory
  <1>6. ClaimHeld'
    BY DEF Inv, TypeOK, Shape, ClaimHeld, Req, Idle, Doing, Writing,
       DepositStart, FreshClaim, NewHistory
  <1>7. Lengths'
    BY DEF Inv, TypeOK, Shape, ClaimHeld, SessionHeld, Lengths, IsOpen,
       Writing, Req, File, UploadRow, Idle, Doing, DepositStart, FreshClaim,
       NewHistory
  <1> QED
    BY <1>1, <1>2, <1>3, <1>4, <1>5, <1>6, <1>7 DEF Inv

LEMMA StepDepositChunk ==
    ASSUME Inv, NEW r \in Request,
           DepositChunk(r)
    PROVE  Inv'
  <1>1. TypeOK'
    <2>1. bin' \in [Claim -> File \cup {None}]
      BY DEF Inv, TypeOK, DepositChunk, File, AgeCap, Lengths, Req, Shape
    <2>2. req' \in [Request -> Req]
      BY DEF Inv, TypeOK, DepositChunk, Req, Op, Idle, Doing
    <2> QED BY <2>1, <2>2 DEF Inv, TypeOK, DepositChunk
  <1>2. Unspent'
    BY DEF Inv, TypeOK, Shape, Unspent, ClaimHeld, Req, Idle, Doing, Writing,
       DepositChunk
  <1>3. Shape'
    BY DEF Inv, TypeOK, Shape, Writing, Req, Idle, Doing, DepositChunk
  <1>4. SessionHeld'
    BY DEF Inv, TypeOK, Shape, SessionHeld, Writing, IsOpen, Req, Idle, Doing,
       DepositChunk
  <1>5. ClaimHeld'
    BY DEF Inv, TypeOK, Shape, ClaimHeld, Req, Idle, Doing, Writing,
       DepositChunk
  <1>6. Lengths'
    BY DEF Inv, TypeOK, Shape, ClaimHeld, SessionHeld, Lengths, IsOpen,
       Writing, Req, File, UploadRow, Idle, Doing, DepositChunk
  <1> QED
    BY <1>1, <1>2, <1>3, <1>4, <1>5, <1>6 DEF Inv, DepositChunk,
       DownloadsAccounted

LEMMA StepDepositCommit ==
    ASSUME Inv, NEW r \in Request,
           NEW ttl \in AskedTtl, NEW max \in AskedMax,
           NEW token \in Token \cup {None},
           DepositCommit(r, ttl, max, token)
    PROVE  Inv'
  <1>1. TypeOK'
    <2>1. entries' \in [Claim -> EntryRow \cup {None}]
      <3>1. req[r].claim \in Claim /\ req[r].len \in 0..MaxBlob
        BY DEF Inv, TypeOK, Shape, SessionHeld, DepositCommit, Req, Writing,
           IsOpen, UploadRow
      <3>2. [left |-> GrantTtl(ttl), max |-> GrantMax(max), downloads |-> 0,
             token |-> token, size |-> req[r].len] \in EntryRow
        BY <3>1, GrantsTyped DEF EntryRow
      <3> QED BY <3>1, <3>2 DEF Inv, TypeOK, DepositCommit, CommitDeposit
    <2>2. req' \in [Request -> Req]
      BY DEF Inv, TypeOK, DepositCommit, CommitDeposit, GrantTtl, GrantMax,
         Min2, AskedTtl, AskedMax, Finish, Req, Op, Idle, Doing
    <2>3. fate' \in [Claim -> Fate]
      BY DEF Inv, TypeOK, DepositCommit, CommitDeposit, GrantTtl, GrantMax,
         Min2, AskedTtl, AskedMax, Finish, Fate
    <2> QED BY <2>1, <2>2, <2>3 DEF Inv, TypeOK, DepositCommit
  <1>2. DownloadsAccounted'
    <2>1. req[r].claim \in Claim
      BY DEF Inv, Shape, DepositCommit
    <2>2. spent[req[r].claim] = 0
      BY <2>1 DEF Inv, Unspent, DepositCommit
    <2>3. entries'[req[r].claim].downloads = 0
          /\ entries'[req[r].claim].max = GrantMax(max)
      BY <2>1 DEF Inv, TypeOK, DepositCommit, CommitDeposit
    <2>4. \A d \in Claim \ {req[r].claim} : entries'[d] = entries[d]
      BY DEF Inv, TypeOK, DepositCommit, CommitDeposit
    <2> QED BY <2>2, <2>3, <2>4, GrantsTyped
            DEF Inv, DownloadsAccounted, DepositCommit
  <1>3. Unspent'
    BY DEF Inv, TypeOK, Shape, Unspent, ClaimHeld, Req, Idle, Doing, Writing,
       DepositCommit, CommitDeposit, GrantTtl, GrantMax, Min2, AskedTtl,
       AskedMax, Finish
  <1>4. Shape'
    BY DEF Inv, TypeOK, Shape, Writing, Req, Idle, Doing, DepositCommit,
       CommitDeposit, GrantTtl, GrantMax, Min2, AskedTtl, AskedMax, Finish
  <1>5. SessionHeld'
    BY DEF Inv, TypeOK, Shape, SessionHeld, Writing, IsOpen, Req, Idle, Doing,
       DepositCommit, CommitDeposit, GrantTtl, GrantMax, Min2, AskedTtl,
       AskedMax, Finish
  <1>6. ClaimHeld'
    BY DEF Inv, TypeOK, Shape, ClaimHeld, Req, Idle, Doing, Writing,
       DepositCommit, CommitDeposit, GrantTtl, GrantMax, Min2, AskedTtl,
       AskedMax, Finish
  <1>7. Lengths'
    BY DEF Inv, TypeOK, Shape, ClaimHeld, SessionHeld, Lengths, IsOpen,
       Writing, Req, File, UploadRow, Idle, Doing, DepositCommit,
       CommitDeposit, GrantTtl, GrantMax, Min2, AskedTtl, AskedMax, Finish
  <1> QED
    BY <1>1, <1>2, <1>3, <1>4, <1>5, <1>6, <1>7 DEF Inv

LEMMA StepDepositAbort ==
    ASSUME Inv, NEW r \in Request,
           DepositAbort(r)
    PROVE  Inv'
  <1>1. TypeOK'
    <2>1. bin' \in [Claim -> File \cup {None}]
      BY DEF Inv, TypeOK, DepositAbort, Finish, File, AgeCap
    <2>2. req' \in [Request -> Req]
      BY DEF Inv, TypeOK, DepositAbort, Finish, Req, Op, Idle, Doing
    <2> QED BY <2>1, <2>2 DEF Inv, TypeOK, DepositAbort
  <1>2. Unspent'
    BY DEF Inv, TypeOK, Shape, Unspent, ClaimHeld, Req, Idle, Doing, Writing,
       DepositAbort, Finish
  <1>3. Shape'
    BY DEF Inv, TypeOK, Shape, Writing, Req, Idle, Doing, DepositAbort, Finish
  <1>4. SessionHeld'
    BY DEF Inv, TypeOK, Shape, SessionHeld, Writing, IsOpen, Req, Idle, Doing,
       DepositAbort, Finish
  <1>5. ClaimHeld'
    BY DEF Inv, TypeOK, Shape, ClaimHeld, Req, Idle, Doing, Writing,
       DepositAbort, Finish
  <1>6. Lengths'
    BY DEF Inv, TypeOK, Shape, ClaimHeld, SessionHeld, Lengths, IsOpen,
       Writing, Req, File, UploadRow, Idle, Doing, DepositAbort, Finish
  <1> QED
    BY <1>1, <1>2, <1>3, <1>4, <1>5, <1>6 DEF Inv, DepositAbort, Finish,
       DownloadsAccounted

LEMMA StepCancel ==
    ASSUME Inv, NEW r \in Request,
           Cancel(r)
    PROVE  Inv'
  <1>1. TypeOK'
    <2>1. req' \in [Request -> Req]
      BY DEF Inv, TypeOK, Cancel, Finish, Req, Op, Idle, Doing
    <2> QED BY <2>1 DEF Inv, TypeOK, Cancel
  <1>2. Unspent'
    BY DEF Inv, TypeOK, Shape, Unspent, ClaimHeld, Req, Idle, Doing, Writing,
       Cancel, Finish
  <1>3. Shape'
    BY DEF Inv, TypeOK, Shape, Writing, Req, Idle, Doing, Cancel, Finish
  <1>4. SessionHeld'
    BY DEF Inv, TypeOK, Shape, SessionHeld, Writing, IsOpen, Req, Idle, Doing,
       Cancel, Finish
  <1>5. ClaimHeld'
    BY DEF Inv, TypeOK, Shape, ClaimHeld, Req, Idle, Doing, Writing, Cancel,
       Finish
  <1>6. Lengths'
    BY DEF Inv, TypeOK, Shape, ClaimHeld, SessionHeld, Lengths, IsOpen,
       Writing, Req, File, UploadRow, Idle, Doing, Cancel, Finish
  <1> QED
    BY <1>1, <1>2, <1>3, <1>4, <1>5, <1>6 DEF Inv, Cancel, Finish,
       DownloadsAccounted

LEMMA StepFetchRefuse ==
    ASSUME Inv, NEW c \in Claim,
           FetchRefuse(c)
    PROVE  Inv'
  <1>1. TypeOK'
    <2>1. entries' \in [Claim -> EntryRow \cup {None}]
      BY DEF Inv, TypeOK, FetchRefuse, Delete, EntryRow
    <2>2. bin' \in [Claim -> File \cup {None}]
      BY DEF Inv, TypeOK, FetchRefuse, Delete, File, AgeCap
    <2>3. fate' \in [Claim -> Fate]
      BY DEF Inv, TypeOK, FetchRefuse, Delete, Fate
    <2> QED BY <2>1, <2>2, <2>3 DEF Inv, TypeOK, FetchRefuse
  <1>2. DownloadsAccounted'
    BY DEF Inv, TypeOK, DownloadsAccounted, EntryRow, FetchRefuse, Delete
  <1>3. ClaimHeld'
    BY DEF Inv, TypeOK, Shape, ClaimHeld, Req, Idle, Doing, Writing,
       FetchRefuse, Delete
  <1>4. Lengths'
    BY DEF Inv, TypeOK, Shape, ClaimHeld, SessionHeld, Lengths, IsOpen,
       Writing, Req, File, UploadRow, Idle, Doing, FetchRefuse, Delete
  <1> QED
    BY <1>1, <1>2, <1>3, <1>4 DEF Inv, FetchRefuse, Delete, Unspent, Shape,
       SessionHeld, IsOpen

LEMMA StepFetchPlan ==
    ASSUME Inv, NEW r \in Request, NEW c \in Claim,
           FetchPlan(r, c)
    PROVE  Inv'
  <1>1. TypeOK'
    <2>1. entries' \in [Claim -> EntryRow \cup {None}]
      <3>1. entries[c] \in EntryRow /\ entries[c].downloads < MaxDownloadsCap
        BY DEF Inv, TypeOK, FetchPlan, Servable, EntryRow
      <3>2. CASE LastDownload(c)
        BY <3>2 DEF Inv, TypeOK, FetchPlan
      <3>3. CASE ~LastDownload(c)
        BY <3>1, <3>3 DEF Inv, TypeOK, FetchPlan, EntryRow
      <3> QED BY <3>2, <3>3
    <2>2. req' \in [Request -> Req]
      <3>1. \A b \in BOOLEAN : Doing("fetch", c, None, 0, b) \in Req
        BY DEF Doing, Req, Op
      <3>2. \E b \in BOOLEAN :
                req' = [req EXCEPT ![r] = Doing("fetch", c, None, 0, b)]
        BY DEF FetchPlan
      <3> QED BY <3>1, <3>2 DEF Inv, TypeOK
    <2>3. spent' \in [Claim -> 0..MaxDownloadsCap]
      BY DEF Inv, TypeOK, FetchPlan, Servable, LastDownload, Spend,
         DownloadsAccounted, EntryRow, Req
    <2>4. fate' \in [Claim -> Fate]
      BY DEF Inv, TypeOK, FetchPlan, Servable, LastDownload, Spend, Fate
    <2> QED BY <2>1, <2>2, <2>3, <2>4 DEF Inv, TypeOK, FetchPlan
  <1>2. DownloadsAccounted'
    <2>1. entries[c] \in EntryRow /\ entries[c].downloads = spent[c]
      BY DEF Inv, TypeOK, DownloadsAccounted, FetchPlan, Servable
    <2>2. /\ spent'[c] = spent[c] + 1
          /\ \A d \in Claim \ {c} : spent'[d] = spent[d]
      BY DEF Inv, TypeOK, FetchPlan, Spend
    <2>3. CASE LastDownload(c)
      BY <2>2, <2>3 DEF Inv, TypeOK, DownloadsAccounted, FetchPlan
    <2>4. CASE ~LastDownload(c)
      BY <2>1, <2>2, <2>4 DEF Inv, TypeOK, DownloadsAccounted, FetchPlan,
                              LastDownload, EntryRow
    <2> QED BY <2>3, <2>4
  <1>3. Unspent'
    <2>1. CASE LastDownload(c)
      BY <2>1
      DEF Inv, TypeOK, FetchPlan, Spend, Servable, Shape, Unspent,
          ClaimHeld, Doing
    <2>2. CASE ~LastDownload(c)
      BY <2>2
      DEF Inv, TypeOK, FetchPlan, Spend, Servable, Shape, Unspent,
          ClaimHeld, Doing
    <2> QED BY <2>1, <2>2
  <1>4. Shape'
    BY DEF Inv, TypeOK, Shape, Writing, Req, Idle, Doing, FetchPlan, Servable,
       LastDownload, Spend
  <1>5. SessionHeld'
    BY SMTT(30) DEF Inv, TypeOK, Shape, SessionHeld, Writing, IsOpen, Req, Idle, Doing,
       FetchPlan, Servable, LastDownload, Spend
  <1>6. ClaimHeld'
    <2>1. CASE LastDownload(c)
      BY <2>1
      DEF Inv, TypeOK, FetchPlan, Spend, Servable, Shape, ClaimHeld, Doing
    <2>2. CASE ~LastDownload(c)
      BY <2>2
      DEF Inv, TypeOK, FetchPlan, Spend, Servable, Shape, ClaimHeld, Doing
    <2> QED BY <2>1, <2>2
  <1>7. Lengths'
    <2>1. CASE LastDownload(c)
      BY <2>1
      DEF Inv, TypeOK, FetchPlan, Spend, Servable, Shape, SessionHeld,
          Lengths, IsOpen, Writing, Doing
    <2>2. CASE ~LastDownload(c)
      BY <2>2
      DEF Inv, TypeOK, FetchPlan, Spend, Servable, Shape, SessionHeld,
          Lengths, IsOpen, Writing, Doing
    <2> QED BY <2>1, <2>2
  <1> QED
    BY <1>1, <1>2, <1>3, <1>4, <1>5, <1>6, <1>7 DEF Inv

LEMMA StepFetchPlanHeld ==
    ASSUME Inv, NEW r \in Request, NEW c \in Claim,
           FetchPlanHeld(r, c)
    PROVE  Inv'
  <1>1. TypeOK'
    <2>1. req' \in [Request -> Req]
      BY DEF Inv, TypeOK, FetchPlanHeld, Req, Op, Idle, Doing
    <2> QED BY <2>1 DEF Inv, TypeOK, FetchPlanHeld
  <1>2. Unspent'
    BY DEF Inv, TypeOK, Shape, Unspent, ClaimHeld, Req, Idle, Doing, Writing,
       FetchPlanHeld
  <1>3. Shape'
    BY DEF Inv, TypeOK, Shape, Writing, Req, Idle, Doing, FetchPlanHeld
  <1>4. SessionHeld'
    BY DEF Inv, TypeOK, Shape, SessionHeld, Writing, IsOpen, Req, Idle, Doing,
       FetchPlanHeld
  <1>5. ClaimHeld'
    BY DEF Inv, TypeOK, Shape, ClaimHeld, Req, Idle, Doing, Writing,
       FetchPlanHeld
  <1>6. Lengths'
    BY DEF Inv, TypeOK, Shape, ClaimHeld, SessionHeld, Lengths, IsOpen,
       Writing, Req, File, UploadRow, Idle, Doing, FetchPlanHeld
  <1> QED
    BY <1>1, <1>2, <1>3, <1>4, <1>5, <1>6 DEF Inv, FetchPlanHeld,
       DownloadsAccounted

LEMMA StepFetchOpen ==
    ASSUME Inv, NEW r \in Request,
           FetchOpen(r)
    PROVE  Inv'
  <1>1. TypeOK'
    <2>1. bin' \in [Claim -> File \cup {None}]
      BY DEF Inv, TypeOK, FetchOpen, Finish, File, AgeCap
    <2>2. req' \in [Request -> Req]
      BY DEF Inv, TypeOK, FetchOpen, Finish, Req, Op, Idle, Doing
    <2> QED BY <2>1, <2>2 DEF Inv, TypeOK, FetchOpen
  <1>2. Unspent'
    BY DEF Inv, TypeOK, Shape, Unspent, ClaimHeld, Req, Idle, Doing, Writing,
       FetchOpen, Finish
  <1>3. Shape'
    BY DEF Inv, TypeOK, Shape, Writing, Req, Idle, Doing, FetchOpen, Finish
  <1>4. SessionHeld'
    BY DEF Inv, TypeOK, Shape, SessionHeld, Writing, IsOpen, Req, Idle, Doing,
       FetchOpen, Finish
  <1>5. ClaimHeld'
    BY DEF Inv, TypeOK, Shape, ClaimHeld, Req, Idle, Doing, Writing,
       FetchOpen, Finish
  <1>6. Lengths'
    BY DEF Inv, TypeOK, Shape, ClaimHeld, SessionHeld, Lengths, IsOpen,
       Writing, Req, File, UploadRow, Idle, Doing, FetchOpen, Finish
  <1> QED
    BY <1>1, <1>2, <1>3, <1>4, <1>5, <1>6 DEF Inv, FetchOpen, Finish,
       DownloadsAccounted

LEMMA StepAckFetch ==
    ASSUME Inv, NEW c \in Claim,
           AckFetch(c)
    PROVE  Inv'
  <1>1. TypeOK'
    <2>1. entries' \in [Claim -> EntryRow \cup {None}]
      BY DEF Inv, TypeOK, AckFetch, Delete, LastDownload, Spend, EntryRow,
         DownloadsAccounted
    <2>2. bin' \in [Claim -> File \cup {None}]
      BY DEF Inv, TypeOK, AckFetch, Delete, LastDownload, Spend, File, AgeCap
    <2>3. spent' \in [Claim -> 0..MaxDownloadsCap]
      BY DEF Inv, TypeOK, AckFetch, Delete, LastDownload, Spend,
         DownloadsAccounted, EntryRow
    <2>4. fate' \in [Claim -> Fate]
      BY DEF Inv, TypeOK, AckFetch, Delete, LastDownload, Spend, Fate
    <2> QED BY <2>1, <2>2, <2>3, <2>4 DEF Inv, TypeOK, AckFetch
  <1>2. DownloadsAccounted'
    BY DEF Inv, TypeOK, DownloadsAccounted, EntryRow, AckFetch, Delete,
       LastDownload, Spend
  <1>3. Unspent'
    BY DEF Inv, TypeOK, Shape, Unspent, ClaimHeld, Req, Idle, Doing, Writing,
       AckFetch, Delete, LastDownload, Spend
  <1>4. ClaimHeld'
    BY DEF Inv, TypeOK, Shape, ClaimHeld, Req, Idle, Doing, Writing, AckFetch,
       Delete, LastDownload, Spend
  <1>5. Lengths'
    BY DEF Inv, TypeOK, Shape, ClaimHeld, SessionHeld, Lengths, IsOpen,
       Writing, Req, File, UploadRow, Idle, Doing, AckFetch, Delete,
       LastDownload, Spend
  <1> QED
    BY <1>1, <1>2, <1>3, <1>4, <1>5 DEF Inv, AckFetch, Delete, Spend, Shape,
       SessionHeld, IsOpen

LEMMA StepRevoke ==
    ASSUME Inv, NEW c \in Claim, NEW token \in Token,
           Revoke(c, token)
    PROVE  Inv'
  <1>1. TypeOK'
    <2>1. entries' \in [Claim -> EntryRow \cup {None}]
      BY DEF Inv, TypeOK, Revoke, Delete, EntryRow
    <2>2. bin' \in [Claim -> File \cup {None}]
      BY DEF Inv, TypeOK, Revoke, Delete, File, AgeCap
    <2>3. fate' \in [Claim -> Fate]
      BY DEF Inv, TypeOK, Revoke, Delete, Fate
    <2> QED BY <2>1, <2>2, <2>3 DEF Inv, TypeOK, Revoke
  <1>2. DownloadsAccounted'
    BY DEF Inv, TypeOK, DownloadsAccounted, EntryRow, Revoke, Delete
  <1>3. ClaimHeld'
    BY DEF Inv, TypeOK, Shape, ClaimHeld, Req, Idle, Doing, Writing, Revoke,
       Delete
  <1>4. Lengths'
    BY DEF Inv, TypeOK, Shape, ClaimHeld, SessionHeld, Lengths, IsOpen,
       Writing, Req, File, UploadRow, Idle, Doing, Revoke, Delete
  <1> QED
    BY <1>1, <1>2, <1>3, <1>4 DEF Inv, Revoke, Delete, Unspent, Shape,
       SessionHeld, IsOpen

LEMMA StepOpenUpload ==
    ASSUME Inv, NEW u \in Upload, NEW length \in 0..MaxBlob,
           OpenUpload(u, length)
    PROVE  Inv'
  <1>1. TypeOK'
    <2>1. uploads' \in [Upload -> UploadRow \cup {None}]
      BY DEF Inv, TypeOK, OpenUpload, UploadRow, MaxLeft
    <2>2. part' \in [Upload -> File \cup {None}]
      BY DEF Inv, TypeOK, OpenUpload, File, AgeCap
    <2> QED BY <2>1, <2>2 DEF Inv, TypeOK, OpenUpload
  <1>2. SessionHeld'
    BY DEF Inv, TypeOK, Shape, SessionHeld, Writing, IsOpen, Req, Idle, Doing,
       OpenUpload, FreshUpload
  <1>3. Lengths'
    BY DEF Inv, TypeOK, Shape, ClaimHeld, SessionHeld, Lengths, IsOpen,
       Writing, Req, File, UploadRow, Idle, Doing, OpenUpload, FreshUpload
  <1> QED
    BY <1>1, <1>2, <1>3 DEF Inv, OpenUpload, DownloadsAccounted, Unspent,
       Shape, ClaimHeld

LEMMA StepAppendBegin ==
    ASSUME Inv, NEW r \in Request, NEW u \in Upload,
           AppendBegin(r, u)
    PROVE  Inv'
  <1>1. TypeOK'
    <2>1. req' \in [Request -> Req]
      <3>1. Received(u) \in 0..MaxBlob
        BY DEF Inv, TypeOK, AppendBegin, Resumable, IsOpen, Received, Min2,
               UploadRow, File
      <3> QED BY <3>1 DEF Doing, Req, Op, Inv, TypeOK, AppendBegin
    <2> QED BY <2>1 DEF Inv, TypeOK, AppendBegin
  <1>2. Unspent'
    BY DEF Inv, TypeOK, Shape, Unspent, ClaimHeld, Req, Idle, Doing, Writing,
       AppendBegin, Busy, Resumable, IsOpen, Received, Min2
  <1>3. Shape'
    BY DEF Inv, TypeOK, Shape, Writing, Req, Idle, Doing, AppendBegin, Busy,
       Resumable, IsOpen, Received, Min2
  <1>4. SessionHeld'
    BY DEF Inv, TypeOK, Shape, SessionHeld, Writing, IsOpen, Req, Idle, Doing,
       AppendBegin, Busy, Resumable, Received, Min2
  <1>5. ClaimHeld'
    BY DEF Inv, TypeOK, Shape, ClaimHeld, Req, Idle, Doing, Writing,
       AppendBegin, Busy, Resumable, IsOpen, Received, Min2
  <1>6. Lengths'
    BY DEF Inv, TypeOK, Shape, ClaimHeld, SessionHeld, Lengths, IsOpen,
       Writing, Req, File, UploadRow, Idle, Doing, AppendBegin, Busy,
       Resumable, Received, Min2
  <1> QED
    BY <1>1, <1>2, <1>3, <1>4, <1>5, <1>6 DEF Inv, AppendBegin,
       DownloadsAccounted

LEMMA StepAppendChunk ==
    ASSUME Inv, NEW r \in Request,
           AppendChunk(r)
    PROVE  Inv'
  <1>1. TypeOK'
    <2>1. part' \in [Upload -> File \cup {None}]
      BY DEF Inv, TypeOK, AppendChunk, Room, File, AgeCap, Lengths, Shape,
         SessionHeld, Writing, IsOpen, UploadRow, Req
    <2>2. req' \in [Request -> Req]
      BY DEF Inv, TypeOK, AppendChunk, Room, Req, Op, Idle, Doing, Shape,
         SessionHeld, Writing, IsOpen, UploadRow
    <2> QED BY <2>1, <2>2 DEF Inv, TypeOK, AppendChunk
  <1>2. Unspent'
    BY DEF Inv, TypeOK, Shape, Unspent, ClaimHeld, Req, Idle, Doing, Writing,
       AppendChunk, Room
  <1>3. Shape'
    BY DEF Inv, TypeOK, Shape, Writing, Req, Idle, Doing, AppendChunk, Room
  <1>4. SessionHeld'
    BY DEF Inv, TypeOK, Shape, SessionHeld, Writing, IsOpen, Req, Idle, Doing,
       AppendChunk, Room
  <1>5. ClaimHeld'
    BY DEF Inv, TypeOK, Shape, ClaimHeld, Req, Idle, Doing, Writing,
       AppendChunk, Room
  <1>6. Lengths'
    BY DEF Inv, TypeOK, Shape, ClaimHeld, SessionHeld, Lengths, IsOpen,
       Writing, Req, File, UploadRow, Idle, Doing, AppendChunk, Room
  <1> QED
    BY <1>1, <1>2, <1>3, <1>4, <1>5, <1>6 DEF Inv, AppendChunk,
       DownloadsAccounted

LEMMA StepAppendEnd ==
    ASSUME Inv, NEW r \in Request,
           AppendEnd(r)
    PROVE  Inv'
  <1>1. TypeOK'
    <2>1. uploads' \in [Upload -> UploadRow \cup {None}]
      <3>1. req[r].up \in Upload /\ uploads[req[r].up] \in UploadRow
        BY DEF Inv, TypeOK, Shape, SessionHeld, IsOpen, AppendEnd, Writing
      <3>2. [uploads[req[r].up] EXCEPT !.left = UploadIdle] \in UploadRow
        BY <3>1 DEF UploadRow, MaxLeft
      <3> QED BY <3>1, <3>2 DEF Inv, TypeOK, AppendEnd
    <2>2. req' \in [Request -> Req]
      BY DEF Inv, TypeOK, AppendEnd, Finish, IsOpen, Req, Op, Idle, Doing
    <2> QED BY <2>1, <2>2 DEF Inv, TypeOK, AppendEnd
  <1>2. Unspent'
    BY DEF Inv, TypeOK, Shape, Unspent, ClaimHeld, Req, Idle, Doing, Writing,
       AppendEnd, Finish, IsOpen
  <1>3. Shape'
    BY DEF Inv, TypeOK, Shape, Writing, Req, Idle, Doing, AppendEnd, Finish,
       IsOpen
  <1>4. SessionHeld'
    BY DEF Inv, TypeOK, Shape, SessionHeld, Writing, IsOpen, Req, Idle, Doing,
       AppendEnd, Finish
  <1>5. ClaimHeld'
    BY DEF Inv, TypeOK, Shape, ClaimHeld, Req, Idle, Doing, Writing,
       AppendEnd, Finish, IsOpen
  <1>6. Lengths'
    BY DEF Inv, TypeOK, Shape, ClaimHeld, SessionHeld, Lengths, IsOpen,
       Writing, Req, File, UploadRow, Idle, Doing, AppendEnd, Finish
  <1> QED
    BY <1>1, <1>2, <1>3, <1>4, <1>5, <1>6 DEF Inv, AppendEnd, Finish,
       DownloadsAccounted

LEMMA StepCommitBegin ==
    ASSUME Inv, NEW r \in Request, NEW u \in Upload,
           CommitBegin(r, u)
    PROVE  Inv'
  <1>1. TypeOK'
    <2>1. req' \in [Request -> Req]
      BY DEF Inv, TypeOK, CommitBegin, Busy, Resumable, IsOpen, Complete,
         Received, Min2, PromptClient, Req, Op, Idle, Doing
    <2> QED BY <2>1 DEF Inv, TypeOK, CommitBegin
  <1>2. Unspent'
    BY DEF Inv, TypeOK, Shape, Unspent, ClaimHeld, Req, Idle, Doing, Writing,
       CommitBegin, Busy, Resumable, IsOpen, Complete, Received, Min2,
       PromptClient
  <1>3. Shape'
    BY DEF Inv, TypeOK, Shape, Writing, Req, Idle, Doing, CommitBegin, Busy,
       Resumable, IsOpen, Complete, Received, Min2, PromptClient
  <1>4. SessionHeld'
    BY DEF Inv, TypeOK, Shape, SessionHeld, Writing, IsOpen, Req, Idle, Doing,
       CommitBegin, Busy, Resumable, Complete, Received, Min2, PromptClient
  <1>5. ClaimHeld'
    BY DEF Inv, TypeOK, Shape, ClaimHeld, Req, Idle, Doing, Writing,
       CommitBegin, Busy, Resumable, IsOpen, Complete, Received, Min2,
       PromptClient
  <1>6. Lengths'
    BY DEF Inv, TypeOK, Shape, ClaimHeld, SessionHeld, Lengths, IsOpen,
       Writing, Req, File, UploadRow, Idle, Doing, CommitBegin, Busy,
       Resumable, Complete, Received, Min2, PromptClient
  <1> QED
    BY <1>1, <1>2, <1>3, <1>4, <1>5, <1>6 DEF Inv, CommitBegin,
       DownloadsAccounted

LEMMA StepCommitRename ==
    ASSUME Inv, NEW r \in Request, NEW c \in Claim,
           CommitRename(r, c)
    PROVE  Inv'
  <1>1. TypeOK'
    <2>1. bin' \in [Claim -> File \cup {None}]
      BY DEF Inv, TypeOK, CommitRename, NewHistory, File, AgeCap, Shape,
         Writing
    <2>2. part' \in [Upload -> File \cup {None}]
      BY DEF Inv, TypeOK, CommitRename, NewHistory, File, AgeCap
    <2>3. req' \in [Request -> Req]
      BY DEF Inv, TypeOK, CommitRename, NewHistory, Req, Op, Idle, Doing,
         Shape
    <2>4. spent' \in [Claim -> 0..MaxDownloadsCap]
      BY DEF Inv, TypeOK, CommitRename, NewHistory
    <2>5. fate' \in [Claim -> Fate]
      BY DEF Inv, TypeOK, CommitRename, NewHistory, Fate
    <2> QED BY <2>1, <2>2, <2>3, <2>4, <2>5 DEF Inv, TypeOK, CommitRename
  <1>2. DownloadsAccounted'
    BY DEF Inv, TypeOK, DownloadsAccounted, EntryRow, CommitRename,
       FreshClaim, NewHistory
  <1>3. Unspent'
    BY DEF Inv, TypeOK, Shape, Unspent, ClaimHeld, Req, Idle, Doing, Writing,
       CommitRename, FreshClaim, NewHistory
  <1>4. Shape'
    BY DEF Inv, TypeOK, Shape, Writing, Req, Idle, Doing, CommitRename,
       FreshClaim, NewHistory
  <1>5. SessionHeld'
    BY DEF Inv, TypeOK, Shape, SessionHeld, Writing, IsOpen, Req, Idle, Doing,
       CommitRename, FreshClaim, NewHistory
  <1>6. ClaimHeld'
    BY DEF Inv, TypeOK, Shape, ClaimHeld, Req, Idle, Doing, Writing,
       CommitRename, FreshClaim, NewHistory
  <1>7. Lengths'
    BY DEF Inv, TypeOK, Shape, ClaimHeld, SessionHeld, Lengths, IsOpen,
       Writing, Req, File, UploadRow, Idle, Doing, CommitRename, FreshClaim,
       NewHistory
  <1> QED
    BY <1>1, <1>2, <1>3, <1>4, <1>5, <1>6, <1>7 DEF Inv

LEMMA StepCommitRenameFails ==
    ASSUME Inv, NEW r \in Request,
           CommitRenameFails(r)
    PROVE  Inv'
  <1>1. TypeOK'
    <2>1. req' \in [Request -> Req]
      BY DEF Inv, TypeOK, CommitRenameFails, Finish, Req, Op, Idle, Doing
    <2> QED BY <2>1 DEF Inv, TypeOK, CommitRenameFails
  <1>2. Unspent'
    BY DEF Inv, TypeOK, Shape, Unspent, ClaimHeld, Req, Idle, Doing, Writing,
       CommitRenameFails, Finish
  <1>3. Shape'
    BY DEF Inv, TypeOK, Shape, Writing, Req, Idle, Doing, CommitRenameFails,
       Finish
  <1>4. SessionHeld'
    BY DEF Inv, TypeOK, Shape, SessionHeld, Writing, IsOpen, Req, Idle, Doing,
       CommitRenameFails, Finish
  <1>5. ClaimHeld'
    BY DEF Inv, TypeOK, Shape, ClaimHeld, Req, Idle, Doing, Writing,
       CommitRenameFails, Finish
  <1>6. Lengths'
    BY DEF Inv, TypeOK, Shape, ClaimHeld, SessionHeld, Lengths, IsOpen,
       Writing, Req, File, UploadRow, Idle, Doing, CommitRenameFails, Finish
  <1> QED
    BY <1>1, <1>2, <1>3, <1>4, <1>5, <1>6 DEF Inv, CommitRenameFails, Finish,
       DownloadsAccounted

LEMMA StepCommitInsert ==
    ASSUME Inv, NEW r \in Request,
           NEW ttl \in AskedTtl, NEW max \in AskedMax,
           NEW token \in Token \cup {None},
           CommitInsert(r, ttl, max, token)
    PROVE  Inv'
  <1>1. TypeOK'
    <2>1. entries' \in [Claim -> EntryRow \cup {None}]
      <3>1. req[r].claim \in Claim /\ uploads[req[r].up].length \in 0..MaxBlob
        BY DEF Inv, TypeOK, Shape, SessionHeld, CommitInsert, Req, Writing,
           IsOpen, UploadRow
      <3>2. [left |-> GrantTtl(ttl), max |-> GrantMax(max), downloads |-> 0,
             token |-> token, size |-> uploads[req[r].up].length] \in EntryRow
        BY <3>1, GrantsTyped DEF EntryRow
      <3> QED BY <3>1, <3>2 DEF Inv, TypeOK, CommitInsert, CommitDeposit
    <2>2. req' \in [Request -> Req]
      BY DEF Inv, TypeOK, CommitInsert, CommitDeposit, GrantTtl, GrantMax,
         Min2, AskedTtl, AskedMax, Req, Op, Idle, Doing
    <2>3. fate' \in [Claim -> Fate]
      BY DEF Inv, TypeOK, CommitInsert, CommitDeposit, GrantTtl, GrantMax,
         Min2, AskedTtl, AskedMax, Fate
    <2> QED BY <2>1, <2>2, <2>3 DEF Inv, TypeOK, CommitInsert
  <1>2. DownloadsAccounted'
    <2>1. req[r].claim \in Claim
      BY DEF Inv, Shape, CommitInsert
    <2>2. spent[req[r].claim] = 0
      BY <2>1 DEF Inv, Unspent, CommitInsert
    <2>3. entries'[req[r].claim].downloads = 0
          /\ entries'[req[r].claim].max = GrantMax(max)
      BY <2>1 DEF Inv, TypeOK, CommitInsert, CommitDeposit
    <2>4. \A d \in Claim \ {req[r].claim} : entries'[d] = entries[d]
      BY DEF Inv, TypeOK, CommitInsert, CommitDeposit
    <2> QED BY <2>2, <2>3, <2>4, GrantsTyped
            DEF Inv, DownloadsAccounted, CommitInsert
  <1>3. Unspent'
    BY DEF Inv, TypeOK, Shape, Unspent, ClaimHeld, Req, Idle, Doing, Writing,
       CommitInsert, CommitDeposit, GrantTtl, GrantMax, Min2, AskedTtl,
       AskedMax
  <1>4. Shape'
    BY DEF Inv, TypeOK, Shape, Writing, Req, Idle, Doing, CommitInsert,
       CommitDeposit, GrantTtl, GrantMax, Min2, AskedTtl, AskedMax
  <1>5. SessionHeld'
    BY DEF Inv, TypeOK, Shape, SessionHeld, Writing, IsOpen, Req, Idle, Doing,
       CommitInsert, CommitDeposit, GrantTtl, GrantMax, Min2, AskedTtl,
       AskedMax
  <1>6. ClaimHeld'
    BY DEF Inv, TypeOK, Shape, ClaimHeld, Req, Idle, Doing, Writing,
       CommitInsert, CommitDeposit, GrantTtl, GrantMax, Min2, AskedTtl,
       AskedMax
  <1>7. Lengths'
    BY DEF Inv, TypeOK, Shape, ClaimHeld, SessionHeld, Lengths, IsOpen,
       Writing, Req, File, UploadRow, Idle, Doing, CommitInsert,
       CommitDeposit, GrantTtl, GrantMax, Min2, AskedTtl, AskedMax
  <1> QED
    BY <1>1, <1>2, <1>3, <1>4, <1>5, <1>6, <1>7 DEF Inv

LEMMA StepCommitInsertFails ==
    ASSUME Inv, NEW r \in Request,
           CommitInsertFails(r)
    PROVE  Inv'
  <1>1. TypeOK'
    <2>1. bin' \in [Claim -> File \cup {None}]
      BY DEF Inv, TypeOK, CommitInsertFails, Finish, File, AgeCap
    <2>2. part' \in [Upload -> File \cup {None}]
      BY DEF Inv, TypeOK, CommitInsertFails, Finish, File, AgeCap, Shape,
         Writing
    <2>3. req' \in [Request -> Req]
      BY DEF Inv, TypeOK, CommitInsertFails, Finish, Req, Op, Idle, Doing
    <2> QED BY <2>1, <2>2, <2>3 DEF Inv, TypeOK, CommitInsertFails
  <1>2. Unspent'
    BY DEF Inv, TypeOK, Shape, Unspent, ClaimHeld, Req, Idle, Doing, Writing,
       CommitInsertFails, Finish
  <1>3. Shape'
    BY DEF Inv, TypeOK, Shape, Writing, Req, Idle, Doing, CommitInsertFails,
       Finish
  <1>4. SessionHeld'
    BY DEF Inv, TypeOK, Shape, SessionHeld, Writing, IsOpen, Req, Idle, Doing,
       CommitInsertFails, Finish
  <1>5. ClaimHeld'
    BY DEF Inv, TypeOK, Shape, ClaimHeld, Req, Idle, Doing, Writing,
       CommitInsertFails, Finish
  <1>6. Lengths'
    BY DEF Inv, TypeOK, Shape, ClaimHeld, SessionHeld, Lengths, IsOpen,
       Writing, Req, File, UploadRow, Idle, Doing, CommitInsertFails, Finish
  <1> QED
    BY <1>1, <1>2, <1>3, <1>4, <1>5, <1>6 DEF Inv, CommitInsertFails, Finish,
       DownloadsAccounted

LEMMA StepCommitMemo ==
    ASSUME Inv, NEW r \in Request,
           CommitMemo(r)
    PROVE  Inv'
  <1>1. TypeOK'
    <2>1. uploads' \in [Upload -> UploadRow \cup {None}]
      <3>1. /\ req[r].up \in Upload /\ req[r].claim \in Claim
            /\ uploads[req[r].up] \in UploadRow
        BY DEF Inv, TypeOK, Shape, SessionHeld, IsOpen, CommitMemo, Writing
      <3> QED BY <3>1 DEF UploadRow, MaxLeft, Inv, TypeOK, CommitMemo
    <2>2. req' \in [Request -> Req]
      BY DEF Inv, TypeOK, CommitMemo, Finish, Req, Op, Idle, Doing
    <2> QED BY <2>1, <2>2 DEF Inv, TypeOK, CommitMemo
  <1>2. Unspent'
    BY DEF Inv, TypeOK, Shape, Unspent, ClaimHeld, Req, Idle, Doing, Writing,
       CommitMemo, Finish
  <1>3. Shape'
    BY DEF Inv, TypeOK, Shape, Writing, Req, Idle, Doing, CommitMemo, Finish
  <1>4. SessionHeld'
    BY DEF Inv, TypeOK, Shape, SessionHeld, Writing, IsOpen, Req, Idle, Doing,
       CommitMemo, Finish
  <1>5. ClaimHeld'
    BY DEF Inv, TypeOK, Shape, ClaimHeld, Req, Idle, Doing, Writing,
       CommitMemo, Finish
  <1>6. Lengths'
    BY DEF Inv, TypeOK, Shape, ClaimHeld, SessionHeld, Lengths, IsOpen,
       Writing, Req, File, UploadRow, Idle, Doing, CommitMemo, Finish
  <1> QED
    BY <1>1, <1>2, <1>3, <1>4, <1>5, <1>6 DEF Inv, CommitMemo, Finish,
       DownloadsAccounted

LEMMA StepCommitMemoFails ==
    ASSUME Inv, NEW r \in Request,
           CommitMemoFails(r)
    PROVE  Inv'
  <1>1. TypeOK'
    <2>1. req' \in [Request -> Req]
      BY DEF Inv, TypeOK, CommitMemoFails, Finish, Req, Op, Idle, Doing
    <2> QED BY <2>1 DEF Inv, TypeOK, CommitMemoFails
  <1>2. Unspent'
    BY DEF Inv, TypeOK, Shape, Unspent, ClaimHeld, Req, Idle, Doing, Writing,
       CommitMemoFails, Finish
  <1>3. Shape'
    BY DEF Inv, TypeOK, Shape, Writing, Req, Idle, Doing, CommitMemoFails,
       Finish
  <1>4. SessionHeld'
    BY DEF Inv, TypeOK, Shape, SessionHeld, Writing, IsOpen, Req, Idle, Doing,
       CommitMemoFails, Finish
  <1>5. ClaimHeld'
    BY DEF Inv, TypeOK, Shape, ClaimHeld, Req, Idle, Doing, Writing,
       CommitMemoFails, Finish
  <1>6. Lengths'
    BY DEF Inv, TypeOK, Shape, ClaimHeld, SessionHeld, Lengths, IsOpen,
       Writing, Req, File, UploadRow, Idle, Doing, CommitMemoFails, Finish
  <1> QED
    BY <1>1, <1>2, <1>3, <1>4, <1>5, <1>6 DEF Inv, CommitMemoFails, Finish,
       DownloadsAccounted

LEMMA StepAbortUpload ==
    ASSUME Inv, NEW u \in Upload,
           AbortUpload(u)
    PROVE  Inv'
  <1>1. TypeOK'
    <2>1. uploads' \in [Upload -> UploadRow \cup {None}]
      BY DEF Inv, TypeOK, AbortUpload, Busy, IsOpen, UploadRow, MaxLeft
    <2>2. part' \in [Upload -> File \cup {None}]
      BY DEF Inv, TypeOK, AbortUpload, Busy, IsOpen, File, AgeCap
    <2> QED BY <2>1, <2>2 DEF Inv, TypeOK, AbortUpload
  <1>2. SessionHeld'
    BY DEF Inv, TypeOK, Shape, SessionHeld, Writing, IsOpen, Req, Idle, Doing,
       AbortUpload, Busy
  <1>3. Lengths'
    BY DEF Inv, TypeOK, Shape, ClaimHeld, SessionHeld, Lengths, IsOpen,
       Writing, Req, File, UploadRow, Idle, Doing, AbortUpload, Busy
  <1> QED
    BY <1>1, <1>2, <1>3 DEF Inv, AbortUpload, DownloadsAccounted, Unspent,
       Shape, ClaimHeld

LEMMA StepReap ==
    ASSUME Inv,
           Reap
    PROVE  Inv'
  <1>1. TypeOK'
    <2>1. entries' \in [Claim -> EntryRow \cup {None}]
      BY DEF Inv, TypeOK, Reap, ExpiredEntries, EntryRow
    <2>2. bin' \in [Claim -> File \cup {None}]
      BY DEF Inv, TypeOK, Reap, ExpiredEntries, File, AgeCap
    <2>3. fate' \in [Claim -> Fate]
      BY DEF Inv, TypeOK, Reap, ExpiredEntries, Fate
    <2> QED BY <2>1, <2>2, <2>3 DEF Inv, TypeOK, Reap
  <1>2. DownloadsAccounted'
    BY DEF Inv, TypeOK, DownloadsAccounted, EntryRow, Reap, ExpiredEntries
  <1>3. ClaimHeld'
    BY DEF Inv, TypeOK, Shape, ClaimHeld, Req, Idle, Doing, Writing, Reap,
       ExpiredEntries
  <1>4. Lengths'
    BY DEF Inv, TypeOK, Shape, ClaimHeld, SessionHeld, Lengths, IsOpen,
       Writing, Req, File, UploadRow, Idle, Doing, Reap, ExpiredEntries
  <1> QED
    BY <1>1, <1>2, <1>3, <1>4 DEF Inv, Reap, Unspent, Shape, SessionHeld,
       IsOpen

LEMMA StepUploadReap ==
    ASSUME Inv,
           UploadReap
    PROVE  Inv'
  <1>1. TypeOK'
    <2>1. uploads' \in [Upload -> UploadRow \cup {None}]
      BY DEF Inv, TypeOK, UploadReap, Reapable, Busy, IsOpen, UploadRow,
         MaxLeft
    <2>2. part' \in [Upload -> File \cup {None}]
      BY DEF Inv, TypeOK, UploadReap, Reapable, Busy, IsOpen, File, AgeCap
    <2> QED BY <2>1, <2>2 DEF Inv, TypeOK, UploadReap
  <1>2. SessionHeld'
    BY DEF Inv, TypeOK, Shape, SessionHeld, Writing, IsOpen, Req, Idle, Doing,
       UploadReap, Reapable, Busy
  <1>3. Lengths'
    BY DEF Inv, TypeOK, Shape, ClaimHeld, SessionHeld, Lengths, IsOpen,
       Writing, Req, File, UploadRow, Idle, Doing, UploadReap, Reapable, Busy
  <1> QED
    BY <1>1, <1>2, <1>3 DEF Inv, UploadReap, DownloadsAccounted, Unspent,
       Shape, ClaimHeld

LEMMA StepSweepClaims ==
    ASSUME Inv,
           SweepClaims
    PROVE  Inv'
  <1>1. TypeOK'
    <2>1. sweep' \in Sweep
      BY DEF Inv, TypeOK, SweepClaims, Sweep, SweepIdle
    <2> QED BY <2>1 DEF Inv, TypeOK, SweepClaims
  <1> QED
    BY <1>1 DEF Inv, SweepClaims, DownloadsAccounted, Unspent, Shape,
       SessionHeld, ClaimHeld, Lengths, IsOpen

LEMMA StepSweepIds ==
    ASSUME Inv,
           SweepIds
    PROVE  Inv'
  <1>1. TypeOK'
    <2>1. sweep' \in Sweep
      <3>1. OpenUploads \in SUBSET Upload
        BY DEF OpenUploads
      <3> QED BY <3>1 DEF Inv, TypeOK, SweepIds, Sweep
    <2> QED BY <2>1 DEF Inv, TypeOK, SweepIds
  <1> QED
    BY <1>1 DEF Inv, SweepIds, DownloadsAccounted, Unspent, Shape,
       SessionHeld, ClaimHeld, Lengths, IsOpen

LEMMA StepSweepBin ==
    ASSUME Inv, NEW c \in Claim,
           SweepBin(c)
    PROVE  Inv'
  <1>1. TypeOK'
    <2>1. bin' \in [Claim -> File \cup {None}]
      BY DEF Inv, TypeOK, SweepBin, File, AgeCap
    <2> QED BY <2>1 DEF Inv, TypeOK, SweepBin
  <1>2. Lengths'
    BY DEF Inv, TypeOK, Shape, ClaimHeld, SessionHeld, Lengths, IsOpen,
       Writing, Req, File, UploadRow, Idle, Doing, SweepBin
  <1> QED
    BY <1>1, <1>2 DEF Inv, SweepBin, DownloadsAccounted, Unspent, Shape,
       SessionHeld, ClaimHeld, IsOpen

LEMMA StepSweepPart ==
    ASSUME Inv, NEW u \in Upload,
           SweepPart(u)
    PROVE  Inv'
  <1>1. TypeOK'
    <2>1. part' \in [Upload -> File \cup {None}]
      BY DEF Inv, TypeOK, SweepPart, File, AgeCap
    <2> QED BY <2>1 DEF Inv, TypeOK, SweepPart
  <1>2. Lengths'
    BY DEF Inv, TypeOK, Shape, ClaimHeld, SessionHeld, Lengths, IsOpen,
       Writing, Req, File, UploadRow, Idle, Doing, SweepPart
  <1> QED
    BY <1>1, <1>2 DEF Inv, SweepPart, DownloadsAccounted, Unspent, Shape,
       SessionHeld, ClaimHeld, IsOpen

LEMMA StepSweepDone ==
    ASSUME Inv,
           SweepDone
    PROVE  Inv'
  <1>1. TypeOK'
    <2>1. sweep' \in Sweep
      BY DEF Inv, TypeOK, SweepDone, Sweep, SweepIdle
    <2> QED BY <2>1 DEF Inv, TypeOK, SweepDone
  <1> QED
    BY <1>1 DEF Inv, SweepDone, DownloadsAccounted, Unspent, Shape,
       SessionHeld, ClaimHeld, Lengths, IsOpen

LEMMA StepTick ==
    ASSUME Inv,
           Tick
    PROVE  Inv'
  <1>1. TypeOK'
    <2>1. entries' \in [Claim -> EntryRow \cup {None}]
      <3>1. \A c \in Claim : Sooner(entries[c]) \in EntryRow \cup {None}
        BY DEF Inv, TypeOK, Sooner, EntryRow
      <3> QED BY <3>1 DEF Tick
    <2>2. bin' \in [Claim -> File \cup {None}]
      BY DEF Inv, TypeOK, Tick, Sooner, Older, Min2, InTime, File, AgeCap
    <2>3. uploads' \in [Upload -> UploadRow \cup {None}]
      <3>1. \A u \in Upload : Sooner(uploads[u]) \in UploadRow \cup {None}
        BY DEF Inv, TypeOK, Sooner, UploadRow, MaxLeft
      <3> QED BY <3>1 DEF Tick
    <2>4. part' \in [Upload -> File \cup {None}]
      BY DEF Inv, TypeOK, Tick, Sooner, Older, Min2, InTime, File, AgeCap
    <2>5. sweep' \in Sweep
      BY DEF Inv, TypeOK, Tick, Sooner, Older, Min2, InTime, Sweep, SweepIdle
    <2> QED BY <2>1, <2>2, <2>3, <2>4, <2>5 DEF Inv, TypeOK, Tick
  <1>2. DownloadsAccounted'
    BY DEF Inv, TypeOK, DownloadsAccounted, EntryRow, Tick, Sooner, Older,
       Min2, InTime
  <1>3. SessionHeld'
    <2>1. \A u \in Upload : IsOpen(u) => IsOpen(u)'
      <3> SUFFICES ASSUME NEW u \in Upload, IsOpen(u) PROVE IsOpen(u)'
        OBVIOUS
      <3>1. uploads[u] \in UploadRow /\ uploads[u].claim = None
        BY DEF Inv, TypeOK, IsOpen
      <3>2. Sooner(uploads[u]) =
                [uploads[u] EXCEPT !.left = IF @ = 0 THEN 0 ELSE @ - 1]
        BY <3>1 DEF Sooner
      <3>3. Sooner(uploads[u]).claim = uploads[u].claim
        BY <3>1, <3>2 DEF UploadRow
      <3>4. Sooner(uploads[u]) \in UploadRow
        BY <3>1, <3>2 DEF UploadRow, MaxLeft
      <3> QED BY <3>1, <3>3, <3>4 DEF Tick, IsOpen
    <2> QED BY <2>1 DEF Inv, Shape, SessionHeld, Tick, Writing
  <1>4. ClaimHeld'
    BY DEF Inv, TypeOK, Shape, ClaimHeld, Req, Idle, Doing, Writing, Tick,
       Sooner, Older, Min2, InTime
  <1>5. Lengths'
    BY DEF Inv, TypeOK, Shape, ClaimHeld, SessionHeld, Lengths, IsOpen,
       Writing, Req, File, UploadRow, Idle, Doing, Tick, Sooner, Older, Min2,
       InTime
  <1> QED
    BY <1>1, <1>2, <1>3, <1>4, <1>5 DEF Inv, Tick, Unspent, Shape

LEMMA StepCrash ==
    ASSUME Inv,
           Crash
    PROVE  Inv'
  <1>1. TypeOK'
    <2>1. req' \in [Request -> Req]
      BY DEF Inv, TypeOK, Crash, Die, Req, Op, Idle, Doing
    <2>2. sweep' \in Sweep
      BY DEF Inv, TypeOK, Crash, Die, Sweep, SweepIdle
    <2>3. crashes' \in 0..MaxCrashes
      BY DEF Inv, TypeOK, Crash, Die
    <2> QED BY <2>1, <2>2, <2>3 DEF Inv, TypeOK, Crash, Die
  <1>2. Unspent'
    BY DEF Inv, TypeOK, Shape, Unspent, ClaimHeld, Req, Idle, Doing, Writing,
       Crash, Die
  <1>3. Shape'
    BY DEF Inv, TypeOK, Shape, Writing, Req, Idle, Doing, Crash, Die
  <1>4. SessionHeld'
    BY DEF Inv, TypeOK, Shape, SessionHeld, Writing, IsOpen, Req, Idle, Doing,
       Crash, Die
  <1>5. ClaimHeld'
    BY DEF Inv, TypeOK, Shape, ClaimHeld, Req, Idle, Doing, Writing, Crash,
       Die
  <1>6. Lengths'
    BY DEF Inv, TypeOK, Shape, ClaimHeld, SessionHeld, Lengths, IsOpen,
       Writing, Req, File, UploadRow, Idle, Doing, Crash, Die
  <1> QED
    BY <1>1, <1>2, <1>3, <1>4, <1>5, <1>6 DEF Inv, Crash, Die,
       DownloadsAccounted

LEMMA StepCrashInOpen ==
    ASSUME Inv, NEW u \in Upload,
           CrashInOpen(u)
    PROVE  Inv'
  <1>1. TypeOK'
    <2>1. part' \in [Upload -> File \cup {None}]
      BY DEF Inv, TypeOK, CrashInOpen, Die, File, AgeCap
    <2>2. req' \in [Request -> Req]
      BY DEF Inv, TypeOK, CrashInOpen, Die, Req, Op, Idle, Doing
    <2>3. sweep' \in Sweep
      BY DEF Inv, TypeOK, CrashInOpen, Die, Sweep, SweepIdle
    <2>4. crashes' \in 0..MaxCrashes
      BY DEF Inv, TypeOK, CrashInOpen, Die
    <2> QED BY <2>1, <2>2, <2>3, <2>4 DEF Inv, TypeOK, CrashInOpen, Die
  <1>2. Unspent'
    BY DEF Inv, TypeOK, Shape, Unspent, ClaimHeld, Req, Idle, Doing, Writing,
       CrashInOpen, FreshUpload, Die
  <1>3. Shape'
    BY DEF Inv, TypeOK, Shape, Writing, Req, Idle, Doing, CrashInOpen,
       FreshUpload, Die
  <1>4. SessionHeld'
    BY DEF Inv, TypeOK, Shape, SessionHeld, Writing, IsOpen, Req, Idle, Doing,
       CrashInOpen, FreshUpload, Die
  <1>5. ClaimHeld'
    BY DEF Inv, TypeOK, Shape, ClaimHeld, Req, Idle, Doing, Writing,
       CrashInOpen, FreshUpload, Die
  <1>6. Lengths'
    BY DEF Inv, TypeOK, Shape, ClaimHeld, SessionHeld, Lengths, IsOpen,
       Writing, Req, File, UploadRow, Idle, Doing, CrashInOpen, FreshUpload,
       Die
  <1> QED
    BY <1>1, <1>2, <1>3, <1>4, <1>5, <1>6 DEF Inv, CrashInOpen, Die,
       DownloadsAccounted

LEMMA StepCrashInDrop ==
    ASSUME Inv, NEW u \in Upload,
           CrashInDrop(u)
    PROVE  Inv'
  <1>1. TypeOK'
    <2>1. part' \in [Upload -> File \cup {None}]
      BY DEF Inv, TypeOK, CrashInDrop, Die, File, AgeCap
    <2>2. req' \in [Request -> Req]
      BY DEF Inv, TypeOK, CrashInDrop, Die, Req, Op, Idle, Doing
    <2>3. sweep' \in Sweep
      BY DEF Inv, TypeOK, CrashInDrop, Die, Sweep, SweepIdle
    <2>4. crashes' \in 0..MaxCrashes
      BY DEF Inv, TypeOK, CrashInDrop, Die
    <2> QED BY <2>1, <2>2, <2>3, <2>4 DEF Inv, TypeOK, CrashInDrop, Die
  <1>2. Unspent'
    BY DEF Inv, TypeOK, Shape, Unspent, ClaimHeld, Req, Idle, Doing, Writing,
       CrashInDrop, Die
  <1>3. Shape'
    BY DEF Inv, TypeOK, Shape, Writing, Req, Idle, Doing, CrashInDrop, Die
  <1>4. SessionHeld'
    BY DEF Inv, TypeOK, Shape, SessionHeld, Writing, IsOpen, Req, Idle, Doing,
       CrashInDrop, Die
  <1>5. ClaimHeld'
    BY DEF Inv, TypeOK, Shape, ClaimHeld, Req, Idle, Doing, Writing,
       CrashInDrop, Die
  <1>6. Lengths'
    BY DEF Inv, TypeOK, Shape, ClaimHeld, SessionHeld, Lengths, IsOpen,
       Writing, Req, File, UploadRow, Idle, Doing, CrashInDrop, Die
  <1> QED
    BY <1>1, <1>2, <1>3, <1>4, <1>5, <1>6 DEF Inv, CrashInDrop, Die,
       DownloadsAccounted

LEMMA StepCrashInDelete ==
    ASSUME Inv, NEW c \in Claim,
           CrashInDelete(c)
    PROVE  Inv'
  <1>1. TypeOK'
    <2>1. bin' \in [Claim -> File \cup {None}]
      BY DEF Inv, TypeOK, CrashInDelete, Die, File, AgeCap
    <2>2. req' \in [Request -> Req]
      BY DEF Inv, TypeOK, CrashInDelete, Die, Req, Op, Idle, Doing
    <2>3. sweep' \in Sweep
      BY DEF Inv, TypeOK, CrashInDelete, Die, Sweep, SweepIdle
    <2>4. crashes' \in 0..MaxCrashes
      BY DEF Inv, TypeOK, CrashInDelete, Die
    <2>5. fate' \in [Claim -> Fate]
      BY DEF Inv, TypeOK, CrashInDelete, Die, Fate
    <2> QED BY <2>1, <2>2, <2>3, <2>4, <2>5 DEF Inv, TypeOK, CrashInDelete, Die
  <1>2. Unspent'
    BY DEF Inv, TypeOK, Shape, Unspent, ClaimHeld, Req, Idle, Doing, Writing,
       CrashInDelete, Die
  <1>3. Shape'
    BY DEF Inv, TypeOK, Shape, Writing, Req, Idle, Doing, CrashInDelete, Die
  <1>4. SessionHeld'
    BY DEF Inv, TypeOK, Shape, SessionHeld, Writing, IsOpen, Req, Idle, Doing,
       CrashInDelete, Die
  <1>5. ClaimHeld'
    BY DEF Inv, TypeOK, Shape, ClaimHeld, Req, Idle, Doing, Writing,
       CrashInDelete, Die
  <1>6. Lengths'
    BY DEF Inv, TypeOK, Shape, ClaimHeld, SessionHeld, Lengths, IsOpen,
       Writing, Req, File, UploadRow, Idle, Doing, CrashInDelete, Die
  <1> QED
    BY <1>1, <1>2, <1>3, <1>4, <1>5, <1>6 DEF Inv, CrashInDelete, Die,
       DownloadsAccounted

LEMMA NextInv == Inv /\ [Next]_vars => Inv'
  <1> SUFFICES ASSUME Inv, [Next]_vars PROVE Inv'
    OBVIOUS
  <1>1. CASE UNCHANGED vars
    BY <1>1 DEF Inv, TypeOK, DownloadsAccounted, Shape, SessionHeld,
       ClaimHeld, Unspent, Lengths, IsOpen, vars
  <1>2. ASSUME NEW r \in Request, DepositNext(r) PROVE Inv'
    BY <1>2, StepDepositStart, StepDepositChunk, StepDepositCommit,
       StepDepositAbort, StepCancel DEF DepositNext
  <1>3. ASSUME NEW r \in Request, FetchNext(r) PROVE Inv'
    BY <1>3, StepFetchPlan, StepFetchPlanHeld, StepFetchOpen DEF FetchNext
  <1>4. ASSUME NEW r \in Request, UploadNext(r) PROVE Inv'
    BY <1>4, StepAppendBegin, StepCommitBegin, StepAppendChunk, StepAppendEnd,
       StepCommitRename, StepCommitInsert, StepCommitRenameFails,
       StepCommitInsertFails, StepCommitMemo, StepCommitMemoFails DEF
       UploadNext
  <1>5. ASSUME NEW c \in Claim, EntryNext(c) PROVE Inv'
    BY <1>5, StepFetchRefuse, StepAckFetch, StepRevoke, StepCrashInDelete DEF
       EntryNext
  <1>6. ASSUME NEW u \in Upload, SessionNext(u) PROVE Inv'
    BY <1>6, StepOpenUpload, StepAbortUpload, StepCrashInOpen, StepCrashInDrop
       DEF SessionNext
  <1>7. CASE SweepNext
    BY <1>7, StepSweepClaims, StepSweepIds, StepSweepBin, StepSweepPart,
       StepSweepDone DEF SweepNext
  <1> QED BY <1>1, <1>2, <1>3, <1>4, <1>5, <1>6, <1>7, StepReap, StepUploadReap,
   StepTick, StepCrash DEF Next

-----------------------------------------------------------------------------
(* Every action keeps SafeInv, when the grace covers the clients' silence. *)

LEMMA OlderFile ==
    ASSUME NEW f \in File
    PROVE  /\ Older(f) \in File
           /\ Older(f) # None
           /\ Older(f).len = f.len
           /\ Older(f).age <= f.age + 1
  BY DEF Older, File, Min2, AgeCap

\* A file the sweep takes belongs to no live row and to no request at work.
LEMMA SweptIsUnused ==
    ASSUME GraceCovers, SafeInv, NEW c \in Claim, SweepBin(c)
    PROVE  /\ entries[c] # None => fate[c] = "cut"
           /\ \A r \in Request : req[r].op \in {"deposit", "renamed"} =>
                    req[r].claim # c
  <1>1. /\ bin[c] \in File /\ bin[c].age >= Grace + sweep.elapsed
        /\ c \notin sweep.claims /\ sweep.pc = "walk"
        /\ sweep.elapsed \in Nat
    BY DEF SafeInv, Inv, TypeOK, SweepBin, Unclaimed, Old, Sweep
  <1>2. entries[c] # None => fate[c] = "cut"
    BY <1>1 DEF SafeInv, RowsYoung, File
  <1>3. ASSUME NEW r \in Request, req[r].op \in {"deposit", "renamed"},
               req[r].claim = c
        PROVE  FALSE
    BY <1>1, <1>3 DEF SafeInv, PendingYoung, GraceCovers, File
  <1> QED BY <1>2, <1>3

\* A partial file the sweep takes is not one a request is working on.
LEMMA SweptPartIsUnused ==
    ASSUME GraceCovers, SafeInv, NEW u \in Upload, SweepPart(u)
    PROVE  \A r \in Request : req[r].op \in Writing => req[r].up # u
  <1>1. /\ part[u] \in File /\ part[u].age >= Grace + sweep.elapsed
        /\ u \notin sweep.ids /\ sweep.pc = "walk" /\ sweep.elapsed \in Nat
    BY DEF SafeInv, Inv, TypeOK, SweepPart, Unowned, Old, Sweep
  <1>2. ~IsOpen(u)
    BY <1>1 DEF SafeInv, PartsYoung, GraceCovers, File
  <1> QED BY <1>2 DEF SafeInv, Inv, SessionHeld

LEMMA InitSafe == Init => SafeInv
  BY InitInv DEF Init, SafeInv, BlobBacked, BurnOwned, PendingYoung, RowsYoung,
         PartsYoung, Idle, Doing, SweepIdle

LEMMA SafeDepositStart ==
    ASSUME GraceCovers, SafeInv, NEW r \in Request, NEW c \in Claim,
           DepositStart(r, c)
    PROVE  SafeInv'
  <1>1. Inv'
    BY StepDepositStart DEF SafeInv
  <1>2. BlobBacked'
    BY DEF SafeInv, Inv, TypeOK, BlobBacked, Shape, ClaimHeld, Lengths,
       PendingYoung, Writing, Req, Idle, Doing, File, EntryRow, DepositStart,
       FreshClaim, NewHistory
  <1>3. BurnOwned'
    BY DEF SafeInv, Inv, TypeOK, BurnOwned, Shape, ClaimHeld, Req, Idle,
       Doing, Writing, DepositStart, FreshClaim, NewHistory
  <1>4. PendingYoung'
    <2>1. /\ bin'[c] = [age |-> 0, len |-> 0]
          /\ \A d \in Claim \ {c} : bin'[d] = bin[d]
          /\ req'[r] = Doing("deposit", c, None, 0, FALSE)
          /\ \A q \in Request \ {r} : req'[q] = req[q] /\ req[q].claim # c
          /\ part' = part
      BY DEF SafeInv, Inv, TypeOK, DepositStart, FreshClaim
    <2>2. bin'[c] # None
      BY <2>1 DEF File, AgeCap
    <2>3. bin'[c].age = 0 /\ req'[r].op = "deposit" /\ req'[r].claim = c
      BY <2>1 DEF Doing
    <2>4. \A q \in Request \ {r} : req[q].op \in {"deposit", "renamed"} =>
                bin'[req[q].claim] = bin[req[q].claim]
      BY <2>1 DEF SafeInv, Inv, Shape
    <2>5. 0 <= MaxStall
      OBVIOUS
    <2> SUFFICES ASSUME NEW q \in Request
                 PROVE  /\ req'[q].op = "deposit" =>
                            /\ bin'[req'[q].claim] # None
                            /\ bin'[req'[q].claim].age <= MaxStall
                        /\ req'[q].op = "renamed" =>
                            /\ bin'[req'[q].claim] # None
                            /\ bin'[req'[q].claim].age <= MaxWait
                        /\ req'[q].op \in {"append", "commit"} =>
                            part'[req'[q].up] # None
                        /\ req'[q].op = "commit" =>
                            part'[req'[q].up].age <= MaxWait
      BY DEF PendingYoung
    <2>6. CASE q = r
      BY <2>6, <2>2, <2>3, <2>5
    <2>7. CASE q # r
      BY <2>7, <2>1, <2>4 DEF SafeInv, PendingYoung
    <2> QED BY <2>6, <2>7
  <1>5. RowsYoung'
    BY DEF SafeInv, Inv, TypeOK, RowsYoung, BlobBacked, PendingYoung,
       BurnOwned, Shape, ClaimHeld, Req, File, GraceCovers, Sweep, SweepIdle,
       DepositStart, FreshClaim, NewHistory
  <1>6. PartsYoung'
    BY DEF SafeInv, Inv, TypeOK, PartsYoung, PendingYoung, Shape, SessionHeld,
       ClaimHeld, BurnOwned, IsOpen, Req, Idle, Doing, Writing, File, Sweep,
       SweepIdle, DepositStart, FreshClaim, NewHistory
  <1> QED
    BY <1>1, <1>2, <1>3, <1>4, <1>5, <1>6 DEF SafeInv

LEMMA SafeDepositChunk ==
    ASSUME GraceCovers, SafeInv, NEW r \in Request,
           DepositChunk(r)
    PROVE  SafeInv'
  <1>1. Inv'
    BY StepDepositChunk DEF SafeInv
  <1>2. BlobBacked'
    BY DEF SafeInv, Inv, TypeOK, BlobBacked, Shape, ClaimHeld, Lengths,
       PendingYoung, Writing, Req, Idle, Doing, File, EntryRow, DepositChunk
  <1>3. BurnOwned'
    BY DEF SafeInv, Inv, TypeOK, BurnOwned, Shape, ClaimHeld, Req, Idle,
       Doing, Writing, DepositChunk
  <1>4. PendingYoung'
    <2>1. /\ req[r].claim \in Claim /\ req[r].op = "deposit"
          /\ bin[req[r].claim] \in File
      BY DEF SafeInv, Inv, TypeOK, Shape, PendingYoung, DepositChunk
    <2>2. bin'[req[r].claim] = [age |-> 0, len |-> bin[req[r].claim].len + 1]
      BY SMTT(30), <2>1 DEF SafeInv, Inv, TypeOK, DepositChunk
    <2>3. bin'[req[r].claim] # None
      BY <1>1, <2>1, <2>2 DEF Inv, TypeOK, File, Lengths, DepositChunk, SafeInv,
                              Req, AgeCap
    <2>4. \A q \in Request : /\ req'[q].op = req[q].op
                             /\ req'[q].claim = req[q].claim
                             /\ req'[q].up = req[q].up
      BY DEF SafeInv, Inv, TypeOK, DepositChunk, Req
    <2>5. \A d \in Claim \ {req[r].claim} : bin'[d] = bin[d]
      BY DEF SafeInv, Inv, TypeOK, DepositChunk
    <2>6. \A q \in Request \ {r} : req[q].op \in {"deposit", "renamed"} =>
                req[q].claim # req[r].claim
      BY <2>1 DEF SafeInv, Inv, ClaimHeld
    <2>7. bin'[req[r].claim].age = 0 /\ part' = part
      BY <2>2 DEF DepositChunk
    <2> QED BY <2>1, <2>3, <2>4, <2>5, <2>6, <2>7
            DEF SafeInv, Inv, Shape, PendingYoung
  <1>5. RowsYoung'
    BY DEF SafeInv, Inv, TypeOK, RowsYoung, BlobBacked, PendingYoung,
       BurnOwned, Shape, ClaimHeld, Req, File, GraceCovers, Sweep, SweepIdle,
       DepositChunk
  <1>6. PartsYoung'
    BY DEF SafeInv, Inv, TypeOK, PartsYoung, PendingYoung, Shape, SessionHeld,
       ClaimHeld, BurnOwned, IsOpen, Req, Idle, Doing, Writing, File, Sweep,
       SweepIdle, DepositChunk
  <1> QED
    BY <1>1, <1>2, <1>3, <1>4, <1>5, <1>6 DEF SafeInv

LEMMA SafeDepositCommit ==
    ASSUME GraceCovers, SafeInv, NEW r \in Request,
           NEW ttl \in AskedTtl, NEW max \in AskedMax,
           NEW token \in Token \cup {None},
           DepositCommit(r, ttl, max, token)
    PROVE  SafeInv'
  <1>1. Inv'
    BY StepDepositCommit DEF SafeInv
  <1>2. BlobBacked'
    BY DEF SafeInv, Inv, TypeOK, BlobBacked, Shape, ClaimHeld, Lengths,
       PendingYoung, Writing, Req, Idle, Doing, File, EntryRow, DepositCommit,
       CommitDeposit, GrantTtl, GrantMax, Min2, AskedTtl, AskedMax, Finish
  <1>3. BurnOwned'
    BY DEF SafeInv, Inv, TypeOK, BurnOwned, Shape, ClaimHeld, Req, Idle,
       Doing, Writing, DepositCommit, CommitDeposit, GrantTtl, GrantMax, Min2,
       AskedTtl, AskedMax, Finish
  <1>4. PendingYoung'
    BY DEF SafeInv, Inv, TypeOK, PendingYoung, Shape, ClaimHeld, BurnOwned,
       SessionHeld, IsOpen, Req, Idle, Doing, Writing, File, DepositCommit,
       CommitDeposit, GrantTtl, GrantMax, Min2, AskedTtl, AskedMax, Finish
  <1>5. RowsYoung'
    BY DEF SafeInv, Inv, TypeOK, RowsYoung, BlobBacked, PendingYoung,
       BurnOwned, Shape, ClaimHeld, Req, File, GraceCovers, Sweep, SweepIdle,
       DepositCommit, CommitDeposit, GrantTtl, GrantMax, Min2, AskedTtl,
       AskedMax, Finish
  <1>6. PartsYoung'
    BY DEF SafeInv, Inv, TypeOK, PartsYoung, PendingYoung, Shape, SessionHeld,
       ClaimHeld, BurnOwned, IsOpen, Req, Idle, Doing, Writing, File, Sweep,
       SweepIdle, DepositCommit, CommitDeposit, GrantTtl, GrantMax, Min2,
       AskedTtl, AskedMax, Finish
  <1> QED
    BY <1>1, <1>2, <1>3, <1>4, <1>5, <1>6 DEF SafeInv

LEMMA SafeDepositAbort ==
    ASSUME GraceCovers, SafeInv, NEW r \in Request,
           DepositAbort(r)
    PROVE  SafeInv'
  <1>1. Inv'
    BY StepDepositAbort DEF SafeInv
  <1>2. BlobBacked'
    BY DEF SafeInv, Inv, TypeOK, BlobBacked, Shape, ClaimHeld, Lengths,
       PendingYoung, Writing, Req, Idle, Doing, File, EntryRow, DepositAbort,
       Finish
  <1>3. BurnOwned'
    BY DEF SafeInv, Inv, TypeOK, BurnOwned, Shape, ClaimHeld, Req, Idle,
       Doing, Writing, DepositAbort, Finish
  <1>4. PendingYoung'
    BY DEF SafeInv, Inv, TypeOK, PendingYoung, Shape, ClaimHeld, BurnOwned,
       SessionHeld, IsOpen, Req, Idle, Doing, Writing, File, DepositAbort,
       Finish
  <1>5. RowsYoung'
    BY DEF SafeInv, Inv, TypeOK, RowsYoung, BlobBacked, PendingYoung,
       BurnOwned, Shape, ClaimHeld, Req, File, GraceCovers, Sweep, SweepIdle,
       DepositAbort, Finish
  <1>6. PartsYoung'
    BY DEF SafeInv, Inv, TypeOK, PartsYoung, PendingYoung, Shape, SessionHeld,
       ClaimHeld, BurnOwned, IsOpen, Req, Idle, Doing, Writing, File, Sweep,
       SweepIdle, DepositAbort, Finish
  <1> QED
    BY <1>1, <1>2, <1>3, <1>4, <1>5, <1>6 DEF SafeInv

LEMMA SafeCancel ==
    ASSUME GraceCovers, SafeInv, NEW r \in Request,
           Cancel(r)
    PROVE  SafeInv'
  <1>1. Inv'
    BY StepCancel DEF SafeInv
  <1>2. BurnOwned'
    BY DEF SafeInv, Inv, TypeOK, BurnOwned, Shape, ClaimHeld, Req, Idle,
       Doing, Writing, Cancel, Finish
  <1>3. PendingYoung'
    BY DEF SafeInv, Inv, TypeOK, PendingYoung, Shape, ClaimHeld, BurnOwned,
       SessionHeld, IsOpen, Req, Idle, Doing, Writing, File, Cancel, Finish
  <1>4. PartsYoung'
    BY DEF SafeInv, Inv, TypeOK, PartsYoung, PendingYoung, Shape, SessionHeld,
       ClaimHeld, BurnOwned, IsOpen, Req, Idle, Doing, Writing, File, Sweep,
       SweepIdle, Cancel, Finish
  <1> QED
    BY <1>1, <1>2, <1>3, <1>4 DEF SafeInv, Cancel, Finish, BlobBacked,
       RowsYoung

LEMMA SafeFetchRefuse ==
    ASSUME GraceCovers, SafeInv, NEW c \in Claim,
           FetchRefuse(c)
    PROVE  SafeInv'
  <1>1. Inv'
    BY StepFetchRefuse DEF SafeInv
  <1>2. BlobBacked'
    BY DEF SafeInv, Inv, TypeOK, BlobBacked, Shape, ClaimHeld, Lengths,
       PendingYoung, Writing, Req, Idle, Doing, File, EntryRow, FetchRefuse,
       Delete
  <1>3. BurnOwned'
    BY DEF SafeInv, Inv, TypeOK, BurnOwned, Shape, ClaimHeld, Req, Idle,
       Doing, Writing, FetchRefuse, Delete
  <1>4. PendingYoung'
    BY DEF SafeInv, Inv, TypeOK, PendingYoung, Shape, ClaimHeld, BurnOwned,
       SessionHeld, IsOpen, Req, Idle, Doing, Writing, File, FetchRefuse,
       Delete
  <1>5. RowsYoung'
    BY DEF SafeInv, Inv, TypeOK, RowsYoung, BlobBacked, PendingYoung,
       BurnOwned, Shape, ClaimHeld, Req, File, GraceCovers, Sweep, SweepIdle,
       FetchRefuse, Delete
  <1>6. PartsYoung'
    BY DEF SafeInv, Inv, TypeOK, PartsYoung, PendingYoung, Shape, SessionHeld,
       ClaimHeld, BurnOwned, IsOpen, Req, Idle, Doing, Writing, File, Sweep,
       SweepIdle, FetchRefuse, Delete
  <1> QED
    BY <1>1, <1>2, <1>3, <1>4, <1>5, <1>6 DEF SafeInv

LEMMA SafeFetchPlan ==
    ASSUME GraceCovers, SafeInv, NEW r \in Request, NEW c \in Claim,
           FetchPlan(r, c)
    PROVE  SafeInv'
  <1>1. Inv'
    BY StepFetchPlan DEF SafeInv
  <1>2. BlobBacked'
    BY DEF SafeInv, Inv, TypeOK, BlobBacked, Shape, ClaimHeld, Lengths,
       PendingYoung, Writing, Req, Idle, Doing, File, EntryRow, FetchPlan,
       Servable, LastDownload, Spend
  <1>3. BurnOwned'
    BY SMTT(30) DEF SafeInv, Inv, TypeOK, BurnOwned, Shape, ClaimHeld, Req, Idle,
       Doing, Writing, FetchPlan, Servable, LastDownload, Spend
  <1>4. PendingYoung'
    BY DEF SafeInv, Inv, TypeOK, PendingYoung, Shape, ClaimHeld, BurnOwned,
       SessionHeld, IsOpen, Req, Idle, Doing, Writing, File, FetchPlan,
       Servable, LastDownload, Spend
  <1>5. RowsYoung'
    BY ZenonT(60) DEF SafeInv, Inv, TypeOK, RowsYoung, BlobBacked, PendingYoung,
       BurnOwned, Shape, ClaimHeld, Req, File, GraceCovers, Sweep, SweepIdle,
       FetchPlan, Servable, LastDownload, Spend
  <1>6. PartsYoung'
    <2>1. \E b \in BOOLEAN :
              req' = [req EXCEPT ![r] = Doing("fetch", c, None, 0, b)]
      BY DEF FetchPlan
    <2>2. /\ req'[r].op = "fetch"
          /\ \A q \in Request \ {r} : req'[q] = req[q]
      BY <2>1 DEF SafeInv, Inv, TypeOK, Doing
    <2> QED BY <2>2 DEF SafeInv, PartsYoung, FetchPlan, IsOpen
  <1> QED
    BY <1>1, <1>2, <1>3, <1>4, <1>5, <1>6 DEF SafeInv

LEMMA SafeFetchPlanHeld ==
    ASSUME GraceCovers, SafeInv, NEW r \in Request, NEW c \in Claim,
           FetchPlanHeld(r, c)
    PROVE  SafeInv'
  <1>1. Inv'
    BY StepFetchPlanHeld DEF SafeInv
  <1>2. BurnOwned'
    BY DEF SafeInv, Inv, TypeOK, BurnOwned, Shape, ClaimHeld, Req, Idle,
       Doing, Writing, FetchPlanHeld
  <1>3. PendingYoung'
    BY DEF SafeInv, Inv, TypeOK, PendingYoung, Shape, ClaimHeld, BurnOwned,
       SessionHeld, IsOpen, Req, Idle, Doing, Writing, File, FetchPlanHeld
  <1>4. PartsYoung'
    BY DEF SafeInv, Inv, TypeOK, PartsYoung, PendingYoung, Shape, SessionHeld,
       ClaimHeld, BurnOwned, IsOpen, Req, Idle, Doing, Writing, File, Sweep,
       SweepIdle, FetchPlanHeld
  <1> QED
    BY <1>1, <1>2, <1>3, <1>4 DEF SafeInv, FetchPlanHeld, BlobBacked,
       RowsYoung

LEMMA SafeFetchOpen ==
    ASSUME GraceCovers, SafeInv, NEW r \in Request,
           FetchOpen(r)
    PROVE  SafeInv'
  <1>1. Inv'
    BY StepFetchOpen DEF SafeInv
  <1>2. BlobBacked'
    BY DEF SafeInv, Inv, TypeOK, BlobBacked, BurnOwned, Shape, FetchOpen, Req
  <1>3. BurnOwned'
    BY DEF SafeInv, Inv, TypeOK, BurnOwned, Shape, ClaimHeld, Req, Idle,
       Doing, Writing, FetchOpen, Finish
  <1>4. PendingYoung'
    BY DEF SafeInv, Inv, TypeOK, PendingYoung, Shape, ClaimHeld, BurnOwned,
       SessionHeld, IsOpen, Req, Idle, Doing, Writing, File, FetchOpen, Finish
  <1>5. RowsYoung'
    BY DEF SafeInv, Inv, TypeOK, RowsYoung, BlobBacked, PendingYoung,
       BurnOwned, Shape, ClaimHeld, Req, File, GraceCovers, Sweep, SweepIdle,
       FetchOpen, Finish
  <1>6. PartsYoung'
    BY DEF SafeInv, Inv, TypeOK, PartsYoung, PendingYoung, Shape, SessionHeld,
       ClaimHeld, BurnOwned, IsOpen, Req, Idle, Doing, Writing, File, Sweep,
       SweepIdle, FetchOpen, Finish
  <1> QED
    BY <1>1, <1>2, <1>3, <1>4, <1>5, <1>6 DEF SafeInv

LEMMA SafeAckFetch ==
    ASSUME GraceCovers, SafeInv, NEW c \in Claim,
           AckFetch(c)
    PROVE  SafeInv'
  <1>1. Inv'
    BY StepAckFetch DEF SafeInv
  <1>2. BlobBacked'
    BY DEF SafeInv, Inv, TypeOK, BlobBacked, Shape, ClaimHeld, Lengths,
       PendingYoung, Writing, Req, Idle, Doing, File, EntryRow, AckFetch,
       Delete, LastDownload, Spend
  <1>3. BurnOwned'
    BY DEF SafeInv, Inv, TypeOK, BurnOwned, Shape, ClaimHeld, Req, Idle,
       Doing, Writing, AckFetch, Delete, LastDownload, Spend
  <1>4. PendingYoung'
    BY DEF SafeInv, Inv, TypeOK, PendingYoung, Shape, ClaimHeld, BurnOwned,
       SessionHeld, IsOpen, Req, Idle, Doing, Writing, File, AckFetch, Delete,
       LastDownload, Spend
  <1>5. RowsYoung'
    BY DEF SafeInv, Inv, TypeOK, RowsYoung, BlobBacked, PendingYoung,
       BurnOwned, Shape, ClaimHeld, Req, File, GraceCovers, Sweep, SweepIdle,
       AckFetch, Delete, LastDownload, Spend
  <1>6. PartsYoung'
    BY DEF SafeInv, Inv, TypeOK, PartsYoung, PendingYoung, Shape, SessionHeld,
       ClaimHeld, BurnOwned, IsOpen, Req, Idle, Doing, Writing, File, Sweep,
       SweepIdle, AckFetch, Delete, LastDownload, Spend
  <1> QED
    BY <1>1, <1>2, <1>3, <1>4, <1>5, <1>6 DEF SafeInv

LEMMA SafeRevoke ==
    ASSUME GraceCovers, SafeInv, NEW c \in Claim, NEW token \in Token,
           Revoke(c, token)
    PROVE  SafeInv'
  <1>1. Inv'
    BY StepRevoke DEF SafeInv
  <1>2. BlobBacked'
    BY DEF SafeInv, Inv, TypeOK, BlobBacked, Shape, ClaimHeld, Lengths,
       PendingYoung, Writing, Req, Idle, Doing, File, EntryRow, Revoke, Delete
  <1>3. BurnOwned'
    BY DEF SafeInv, Inv, TypeOK, BurnOwned, Shape, ClaimHeld, Req, Idle,
       Doing, Writing, Revoke, Delete
  <1>4. PendingYoung'
    BY DEF SafeInv, Inv, TypeOK, PendingYoung, Shape, ClaimHeld, BurnOwned,
       SessionHeld, IsOpen, Req, Idle, Doing, Writing, File, Revoke, Delete
  <1>5. RowsYoung'
    BY DEF SafeInv, Inv, TypeOK, RowsYoung, BlobBacked, PendingYoung,
       BurnOwned, Shape, ClaimHeld, Req, File, GraceCovers, Sweep, SweepIdle,
       Revoke, Delete
  <1>6. PartsYoung'
    BY DEF SafeInv, Inv, TypeOK, PartsYoung, PendingYoung, Shape, SessionHeld,
       ClaimHeld, BurnOwned, IsOpen, Req, Idle, Doing, Writing, File, Sweep,
       SweepIdle, Revoke, Delete
  <1> QED
    BY <1>1, <1>2, <1>3, <1>4, <1>5, <1>6 DEF SafeInv

LEMMA SafeOpenUpload ==
    ASSUME GraceCovers, SafeInv, NEW u \in Upload, NEW length \in 0..MaxBlob,
           OpenUpload(u, length)
    PROVE  SafeInv'
  <1>1. Inv'
    BY StepOpenUpload DEF SafeInv
  <1>2. PendingYoung'
    BY DEF SafeInv, Inv, TypeOK, PendingYoung, Shape, ClaimHeld, BurnOwned,
       SessionHeld, IsOpen, Req, Idle, Doing, Writing, File, OpenUpload,
       FreshUpload
  <1>3. PartsYoung'
    BY DEF SafeInv, Inv, TypeOK, PartsYoung, PendingYoung, Shape, SessionHeld,
       ClaimHeld, BurnOwned, IsOpen, Req, Idle, Doing, Writing, File, Sweep,
       SweepIdle, OpenUpload, FreshUpload
  <1> QED
    BY <1>1, <1>2, <1>3 DEF SafeInv, OpenUpload, BlobBacked, BurnOwned,
       RowsYoung

LEMMA SafeAppendBegin ==
    ASSUME GraceCovers, SafeInv, NEW r \in Request, NEW u \in Upload,
           AppendBegin(r, u)
    PROVE  SafeInv'
  <1>1. Inv'
    BY StepAppendBegin DEF SafeInv
  <1>2. BurnOwned'
    BY DEF SafeInv, Inv, TypeOK, BurnOwned, Shape, ClaimHeld, Req, Idle,
       Doing, Writing, AppendBegin, Busy, Resumable, IsOpen, Received, Min2
  <1>3. PendingYoung'
    BY DEF SafeInv, Inv, TypeOK, PendingYoung, Shape, ClaimHeld, BurnOwned,
       SessionHeld, IsOpen, Req, Idle, Doing, Writing, File, AppendBegin,
       Busy, Resumable, Received, Min2
  <1>4. PartsYoung'
    BY DEF SafeInv, Inv, TypeOK, PartsYoung, PendingYoung, Shape, SessionHeld,
       ClaimHeld, BurnOwned, IsOpen, Req, Idle, Doing, Writing, File, Sweep,
       SweepIdle, AppendBegin, Busy, Resumable, Received, Min2
  <1> QED
    BY <1>1, <1>2, <1>3, <1>4 DEF SafeInv, AppendBegin, BlobBacked, RowsYoung

LEMMA SafeAppendChunk ==
    ASSUME GraceCovers, SafeInv, NEW r \in Request,
           AppendChunk(r)
    PROVE  SafeInv'
  <1>1. Inv'
    BY StepAppendChunk DEF SafeInv
  <1>2. BurnOwned'
    BY DEF SafeInv, Inv, TypeOK, BurnOwned, Shape, ClaimHeld, Req, Idle,
       Doing, Writing, AppendChunk, Room
  <1>3. PendingYoung'
    <2>1. /\ req[r].up \in Upload /\ req[r].op = "append"
          /\ part[req[r].up] \in File
      BY DEF SafeInv, Inv, TypeOK, Shape, PendingYoung, AppendChunk, Writing
    <2>2. part'[req[r].up] = [age |-> 0, len |-> part[req[r].up].len + 1]
      BY <2>1 DEF SafeInv, Inv, TypeOK, AppendChunk
    <2>3. part'[req[r].up] # None
      BY <2>2, <2>1 DEF File, SafeInv, Inv, Lengths, SessionHeld, IsOpen, Writing,
                   AppendChunk, Room, TypeOK, UploadRow, Req, AgeCap
    <2>4. \A q \in Request : /\ req'[q].op = req[q].op
                             /\ req'[q].claim = req[q].claim
                             /\ req'[q].up = req[q].up
      BY DEF SafeInv, Inv, TypeOK, AppendChunk, Req
    <2>5. \A v \in Upload \ {req[r].up} : part'[v] = part[v]
      BY DEF SafeInv, Inv, TypeOK, AppendChunk
    <2>6. \A q \in Request \ {r} : req[q].up # req[r].up
      BY <2>1 DEF SafeInv, Inv, SessionHeld, Writing
    <2>7. bin' = bin
      BY DEF AppendChunk
    <2> QED BY <2>1, <2>3, <2>4, <2>5, <2>6, <2>7
            DEF SafeInv, Inv, Shape, PendingYoung, Writing
  <1>4. PartsYoung'
    BY DEF SafeInv, Inv, TypeOK, PartsYoung, PendingYoung, Shape, SessionHeld,
       ClaimHeld, BurnOwned, IsOpen, Req, Idle, Doing, Writing, File, Sweep,
       SweepIdle, AppendChunk, Room
  <1> QED
    BY <1>1, <1>2, <1>3, <1>4 DEF SafeInv, AppendChunk, BlobBacked, RowsYoung

LEMMA SafeAppendEnd ==
    ASSUME GraceCovers, SafeInv, NEW r \in Request,
           AppendEnd(r)
    PROVE  SafeInv'
  <1>1. Inv'
    BY StepAppendEnd DEF SafeInv
  <1>2. BurnOwned'
    BY DEF SafeInv, Inv, TypeOK, BurnOwned, Shape, ClaimHeld, Req, Idle,
       Doing, Writing, AppendEnd, Finish, IsOpen
  <1>3. PendingYoung'
    BY DEF SafeInv, Inv, TypeOK, PendingYoung, Shape, ClaimHeld, BurnOwned,
       SessionHeld, IsOpen, Req, Idle, Doing, Writing, File, AppendEnd, Finish
  <1>4. PartsYoung'
    BY DEF SafeInv, Inv, TypeOK, PartsYoung, PendingYoung, Shape, SessionHeld,
       ClaimHeld, BurnOwned, IsOpen, Req, Idle, Doing, Writing, File, Sweep,
       SweepIdle, AppendEnd, Finish
  <1> QED
    BY <1>1, <1>2, <1>3, <1>4 DEF SafeInv, AppendEnd, Finish, BlobBacked,
       RowsYoung

LEMMA SafeCommitBegin ==
    ASSUME GraceCovers, SafeInv, NEW r \in Request, NEW u \in Upload,
           CommitBegin(r, u)
    PROVE  SafeInv'
  <1>1. Inv'
    BY StepCommitBegin DEF SafeInv
  <1>2. BurnOwned'
    BY DEF SafeInv, Inv, TypeOK, BurnOwned, Shape, ClaimHeld, Req, Idle,
       Doing, Writing, CommitBegin, Busy, Resumable, IsOpen, Complete,
       Received, Min2, PromptClient
  <1>3. PendingYoung'
    BY DEF SafeInv, Inv, TypeOK, PendingYoung, Shape, ClaimHeld, BurnOwned,
       SessionHeld, IsOpen, Req, Idle, Doing, Writing, File, CommitBegin,
       Busy, Resumable, Complete, Received, Min2, PromptClient
  <1>4. PartsYoung'
    BY DEF SafeInv, Inv, TypeOK, PartsYoung, PendingYoung, Shape, SessionHeld,
       ClaimHeld, BurnOwned, IsOpen, Req, Idle, Doing, Writing, File, Sweep,
       SweepIdle, CommitBegin, Busy, Resumable, Complete, Received, Min2,
       PromptClient
  <1> QED
    BY <1>1, <1>2, <1>3, <1>4 DEF SafeInv, CommitBegin, BlobBacked, RowsYoung

LEMMA SafeCommitRename ==
    ASSUME GraceCovers, SafeInv, NEW r \in Request, NEW c \in Claim,
           CommitRename(r, c)
    PROVE  SafeInv'
  <1>1. Inv'
    BY StepCommitRename DEF SafeInv
  <1>2. BlobBacked'
    BY DEF SafeInv, Inv, TypeOK, BlobBacked, Shape, ClaimHeld, Lengths,
       PendingYoung, Writing, Req, Idle, Doing, File, EntryRow, CommitRename,
       FreshClaim, NewHistory
  <1>3. BurnOwned'
    BY DEF SafeInv, Inv, TypeOK, BurnOwned, Shape, ClaimHeld, Req, Idle,
       Doing, Writing, CommitRename, FreshClaim, NewHistory
  <1>4. PendingYoung'
    BY DEF SafeInv, Inv, TypeOK, PendingYoung, Shape, ClaimHeld, BurnOwned,
       SessionHeld, IsOpen, Req, Idle, Doing, Writing, File, CommitRename,
       FreshClaim, NewHistory
  <1>5. RowsYoung'
    BY DEF SafeInv, Inv, TypeOK, RowsYoung, BlobBacked, PendingYoung,
       BurnOwned, Shape, ClaimHeld, Req, File, GraceCovers, Sweep, SweepIdle,
       CommitRename, FreshClaim, NewHistory
  <1>6. PartsYoung'
    BY DEF SafeInv, Inv, TypeOK, PartsYoung, PendingYoung, Shape, SessionHeld,
       ClaimHeld, BurnOwned, IsOpen, Req, Idle, Doing, Writing, File, Sweep,
       SweepIdle, CommitRename, FreshClaim, NewHistory
  <1> QED
    BY <1>1, <1>2, <1>3, <1>4, <1>5, <1>6 DEF SafeInv

LEMMA SafeCommitRenameFails ==
    ASSUME GraceCovers, SafeInv, NEW r \in Request,
           CommitRenameFails(r)
    PROVE  SafeInv'
  <1>1. Inv'
    BY StepCommitRenameFails DEF SafeInv
  <1>2. BurnOwned'
    BY DEF SafeInv, Inv, TypeOK, BurnOwned, Shape, ClaimHeld, Req, Idle,
       Doing, Writing, CommitRenameFails, Finish
  <1>3. PendingYoung'
    BY DEF SafeInv, Inv, TypeOK, PendingYoung, Shape, ClaimHeld, BurnOwned,
       SessionHeld, IsOpen, Req, Idle, Doing, Writing, File,
       CommitRenameFails, Finish
  <1>4. PartsYoung'
    BY DEF SafeInv, Inv, TypeOK, PartsYoung, PendingYoung, Shape, SessionHeld,
       ClaimHeld, BurnOwned, IsOpen, Req, Idle, Doing, Writing, File, Sweep,
       SweepIdle, CommitRenameFails, Finish
  <1> QED
    BY <1>1, <1>2, <1>3, <1>4 DEF SafeInv, CommitRenameFails, Finish,
       BlobBacked, RowsYoung

LEMMA SafeCommitInsert ==
    ASSUME GraceCovers, SafeInv, NEW r \in Request,
           NEW ttl \in AskedTtl, NEW max \in AskedMax,
           NEW token \in Token \cup {None},
           CommitInsert(r, ttl, max, token)
    PROVE  SafeInv'
  <1>1. Inv'
    BY StepCommitInsert DEF SafeInv
  <1>2. BlobBacked'
    BY DEF SafeInv, Inv, TypeOK, BlobBacked, Shape, ClaimHeld, Lengths,
       PendingYoung, Writing, Req, Idle, Doing, File, EntryRow, CommitInsert,
       CommitDeposit, GrantTtl, GrantMax, Min2, AskedTtl, AskedMax
  <1>3. BurnOwned'
    BY DEF SafeInv, Inv, TypeOK, BurnOwned, Shape, ClaimHeld, Req, Idle,
       Doing, Writing, CommitInsert, CommitDeposit, GrantTtl, GrantMax, Min2,
       AskedTtl, AskedMax
  <1>4. PendingYoung'
    BY DEF SafeInv, Inv, TypeOK, PendingYoung, Shape, ClaimHeld, BurnOwned,
       SessionHeld, IsOpen, Req, Idle, Doing, Writing, File, CommitInsert,
       CommitDeposit, GrantTtl, GrantMax, Min2, AskedTtl, AskedMax
  <1>5. RowsYoung'
    BY DEF SafeInv, Inv, TypeOK, RowsYoung, BlobBacked, PendingYoung,
       BurnOwned, Shape, ClaimHeld, Req, File, GraceCovers, Sweep, SweepIdle,
       CommitInsert, CommitDeposit, GrantTtl, GrantMax, Min2, AskedTtl,
       AskedMax
  <1>6. PartsYoung'
    BY DEF SafeInv, Inv, TypeOK, PartsYoung, PendingYoung, Shape, SessionHeld,
       ClaimHeld, BurnOwned, IsOpen, Req, Idle, Doing, Writing, File, Sweep,
       SweepIdle, CommitInsert, CommitDeposit, GrantTtl, GrantMax, Min2,
       AskedTtl, AskedMax
  <1> QED
    BY <1>1, <1>2, <1>3, <1>4, <1>5, <1>6 DEF SafeInv

LEMMA SafeCommitInsertFails ==
    ASSUME GraceCovers, SafeInv, NEW r \in Request,
           CommitInsertFails(r)
    PROVE  SafeInv'
  <1>1. Inv'
    BY StepCommitInsertFails DEF SafeInv
  <1>2. BlobBacked'
    BY DEF SafeInv, Inv, TypeOK, BlobBacked, Shape, ClaimHeld, Lengths,
       PendingYoung, Writing, Req, Idle, Doing, File, EntryRow,
       CommitInsertFails, Finish
  <1>3. BurnOwned'
    BY DEF SafeInv, Inv, TypeOK, BurnOwned, Shape, ClaimHeld, Req, Idle,
       Doing, Writing, CommitInsertFails, Finish
  <1>4. PendingYoung'
    BY DEF SafeInv, Inv, TypeOK, PendingYoung, Shape, ClaimHeld, BurnOwned,
       SessionHeld, IsOpen, Req, Idle, Doing, Writing, File,
       CommitInsertFails, Finish
  <1>5. RowsYoung'
    BY DEF SafeInv, Inv, TypeOK, RowsYoung, BlobBacked, PendingYoung,
       BurnOwned, Shape, ClaimHeld, Req, File, GraceCovers, Sweep, SweepIdle,
       CommitInsertFails, Finish
  <1>6. PartsYoung'
    BY DEF SafeInv, Inv, TypeOK, PartsYoung, PendingYoung, Shape, SessionHeld,
       ClaimHeld, BurnOwned, IsOpen, Req, Idle, Doing, Writing, File, Sweep,
       SweepIdle, CommitInsertFails, Finish
  <1> QED
    BY <1>1, <1>2, <1>3, <1>4, <1>5, <1>6 DEF SafeInv

LEMMA SafeCommitMemo ==
    ASSUME GraceCovers, SafeInv, NEW r \in Request,
           CommitMemo(r)
    PROVE  SafeInv'
  <1>1. Inv'
    BY StepCommitMemo DEF SafeInv
  <1>2. BurnOwned'
    BY DEF SafeInv, Inv, TypeOK, BurnOwned, Shape, ClaimHeld, Req, Idle,
       Doing, Writing, CommitMemo, Finish
  <1>3. PendingYoung'
    BY DEF SafeInv, Inv, TypeOK, PendingYoung, Shape, ClaimHeld, BurnOwned,
       SessionHeld, IsOpen, Req, Idle, Doing, Writing, File, CommitMemo,
       Finish
  <1>4. PartsYoung'
    BY DEF SafeInv, Inv, TypeOK, PartsYoung, PendingYoung, Shape, SessionHeld,
       ClaimHeld, BurnOwned, IsOpen, Req, Idle, Doing, Writing, File, Sweep,
       SweepIdle, CommitMemo, Finish
  <1> QED
    BY <1>1, <1>2, <1>3, <1>4 DEF SafeInv, CommitMemo, Finish, BlobBacked,
       RowsYoung

LEMMA SafeCommitMemoFails ==
    ASSUME GraceCovers, SafeInv, NEW r \in Request,
           CommitMemoFails(r)
    PROVE  SafeInv'
  <1>1. Inv'
    BY StepCommitMemoFails DEF SafeInv
  <1>2. BurnOwned'
    BY DEF SafeInv, Inv, TypeOK, BurnOwned, Shape, ClaimHeld, Req, Idle,
       Doing, Writing, CommitMemoFails, Finish
  <1>3. PendingYoung'
    BY DEF SafeInv, Inv, TypeOK, PendingYoung, Shape, ClaimHeld, BurnOwned,
       SessionHeld, IsOpen, Req, Idle, Doing, Writing, File, CommitMemoFails,
       Finish
  <1>4. PartsYoung'
    BY DEF SafeInv, Inv, TypeOK, PartsYoung, PendingYoung, Shape, SessionHeld,
       ClaimHeld, BurnOwned, IsOpen, Req, Idle, Doing, Writing, File, Sweep,
       SweepIdle, CommitMemoFails, Finish
  <1> QED
    BY <1>1, <1>2, <1>3, <1>4 DEF SafeInv, CommitMemoFails, Finish,
       BlobBacked, RowsYoung

LEMMA SafeAbortUpload ==
    ASSUME GraceCovers, SafeInv, NEW u \in Upload,
           AbortUpload(u)
    PROVE  SafeInv'
  <1>1. Inv'
    BY StepAbortUpload DEF SafeInv
  <1>2. PendingYoung'
    BY DEF SafeInv, Inv, TypeOK, PendingYoung, Shape, ClaimHeld, BurnOwned,
       SessionHeld, IsOpen, Req, Idle, Doing, Writing, File, AbortUpload, Busy
  <1>3. PartsYoung'
    BY DEF SafeInv, Inv, TypeOK, PartsYoung, PendingYoung, Shape, SessionHeld,
       ClaimHeld, BurnOwned, IsOpen, Req, Idle, Doing, Writing, File, Sweep,
       SweepIdle, AbortUpload, Busy
  <1> QED
    BY <1>1, <1>2, <1>3 DEF SafeInv, AbortUpload, BlobBacked, BurnOwned,
       RowsYoung

LEMMA SafeReap ==
    ASSUME GraceCovers, SafeInv,
           Reap
    PROVE  SafeInv'
  <1>1. Inv'
    BY StepReap DEF SafeInv
  <1>2. BlobBacked'
    BY DEF SafeInv, Inv, TypeOK, BlobBacked, Shape, ClaimHeld, Lengths,
       PendingYoung, Writing, Req, Idle, Doing, File, EntryRow, Reap,
       ExpiredEntries
  <1>3. BurnOwned'
    BY DEF SafeInv, Inv, TypeOK, BurnOwned, Shape, ClaimHeld, Req, Idle,
       Doing, Writing, Reap, ExpiredEntries
  <1>4. PendingYoung'
    BY DEF SafeInv, Inv, TypeOK, PendingYoung, Shape, ClaimHeld, BurnOwned,
       SessionHeld, IsOpen, Req, Idle, Doing, Writing, File, Reap,
       ExpiredEntries
  <1>5. RowsYoung'
    BY DEF SafeInv, Inv, TypeOK, RowsYoung, BlobBacked, PendingYoung,
       BurnOwned, Shape, ClaimHeld, Req, File, GraceCovers, Sweep, SweepIdle,
       Reap, ExpiredEntries
  <1>6. PartsYoung'
    BY DEF SafeInv, Inv, TypeOK, PartsYoung, PendingYoung, Shape, SessionHeld,
       ClaimHeld, BurnOwned, IsOpen, Req, Idle, Doing, Writing, File, Sweep,
       SweepIdle, Reap, ExpiredEntries
  <1> QED
    BY <1>1, <1>2, <1>3, <1>4, <1>5, <1>6 DEF SafeInv

LEMMA SafeUploadReap ==
    ASSUME GraceCovers, SafeInv,
           UploadReap
    PROVE  SafeInv'
  <1>1. Inv'
    BY StepUploadReap DEF SafeInv
  <1>2. PendingYoung'
    BY DEF SafeInv, Inv, TypeOK, PendingYoung, Shape, ClaimHeld, BurnOwned,
       SessionHeld, IsOpen, Req, Idle, Doing, Writing, File, UploadReap,
       Reapable, Busy
  <1>3. PartsYoung'
    BY DEF SafeInv, Inv, TypeOK, PartsYoung, PendingYoung, Shape, SessionHeld,
       ClaimHeld, BurnOwned, IsOpen, Req, Idle, Doing, Writing, File, Sweep,
       SweepIdle, UploadReap, Reapable, Busy
  <1> QED
    BY <1>1, <1>2, <1>3 DEF SafeInv, UploadReap, BlobBacked, BurnOwned,
       RowsYoung

LEMMA SafeSweepClaims ==
    ASSUME GraceCovers, SafeInv,
           SweepClaims
    PROVE  SafeInv'
  <1>1. Inv'
    BY StepSweepClaims DEF SafeInv
  <1>2. RowsYoung'
    BY DEF SafeInv, Inv, TypeOK, RowsYoung, BlobBacked, PendingYoung,
       BurnOwned, Shape, ClaimHeld, Req, File, GraceCovers, Sweep, SweepIdle,
       SweepClaims
  <1>3. PartsYoung'
    BY DEF SafeInv, Inv, TypeOK, PartsYoung, PendingYoung, Shape, SessionHeld,
       ClaimHeld, BurnOwned, IsOpen, Req, Idle, Doing, Writing, File, Sweep,
       SweepIdle, SweepClaims
  <1> QED
    BY <1>1, <1>2, <1>3 DEF SafeInv, SweepClaims, BlobBacked, BurnOwned,
       PendingYoung

LEMMA SafeSweepIds ==
    ASSUME GraceCovers, SafeInv,
           SweepIds
    PROVE  SafeInv'
  <1>1. Inv'
    BY StepSweepIds DEF SafeInv
  <1>2. RowsYoung'
    BY DEF SafeInv, Inv, TypeOK, RowsYoung, BlobBacked, PendingYoung,
       BurnOwned, Shape, ClaimHeld, Req, File, GraceCovers, Sweep, SweepIdle,
       SweepIds, OpenUploads
  <1>3. PartsYoung'
    BY DEF SafeInv, Inv, TypeOK, PartsYoung, PendingYoung, Shape, SessionHeld,
       ClaimHeld, BurnOwned, IsOpen, Req, Idle, Doing, Writing, File, Sweep,
       SweepIdle, SweepIds, OpenUploads
  <1> QED
    BY <1>1, <1>2, <1>3 DEF SafeInv, SweepIds, BlobBacked, BurnOwned,
       PendingYoung

LEMMA SafeSweepBin ==
    ASSUME GraceCovers, SafeInv, NEW c \in Claim,
           SweepBin(c)
    PROVE  SafeInv'
  <1>1. Inv'
    BY StepSweepBin DEF SafeInv
  <1>2. BlobBacked'
    BY SweptIsUnused DEF SafeInv, Inv, TypeOK, Shape, BlobBacked, SweepBin
  <1>3. PendingYoung'
    BY ZenonT(60), SweptIsUnused DEF SafeInv, Inv, TypeOK, Shape, PendingYoung, Writing, SweepBin
  <1>4. RowsYoung'
    BY SweptIsUnused DEF SafeInv, Inv, TypeOK, Shape, RowsYoung, SweepBin
  <1>5. PartsYoung'
    BY SweptIsUnused DEF SafeInv, Inv, TypeOK, Shape, PartsYoung, IsOpen, SweepBin
  <1> QED
    BY <1>1, <1>2, <1>3, <1>4, <1>5 DEF SafeInv, SweepBin, BurnOwned

LEMMA SafeSweepPart ==
    ASSUME GraceCovers, SafeInv, NEW u \in Upload,
           SweepPart(u)
    PROVE  SafeInv'
  <1>1. Inv'
    BY StepSweepPart DEF SafeInv
  <1>2. PendingYoung'
    BY SweptPartIsUnused
       DEF SafeInv, Inv, TypeOK, Shape, PendingYoung, SweepPart, Writing
  <1>3. PartsYoung'
    BY DEF SafeInv, Inv, TypeOK, PartsYoung, PendingYoung, Shape, SessionHeld,
       ClaimHeld, BurnOwned, IsOpen, Req, Idle, Doing, Writing, File, Sweep,
       SweepIdle, SweepPart
  <1> QED
    BY <1>1, <1>2, <1>3 DEF SafeInv, SweepPart, BlobBacked, BurnOwned,
       RowsYoung

LEMMA SafeSweepDone ==
    ASSUME GraceCovers, SafeInv,
           SweepDone
    PROVE  SafeInv'
  <1>1. Inv'
    BY StepSweepDone DEF SafeInv
  <1>2. RowsYoung'
    BY DEF SafeInv, Inv, TypeOK, RowsYoung, BlobBacked, PendingYoung,
       BurnOwned, Shape, ClaimHeld, Req, File, GraceCovers, Sweep, SweepIdle,
       SweepDone
  <1>3. PartsYoung'
    BY DEF SafeInv, Inv, TypeOK, PartsYoung, PendingYoung, Shape, SessionHeld,
       ClaimHeld, BurnOwned, IsOpen, Req, Idle, Doing, Writing, File, Sweep,
       SweepIdle, SweepDone
  <1> QED
    BY <1>1, <1>2, <1>3 DEF SafeInv, SweepDone, BlobBacked, BurnOwned,
       PendingYoung

LEMMA SafeTick ==
    ASSUME GraceCovers, SafeInv,
           Tick
    PROVE  SafeInv'
  <1>1. Inv'
    BY StepTick DEF SafeInv
  <1>a. \A u \in Upload : IsOpen(u)' => IsOpen(u)
    BY DEF SafeInv, Inv, TypeOK, Tick, Sooner, IsOpen, UploadRow
  <1>2. BlobBacked'
    BY OlderFile DEF SafeInv, Inv, TypeOK, BlobBacked, Tick, Sooner, EntryRow
  <1>3. BurnOwned'
    BY DEF SafeInv, Inv, TypeOK, BurnOwned, Shape, ClaimHeld, Req, Idle,
       Doing, Writing, Tick, Sooner, Older, Min2, InTime
  <1>4. PendingYoung'
    <2> SUFFICES ASSUME NEW r \in Request
                 PROVE  /\ req[r].op = "deposit" =>
                            /\ Older(bin[req[r].claim]) # None
                            /\ Older(bin[req[r].claim]).age <= MaxStall
                        /\ req[r].op = "renamed" =>
                            /\ Older(bin[req[r].claim]) # None
                            /\ Older(bin[req[r].claim]).age <= MaxWait
                        /\ req[r].op \in {"append", "commit"} =>
                            Older(part[req[r].up]) # None
                        /\ req[r].op = "commit" =>
                            Older(part[req[r].up]).age <= MaxWait
      BY DEF SafeInv, Inv, Shape, PendingYoung, Tick, Writing
    <2>1. req[r].op \in {"deposit", "renamed"} =>
            /\ bin[req[r].claim] \in File
            /\ bin[req[r].claim].age < Patience(r)
      BY DEF SafeInv, Inv, TypeOK, Shape, PendingYoung, Tick, InTime,
             PendingFiles
    <2>2. req[r].op \in {"append", "commit"} => part[req[r].up] \in File
      BY DEF SafeInv, Inv, TypeOK, Shape, PendingYoung, Writing
    <2>3. req[r].op = "commit" => part[req[r].up].age < Patience(r)
      BY <2>2 DEF SafeInv, Inv, Shape, Tick, InTime, PendingFiles, Writing
    <2> QED BY <2>1, <2>2, <2>3, OlderFile DEF Patience, File
  <1>5. RowsYoung'
    <2> SUFFICES ASSUME NEW c \in Claim, entries'[c] # None,
                        fate'[c] # "cut", c \notin sweep'.claims
                 PROVE  /\ sweep'.pc = "ids" =>
                            bin'[c].age + MaxWalk < Grace + sweep'.elapsed
                        /\ sweep'.pc = "walk" =>
                            bin'[c].age < Grace + sweep'.elapsed
      BY DEF RowsYoung
    <2>1. entries[c] # None /\ fate[c] # "cut"
      BY DEF Tick, Sooner
    <2>2. bin[c] \in File
      BY <2>1 DEF SafeInv, Inv, TypeOK, BlobBacked
    <2>3. bin'[c].age <= bin[c].age + 1 /\ bin'[c].age \in Nat
      BY <2>2, OlderFile DEF Tick, File
    <2>4. sweep'.pc # "idle" => /\ sweep'.pc = sweep.pc
                               /\ sweep'.claims = sweep.claims
                               /\ sweep'.elapsed = sweep.elapsed + 1
      BY DEF SafeInv, Inv, TypeOK, Tick, Sweep
    <2>5. sweep.elapsed \in Nat
      BY DEF SafeInv, Inv, TypeOK, Sweep
    <2> QED BY <2>1, <2>2, <2>3, <2>4, <2>5 DEF SafeInv, RowsYoung, File
  <1>6. PartsYoung'
    <2> SUFFICES ASSUME sweep'.pc = "walk"
                 PROVE  /\ \A u \in Upload : IsOpen(u)' /\ u \notin sweep'.ids
                              /\ part'[u] # None => part'[u].age <= sweep'.elapsed
                        /\ \A r \in Request : req'[r].op = "renamed"
                              /\ req'[r].up \notin sweep'.ids =>
                                bin'[req'[r].claim].age <= sweep'.elapsed
      BY DEF PartsYoung
    <2>1. /\ sweep.pc = "walk" /\ sweep'.ids = sweep.ids
          /\ sweep'.elapsed = sweep.elapsed + 1 /\ sweep.elapsed \in Nat
      BY DEF SafeInv, Inv, TypeOK, Tick, Sweep
    <2>2. ASSUME NEW u \in Upload, IsOpen(u)', u \notin sweep'.ids,
                 part'[u] # None
          PROVE  part'[u].age <= sweep'.elapsed
      <3>1. IsOpen(u) /\ part[u] \in File
        BY <1>a, <2>2 DEF SafeInv, Inv, TypeOK, Tick, Older
      <3>2. part[u].age <= sweep.elapsed
        BY <3>1, <2>1, <2>2 DEF SafeInv, PartsYoung, File
      <3> QED BY <3>1, <3>2, <2>1, OlderFile DEF Tick, File
    <2>3. ASSUME NEW r \in Request, req'[r].op = "renamed",
                 req'[r].up \notin sweep'.ids
          PROVE  bin'[req'[r].claim].age <= sweep'.elapsed
      <3>1. /\ req' = req /\ req[r].claim \in Claim
            /\ bin[req[r].claim] \in File
        BY <2>3 DEF SafeInv, Inv, TypeOK, Shape, PendingYoung, Tick
      <3>2. bin[req[r].claim].age <= sweep.elapsed
        BY <3>1, <2>1, <2>3 DEF SafeInv, PartsYoung
      <3> QED BY <3>1, <3>2, <2>1, OlderFile DEF Tick, File
    <2> QED BY <2>2, <2>3
  <1> QED
    BY <1>1, <1>2, <1>3, <1>4, <1>5, <1>6 DEF SafeInv

LEMMA SafeCrash ==
    ASSUME GraceCovers, SafeInv,
           Crash
    PROVE  SafeInv'
  <1>1. Inv'
    BY StepCrash DEF SafeInv
  <1>2. BurnOwned'
    BY DEF SafeInv, Inv, TypeOK, BurnOwned, Shape, ClaimHeld, Req, Idle,
       Doing, Writing, Crash, Die
  <1>3. PendingYoung'
    BY DEF SafeInv, Inv, TypeOK, PendingYoung, Shape, ClaimHeld, BurnOwned,
       SessionHeld, IsOpen, Req, Idle, Doing, Writing, File, Crash, Die
  <1>4. RowsYoung'
    BY DEF SafeInv, Inv, TypeOK, RowsYoung, BlobBacked, PendingYoung,
       BurnOwned, Shape, ClaimHeld, Req, File, GraceCovers, Sweep, SweepIdle,
       Crash, Die
  <1>5. PartsYoung'
    BY DEF SafeInv, Inv, TypeOK, PartsYoung, PendingYoung, Shape, SessionHeld,
       ClaimHeld, BurnOwned, IsOpen, Req, Idle, Doing, Writing, File, Sweep,
       SweepIdle, Crash, Die
  <1> QED
    BY <1>1, <1>2, <1>3, <1>4, <1>5 DEF SafeInv, Crash, Die, BlobBacked

LEMMA SafeCrashInOpen ==
    ASSUME GraceCovers, SafeInv, NEW u \in Upload,
           CrashInOpen(u)
    PROVE  SafeInv'
  <1>1. Inv'
    BY StepCrashInOpen DEF SafeInv
  <1>2. BurnOwned'
    BY DEF SafeInv, Inv, TypeOK, BurnOwned, Shape, ClaimHeld, Req, Idle,
       Doing, Writing, CrashInOpen, FreshUpload, Die
  <1>3. PendingYoung'
    BY DEF SafeInv, Inv, TypeOK, PendingYoung, Shape, ClaimHeld, BurnOwned,
       SessionHeld, IsOpen, Req, Idle, Doing, Writing, File, CrashInOpen,
       FreshUpload, Die
  <1>4. RowsYoung'
    BY DEF SafeInv, Inv, TypeOK, RowsYoung, BlobBacked, PendingYoung,
       BurnOwned, Shape, ClaimHeld, Req, File, GraceCovers, Sweep, SweepIdle,
       CrashInOpen, FreshUpload, Die
  <1>5. PartsYoung'
    BY DEF SafeInv, Inv, TypeOK, PartsYoung, PendingYoung, Shape, SessionHeld,
       ClaimHeld, BurnOwned, IsOpen, Req, Idle, Doing, Writing, File, Sweep,
       SweepIdle, CrashInOpen, FreshUpload, Die
  <1> QED
    BY <1>1, <1>2, <1>3, <1>4, <1>5 DEF SafeInv, CrashInOpen, Die, BlobBacked

LEMMA SafeCrashInDrop ==
    ASSUME GraceCovers, SafeInv, NEW u \in Upload,
           CrashInDrop(u)
    PROVE  SafeInv'
  <1>1. Inv'
    BY StepCrashInDrop DEF SafeInv
  <1>2. BurnOwned'
    BY DEF SafeInv, Inv, TypeOK, BurnOwned, Shape, ClaimHeld, Req, Idle,
       Doing, Writing, CrashInDrop, Die
  <1>3. PendingYoung'
    BY DEF SafeInv, Inv, TypeOK, PendingYoung, Shape, ClaimHeld, BurnOwned,
       SessionHeld, IsOpen, Req, Idle, Doing, Writing, File, CrashInDrop, Die
  <1>4. RowsYoung'
    BY DEF SafeInv, Inv, TypeOK, RowsYoung, BlobBacked, PendingYoung,
       BurnOwned, Shape, ClaimHeld, Req, File, GraceCovers, Sweep, SweepIdle,
       CrashInDrop, Die
  <1>5. PartsYoung'
    BY DEF SafeInv, Inv, TypeOK, PartsYoung, PendingYoung, Shape, SessionHeld,
       ClaimHeld, BurnOwned, IsOpen, Req, Idle, Doing, Writing, File, Sweep,
       SweepIdle, CrashInDrop, Die
  <1> QED
    BY <1>1, <1>2, <1>3, <1>4, <1>5 DEF SafeInv, CrashInDrop, Die, BlobBacked

LEMMA SafeCrashInDelete ==
    ASSUME GraceCovers, SafeInv, NEW c \in Claim,
           CrashInDelete(c)
    PROVE  SafeInv'
  <1>1. Inv'
    BY StepCrashInDelete DEF SafeInv
  <1>2. BlobBacked'
    BY DEF SafeInv, Inv, TypeOK, BlobBacked, Shape, ClaimHeld, Lengths,
       PendingYoung, Writing, Req, Idle, Doing, File, EntryRow, CrashInDelete,
       Die
  <1>3. BurnOwned'
    BY DEF SafeInv, Inv, TypeOK, BurnOwned, Shape, ClaimHeld, Req, Idle,
       Doing, Writing, CrashInDelete, Die
  <1>4. PendingYoung'
    BY DEF SafeInv, Inv, TypeOK, PendingYoung, Shape, ClaimHeld, BurnOwned,
       SessionHeld, IsOpen, Req, Idle, Doing, Writing, File, CrashInDelete,
       Die
  <1>5. RowsYoung'
    BY DEF SafeInv, Inv, TypeOK, RowsYoung, BlobBacked, PendingYoung,
       BurnOwned, Shape, ClaimHeld, Req, File, GraceCovers, Sweep, SweepIdle,
       CrashInDelete, Die
  <1>6. PartsYoung'
    BY DEF SafeInv, Inv, TypeOK, PartsYoung, PendingYoung, Shape, SessionHeld,
       ClaimHeld, BurnOwned, IsOpen, Req, Idle, Doing, Writing, File, Sweep,
       SweepIdle, CrashInDelete, Die
  <1> QED
    BY <1>1, <1>2, <1>3, <1>4, <1>5, <1>6 DEF SafeInv

LEMMA NextSafeInv == ASSUME GraceCovers PROVE SafeInv /\ [Next]_vars => SafeInv'
  <1> SUFFICES ASSUME SafeInv, [Next]_vars PROVE SafeInv'
    OBVIOUS
  <1>1. CASE UNCHANGED vars
    <2>1. Inv'
      BY <1>1, NextInv DEF SafeInv
    <2> QED BY <1>1, <2>1 DEF SafeInv, BlobBacked, BurnOwned, PendingYoung, RowsYoung,
   PartsYoung, IsOpen, vars
  <1>2. ASSUME NEW r \in Request, DepositNext(r) PROVE SafeInv'
    BY <1>2, SafeDepositStart, SafeDepositChunk, SafeDepositCommit,
       SafeDepositAbort, SafeCancel DEF DepositNext
  <1>3. ASSUME NEW r \in Request, FetchNext(r) PROVE SafeInv'
    BY <1>3, SafeFetchPlan, SafeFetchPlanHeld, SafeFetchOpen DEF FetchNext
  <1>4. ASSUME NEW r \in Request, UploadNext(r) PROVE SafeInv'
    BY <1>4, SafeAppendBegin, SafeCommitBegin, SafeAppendChunk, SafeAppendEnd,
       SafeCommitRename, SafeCommitInsert, SafeCommitRenameFails,
       SafeCommitInsertFails, SafeCommitMemo, SafeCommitMemoFails DEF
       UploadNext
  <1>5. ASSUME NEW c \in Claim, EntryNext(c) PROVE SafeInv'
    BY <1>5, SafeFetchRefuse, SafeAckFetch, SafeRevoke, SafeCrashInDelete DEF
       EntryNext
  <1>6. ASSUME NEW u \in Upload, SessionNext(u) PROVE SafeInv'
    BY <1>6, SafeOpenUpload, SafeAbortUpload, SafeCrashInOpen, SafeCrashInDrop
       DEF SessionNext
  <1>7. CASE SweepNext
    BY <1>7, SafeSweepClaims, SafeSweepIds, SafeSweepBin, SafeSweepPart,
       SafeSweepDone DEF SweepNext
  <1> QED BY <1>1, <1>2, <1>3, <1>4, <1>5, <1>6, <1>7, SafeReap, SafeUploadReap,
   SafeTick, SafeCrash DEF Next

-----------------------------------------------------------------------------
(* The theorems.                                                           *)

\* The tables, files and requests stay within their types in every behaviour
\* of the relay, whatever its limits are: the clamps of commit_deposit, the
\* length checks of the two body loops and the download accounting suffice.
THEOREM TypeCorrect == Spec => []TypeOK
  <1>1. Inv => TypeOK
    BY DEF Inv
  <1> QED BY InitInv, NextInv, <1>1, PTL DEF Spec

\* No interleaving of fetches, acks, revokes and crashes overspends or
\* miscounts the download budget of an entry.
THEOREM BudgetKept == Spec => []DownloadsAccounted
  <1>1. Inv => DownloadsAccounted
    BY DEF Inv
  <1> QED BY InitInv, NextInv, <1>1, PTL DEF Spec

\* When the sweep's grace outlasts the clients' longest silence, no live row
\* ever loses its ciphertext, for any number of requests and sessions.
THEOREM BlobsAreBacked == ASSUME GraceCovers PROVE Spec => []BlobBacked
  <1>1. SafeInv => BlobBacked
    BY DEF SafeInv
  <1> QED BY InitSafe, NextSafeInv, <1>1, PTL DEF Spec

\* Under the same condition a request that holds the AppendGuard keeps its
\* session, its file and its exclusivity until it lets go.
THEOREM GuardsHold == ASSUME GraceCovers PROVE Spec => []GuardHolds
  <1>1. SafeInv => GuardHolds
    BY SMTT(30) DEF SafeInv, Inv, SessionHeld, PendingYoung, GuardHolds, Writing
  <1> QED BY InitSafe, NextSafeInv, <1>1, PTL DEF Spec

\* One step of the relay takes an unexpired row only by a revoke or by the
\* spending of its last download.
LEMMA RowLeaves ==
    ASSUME Inv, [Next]_vars, NEW c \in Claim,
           entries[c] # None, entries'[c] = None, ~Expired(c)
    PROVE  fate'[c] = "revoked" \/ spent'[c] = entries[c].max
  <1>0. /\ entries[c] \in EntryRow /\ entries[c].downloads = spent[c]
        /\ spent[c] < entries[c].max /\ spent[c] \in Nat
    BY DEF Inv, TypeOK, DownloadsAccounted
  <1>1. ASSUME NEW r \in Request, NEW d \in Claim, FetchPlan(r, d)
        PROVE  spent'[c] = entries[c].max
    <2>1. d = c
      BY <1>1 DEF Inv, TypeOK, FetchPlan, EntryRow
    <2>2. LastDownload(c)
      <3> SUFFICES ASSUME ~LastDownload(c) PROVE FALSE
        OBVIOUS
      <3>1. entries'[c] = [entries[c] EXCEPT !.downloads = @ + 1]
        BY <1>1, <2>1 DEF Inv, TypeOK, FetchPlan
      <3>2. [entries[c] EXCEPT !.downloads = @ + 1] \in EntryRow
        BY <1>0 DEF EntryRow, LastDownload
      <3> QED BY <3>1, <3>2
    <2> QED BY <1>0, <1>1, <2>1, <2>2
            DEF Inv, TypeOK, FetchPlan, Spend, LastDownload, EntryRow
  <1>2. ASSUME NEW d \in Claim, AckFetch(d)
        PROVE  spent'[c] = entries[c].max
    <2>1. d = c
      BY <1>2 DEF Inv, TypeOK, AckFetch, Delete, EntryRow
    <2>2. LastDownload(c)
      <3> SUFFICES ASSUME ~LastDownload(c) PROVE FALSE
        OBVIOUS
      <3>1. entries'[c] = [entries[c] EXCEPT !.downloads = @ + 1]
        BY <1>2, <2>1 DEF Inv, TypeOK, AckFetch
      <3>2. [entries[c] EXCEPT !.downloads = @ + 1] \in EntryRow
        BY <1>0 DEF EntryRow, LastDownload
      <3> QED BY <3>1, <3>2
    <2> QED BY <1>0, <1>2, <2>1, <2>2
            DEF Inv, TypeOK, AckFetch, Spend, LastDownload, EntryRow
  <1>3. ASSUME NEW d \in Claim, NEW token \in Token, Revoke(d, token)
        PROVE  fate'[c] = "revoked"
    BY <1>3 DEF Inv, TypeOK, Revoke, Delete
  <1>4. ASSUME NEW d \in Claim, FetchRefuse(d)
        PROVE  FALSE
    BY <1>0, <1>4 DEF Inv, TypeOK, FetchRefuse, Servable, Delete, EntryRow
  <1>5. ~Reap
    BY DEF Inv, TypeOK, Reap, ExpiredEntries
  <1>6. ~Tick
    BY <1>0 DEF Inv, TypeOK, Tick, Sooner, EntryRow
  <1>7. ASSUME NEW r \in Request, NEW ttl \in AskedTtl, NEW max \in AskedMax,
               NEW token \in Token \cup {None},
               \/ DepositCommit(r, ttl, max, token)
               \/ CommitInsert(r, ttl, max, token)
        PROVE  FALSE
    <2>1. req[r].claim # c
      BY <1>7 DEF Inv, ClaimHeld, DepositCommit, CommitInsert
    <2> QED BY <1>7, <2>1
            DEF Inv, TypeOK, DepositCommit, CommitInsert, CommitDeposit
  <1>8. entries' # entries
    OBVIOUS
  <1> QED BY ZenonT(60), <1>1, <1>2, <1>3, <1>4, <1>5, <1>6, <1>7, <1>8
          DEF Next, DepositNext, FetchNext, EntryNext, UploadNext, SessionNext,
              SweepNext, vars, DepositStart, DepositChunk, DepositAbort,
              Cancel, FetchPlanHeld, FetchOpen, CrashInDelete, AppendBegin,
              AppendChunk, AppendEnd, CommitBegin, CommitRename,
              CommitRenameFails, CommitInsertFails, CommitMemo,
              CommitMemoFails, OpenUpload, AbortUpload, CrashInOpen,
              CrashInDrop, UploadReap,
              SweepClaims, SweepIds, SweepBin, SweepPart, SweepDone, Crash

\* An unexpired entry leaves only by a revoke or a spent budget, in every
\* behaviour and for every limit.
THEOREM EntriesLeaveForAReason == Spec => LeavesForAReason
  <1>1. Inv /\ [Next]_vars =>
            [\A c \in Claim :
                entries[c] # None /\ entries'[c] = None /\ ~Expired(c) =>
                    \/ fate'[c] = "revoked"
                    \/ spent'[c] = entries[c].max]_vars
    BY RowLeaves
  <1> QED BY InitInv, NextInv, <1>1, PTL DEF Spec, LeavesForAReason

\* One step of the relay leaves a session that stays open no shorter than it was,
\* unless its own commit moves the file or the process dies while dropping it.
LEMMA PartKept ==
    ASSUME GraceCovers, SafeInv, [Next]_vars, NEW u \in Upload,
           IsOpen(u), part[u] # None, uploads'[u] # None
    PROVE  \/ part'[u] # None /\ part'[u].len >= part[u].len
           \/ \E r \in Request : req'[r].op = "renamed" /\ req'[r].up = u
           \/ CrashInDrop(u)
  <1> SUFFICES ASSUME ~(part'[u] # None /\ part'[u].len >= part[u].len),
                      \A r \in Request :
                            ~(req'[r].op = "renamed" /\ req'[r].up = u),
                      ~CrashInDrop(u)
               PROVE  FALSE
    OBVIOUS
  <1>0. /\ part[u] \in File /\ part[u].len \in Nat
        /\ part[u].len <= uploads[u].length
        /\ part \in [Upload -> File \cup {None}]
        /\ uploads[u] \in UploadRow /\ uploads[u].claim = None
        /\ uploads \in [Upload -> UploadRow \cup {None}]
        /\ req \in [Request -> Req]
    BY DEF SafeInv, Inv, TypeOK, Lengths, File, UploadRow, IsOpen
  <1>1. part'[u] # part[u]
    BY <1>0
  <1>2. ~UNCHANGED part
    BY <1>1
  <1>3. ASSUME NEW length \in 0..MaxBlob, NEW v \in Upload,
               OpenUpload(v, length) \/ CrashInOpen(v)
        PROVE  FALSE
    BY <1>0, <1>1, <1>3 DEF OpenUpload, CrashInOpen, FreshUpload
  <1>4. ASSUME NEW r \in Request, AppendChunk(r) PROVE FALSE
    <2>1. part'[u] = [age |-> 0, len |-> part[u].len + 1]
      BY <1>0, <1>1, <1>4 DEF AppendChunk
    <2>2. req[r].up = u /\ req[r].op = "append" /\ Room(r)
      BY <1>0, <1>1, <1>4 DEF AppendChunk
    <2>3. part[u].len = req[r].len
      BY <2>2 DEF SafeInv, Inv, Lengths
    <2>4. part[u].len + 1 \in 0..MaxBlob
      BY <1>0, <2>2, <2>3 DEF Room, UploadRow
    <2>5. part'[u] \in File /\ part'[u].len = part[u].len + 1
      BY <2>1, <2>4 DEF File, AgeCap
    <2> QED BY <1>0, <2>5
  <1>5. ASSUME NEW r \in Request, NEW c \in Claim, CommitRename(r, c) PROVE FALSE
    <2>1. req[r].up = u
      BY <1>0, <1>1, <1>5 DEF CommitRename
    <2>2. req'[r] = Doing("renamed", c, u, 0, FALSE)
      BY <1>0, <1>5, <2>1 DEF CommitRename
    <2>3. req'[r].op = "renamed" /\ req'[r].up = u
      BY <2>2 DEF Doing
    <2> QED BY <2>3
  <1>6. ASSUME NEW r \in Request, CommitInsertFails(r) PROVE FALSE
    <2>1. req[r].up = u /\ part'[u] = bin[req[r].claim] /\ req[r].op = "renamed"
      BY <1>0, <1>1, <1>6 DEF CommitInsertFails
    <2>2. bin[req[r].claim] # None
      BY <2>1 DEF SafeInv, PendingYoung
    <2>3. bin[req[r].claim].len = uploads[u].length
      BY <2>1, <2>2 DEF SafeInv, Inv, Lengths
    <2> QED BY <1>0, <2>1, <2>2, <2>3 DEF UploadRow
  <1>7. ASSUME NEW v \in Upload, AbortUpload(v) PROVE FALSE
    BY <1>0, <1>1, <1>7 DEF AbortUpload
  <1>8. ~UploadReap
    BY <1>0, <1>1 DEF UploadReap
  <1>9. ASSUME NEW v \in Upload, SweepPart(v) PROVE FALSE
    <2>1. v = u
      BY <1>0, <1>1, <1>9 DEF SweepPart
    <2>2. /\ part[u].age >= Grace + sweep.elapsed /\ u \notin sweep.ids
          /\ sweep.pc = "walk" /\ sweep.elapsed \in Nat /\ part[u].age \in Nat
      BY <1>0, <1>9, <2>1
         DEF SweepPart, Unowned, Old, SafeInv, Inv, TypeOK, Sweep, File
    <2>3. part[u].age <= sweep.elapsed
      BY <2>2 DEF SafeInv, PartsYoung
    <2> QED BY <2>2, <2>3 DEF GraceCovers
  <1>10. ~Tick
    <2>1. SUFFICES ASSUME Tick PROVE FALSE
      OBVIOUS
    <2>2. part'[u] = Older(part[u])
      BY <2>1 DEF Tick
    <2> QED BY <1>0, <2>2, OlderFile
  <1>11. ASSUME NEW v \in Upload, CrashInDrop(v) PROVE FALSE
    BY <1>0, <1>1, <1>11 DEF CrashInDrop
  <1>12. ASSUME NEW r \in Request, DepositNext(r) \/ FetchNext(r) PROVE FALSE
    BY <1>2, <1>12 DEF DepositNext, FetchNext, DepositStart, DepositChunk,
       DepositCommit, DepositAbort, Cancel, FetchPlan, FetchPlanHeld, FetchOpen
  <1>13. ASSUME NEW r \in Request, UploadNext(r) PROVE FALSE
    BY <1>2, <1>4, <1>5, <1>6, <1>13 DEF UploadNext, AppendBegin, CommitBegin,
       AppendEnd, CommitInsert, CommitRenameFails, CommitMemo, CommitMemoFails
  <1>14. ASSUME NEW c \in Claim, EntryNext(c) PROVE FALSE
    BY <1>2, <1>14 DEF EntryNext, FetchRefuse, AckFetch, Revoke, CrashInDelete
  <1>15. ASSUME NEW v \in Upload, SessionNext(v) PROVE FALSE
    BY <1>3, <1>7, <1>11, <1>15 DEF SessionNext
  <1>16. ~SweepNext
    BY <1>2, <1>9 DEF SweepNext, SweepClaims, SweepIds, SweepBin, SweepDone
  <1> QED BY <1>2, <1>8, <1>10, <1>12, <1>13, <1>14, <1>15, <1>16
          DEF Next, Reap, Crash, vars

\* What a client was told it may resume from stays there: across appends that
\* break off, failed commits, sweeps and crashes, when the grace covers silence.
THEOREM OffsetsAreKept == ASSUME GraceCovers PROVE Spec => OffsetNeverShrinks
  <1>1. SafeInv /\ [Next]_vars =>
            [\A u \in Upload :
                /\ IsOpen(u) /\ part[u] # None
                /\ uploads'[u] # None
                => \/ part'[u] # None /\ part'[u].len >= part[u].len
                   \/ \E r \in Request : req'[r].op = "renamed" /\ req'[r].up = u
                   \/ CrashInDrop(u)]_vars
    BY PartKept
  <1> QED BY InitSafe, NextSafeInv, <1>1, PTL DEF Spec, OffsetNeverShrinks

-----------------------------------------------------------------------------
(***************************************************************************)
(* The files of a download.                                                *)
(*                                                                         *)
(* `RecvInv` says what the queue, the tasks, the window, the sidecar and   *)
(* the bytes are to each other. Its parts are kept by a few kinds of step: *)
(* the call ends (EndedKeeps), a task goes on (TaskGoesOn) or leaves       *)
(* (LoopAfterTask), the body of the file stays (BodyStays) or gains a      *)
(* piece (PieceLands); each action is one or two of these. It needs        *)
(* `NoTrust`: a sidecar that is believed unchecked may claim what was cut  *)
(* off meanwhile.                                                          *)
(*                                                                         *)
(* `FileInv` adds whose bytes they are. It needs `NoMixing`: the path of a *)
(* destination does not tell two sends apart, and a check of lengths does  *)
(* not tell their bytes apart.                                             *)
(***************************************************************************)

(* The inductive invariant.                                                *)

OutFile ==
    [there : BOOLEAN, len : 0..N, bytes : [Pieces -> Ticket \cup {"hole", "rot"}],
     side : {Nothing} \cup SUBSET Pieces, note : Ticket \cup {Nothing},
     stage : [Pieces -> [1..ENDGAME_PARALLEL -> StageStates]]]

Phases == {"idle", "running", "completed", "paused", "cancelled", "failed"}

Run ==
    [phase : Phases, pc : {"fill", "wait"}, ticket : Ticket \cup {Nothing}, path : Paths,
     unseen : SUBSET Pieces, asked : {Nothing, "pause", "cancel"}]

Task ==
    [piece : Pieces, prov : Provider, n : Nat,
     st : {"new", "busy", "ok", "err", "full", "lost"}, linked : BOOLEAN]

\* Of the pieces a sidecar claims, those the file is long enough for are written.
SideHolds(f) == \A i \in ReadSidecar(f) : i <= f.len => f.bytes[i] # "hole"

FilesOK(fs) == fs \in [Paths -> OutFile] /\ \A n \in Paths : SideHolds(fs[n])

FilesInv == FilesOK(files)

RunInv ==
    /\ run \in Run
    /\ Running => run.ticket \in Ticket
    /\ ~Running => have = {} /\ remaining = {} /\ tasks = {}

Shapes ==
    /\ have \subseteq Pieces /\ remaining \subseteq Pieces
    /\ tasks \subseteq Task /\ IsFiniteSet(tasks)
    /\ known \subseteq Peer /\ banned \subseteq Liars

\* Where a piece is: a task's piece is not in the queue, a provider has a piece
\* once, and a task was cut off only because its piece is in or the user asked.
LoopInv ==
    /\ have \cap remaining = {}
    /\ \A t \in tasks : t.piece \notin remaining
    /\ \A t, u \in tasks : t.piece = u.piece /\ t.prov = u.prov => t = u
    /\ \A t \in tasks : t.st = "lost" => (t.piece \in have \/ run.asked # Nothing)
    /\ NoPieceForgotten

WindowInv ==
    /\ Cardinality(tasks) <= Concurrency
    /\ run.pc = "fill" => Cardinality(tasks) < Concurrency

\* The sidecar lags behind have, and have behind the bytes.
DiskInv ==
    Running => /\ ReadSidecar(files[run.path]) \subseteq have
               /\ \A i \in have : files[run.path].bytes[i] # "hole"

RecvInv == FilesInv /\ RunInv /\ Shapes /\ LoopInv /\ WindowInv /\ DiskInv

\* What the running download has is what was sent, but for the damage its check
\* of lengths did not see.
SendInv ==
    Running => /\ files[run.path].there
               /\ run.unseen \subseteq have
               /\ \A i \in have :
                    files[run.path].bytes[i] = IF i \in run.unseen THEN "rot" ELSE run.ticket

Settled(f, unseen, t) ==
    /\ f.there /\ f.side = Nothing /\ f.note = Nothing /\ f.stage = NoFile.stage
    /\ \A i \in Pieces : f.bytes[i] = IF i \in unseen THEN "rot" ELSE t

Apart(t) == Running => done[t].path # run.path /\ dest[run.ticket] = "dir"

DoneInv ==
    /\ done \in [Ticket -> {Nothing} \cup [path : Paths, unseen : SUBSET Pieces]]
    /\ DOMAIN dest = Ticket
    /\ \A t \in Ticket : done[t] # Nothing =>
        Settled(files[done[t].path], done[t].unseen, t) /\ Apart(t)

FileInv == SendInv /\ DoneInv

\* A resume checks the partial.
NoTrust == "trust" \notin Levels

\* One send of that name; or many, each into a directory and checked in full.
NoMixing ==
    \/ \A t, u \in Ticket : t = u
    \/ Levels \subseteq {"deep"} /\ Dests \subseteq {"dir"}

-----------------------------------------------------------------------------
(* The helpers.                                                            *)

LEMMA Numbers ==
    /\ N \in Nat /\ N > 0 /\ Concurrency \in Nat /\ Concurrency > 0
    /\ ENDGAME_PARALLEL \in Nat /\ ENDGAME_PARALLEL > 0
    /\ MaxFaults \in Nat /\ 1 \in Paths /\ Paths \subseteq Nat /\ Pieces \subseteq 1..N
BY ReceiveConstants DEF ReceiveConstants, Paths, Pieces

LEMMA NoFileIsFile == NoFile \in OutFile
<1>1. [n \in 1..ENDGAME_PARALLEL |-> "absent"] \in [1..ENDGAME_PARALLEL -> StageStates]
  BY DEF StageStates
<1>2. 0 \in 0..N  BY Numbers
<1> QED  BY <1>1, <1>2 DEF NoFile, OutFile

LEMMA ReadIsPieces ==
    ASSUME NEW f \in OutFile PROVE ReadSidecar(f) \subseteq Pieces
BY DEF OutFile, ReadSidecar

LEMMA OpenedFile ==
    ASSUME NEW f \in OutFile
    PROVE  /\ Opened(f) \in OutFile /\ Opened(f).there /\ Opened(f).side = f.side
           /\ SideHolds(f) => SideHolds(Opened(f))
<1>1. CASE f.there  BY <1>1 DEF Opened
<1>2. CASE ~f.there
  <2>1. Opened(f) = [f EXCEPT !.there = TRUE, !.len = 0, !.bytes = NoFile.bytes]
    BY <1>2 DEF Opened
  <2>2. NoFile.bytes \in [Pieces -> Ticket \cup {"hole", "rot"}] /\ 0 \in 0..N
    BY NoFileIsFile, Numbers DEF OutFile
  <2>3. /\ Opened(f) \in OutFile /\ Opened(f).there /\ Opened(f).side = f.side
        /\ Opened(f).len = 0
    BY <2>1, <2>2 DEF OutFile
  <2>4. \A i \in ReadSidecar(Opened(f)) : ~(i <= 0)
    <3>1. ReadSidecar(Opened(f)) \subseteq 1..N  BY <2>3, ReadIsPieces, Numbers
    <3> QED  BY <3>1, Numbers
  <2> QED  BY <2>3, <2>4 DEF SideHolds
<1> QED  BY <1>1, <1>2

LEMMA RemovedFile ==
    ASSUME NEW f \in OutFile
    PROVE  Removed(f) \in OutFile /\ SideHolds(Removed(f))
<1>1. Removed(f) = [f EXCEPT !.there = FALSE, !.len = 0, !.bytes = NoFile.bytes]
  BY DEF Removed
<1>2. NoFile.bytes \in [Pieces -> Ticket \cup {"hole", "rot"}] /\ 0 \in 0..N
  BY NoFileIsFile, Numbers DEF OutFile
<1>3. Removed(f) \in OutFile /\ Removed(f).len = 0
  BY <1>1, <1>2 DEF OutFile
<1>4. \A i \in ReadSidecar(Removed(f)) : ~(i <= 0)
  <2>1. ReadSidecar(Removed(f)) \subseteq 1..N  BY <1>3, ReadIsPieces, Numbers
  <2> QED  BY <2>1, Numbers
<1> QED  BY <1>3, <1>4 DEF SideHolds

LEMMA TicketWritten ==
    ASSUME NEW f \in OutFile, NEW t \in Ticket
    PROVE  /\ WriteTicket(f, t) \in OutFile
           /\ WriteTicket(f, t).there = f.there /\ WriteTicket(f, t).len = f.len
           /\ WriteTicket(f, t).bytes = f.bytes /\ WriteTicket(f, t).side = f.side
BY DEF WriteTicket, OutFile

LEMMA SidecarWritten ==
    ASSUME NEW f \in OutFile, NEW bits, bits \subseteq Pieces
    PROVE  /\ WriteSidecar(f, bits) \in OutFile
           /\ WriteSidecar(f, bits).there = f.there /\ WriteSidecar(f, bits).len = f.len
           /\ WriteSidecar(f, bits).bytes = f.bytes /\ WriteSidecar(f, bits).side = bits
           /\ WriteSidecar(f, bits).stage = f.stage
           /\ ReadSidecar(WriteSidecar(f, bits)) \subseteq bits
BY DEF WriteSidecar, OutFile, ReadSidecar

\* Two files that agree in body agree in what their sidecar is worth.
Body(f, g) == f.there = g.there /\ f.len = g.len /\ f.bytes = g.bytes /\ f.side = g.side

LEMMA SameBody ==
    ASSUME NEW f, NEW g, Body(f, g)
    PROVE  ReadSidecar(g) = ReadSidecar(f) /\ (SideHolds(f) <=> SideHolds(g))
BY DEF Body, ReadSidecar, SideHolds

LEMMA StageWritten ==
    ASSUME NEW f \in OutFile, NEW i \in Pieces, NEW n, NEW x \in StageStates
    PROVE  /\ [f EXCEPT !.stage[i][n] = x] \in OutFile
           /\ Body(f, [f EXCEPT !.stage[i][n] = x])
<1>1. f.stage \in [Pieces -> [1..ENDGAME_PARALLEL -> StageStates]]  BY DEF OutFile
<1>2. [f.stage[i] EXCEPT ![n] = x] \in [1..ENDGAME_PARALLEL -> StageStates]
  BY <1>1
<1>3. [f.stage EXCEPT ![i] = [f.stage[i] EXCEPT ![n] = x]]
        \in [Pieces -> [1..ENDGAME_PARALLEL -> StageStates]]
  BY <1>1, <1>2
<1>4. [f EXCEPT !.stage[i][n] = x]
        = [f EXCEPT !.stage = [f.stage EXCEPT ![i] = [f.stage[i] EXCEPT ![n] = x]]]
  OBVIOUS
<1> QED  BY <1>3, <1>4 DEF OutFile, Body

LEMMA StagesRemoved ==
    ASSUME NEW f \in OutFile
    PROVE  /\ RemoveStageFiles(f) \in OutFile /\ Body(f, RemoveStageFiles(f))
           /\ RemoveStageFiles(f).stage = NoFile.stage
BY NoFileIsFile DEF RemoveStageFiles, OutFile, Body

LEMMA MaxOfTwo ==
    ASSUME NEW a \in Int, NEW b \in Int
    PROVE  Max({a, b}) \in {a, b} /\ Max({a, b}) >= a /\ Max({a, b}) >= b
<1>1. \E x \in {a, b} : \A y \in {a, b} : x >= y
  <2>1. CASE a >= b  BY <2>1
  <2>2. CASE b >= a  BY <2>2
  <2> QED  BY <2>1, <2>2
<1> QED  BY <1>1 DEF Max

LEMMA PieceWritten ==
    ASSUME NEW f \in OutFile, NEW t \in Ticket, NEW i \in Pieces
    PROVE  /\ Committed(f, t, i) \in OutFile
           /\ Committed(f, t, i).there = f.there /\ Committed(f, t, i).side = f.side
           /\ Committed(f, t, i).bytes[i] = t
           /\ \A j \in Pieces \ {i} : Committed(f, t, i).bytes[j] = f.bytes[j]
<1>1. f.len \in 0..N /\ i \in 1..N  BY Numbers DEF OutFile
<1>2. Max({f.len, i}) \in 0..N
  <2>1. f.len \in Int /\ i \in Int  BY <1>1, Numbers
  <2>2. Max({f.len, i}) \in {f.len, i}  BY <2>1, MaxOfTwo
  <2> QED  BY <1>1, <2>2, Numbers
<1>3. [f.bytes EXCEPT ![i] = t] \in [Pieces -> Ticket \cup {"hole", "rot"}]
  BY DEF OutFile
<1>4. [f.stage EXCEPT ![i] = NoFile.stage[i]] \in [Pieces -> [1..ENDGAME_PARALLEL -> StageStates]]
  BY NoFileIsFile DEF OutFile
<1>5. Committed(f, t, i) = [f EXCEPT !.len = Max({f.len, i}),
                                     !.bytes = [f.bytes EXCEPT ![i] = t],
                                     !.stage = [f.stage EXCEPT ![i] = NoFile.stage[i]]]
  BY DEF Committed
<1>6. /\ Committed(f, t, i) \in OutFile
      /\ Committed(f, t, i).there = f.there /\ Committed(f, t, i).side = f.side
      /\ Committed(f, t, i).bytes = [f.bytes EXCEPT ![i] = t]
  BY <1>2, <1>3, <1>4, <1>5 DEF OutFile
<1> QED  BY <1>3, <1>6 DEF OutFile

-----------------------------------------------------------------------------
(* What steps of one kind keep.                                            *)

\* The call is over: only the files are left.
LEMMA EndedKeeps ==
    ASSUME NEW phase \in Phases, phase # "running", NEW fs, FilesOK(fs), Ended(phase, fs)
    PROVE  RecvInv' /\ ~Running' /\ SendInv' /\ files' = fs
<1>1. /\ run' = [NoCall EXCEPT !.phase = phase] /\ files' = fs
      /\ have' = {} /\ remaining' = {} /\ tasks' = {} /\ banned' = {} /\ known' = {}
  BY DEF Ended
<1>2. run' \in Run /\ run'.phase = phase /\ run'.pc = "wait"
  BY <1>1, Numbers DEF NoCall, Run, Phases
<1>3. ~Running'  BY <1>2 DEF Running
<1>4. FilesInv'  BY <1>1 DEF FilesInv, FilesOK, SideHolds, ReadSidecar
<1>5. RunInv'  BY <1>1, <1>2, <1>3 DEF RunInv
<1>6. Shapes'  BY <1>1, FS_EmptySet DEF Shapes
<1>7. LoopInv'  BY <1>1, <1>3 DEF LoopInv, NoPieceForgotten
<1>8. WindowInv'  BY <1>1, <1>2, FS_EmptySet, Numbers DEF WindowInv
<1>9. DiskInv' /\ SendInv'  BY <1>3 DEF DiskInv, SendInv
<1> QED  BY <1>1, <1>3, <1>4, <1>5, <1>6, <1>7, <1>8, <1>9 DEF RecvInv

\* The download goes on with the same file, its body as it was.
SameRun == /\ Running /\ run' \in Run /\ run'.phase = run.phase /\ run'.ticket = run.ticket
           /\ run'.path = run.path /\ run'.unseen = run.unseen

LEMMA BodyStays ==
    ASSUME RecvInv, SameRun, have' = have, UNCHANGED <<dest, done>>,
           files' \in [Paths -> OutFile],
           \A n \in Paths : n # run.path => files'[n] = files[n],
           Body(files[run.path], files'[run.path])
    PROVE  FilesInv' /\ DiskInv' /\ Running' /\ (FileInv => FileInv')
<1>1. Running' /\ Running /\ run.path \in Paths /\ run \in Run
  BY DEF SameRun, Running, RecvInv, RunInv, Run
<1>2. /\ ReadSidecar(files'[run.path]) = ReadSidecar(files[run.path])
      /\ SideHolds(files'[run.path])
      /\ files'[run.path].bytes = files[run.path].bytes
      /\ files'[run.path].there = files[run.path].there
  BY <1>1, SameBody DEF RecvInv, FilesInv, FilesOK, Body
<1>3. \A n \in Paths : SideHolds(files'[n])
  BY <1>1, <1>2 DEF RecvInv, FilesInv, FilesOK
<1>4. FilesInv'
  BY <1>3 DEF FilesInv, FilesOK, SideHolds, ReadSidecar
<1>5. DiskInv'
  BY <1>1, <1>2 DEF RecvInv, DiskInv, SameRun, ReadSidecar
<1>6. ASSUME SendInv PROVE SendInv'
  BY <1>1, <1>2, <1>6 DEF SendInv, SameRun
<1>7. ASSUME DoneInv PROVE DoneInv'
  <2>1. ASSUME NEW t \in Ticket, done[t] # Nothing
        PROVE  Settled(files[done[t].path], done[t].unseen, t)' /\ Apart(t)'
    <3>1. done[t].path \in Paths /\ done[t].path # run.path /\ dest[run.ticket] = "dir"
      BY <1>1, <1>7, <2>1 DEF DoneInv, Apart
    <3>2. files'[done[t].path] = files[done[t].path]
      BY <3>1
    <3>3. Settled(files[done[t].path], done[t].unseen, t)
      BY <1>7, <2>1 DEF DoneInv
    <3> QED  BY <3>1, <3>2, <3>3 DEF Settled, Apart, SameRun
  <2> QED  BY <1>7, <2>1 DEF DoneInv
<1> QED  BY <1>1, <1>4, <1>5, <1>6, <1>7 DEF FileInv

\* The files are as they were.
LEMMA FilesStay ==
    ASSUME RecvInv, SameRun, have' = have, UNCHANGED <<dest, done, files>>
    PROVE  FilesInv' /\ DiskInv' /\ Running' /\ (FileInv => FileInv')
<1>1. files' \in [Paths -> OutFile] /\ Body(files[run.path], files'[run.path])
  BY DEF RecvInv, FilesInv, FilesOK, Body
<1> QED  BY <1>1, BodyStays

\* The loop's state is as it was, but for timers and what it knows of providers.
LEMMA LoopStays ==
    ASSUME RecvInv, SameRun, UNCHANGED <<have, remaining, tasks>>,
           run'.asked = run.asked \/ run'.asked # Nothing,
           run'.pc \in {run.pc, "wait"}, known' \subseteq Peer, banned' \subseteq Liars
    PROVE  RunInv' /\ Shapes' /\ LoopInv' /\ WindowInv'
<1>1. RunInv'  BY DEF RecvInv, RunInv, SameRun, Running
<1>2. Shapes'  BY DEF RecvInv, Shapes
<1>3. LoopInv'
  BY DEF RecvInv, LoopInv, NoPieceForgotten, Running, SameRun, Srcs
<1>4. WindowInv'  BY DEF RecvInv, WindowInv
<1> QED  BY <1>1, <1>2, <1>3, <1>4

\* A task goes on.
LEMMA TaskGoesOn ==
    ASSUME RecvInv, Running, NEW t \in tasks, NEW t2 \in Task,
           t2.piece = t.piece, t2.prov = t.prov,
           t2.st = "lost" => (t.piece \in have \/ run.asked # Nothing),
           tasks' = (tasks \ {t}) \cup {t2}, UNCHANGED <<have, remaining, run, known>>,
           banned' \subseteq Liars
    PROVE  RunInv' /\ Shapes' /\ LoopInv' /\ WindowInv'
<1>1. RunInv'  BY DEF RecvInv, RunInv, Running
<1>2. IsFiniteSet(tasks) /\ tasks \subseteq Task  BY DEF RecvInv, Shapes
<1>3. /\ IsFiniteSet(tasks \ {t}) /\ Cardinality(tasks \ {t}) = Cardinality(tasks) - 1
      /\ Cardinality(tasks) \in Nat
  BY <1>2, FS_RemoveElement, FS_CardinalityType
<1>4. /\ IsFiniteSet(tasks') /\ Cardinality(tasks') <= Cardinality(tasks)
      /\ Cardinality(tasks') \in Nat
  <2>1. /\ IsFiniteSet((tasks \ {t}) \cup {t2})
        /\ Cardinality((tasks \ {t}) \cup {t2}) <= Cardinality(tasks \ {t}) + 1
    <3>0. Cardinality(tasks \ {t}) \in Nat  BY <1>3, FS_CardinalityType
    <3>1. /\ IsFiniteSet((tasks \ {t}) \cup {t2})
          /\ Cardinality((tasks \ {t}) \cup {t2})
               \in {Cardinality(tasks \ {t}), Cardinality(tasks \ {t}) + 1}
      BY <1>3, FS_AddElement
    <3> QED  BY <3>0, <3>1
  <2>2. Cardinality((tasks \ {t}) \cup {t2}) \in Nat  BY <2>1, FS_CardinalityType
  <2> QED  BY <1>3, <2>1, <2>2
<1>5. Shapes'  BY <1>2, <1>4 DEF RecvInv, Shapes
<1>6. NoPieceForgotten'
  <2>1. SUFFICES ASSUME Running, run.asked = Nothing, NEW i \in Pieces,
                        i \notin have, i \notin remaining
                 PROVE  \E u \in tasks' : u.piece = i
    BY DEF NoPieceForgotten, Srcs, Running
  <2>2. PICK u \in tasks : u.piece = i
    BY <2>1 DEF RecvInv, LoopInv, NoPieceForgotten, Srcs
  <2> QED  BY <2>2
<1>7. LoopInv'
  <2>1. \A u, v \in tasks : u.piece = v.piece /\ u.prov = v.prov => u = v
    BY DEF RecvInv, LoopInv
  <2>2. \A u, v \in tasks' : u.piece = v.piece /\ u.prov = v.prov => u = v
    BY <2>1
  <2> QED  BY <1>6, <2>2 DEF RecvInv, LoopInv
<1>8. WindowInv'  BY <1>3, <1>4, Numbers DEF RecvInv, WindowInv
<1> QED  BY <1>1, <1>5, <1>7, <1>8

LEMMA Looked ==
    ASSUME RecvInv, Running, Look
    PROVE  /\ SameRun /\ run'.asked = run.asked
           /\ run'.pc = "fill" => Cardinality(tasks') < Concurrency
<1> DEFINE b == IF run.asked = Nothing /\ Cardinality(tasks') < Concurrency /\ Assignable' # {}
                THEN "fill" ELSE "wait"
<1>1. b \in {"fill", "wait"} /\ (b = "fill" => Cardinality(tasks') < Concurrency)
  OBVIOUS
<1>2. run' = [run EXCEPT !.pc = b]  BY DEF Look
<1>3. run \in Run  BY DEF RecvInv, RunInv
<1> HIDE DEF b
<1> QED  BY <1>1, <1>2, <1>3 DEF Run, SameRun

\* The tasks but for t, as f has them: what they fetch, and from whom, stays.
Others(t, f) ==
    /\ f \in [tasks \ {t} -> Task]
    /\ \A u \in tasks \ {t} : f[u].piece = u.piece /\ f[u].prov = u.prov /\ f[u].st = u.st
    /\ tasks' = {f[u] : u \in tasks \ {t}}

\* The pieces when task t has left: its own is in, or back in the queue, or somebody
\* else's too, or the user has asked for a stop.
QueueAfter(t) ==
    /\ have \subseteq have' /\ have' \subseteq Pieces /\ remaining' \subseteq Pieces
    /\ have' \cap remaining' = {} /\ remaining \subseteq remaining' \cup have'
    /\ \/ remaining' \subseteq remaining
       \/ remaining' \subseteq remaining \cup {t.piece} /\ \A u \in tasks \ {t} : u.piece # t.piece
    /\ \/ t.piece \in have' \cup remaining' \/ run.asked # Nothing
       \/ \E u \in tasks \ {t} : u.piece = t.piece
    /\ have' \subseteq have \cup {t.piece}

\* A task's result is taken and the task leaves; the others may lose the stage.
LEMMA TaskLeaves ==
    ASSUME RecvInv, NEW t \in tasks, NEW f, Others(t, f)
    PROVE  /\ tasks' \subseteq Task /\ IsFiniteSet(tasks')
           /\ Cardinality(tasks') \in Nat /\ Cardinality(tasks') < Cardinality(tasks)
           /\ \A u, v \in tasks' : u.piece = v.piece /\ u.prov = v.prov => u = v
<1> USE DEF Others
<1>1. IsFiniteSet(tasks)  BY DEF RecvInv, Shapes
<1>2. /\ IsFiniteSet(tasks \ {t}) /\ Cardinality(tasks \ {t}) = Cardinality(tasks) - 1
      /\ Cardinality(tasks) \in Nat
  BY <1>1, FS_RemoveElement, FS_CardinalityType
<1>3. f \in Surjection(tasks \ {t}, tasks')
  BY DEF Surjection
<1>4. IsFiniteSet(tasks') /\ Cardinality(tasks') <= Cardinality(tasks \ {t})
  BY <1>2, <1>3, FS_Surjection
<1>5. Cardinality(tasks') \in Nat  BY <1>4, FS_CardinalityType
<1>6. \A u, v \in tasks' : u.piece = v.piece /\ u.prov = v.prov => u = v
  BY DEF RecvInv, LoopInv
<1> QED  BY <1>2, <1>4, <1>5, <1>6

\* The loop goes on without the task.
LEMMA LoopAfterTask ==
    ASSUME RecvInv, Running, NEW t \in tasks, NEW f, Others(t, f),
           QueueAfter(t),
           Look, UNCHANGED <<known, banned>>
    PROVE  SameRun /\ RunInv' /\ Shapes' /\ LoopInv' /\ WindowInv'
<1>1. /\ SameRun /\ run'.asked = run.asked
      /\ run'.pc = "fill" => Cardinality(tasks') < Concurrency
  BY Looked
<1>2. /\ tasks' \subseteq Task /\ IsFiniteSet(tasks')
      /\ Cardinality(tasks') \in Nat /\ Cardinality(tasks') < Cardinality(tasks)
      /\ \A u, v \in tasks' : u.piece = v.piece /\ u.prov = v.prov => u = v
  BY TaskLeaves
<1> USE DEF Others, QueueAfter
<1>3. RunInv'  BY <1>1 DEF RecvInv, RunInv, SameRun, Running
<1>4. Shapes'  BY <1>2 DEF RecvInv, Shapes
<1>5. WindowInv'
  <2>1. Cardinality(tasks) <= Concurrency /\ Cardinality(tasks) \in Nat
    BY FS_CardinalityType DEF RecvInv, WindowInv, Shapes
  <2> QED  BY <1>1, <1>2, <2>1, Numbers DEF WindowInv
<1>6. \A v \in tasks' : v.piece \notin remaining'
  BY DEF RecvInv, LoopInv
<1>7. \A v \in tasks' : v.st = "lost" => (v.piece \in have' \/ run'.asked # Nothing)
  BY <1>1 DEF RecvInv, LoopInv
<1>8. NoPieceForgotten'
  <2>1. SUFFICES ASSUME Running, run.asked = Nothing, NEW i \in Pieces,
                        i \notin have', i \notin remaining'
                 PROVE  \E u \in tasks' : u.piece = i
    BY <1>1 DEF NoPieceForgotten, Srcs, Running, SameRun
  <2>2. PICK u \in tasks : u.piece = i
    BY <2>1 DEF RecvInv, LoopInv, NoPieceForgotten, Srcs
  <2>3. \E v \in tasks \ {t} : v.piece = i
    BY <2>1, <2>2
  <2> QED  BY <2>3
<1> QED  BY <1>1, <1>2, <1>3, <1>4, <1>5, <1>6, <1>7, <1>8 DEF LoopInv

\* The rest of the tasks, with the stages that are gone cut off.
LEMMA CutOff ==
    ASSUME NEW u \in Task, NEW b \in BOOLEAN
    PROVE  LET v == [u EXCEPT !.linked = b]
           IN  v \in Task /\ v.piece = u.piece /\ v.prov = u.prov /\ v.st = u.st
BY DEF Task

-----------------------------------------------------------------------------
(* Each action.                                                            *)

LEMMA InitKeeps == RecvInit => RecvInv /\ FileInv
<1> SUFFICES ASSUME RecvInit PROVE RecvInv /\ FileInv  OBVIOUS
<1> USE DEF RecvInit
<1>1. run \in Run /\ ~Running /\ run.pc = "wait"
  BY Numbers DEF NoCall, Run, Phases, Running
<1>2. ReadSidecar(NoFile) = {}  BY DEF NoFile, ReadSidecar
<1>3. FilesInv  BY <1>2, NoFileIsFile DEF FilesInv, FilesOK, SideHolds
<1>4. RunInv  BY <1>1 DEF RunInv
<1>5. Shapes  BY FS_EmptySet DEF Shapes
<1>6. LoopInv  BY <1>1 DEF LoopInv, NoPieceForgotten
<1>7. WindowInv  BY <1>1, FS_EmptySet, Numbers DEF WindowInv
<1>8. DiskInv /\ SendInv  BY <1>1 DEF DiskInv, SendInv
<1>9. DoneInv  BY DEF DoneInv
<1> QED  BY <1>3, <1>4, <1>5, <1>6, <1>7, <1>8, <1>9 DEF RecvInv, FileInv

\* What an action is shown to keep.
Keeps == RecvInv' /\ (NoMixing /\ FileInv => FileInv')

LEMMA LearnsKeeps ==
    ASSUME RecvInv, ControlUp \/ ControlDrops \/ Probe \/ Announce
    PROVE  Keeps
<1>1. /\ Running /\ UNCHANGED <<files, run, dest, have, remaining, tasks, banned, done>>
      /\ known' \in {known, Peer}
  BY DEF ControlUp, ControlDrops, Probe, Announce, Learns, loop, Fault
<1>2. SameRun  BY <1>1 DEF SameRun, RecvInv, RunInv
<1>3. FilesInv' /\ DiskInv' /\ (FileInv => FileInv')  BY <1>1, <1>2, FilesStay
<1>4. RunInv' /\ Shapes' /\ LoopInv' /\ WindowInv'
  <2>1. known' \subseteq Peer /\ banned' \subseteq Liars  BY <1>1 DEF RecvInv, Shapes
  <2> QED  BY <1>1, <1>2, <2>1, LoopStays
<1> QED  BY <1>3, <1>4 DEF RecvInv, Keeps

\* Nothing the invariant speaks of has changed.
LEMMA StutterRecv ==
    ASSUME RecvInv, UNCHANGED <<files, run, dest, have, remaining, tasks, banned, known, done>>
    PROVE  Keeps
<1>1. RecvInv'
  BY DEF RecvInv, FilesInv, FilesOK, SideHolds, ReadSidecar, RunInv, Running, Shapes, LoopInv,
         NoPieceForgotten, Srcs, WindowInv, DiskInv
<1>2. FileInv => FileInv'
  BY DEF FileInv, SendInv, Running, DoneInv, Settled, Apart
<1> QED  BY <1>1, <1>2 DEF Keeps

LEMMA TimersKeep ==
    ASSUME RecvInv, (\E p \in cooldown : Cool(p)) \/ (\E i \in backoff : Unback(i))
    PROVE  Keeps
<1>1. UNCHANGED <<files, run, dest, have, remaining, tasks, banned, known, done>>
  BY DEF Cool, Unback, sources
<1> QED  BY <1>1, StutterRecv

LEMMA FilledKeeps ==
    ASSUME RecvInv, Filled
    PROVE  Keeps
<1>1. /\ Running /\ run' = [run EXCEPT !.pc = "wait"] /\ run \in Run
      /\ UNCHANGED <<files, dest, have, remaining, tasks, banned, known, done>>
  BY DEF Filled, loop, sources, RecvInv, RunInv
<1>2. SameRun /\ run'.asked = run.asked /\ run'.pc = "wait"  BY <1>1 DEF SameRun, Run
<1>3. FilesInv' /\ DiskInv' /\ (FileInv => FileInv')  BY <1>1, <1>2, FilesStay
<1>4. RunInv' /\ Shapes' /\ LoopInv' /\ WindowInv'
  <2>1. known' \subseteq Peer /\ banned' \subseteq Liars  BY <1>1 DEF RecvInv, Shapes
  <2> QED  BY <1>1, <1>2, <2>1, LoopStays
<1> QED  BY <1>3, <1>4 DEF RecvInv, Keeps

LEMMA AskKeeps ==
    ASSUME RecvInv, NEW kind \in {"pause", "cancel"}, Ask(kind)
    PROVE  Keeps
<1>1. /\ Running /\ run.asked = Nothing /\ run' = [run EXCEPT !.asked = kind] /\ run \in Run
      /\ UNCHANGED <<files, dest, have, remaining, tasks, banned, known, done>>
  BY DEF Ask, loop, sources, RecvInv, RunInv
<1>2. SameRun /\ run'.asked = kind /\ run'.pc = run.pc  BY <1>1 DEF SameRun, Run
<1>3. FilesInv' /\ DiskInv' /\ (FileInv => FileInv')  BY <1>1, <1>2, FilesStay
<1>4. RunInv' /\ Shapes' /\ LoopInv' /\ WindowInv'
  <2>1. known' \subseteq Peer /\ banned' \subseteq Liars  BY <1>1 DEF RecvInv, Shapes
  <2>2. run'.asked = run.asked \/ run'.asked # Nothing  BY <1>1, <1>2
  <2> QED  BY <1>1, <1>2, <2>1, <2>2, LoopStays
<1> QED  BY <1>3, <1>4 DEF RecvInv, Keeps

LEMMA TaskStepKeeps ==
    ASSUME RecvInv, NEW t \in tasks, TaskStep(t)
    PROVE  Keeps
<1>1. t \in Task  BY DEF RecvInv, Shapes
<1>2. /\ Running /\ run \in Run /\ run.path \in Paths /\ files \in [Paths -> OutFile]
      /\ banned \subseteq Liars
  BY DEF TaskStep, OpenStage, FetchOk, FetchLies, FetchFails, FetchFull, TokenCancelled, Fetching,
         RecvInv, RunInv, Run, FilesInv, FilesOK, Shapes
<1>3. UNCHANGED <<run, dest, have, remaining, known, done>>
  BY DEF TaskStep, OpenStage, FetchOk, FetchLies, FetchFails, FetchFull, TokenCancelled, sources
<1>4. SameRun  BY <1>2, <1>3 DEF SameRun
<1>5. banned' \subseteq Liars
  BY <1>2 DEF TaskStep, OpenStage, FetchOk, FetchLies, FetchFails, FetchFull, TokenCancelled
<1>6. \E t2 \in Task :
        /\ t2.piece = t.piece /\ t2.prov = t.prov
        /\ t2.st = "lost" => (t.piece \in have \/ run.asked # Nothing)
        /\ tasks' = (tasks \ {t}) \cup {t2}
  <2>1. CASE OpenStage(t)
    <3> DEFINE t2 == [t EXCEPT !.st = "busy", !.linked = TRUE]
    <3>1. t2 \in Task /\ t2.piece = t.piece /\ t2.prov = t.prov /\ t2.st = "busy"
      BY <1>1 DEF Task
    <3>2. tasks' = (tasks \ {t}) \cup {t2}  BY <2>1 DEF OpenStage
    <3> QED  BY <3>1, <3>2
  <2>2. ASSUME NEW st \in {"ok", "err", "full", "lost"}, Step(t, st),
               st = "lost" => (t.piece \in have \/ run.asked # Nothing)
        PROVE  \E t2 \in Task :
                /\ t2.piece = t.piece /\ t2.prov = t.prov
                /\ t2.st = "lost" => (t.piece \in have \/ run.asked # Nothing)
                /\ tasks' = (tasks \ {t}) \cup {t2}
    <3> DEFINE t2 == [t EXCEPT !.st = st]
    <3>1. t2 \in Task /\ t2.piece = t.piece /\ t2.prov = t.prov /\ t2.st = st
      BY <1>1 DEF Task
    <3>2. tasks' = (tasks \ {t}) \cup {t2}  BY <2>2 DEF Step
    <3> QED  BY <2>2, <3>1, <3>2
  <2>3. CASE FetchOk(t)  BY <2>2, <2>3 DEF FetchOk
  <2>4. CASE FetchLies(t) \/ FetchFails(t)  BY <2>2, <2>4 DEF FetchLies, FetchFails
  <2>5. CASE FetchFull(t)  BY <2>2, <2>5 DEF FetchFull
  <2>6. CASE TokenCancelled(t)  BY <2>2, <2>6 DEF TokenCancelled
  <2> QED  BY <2>1, <2>3, <2>4, <2>5, <2>6 DEF TaskStep
<1>7. RunInv' /\ Shapes' /\ LoopInv' /\ WindowInv'
  BY <1>2, <1>3, <1>5, <1>6, TaskGoesOn
<1>8. /\ files' \in [Paths -> OutFile]
      /\ \A n \in Paths : n # run.path => files'[n] = files[n]
      /\ Body(files[run.path], files'[run.path])
  <2>1. CASE UNCHANGED files  BY <1>2, <2>1 DEF Body
  <2>2. ASSUME NEW x \in StageStates,
               files' = [files EXCEPT ![run.path].stage[t.piece][t.n] = x]
        PROVE  /\ files' \in [Paths -> OutFile]
               /\ \A n \in Paths : n # run.path => files'[n] = files[n]
               /\ Body(files[run.path], files'[run.path])
    <3> DEFINE g == [files[run.path] EXCEPT !.stage[t.piece][t.n] = x]
    <3>1. files[run.path] \in OutFile /\ t.piece \in Pieces  BY <1>1, <1>2 DEF Task
    <3>2. g \in OutFile /\ Body(files[run.path], g)  BY SMTT(30), <3>1, StageWritten
    <3>3. files' = [files EXCEPT ![run.path] = g]  BY <2>2
    <3> HIDE DEF g
    <3> QED  BY <1>2, <3>2, <3>3
  <2>3. CASE OpenStage(t)  BY SMTT(30), <2>2, <2>3 DEF OpenStage, StageStates
  <2>4. CASE FetchOk(t)  BY <2>1, <2>2, <2>4 DEF FetchOk, StageStates
  <2>5. CASE FetchLies(t) \/ FetchFails(t) \/ FetchFull(t) \/ TokenCancelled(t)
    BY <2>1, <2>5 DEF FetchLies, FetchFails, FetchFull, TokenCancelled
  <2> QED  BY <2>3, <2>4, <2>5 DEF TaskStep
<1>9. FilesInv' /\ DiskInv' /\ (FileInv => FileInv')
  BY <1>3, <1>4, <1>8, BodyStays
<1> QED  BY <1>7, <1>9 DEF RecvInv, Keeps

-----------------------------------------------------------------------------
(* What can be assigned.                                                   *)

LEMMA ProvidersAre ==
    ASSUME RecvInv, NEW i
    PROVE  ProvidersHaving(i) \subseteq Provider
BY DEF RecvInv, Shapes, ProvidersHaving, Provider

LEMMA FreshIsQueued == Fresh \subseteq remaining
<1> DEFINE c == {i \in remaining \ backoff : ProvidersHaving(i) # {}}
<1>1. PreferOffloadable(c) \subseteq c  BY DEF PreferOffloadable
<1>2. RarestSet(PreferOffloadable(c)) \subseteq PreferOffloadable(c)  BY DEF RarestSet
<1> QED  BY <1>1, <1>2 DEF Fresh

LEMMA ChosenAre ==
    ASSUME NEW cands PROVE ChooseProvider(cands) \subseteq cands
BY DEF ChooseProvider

LEMMA SourcesAreFew ==
    ASSUME RecvInv, NEW i
    PROVE  Cardinality(Srcs(i)) \in Nat
<1> DEFINE S == {u \in tasks : u.piece = i /\ i \notin have}
           f == [u \in S |-> u.prov]
<1>1. IsFiniteSet(S)  BY FS_Subset DEF RecvInv, Shapes
<1>2. Srcs(i) = {f[u] : u \in S}  BY DEF Srcs
<1>3. f \in Surjection(S, Srcs(i))
  BY <1>2 DEF Surjection
<1> HIDE DEF S, f
<1>4. IsFiniteSet(Srcs(i))  BY <1>1, <1>3, FS_Surjection
<1> QED  BY <1>4, FS_CardinalityType

LEMMA AssignableAre ==
    ASSUME RecvInv, NEW c \in Assignable
    PROVE  /\ c[1] \in Pieces /\ c[2] \in Provider
           /\ \/ c[1] \in remaining
              \/ \E u \in tasks : u.piece = c[1] /\ c[1] \notin have /\ c[2] \notin Srcs(c[1])
<1> DEFINE fresh == UNION {{i} \X ChooseProvider(ProvidersHaving(i)) : i \in Fresh}
<1>1. CASE c \in fresh
  <2>1. PICK i \in Fresh : c \in {i} \X ChooseProvider(ProvidersHaving(i))
    BY <1>1
  <2>2. c[1] = i /\ c[2] \in ChooseProvider(ProvidersHaving(i))  BY <2>1
  <2>3. c[2] \in Provider  BY <2>2, ChosenAre, ProvidersAre
  <2> QED  BY <2>2, <2>3, FreshIsQueued DEF RecvInv, Shapes
<1>2. CASE c \in Endgame
  <2> DEFINE inFlight == {i \in Pieces : Srcs(i) # {}}
  <2>1. /\ c \in inFlight \X Provider
        /\ c[2] \in ChooseProvider(ProvidersHaving(c[1]) \ Srcs(c[1]))
    BY <1>2 DEF Endgame
  <2>2. c[1] \in Pieces /\ Srcs(c[1]) # {} /\ c[2] \in Provider  BY <2>1
  <2>3. c[2] \notin Srcs(c[1])
    BY <2>1, ChosenAre
  <2> QED  BY <2>2, <2>3 DEF Srcs
<1> QED  BY <1>1, <1>2 DEF Assignable

LEMMA AssignKeeps ==
    ASSUME RecvInv, Assign
    PROVE  Keeps
<1>1. /\ Running /\ run.asked = Nothing /\ (run.pc = "fill" \/ tasks = {})
      /\ UNCHANGED <<files, dest, have, banned, known, done>> /\ Look
  BY DEF Assign, sources
<1>2. PICK c \in Assignable :
        /\ tasks' = tasks \cup {[piece |-> c[1], prov |-> c[2], n |-> CountSources(c[1]),
                                 st |-> "new", linked |-> FALSE]}
        /\ remaining' = remaining \ {c[1]}
  BY DEF Assign
<1> DEFINE v == [piece |-> c[1], prov |-> c[2], n |-> CountSources(c[1]),
                 st |-> "new", linked |-> FALSE]
<1>3. /\ c[1] \in Pieces /\ c[2] \in Provider
      /\ \/ c[1] \in remaining
         \/ \E u \in tasks : u.piece = c[1] /\ c[1] \notin have /\ c[2] \notin Srcs(c[1])
  BY AssignableAre
<1>4. v \in Task /\ v.piece = c[1] /\ v.prov = c[2] /\ v.st = "new"
  <2>1. CountSources(c[1]) \in Nat  BY SourcesAreFew DEF CountSources
  <2> QED  BY <1>3, <2>1 DEF Task
<1>5. tasks' = tasks \cup {v}  BY <1>2
<1> HIDE DEF v
<1>6. /\ SameRun /\ run'.asked = run.asked
      /\ run'.pc = "fill" => Cardinality(tasks') < Concurrency
  BY <1>1, Looked
<1>7. /\ IsFiniteSet(tasks') /\ tasks' \subseteq Task
      /\ Cardinality(tasks') <= Concurrency
  <2>1. /\ IsFiniteSet(tasks) /\ tasks \subseteq Task /\ Cardinality(tasks) \in Nat
        /\ Cardinality(tasks) < Concurrency
    BY <1>1, FS_EmptySet, FS_CardinalityType, Numbers DEF RecvInv, Shapes, WindowInv
  <2>2. CASE v \in tasks
    <3>1. tasks' = tasks  BY <1>5, <2>2
    <3> QED  BY <2>1, <3>1, Numbers
  <2>3. CASE v \notin tasks
    <3>1. IsFiniteSet(tasks \cup {v}) /\ Cardinality(tasks \cup {v}) = Cardinality(tasks) + 1
      BY <2>1, <2>3, FS_AddElement
    <3> QED  BY <1>4, <1>5, <2>1, <3>1, Numbers
  <2> QED  BY <2>2, <2>3
<1>8. RunInv'  BY <1>1, <1>6 DEF RecvInv, RunInv, SameRun, Running
<1>9. Shapes'  BY <1>1, <1>2, <1>7 DEF RecvInv, Shapes
<1>10. WindowInv'  BY <1>6, <1>7 DEF WindowInv
<1>11. \A u \in tasks : ~(u.piece = c[1] /\ u.prov = c[2])
  BY <1>3 DEF RecvInv, LoopInv, Srcs
<1>12. \A u, w \in tasks' : u.piece = w.piece /\ u.prov = w.prov => u = w
  BY <1>4, <1>5, <1>11 DEF RecvInv, LoopInv
<1>13. NoPieceForgotten'
  <2>1. SUFFICES ASSUME Running, run.asked = Nothing, NEW i \in Pieces,
                        i \notin have, i \notin remaining'
                 PROVE  \E u \in tasks' : u.piece = i
    BY <1>1, <1>6 DEF NoPieceForgotten, Srcs, Running, SameRun
  <2>2. CASE i = c[1]  BY <1>4, <1>5, <2>2
  <2>3. CASE i # c[1]
    <3>1. PICK u \in tasks : u.piece = i
      BY <1>2, <2>1, <2>3 DEF RecvInv, LoopInv, NoPieceForgotten, Srcs
    <3> QED  BY <1>5, <3>1
  <2> QED  BY <2>2, <2>3
<1>14. LoopInv'
  BY <1>1, <1>2, <1>4, <1>5, <1>6, <1>12, <1>13 DEF RecvInv, LoopInv
<1>15. FilesInv' /\ DiskInv' /\ (FileInv => FileInv')  BY <1>1, <1>6, FilesStay
<1> QED  BY <1>8, <1>9, <1>10, <1>14, <1>15 DEF RecvInv, Keeps

-----------------------------------------------------------------------------
(* Taking a result.                                                        *)

\* One file replaced.
LEMMA OneFile ==
    ASSUME RecvInv, NEW n \in Paths, NEW g \in OutFile, SideHolds(g)
    PROVE  FilesOK([files EXCEPT ![n] = g])
BY DEF RecvInv, FilesInv, FilesOK

LEMMA StageUnlinked ==
    ASSUME RecvInv, NEW t \in tasks
    PROVE  LET g == Unlinked(files[run.path], t)
           IN  /\ run.path \in Paths /\ files[run.path] \in OutFile
               /\ g \in OutFile /\ Body(files[run.path], g) /\ SideHolds(g)
<1>1. /\ run.path \in Paths /\ files[run.path] \in OutFile /\ SideHolds(files[run.path])
      /\ t.piece \in Pieces
  BY DEF RecvInv, RunInv, Run, FilesInv, FilesOK, Shapes, Task
<1>2. /\ Unlinked(files[run.path], t) \in OutFile
      /\ Body(files[run.path], Unlinked(files[run.path], t))
  BY <1>1, StageWritten DEF Unlinked, StageStates
<1> QED  BY <1>1, <1>2, SameBody

\* The stage is removed, the loop goes on.
LEMMA UnlinkedStays ==
    ASSUME RecvInv, SameRun, NEW t \in tasks, have' = have, UNCHANGED <<dest, done>>,
           files' = [files EXCEPT ![run.path] = Unlinked(@, t)]
    PROVE  FilesInv' /\ DiskInv' /\ (FileInv => FileInv')
<1> DEFINE g == Unlinked(files[run.path], t)
<1>1. run.path \in Paths /\ g \in OutFile /\ Body(files[run.path], g)
  BY StageUnlinked
<1>2. files \in [Paths -> OutFile]  BY DEF RecvInv, FilesInv, FilesOK
<1>3. files' = [files EXCEPT ![run.path] = g]  OBVIOUS
<1> HIDE DEF g
<1>4. /\ files' \in [Paths -> OutFile] /\ \A n \in Paths : n # run.path => files'[n] = files[n]
      /\ Body(files[run.path], files'[run.path])
  BY <1>1, <1>2, <1>3
<1> QED  BY <1>4, BodyStays

\* The other tasks on a stage lose it.
LEMMA SameStageCutOff ==
    ASSUME RecvInv, NEW t \in tasks,
           tasks' = LET G(u) == SameStage(t, u) IN Orphaned(tasks \ {t}, G)
    PROVE  \E f : Others(t, f)
<1> DEFINE g(u) == [u EXCEPT !.linked = u.linked /\ ~SameStage(t, u)]
           f == [u \in tasks \ {t} |-> g(u)]
<1>1. \A u \in tasks \ {t} :
        g(u) \in Task /\ g(u).piece = u.piece /\ g(u).prov = u.prov /\ g(u).st = u.st
  <2>1. TAKE u \in tasks \ {t}
  <2>2. u \in Task  BY DEF RecvInv, Shapes
  <2> DEFINE b == u.linked /\ ~SameStage(t, u)
  <2>3. b \in BOOLEAN  OBVIOUS
  <2>4. g(u) = [u EXCEPT !.linked = b]  OBVIOUS
  <2> HIDE DEF b, g
  <2> QED  BY <2>2, <2>3, <2>4, CutOff
<1>2. tasks' = {g(u) : u \in tasks \ {t}}  BY DEF Orphaned
<1> HIDE DEF g
<1>3. f \in [tasks \ {t} -> Task]  BY <1>1
<1>4. \A u \in tasks \ {t} : f[u].piece = u.piece /\ f[u].prov = u.prov /\ f[u].st = u.st
  BY <1>1
<1>5. tasks' = {f[u] : u \in tasks \ {t}}  BY <1>2
<1>6. Others(t, f)  BY <1>3, <1>4, <1>5 DEF Others
<1> QED  BY <1>6

\* The other tasks on a committed piece lose theirs.
LEMMA SamePieceCutOff ==
    ASSUME RecvInv, NEW t \in tasks,
           tasks' = LET G(u) == u.piece = t.piece IN Orphaned(tasks \ {t}, G)
    PROVE  \E f : Others(t, f)
<1> DEFINE g(u) == [u EXCEPT !.linked = u.linked /\ ~(u.piece = t.piece)]
           f == [u \in tasks \ {t} |-> g(u)]
<1>1. \A u \in tasks \ {t} :
        g(u) \in Task /\ g(u).piece = u.piece /\ g(u).prov = u.prov /\ g(u).st = u.st
  <2>1. TAKE u \in tasks \ {t}
  <2>2. u \in Task  BY DEF RecvInv, Shapes
  <2> DEFINE b == u.linked /\ ~(u.piece = t.piece)
  <2>3. b \in BOOLEAN  OBVIOUS
  <2>4. g(u) = [u EXCEPT !.linked = b]  OBVIOUS
  <2> HIDE DEF b, g
  <2> QED  BY <2>2, <2>3, <2>4, CutOff
<1>2. tasks' = {g(u) : u \in tasks \ {t}}  BY DEF Orphaned
<1> HIDE DEF g
<1>3. f \in [tasks \ {t} -> Task]  BY <1>1
<1>4. \A u \in tasks \ {t} : f[u].piece = u.piece /\ f[u].prov = u.prov /\ f[u].st = u.st
  BY <1>1
<1>5. tasks' = {f[u] : u \in tasks \ {t}}  BY <1>2
<1>6. Others(t, f)  BY <1>3, <1>4, <1>5 DEF Others
<1> QED  BY <1>6

LEMMA JoinLostKeeps ==
    ASSUME RecvInv, Running, NEW t \in tasks, JoinLost(t), UNCHANGED <<dest, done>>
    PROVE  Keeps
<1>1. /\ t.st = "lost" \/ (t.st = "ok" /\ t.piece \in have)
      /\ files' = [files EXCEPT ![run.path] = Unlinked(@, t)]
      /\ UNCHANGED <<have, remaining, banned, known>> /\ Look
  BY DEF JoinLost, sources
<1>2. PICK f : Others(t, f)
  BY SameStageCutOff DEF JoinLost
<1>3. /\ have' \subseteq Pieces /\ remaining' \subseteq Pieces /\ have' \cap remaining' = {}
      /\ t.piece \in have \/ run.asked # Nothing
  BY <1>1 DEF RecvInv, Shapes, LoopInv
<1>4. SameRun /\ RunInv' /\ Shapes' /\ LoopInv' /\ WindowInv'
  <2>1. QueueAfter(t)  BY <1>1, <1>3 DEF QueueAfter
  <2> QED  BY <1>1, <1>2, <2>1, LoopAfterTask
<1>5. FilesInv' /\ DiskInv' /\ (FileInv => FileInv')
  BY <1>1, <1>4, UnlinkedStays
<1> QED  BY <1>4, <1>5 DEF RecvInv, Keeps

LEMMA JoinErrKeeps ==
    ASSUME RecvInv, Running, NEW t \in tasks, JoinErr(t), UNCHANGED <<dest, done>>
    PROVE  Keeps
<1>1. /\ files' = [files EXCEPT ![run.path] = Unlinked(@, t)] /\ Requeue(t)
      /\ UNCHANGED <<have, banned, known>> /\ Look
  BY DEF JoinErr, sources
<1>2. PICK f : Others(t, f)
  BY SameStageCutOff DEF JoinErr
<1>3. /\ t.piece \in Pieces /\ have \subseteq Pieces /\ remaining \subseteq Pieces
      /\ have \cap remaining = {}
  BY DEF RecvInv, Shapes, Task, LoopInv
<1>4. CASE t.piece \notin have /\ Srcs(t.piece) = {t.prov}
  <2>1. remaining' = remaining \cup {t.piece}  BY <1>1, <1>4 DEF Requeue
  <2>2. \A u \in tasks \ {t} : u.piece # t.piece
    <3>1. SUFFICES ASSUME NEW u \in tasks, u # t, u.piece = t.piece PROVE FALSE  OBVIOUS
    <3>2. u.prov \in Srcs(t.piece)  BY <1>4, <3>1 DEF Srcs
    <3> QED  BY <1>4, <3>1, <3>2 DEF RecvInv, LoopInv
  <2>3. /\ have' \subseteq Pieces /\ remaining' \subseteq Pieces /\ have' \cap remaining' = {}
        /\ remaining \subseteq remaining' \cup have' /\ t.piece \in have' \cup remaining'
        /\ remaining' \subseteq remaining \cup {t.piece}
        /\ have \subseteq have' /\ have' \subseteq have \cup {t.piece}
    BY <1>1, <1>3, <1>4, <2>1
  <2>4. QueueAfter(t)  BY <2>2, <2>3 DEF QueueAfter
  <2>5. SameRun /\ RunInv' /\ Shapes' /\ LoopInv' /\ WindowInv'
    BY <1>1, <1>2, <2>4, LoopAfterTask
  <2> QED  BY <1>1, <2>5, UnlinkedStays DEF RecvInv, Keeps
<1>5. CASE ~(t.piece \notin have /\ Srcs(t.piece) = {t.prov})
  <2>1. remaining' = remaining  BY <1>1, <1>5 DEF Requeue
  <2>2. t.piece \in have' \cup remaining' \/ \E u \in tasks \ {t} : u.piece = t.piece
    <3>1. CASE t.piece \in have  BY <1>1, <3>1
    <3>2. CASE t.piece \notin have
      <4>1. t.prov \in Srcs(t.piece)  BY <3>2 DEF Srcs
      <4>2. PICK p \in Srcs(t.piece) : p # t.prov  BY <1>5, <3>2, <4>1
      <4>3. PICK u \in tasks : u.piece = t.piece /\ u.prov = p  BY <4>2 DEF Srcs
      <4> QED  BY <4>2, <4>3
    <3> QED  BY <3>1, <3>2
  <2>3. /\ have' \subseteq Pieces /\ remaining' \subseteq Pieces /\ have' \cap remaining' = {}
        /\ remaining \subseteq remaining' \cup have' /\ remaining' \subseteq remaining
        /\ have \subseteq have' /\ have' \subseteq have \cup {t.piece}
    BY <1>1, <1>3, <2>1
  <2>4. QueueAfter(t)  BY <2>2, <2>3 DEF QueueAfter
  <2>5. SameRun /\ RunInv' /\ Shapes' /\ LoopInv' /\ WindowInv'
    BY <1>1, <1>2, <2>4, LoopAfterTask
  <2> QED  BY <1>1, <2>5, UnlinkedStays DEF RecvInv, Keeps
<1> QED  BY <1>4, <1>5

\* A call that ends leaves the files of finished downloads alone.
LEMMA DoneStays ==
    ASSUME RecvInv, FileInv, ~Running', UNCHANGED done, DOMAIN dest' = DOMAIN dest,
           \A t \in Ticket : done[t] # Nothing => files'[done[t].path] = files[done[t].path]
    PROVE  DoneInv'
<1>1. DoneInv  BY DEF FileInv
<1>2. ASSUME NEW t \in Ticket, done[t] # Nothing
      PROVE  Settled(files[done[t].path], done[t].unseen, t)' /\ Apart(t)'
  BY <1>1, <1>2 DEF DoneInv, Settled, Apart
<1> QED  BY <1>1, <1>2 DEF DoneInv

\* The call ends and its file, if it changes, keeps a sidecar that holds.
LEMMA EndsWell ==
    ASSUME RecvInv, Running, NEW phase \in Phases, phase # "running", NEW fs, FilesOK(fs),
           Ended(phase, fs), UNCHANGED <<dest, done>>,
           \A n \in Paths : n # run.path => fs[n] = files[n]
    PROVE  Keeps
<1>1. RecvInv' /\ ~Running' /\ SendInv' /\ files' = fs  BY EndedKeeps
<1>2. ASSUME FileInv PROVE FileInv'
  <2>1. \A t \in Ticket : done[t] # Nothing => files'[done[t].path] = files[done[t].path]
    BY <1>1, <1>2 DEF FileInv, DoneInv, Apart
  <2> QED  BY <1>1, <1>2, <2>1, DoneStays DEF FileInv
<1> QED  BY <1>1, <1>2 DEF Keeps

LEMMA JoinFullKeeps ==
    ASSUME RecvInv, Running, NEW t \in tasks, JoinFull(t), UNCHANGED <<dest, done>>
    PROVE  Keeps
<1> DEFINE g == Unlinked(files[run.path], t)
           fs == [files EXCEPT ![run.path] = g]
<1>1. run.path \in Paths /\ g \in OutFile /\ SideHolds(g)  BY StageUnlinked
<1>2. Ended("paused", fs)  BY DEF JoinFull
<1> HIDE DEF g
<1>3. FilesOK(fs)  BY <1>1, OneFile
<1>4. \A n \in Paths : n # run.path => fs[n] = files[n]
  BY DEF RecvInv, FilesInv, FilesOK
<1> HIDE DEF fs
<1> QED  BY <1>2, <1>3, <1>4, EndsWell DEF Phases

\* The piece is written, then its bit, if that can be.
LEMMA PieceLands ==
    ASSUME RecvInv, Running, NEW i \in Pieces, i \notin have, SameRun,
           have' = have \cup {i}, UNCHANGED <<dest, done>>,
           LET wrote == Committed(files[run.path], run.ticket, i)
           IN  \/ files' = [files EXCEPT ![run.path] = WriteSidecar(wrote, have \cup {i})]
               \/ files' = [files EXCEPT ![run.path] = wrote]
    PROVE  FilesInv' /\ DiskInv' /\ (FileInv => FileInv')
<1> DEFINE wrote == Committed(files[run.path], run.ticket, i)
           f == files[run.path]
<1>1. /\ run.path \in Paths /\ f \in OutFile /\ run.ticket \in Ticket /\ have \subseteq Pieces
      /\ files \in [Paths -> OutFile]
  BY DEF RecvInv, RunInv, Run, FilesInv, FilesOK, Shapes
<1>2. /\ wrote \in OutFile /\ wrote.there = f.there /\ wrote.side = f.side
      /\ wrote.bytes[i] = run.ticket
      /\ \A j \in Pieces \ {i} : wrote.bytes[j] = f.bytes[j]
  BY <1>1, PieceWritten
<1> DEFINE both == WriteSidecar(wrote, have \cup {i})
<1>3. /\ both \in OutFile /\ both.there = wrote.there /\ both.bytes = wrote.bytes
      /\ ReadSidecar(both) \subseteq have \cup {i}
  <2> HIDE DEF wrote, f
  <2>1. have \cup {i} \subseteq Pieces  BY <1>1
  <2> QED  BY <1>2, <2>1, SidecarWritten
<1>4. ReadSidecar(wrote) \subseteq have
  <2>1. ReadSidecar(f) \subseteq have  BY DEF RecvInv, DiskInv
  <2> HIDE DEF wrote, f
  <2> QED  BY <1>2, <2>1 DEF ReadSidecar
<1>5. run.ticket # "hole"  BY <1>1, ReceiveConstants DEF ReceiveConstants
<1>6. \A j \in have \cup {i} : wrote.bytes[j] # "hole"
  <2>1. \A j \in have : f.bytes[j] # "hole"  BY DEF RecvInv, DiskInv
  <2> HIDE DEF wrote, f
  <2> QED  BY <1>1, <1>2, <1>5, <2>1
<1>7. files' = [files EXCEPT ![run.path] = both] \/ files' = [files EXCEPT ![run.path] = wrote]
  OBVIOUS
<1> HIDE DEF both, wrote
<1>8. PICK g \in {both, wrote} : files' = [files EXCEPT ![run.path] = g]
  BY <1>7
<1>9. /\ g \in OutFile /\ g.there = f.there /\ ReadSidecar(g) \subseteq have \cup {i}
      /\ \A j \in have \cup {i} : g.bytes[j] # "hole"
      /\ g.bytes[i] = run.ticket /\ \A j \in Pieces \ {i} : g.bytes[j] = f.bytes[j]
  BY <1>2, <1>3, <1>4, <1>6, <1>8
<1>10. SideHolds(g)  BY <1>9 DEF SideHolds
<1>11. FilesOK(files')  BY <1>1, <1>8, <1>9, <1>10, OneFile
<1>12. FilesInv'  BY <1>11 DEF FilesInv, FilesOK, SideHolds, ReadSidecar
<1>13. /\ files'[run.path] = g /\ \A n \in Paths : n # run.path => files'[n] = files[n]
  BY <1>1, <1>8
<1>14. DiskInv'
  <2>1. ReadSidecar(files[run.path])' = ReadSidecar(g)
    BY <1>13 DEF SameRun, ReadSidecar
  <2> QED  BY <1>9, <1>13, <2>1 DEF DiskInv, SameRun
<1>15. ASSUME FileInv PROVE FileInv'
  <2>1. /\ f.there /\ run.unseen \subseteq have
        /\ \A j \in have : f.bytes[j] = IF j \in run.unseen THEN "rot" ELSE run.ticket
    BY <1>15 DEF FileInv, SendInv
  <2>2. SendInv'
    <3>1. /\ g.there
          /\ \A j \in have \cup {i} :
                g.bytes[j] = IF j \in run.unseen THEN "rot" ELSE run.ticket
      <4> HIDE DEF f
      <4> QED  BY <1>1, <1>9, <2>1
    <3> QED  BY <1>13, <2>1, <3>1 DEF SendInv, SameRun
  <2>3. DoneInv'
    <3>1. ASSUME NEW t \in Ticket, done[t] # Nothing
          PROVE  Settled(files[done[t].path], done[t].unseen, t)' /\ Apart(t)'
      <4>1. done[t].path \in Paths /\ done[t].path # run.path /\ dest[run.ticket] = "dir"
        BY <1>15, <3>1 DEF FileInv, DoneInv, Apart
      <4>2. files'[done[t].path] = files[done[t].path]  BY <1>13, <4>1
      <4>3. Settled(files[done[t].path], done[t].unseen, t)  BY <1>15, <3>1 DEF FileInv, DoneInv
      <4> QED  BY <4>1, <4>2, <4>3 DEF Settled, Apart, SameRun
    <3> QED  BY <1>15, <3>1 DEF FileInv, DoneInv
  <2> QED  BY <2>2, <2>3 DEF FileInv
<1> QED  BY <1>12, <1>14, <1>15

LEMMA CommitKeeps ==
    ASSUME RecvInv, Running, NEW t \in tasks, Commit(t), UNCHANGED <<dest, done>>
    PROVE  Keeps
<1> DEFINE i == t.piece
<1>1. i \in Pieces /\ i \notin have /\ FilesOK(files)
  BY DEF Commit, RecvInv, Shapes, Task, FilesInv
<1>2. CASE Ended("failed", files) \/ Ended("paused", files)
  <2>1. "failed" \in Phases \ {"running"} /\ "paused" \in Phases \ {"running"}  BY DEF Phases
  <2> QED  BY <1>1, <1>2, <2>1, EndsWell
<1>3. CASE ~(Ended("failed", files) \/ Ended("paused", files))
  <2>1. /\ have' = have \cup {i} /\ remaining' = remaining \ {i}
        /\ tasks' = LET G(u) == u.piece = t.piece IN Orphaned(tasks \ {t}, G)
        /\ LET wrote == Committed(files[run.path], run.ticket, i)
           IN  \/ files' = [files EXCEPT ![run.path] = WriteSidecar(wrote, have \cup {i})]
               \/ files' = [files EXCEPT ![run.path] = wrote]
        /\ UNCHANGED <<banned, known>> /\ Look
    BY <1>3 DEF Commit, StorageFull, sources, Orphaned
  <2>2. PICK f : Others(t, f)
    BY <2>1, SamePieceCutOff
  <2>3. /\ have' \subseteq Pieces /\ remaining' \subseteq Pieces /\ have' \cap remaining' = {}
        /\ remaining \subseteq remaining' \cup have' /\ remaining' \subseteq remaining
        /\ have \subseteq have' /\ have' \subseteq have \cup {t.piece}
        /\ t.piece \in have' \cup remaining'
    BY <1>1, <2>1 DEF RecvInv, Shapes, LoopInv
  <2>4. SameRun /\ RunInv' /\ Shapes' /\ LoopInv' /\ WindowInv'
    <3>1. QueueAfter(t)  BY <2>3 DEF QueueAfter
    <3>2. Look /\ UNCHANGED <<known, banned>>  BY <2>1
    <3> QED  BY <2>2, <3>1, <3>2, LoopAfterTask
  <2>5. FilesInv' /\ DiskInv' /\ (FileInv => FileInv')
    <3> HIDE DEF i
    <3> QED  BY <1>1, <2>1, <2>4, PieceLands
  <2> QED  BY <2>4, <2>5 DEF RecvInv, Keeps
<1> QED  BY <1>2, <1>3

LEMMA JoinKeeps ==
    ASSUME RecvInv, NEW t \in tasks, Join(t)
    PROVE  Keeps
BY JoinLostKeeps, CommitKeeps, JoinFullKeeps, JoinErrKeeps DEF Join

-----------------------------------------------------------------------------
(* The ends of a run.                                                      *)

LEMMA DiscardedOK ==
    ASSUME RecvInv, NEW d PROVE FilesOK(Discarded(d))
<1>1. CASE d = "dir"  BY <1>1 DEF Discarded, RecvInv, FilesInv
<1>2. CASE d # "dir"
  <2> DEFINE r == Removed(RemoveStageFiles(files[1]))
             g == [r EXCEPT !.side = Nothing, !.note = Nothing]
  <2>1. files[1] \in OutFile  BY Numbers DEF RecvInv, FilesInv, FilesOK
  <2>2. r \in OutFile  BY <2>1, StagesRemoved, RemovedFile
  <2>3. Discarded(d) = [files EXCEPT ![1] = g]  BY <1>2 DEF Discarded
  <2> HIDE DEF r
  <2>4. g \in OutFile /\ g.side = Nothing  BY <2>2 DEF OutFile
  <2> HIDE DEF g
  <2>5. SideHolds(g)  BY <2>4 DEF SideHolds, ReadSidecar
  <2> QED  BY ZenonT(60), <2>3, <2>4, <2>5, Numbers, OneFile
<1> QED  BY <1>1, <1>2

LEMMA StoppedKeeps ==
    ASSUME RecvInv, Running, StoppedShort
    PROVE  Keeps
<1>1. UNCHANGED <<dest, done>>  BY DEF StoppedShort
<1>2. CASE Ended("paused", files)
  <2>1. FilesOK(files) /\ "paused" \in Phases \ {"running"}  BY DEF RecvInv, FilesInv, Phases
  <2> QED  BY <1>1, <1>2, <2>1, EndsWell
<1>3. CASE Ended("cancelled", Discarded(dest[run.ticket]))
  <2>1. "cancelled" \in Phases \ {"running"}  BY DEF Phases
  <2>2. RecvInv' /\ ~Running' /\ SendInv' /\ files' = Discarded(dest[run.ticket])
    BY <1>3, <2>1, DiscardedOK, EndedKeeps
  <2>3. ASSUME FileInv PROVE FileInv'
    <3>1. \A t \in Ticket : done[t] # Nothing => files' = files
      BY <2>2, <2>3 DEF FileInv, DoneInv, Apart, Discarded
    <3>2. DoneInv'  BY <1>1, <2>2, <2>3, <3>1, DoneStays
    <3> QED  BY <2>2, <3>2 DEF FileInv
  <2> QED  BY <2>2, <2>3 DEF Keeps
<1> QED  BY <1>2, <1>3 DEF StoppedShort

LEMMA CrashKeeps ==
    ASSUME RecvInv, ReceiverDies
    PROVE  Keeps
<1>1. Running /\ UNCHANGED <<dest, done>> /\ "idle" \in Phases \ {"running"}
  BY DEF ReceiverDies, Phases
<1>2. run.path \in Paths /\ files \in [Paths -> OutFile]
  BY DEF RecvInv, RunInv, Run, FilesInv, FilesOK
<1>3. CASE Ended("idle", files)
  <2>1. FilesOK(files)  BY DEF RecvInv, FilesInv
  <2> QED  BY <1>1, <1>3, <2>1, EndsWell
<1>4. CASE Ended("idle", [files EXCEPT ![run.path].side = {}])
  <2> DEFINE g == WriteSidecar(files[run.path], {})
             fs == [files EXCEPT ![run.path] = g]
  <2>1. fs = [files EXCEPT ![run.path].side = {}]  BY DEF WriteSidecar
  <2>2. g \in OutFile /\ ReadSidecar(g) \subseteq {}  BY <1>2, SidecarWritten
  <2> HIDE DEF g
  <2>3. SideHolds(g)  BY <2>2 DEF SideHolds
  <2>4. FilesOK(fs) /\ \A n \in Paths : n # run.path => fs[n] = files[n]
    BY <1>2, <2>2, <2>3, OneFile
  <2>5. Ended("idle", fs)  BY <1>4, <2>1
  <2> HIDE DEF fs
  <2> QED  BY <1>1, <2>4, <2>5, EndsWell
<1> QED  BY <1>3, <1>4 DEF ReceiverDies

LEMMA FinishKeeps ==
    ASSUME RecvInv, FinishRun
    PROVE  Keeps
<1>1. Running /\ tasks = {} /\ remaining = {}  BY DEF FinishRun
<1>2. CASE EndedShort  BY <1>1, <1>2, StoppedKeeps DEF FinishRun
<1>3. CASE ~EndedShort
  <2> DEFINE f == files[run.path]
             g == [RemoveStageFiles(f) EXCEPT !.len = N, !.side = Nothing, !.note = Nothing]
             fs == [files EXCEPT ![run.path] = g]
             rec == [path |-> run.path, unseen |-> run.unseen]
  <2>1. /\ Ended("completed", fs) /\ done' = [done EXCEPT ![run.ticket] = rec]
        /\ UNCHANGED dest
    BY <1>3 DEF FinishRun
  <2>2. /\ run.path \in Paths /\ f \in OutFile /\ run.ticket \in Ticket /\ have \subseteq Pieces
        /\ files \in [Paths -> OutFile] /\ run.unseen \subseteq Pieces
    BY <1>1 DEF RecvInv, RunInv, Run, FilesInv, FilesOK, Shapes
  <2>3. have = Pieces
    BY <1>1, <1>3, <2>2 DEF EndedShort, RecvInv, LoopInv, NoPieceForgotten, Srcs
  <2>4. /\ g \in OutFile /\ g.side = Nothing /\ g.note = Nothing /\ g.stage = NoFile.stage
        /\ g.there = f.there /\ g.bytes = f.bytes
    <3>1. /\ RemoveStageFiles(f) \in OutFile /\ Body(f, RemoveStageFiles(f))
          /\ RemoveStageFiles(f).stage = NoFile.stage
      BY <2>2, StagesRemoved
    <3>2. N \in 0..N  BY Numbers
    <3> QED  BY <3>1, <3>2 DEF OutFile, Body
  <2> HIDE DEF g
  <2>5. SideHolds(g)  BY <2>4 DEF SideHolds, ReadSidecar
  <2>6. FilesOK(fs)  BY <2>2, <2>4, <2>5, OneFile
  <2>7. /\ fs[run.path] = g /\ \A n \in Paths : n # run.path => fs[n] = files[n]
    BY <2>2
  <2> HIDE DEF fs
  <2>8. RecvInv' /\ ~Running' /\ SendInv' /\ files' = fs
    BY <2>1, <2>6, EndedKeeps DEF Phases
  <2>9. ASSUME FileInv PROVE FileInv'
    <3>1. /\ f.there
          /\ \A i \in Pieces : f.bytes[i] = IF i \in run.unseen THEN "rot" ELSE run.ticket
      BY <1>1, <2>3, <2>9 DEF FileInv, SendInv
    <3>2. Settled(g, run.unseen, run.ticket)
      <4> HIDE DEF f
      <4> QED  BY <2>4, <3>1 DEF Settled
    <3>3. /\ rec \in [path : Paths, unseen : SUBSET Pieces]
          /\ rec.path = run.path /\ rec.unseen = run.unseen
      BY <2>2
    <3> HIDE DEF rec
    <3>4. /\ done \in [Ticket -> {Nothing} \cup [path : Paths, unseen : SUBSET Pieces]]
          /\ DOMAIN dest = Ticket
      BY <2>9 DEF FileInv, DoneInv
    <3>5. ASSUME NEW t \in Ticket, done'[t] # Nothing
          PROVE  Settled(files[done[t].path], done[t].unseen, t)' /\ Apart(t)'
      <4>1. CASE t = run.ticket
        <5>1. done'[t] = rec  BY <2>1, <2>2, <3>4, <4>1
        <5>2. files'[done'[t].path] = g /\ done'[t].unseen = run.unseen
          BY <2>7, <2>8, <3>3, <5>1
        <5> QED  BY <2>8, <3>2, <4>1, <5>2 DEF Settled, Apart
      <4>2. CASE t # run.ticket
        <5>1. done'[t] = done[t]  BY <2>1, <3>4, <4>2
        <5>2. done[t].path \in Paths /\ done[t].path # run.path
          BY <1>1, <2>9, <3>5, <5>1 DEF FileInv, DoneInv, Apart
        <5>3. files'[done'[t].path] = files[done[t].path]  BY <2>7, <2>8, <5>1, <5>2
        <5>4. Settled(files[done[t].path], done[t].unseen, t)
          BY <2>9, <3>5, <5>1 DEF FileInv, DoneInv
        <5> QED  BY <2>8, <5>1, <5>3, <5>4 DEF Settled, Apart
      <4> QED  BY <4>1, <4>2
    <3>6. DoneInv'
      BY <2>1, <2>2, <3>3, <3>4, <3>5 DEF DoneInv
    <3> QED  BY <2>8, <3>6 DEF FileInv
  <2> QED  BY <2>8, <2>9 DEF Keeps
<1> QED  BY <1>2, <1>3

-----------------------------------------------------------------------------
(* Between two runs.                                                       *)

LEMMA MeddleKeeps ==
    ASSUME RecvInv, NEW n \in Paths, NEW f \in OutFile, SideHolds(f), Meddle(n, f)
    PROVE  Keeps
<1>1. /\ ~Running /\ Unfinished(n) /\ files' = [files EXCEPT ![n] = f]
      /\ UNCHANGED <<run, dest, have, remaining, tasks, banned, known, done>>
  BY DEF Meddle, loop, sources
<1>2. FilesOK(files')  BY <1>1, OneFile
<1>3. FilesInv'  BY <1>2 DEF FilesInv, FilesOK, SideHolds, ReadSidecar
<1>4. ~Running'  BY <1>1 DEF Running
<1>5. RunInv' /\ Shapes' /\ LoopInv' /\ WindowInv' /\ DiskInv' /\ SendInv'
  BY <1>1, <1>4 DEF RecvInv, RunInv, Shapes, LoopInv, NoPieceForgotten, WindowInv, DiskInv, SendInv
<1>6. ASSUME FileInv PROVE FileInv'
  <2>1. \A t \in Ticket : done[t] # Nothing => files'[done[t].path] = files[done[t].path]
    BY <1>1, <1>6 DEF Unfinished, FileInv, DoneInv, RecvInv, FilesInv, FilesOK
  <2> QED  BY <1>1, <1>4, <1>5, <1>6, <2>1, DoneStays DEF FileInv
<1> QED  BY <1>3, <1>5, <1>6 DEF RecvInv, Keeps

LEMMA DamageKeeps ==
    ASSUME RecvInv, NEW n \in Paths,
           DeleteFile(n) \/ TruncateFile(n) \/ \E i \in Pieces : RotPiece(n, i)
    PROVE  Keeps
<1> DEFINE f == files[n]
<1>1. f \in OutFile /\ SideHolds(f)  BY DEF RecvInv, FilesInv, FilesOK
<1>2. CASE DeleteFile(n)
  BY <1>1, <1>2, RemovedFile, MeddleKeeps DEF DeleteFile
<1>3. CASE TruncateFile(n)
  <2> DEFINE b == [f.bytes EXCEPT ![f.len] = "hole"]
             g == [f EXCEPT !.len = f.len - 1, !.bytes = b]
  <2>1. f.len > 0 /\ Meddle(n, g)  BY <1>3 DEF TruncateFile
  <2>2. f.len \in 0..N /\ f.bytes \in [Pieces -> Ticket \cup {"hole", "rot"}]  BY <1>1 DEF OutFile
  <2>3. f.len - 1 \in 0..N  BY <2>1, <2>2, Numbers
  <2>4. b \in [Pieces -> Ticket \cup {"hole", "rot"}]  BY <2>2
  <2>5. /\ g \in OutFile /\ g.len = f.len - 1 /\ g.bytes = b /\ g.side = f.side
    <3> HIDE DEF b
    <3> QED  BY <1>1, <2>3, <2>4 DEF OutFile
  <2>6. SideHolds(g)
    <3>1. SUFFICES ASSUME NEW i \in ReadSidecar(g), i <= g.len PROVE g.bytes[i] # "hole"
      BY DEF SideHolds
    <3>2. i \in ReadSidecar(f)  BY <2>5, <3>1 DEF ReadSidecar
    <3>3. i \in Pieces  BY <1>1, <3>2, ReadIsPieces
    <3>4. i \in 1..N /\ i <= f.len /\ i # f.len  BY <2>2, <2>5, <3>1, <3>3, Numbers
    <3>5. f.bytes[i] # "hole"  BY <1>1, <3>2, <3>4 DEF SideHolds
    <3> QED  BY <2>2, <2>5, <3>3, <3>4, <3>5
  <2> HIDE DEF g
  <2> QED  BY <2>1, <2>5, <2>6, MeddleKeeps
<1>4. ASSUME NEW i \in Pieces, RotPiece(n, i) PROVE Keeps
  <2> DEFINE g == [f EXCEPT !.bytes = [f.bytes EXCEPT ![i] = "rot"]]
  <2>1. Meddle(n, g)  BY <1>4 DEF RotPiece
  <2>2. f.bytes \in [Pieces -> Ticket \cup {"hole", "rot"}]  BY <1>1 DEF OutFile
  <2>3. /\ g \in OutFile /\ g.len = f.len /\ g.side = f.side
        /\ \A j \in Pieces : g.bytes[j] = IF j = i THEN "rot" ELSE f.bytes[j]
    <3>1. [f.bytes EXCEPT ![i] = "rot"] \in [Pieces -> Ticket \cup {"hole", "rot"}]  BY <2>2
    <3> QED  BY <1>1, <2>2, <3>1 DEF OutFile
  <2> HIDE DEF g
  <2>4. ReadSidecar(g) = ReadSidecar(f) /\ ReadSidecar(f) \subseteq Pieces
    BY <1>1, <2>3, ReadIsPieces DEF ReadSidecar
  <2>5. SideHolds(g)  BY <1>1, <2>3, <2>4 DEF SideHolds
  <2> QED  BY <2>1, <2>3, <2>5, MeddleKeeps
<1> QED  BY <1>2, <1>3, <1>4

\* What a start finds: the file opened, and of its sidecar what bears checking.
LEMMA ResumedFile ==
    ASSUME RecvInv, NEW path \in Paths, NEW t \in Ticket, NEW level \in Levels, NoTrust
    PROVE  LET f == SetUp(path, t)
               kept == Resumed(f, t, level)
               g == IF kept # ReadSidecar(f) THEN WriteSidecar(f, kept) ELSE f
           IN  /\ kept \subseteq Pieces /\ g \in OutFile /\ g.there
               /\ g.bytes = f.bytes /\ f \in OutFile
               /\ ReadSidecar(g) \subseteq kept /\ SideHolds(g)
               /\ \A i \in kept : f.bytes[i] # "hole" /\ (level = "deep" => f.bytes[i] = t)
<1> DEFINE o == Opened(files[path])
           f == SetUp(path, t)
           kept == Resumed(f, t, level)
           g == IF kept # ReadSidecar(f) THEN WriteSidecar(f, kept) ELSE f
<1>1. o \in OutFile /\ o.there /\ SideHolds(o)
  BY OpenedFile DEF RecvInv, FilesInv, FilesOK
<1>2. f = WriteTicket(o, t)  BY DEF SetUp
<1> HIDE DEF o
<1>3. f \in OutFile /\ Body(o, f)
  <2>1. f \in OutFile /\ f.there = o.there /\ f.len = o.len /\ f.bytes = o.bytes /\ f.side = o.side
    <3> HIDE DEF f
    <3>1. o \in OutFile  BY <1>1
    <3> QED  BY <1>2, <3>1, TicketWritten
  <2> QED  BY <2>1 DEF Body
<1>4. f.there /\ SideHolds(f)  BY <1>1, <1>3, SameBody DEF Body
<1>5. kept = {i \in ReadSidecar(f) : i <= f.len /\ (level = "deep" => f.bytes[i] = t)}
  BY DEF Resumed, RevalidateHave, NoTrust
<1> HIDE DEF f, kept
<1>6. kept \subseteq Pieces /\ kept \subseteq ReadSidecar(f)  BY <1>3, <1>5, ReadIsPieces
<1>7. \A i \in kept : f.bytes[i] # "hole" /\ (level = "deep" => f.bytes[i] = t)
  BY <1>4, <1>5 DEF SideHolds
<1>8. g \in OutFile /\ g.there /\ g.bytes = f.bytes /\ ReadSidecar(g) \subseteq kept
  BY <1>3, <1>4, <1>6, SidecarWritten
<1> HIDE DEF g
<1>9. SideHolds(g)  BY <1>7, <1>8 DEF SideHolds
<1> QED  BY <1>3, <1>6, <1>7, <1>8, <1>9 DEF f, kept, g

\* A finished download's file is not one that a start resolves to.
LEMMA StartsApart ==
    ASSUME RecvInv, FileInv, NoMixing, NEW t \in Ticket, NEW d \in Dests, done[t] = Nothing,
           NEW path \in SingleFileOut(d), NEW u \in Ticket, done[u] # Nothing
    PROVE  done[u].path # path /\ d = "dir" /\ Levels \subseteq {"deep"}
<1>1. t # u  OBVIOUS
<1>2. d = "dir" /\ Levels \subseteq {"deep"}  BY <1>1 DEF NoMixing
<1>3. Free(path)  BY <1>2 DEF SingleFileOut, CollisionFree
<1>4. ~Free(done[u].path)  BY DEF FileInv, DoneInv, Settled, Free
<1> QED  BY <1>2, <1>3, <1>4

LEMMA BeginKeeps ==
    ASSUME NoTrust, RecvInv, NEW t \in Ticket, NEW d \in Dests, NEW level \in Levels,
           Begin(t, d, level)
    PROVE  Keeps
<1>1. /\ ~Running /\ done[t] = Nothing /\ dest' = [dest EXCEPT ![t] = d] /\ UNCHANGED done
  BY DEF Begin
<1>2. PICK path \in SingleFileOut(d) :
        LET f == SetUp(path, t)
            kept == Resumed(f, t, level)
            fs == [files EXCEPT ![path] =
                    IF kept # ReadSidecar(f) THEN WriteSidecar(f, kept) ELSE f]
        IN  \/ Ended("paused", fs)
            \/ StartLoop(t, path, f, kept, level) /\ files' = fs
  BY DEF Begin, StorageFull
<1>3. path \in Paths  BY DEF SingleFileOut
<1> DEFINE f == SetUp(path, t)
           kept == Resumed(f, t, level)
           g == IF kept # ReadSidecar(f) THEN WriteSidecar(f, kept) ELSE f
           fs == [files EXCEPT ![path] = g]
<1>4. /\ kept \subseteq Pieces /\ g \in OutFile /\ g.there /\ g.bytes = f.bytes /\ f \in OutFile
      /\ ReadSidecar(g) \subseteq kept /\ SideHolds(g)
      /\ \A i \in kept : f.bytes[i] # "hole" /\ (level = "deep" => f.bytes[i] = t)
  BY <1>3, ResumedFile
<1>5. Ended("paused", fs) \/ (StartLoop(t, path, f, kept, level) /\ files' = fs)
  BY <1>2
<1> HIDE DEF f, kept, g
<1>6. /\ FilesOK(fs) /\ fs[path] = g /\ \A n \in Paths : n # path => fs[n] = files[n]
  <2>1. files \in [Paths -> OutFile]  BY DEF RecvInv, FilesInv, FilesOK
  <2> QED  BY <1>3, <1>4, <2>1, OneFile
<1> HIDE DEF fs
<1>7. ASSUME FileInv, NoMixing, NEW u \in Ticket, done[u] # Nothing
      PROVE  /\ done[u].path \in Paths /\ done[u].path # path /\ d = "dir"
             /\ fs[done[u].path] = files[done[u].path]
             /\ Settled(files[done[u].path], done[u].unseen, u)
  <2>1. done[u].path # path /\ d = "dir"  BY <1>1, <1>7, StartsApart
  <2>2. done[u].path \in Paths /\ Settled(files[done[u].path], done[u].unseen, u)
    BY <1>7 DEF FileInv, DoneInv
  <2> QED  BY <1>6, <2>1, <2>2
<1>8. CASE Ended("paused", fs)
  <2>1. "paused" \in Phases \ {"running"}  BY DEF Phases
  <2>2. RecvInv' /\ ~Running' /\ SendInv' /\ files' = fs
    BY <1>6, <1>8, <2>1, EndedKeeps
  <2>3. ASSUME FileInv, NoMixing PROVE FileInv'
    <3>1. \A u \in Ticket : done[u] # Nothing => files'[done[u].path] = files[done[u].path]
      BY <1>7, <2>2, <2>3
    <3>2. DOMAIN dest' = DOMAIN dest  BY <1>1
    <3>3. DoneInv'  BY <1>1, <2>2, <2>3, <3>1, <3>2, DoneStays
    <3> QED  BY <2>2, <3>3 DEF FileInv
  <2> QED  BY <2>2, <2>3 DEF Keeps
<1>9. CASE StartLoop(t, path, f, kept, level) /\ files' = fs
  <2>1. /\ run' = [NoCall EXCEPT !.phase = "running", !.ticket = t, !.path = path,
                                !.unseen = Unseen(f, kept, level)]
        /\ have' = kept /\ remaining' = Pieces \ kept
        /\ UNCHANGED <<tasks, banned, known>>
    BY <1>9 DEF StartLoop, sources
  <2>2. Unseen(f, kept, level) \subseteq kept  BY DEF Unseen
  <2>3. /\ run' \in Run /\ run'.phase = "running" /\ run'.ticket = t /\ run'.path = path
        /\ run'.unseen = Unseen(f, kept, level) /\ run'.pc = "wait" /\ run'.asked = Nothing
    BY <1>3, <1>4, <2>1, <2>2, Numbers DEF NoCall, Run, Phases
  <2>4. Running' /\ tasks = {} /\ tasks' = {}
    BY <1>1, <2>1, <2>3 DEF Running, RecvInv, RunInv
  <2>5. FilesInv'  BY <1>6, <1>9 DEF FilesInv, FilesOK, SideHolds, ReadSidecar
  <2>6. RunInv'  BY <2>3, <2>4 DEF RunInv
  <2>7. Shapes'  BY <1>4, <2>1 DEF RecvInv, Shapes
  <2>8. LoopInv'  BY <2>1, <2>4 DEF LoopInv, NoPieceForgotten
  <2>9. WindowInv'  BY <2>3, <2>4, FS_EmptySet, Numbers DEF WindowInv
  <2>10. files'[run'.path] = g  BY <1>6, <1>9, <2>3
  <2>11. DiskInv'
    <3>1. ReadSidecar(files[run.path])' = ReadSidecar(g)  BY <2>10 DEF ReadSidecar
    <3> QED  BY <1>4, <2>1, <2>10, <3>1 DEF DiskInv
  <2>12. ASSUME FileInv, NoMixing PROVE FileInv'
    <3>1. \A i \in kept : f.bytes[i] = IF i \in Unseen(f, kept, level) THEN "rot" ELSE t
      <4>1. TAKE i \in kept
      <4>2. f.bytes[i] \in Ticket \cup {"hole", "rot"}  BY <1>4 DEF OutFile
      <4>3. CASE level = "deep"  BY <1>4, <4>3 DEF Unseen
      <4>4. CASE level # "deep"
        <5>1. \A v \in Ticket : v = t  BY <2>12, <4>4 DEF NoMixing
        <5>2. "rot" \notin Ticket  BY ReceiveConstants DEF ReceiveConstants
        <5> QED  BY <1>4, <4>2, <4>4, <5>1, <5>2 DEF Unseen
      <4> QED  BY <4>3, <4>4
    <3>2. SendInv'
      BY <1>4, <2>1, <2>2, <2>3, <2>10, <3>1 DEF SendInv
    <3>3. DOMAIN dest = Ticket /\ dest'[t] = d
      BY <1>1, <2>12 DEF FileInv, DoneInv
    <3>4. ASSUME NEW u \in Ticket, done[u] # Nothing
          PROVE  Settled(files[done[u].path], done[u].unseen, u)' /\ Apart(u)'
      <4>1. /\ done[u].path # path /\ d = "dir"
            /\ fs[done[u].path] = files[done[u].path]
            /\ Settled(files[done[u].path], done[u].unseen, u)
        BY <1>7, <2>12, <3>4
      <4>2. files'[done'[u].path] = files[done[u].path] /\ done'[u] = done[u]
        BY <1>1, <1>9, <4>1
      <4>3. Settled(files[done[u].path], done[u].unseen, u)'  BY <4>1, <4>2 DEF Settled
      <4> QED  BY <2>3, <3>3, <4>1, <4>2, <4>3 DEF Apart
    <3>5. DoneInv'
      BY <1>1, <2>12, <3>3, <3>4 DEF FileInv, DoneInv
    <3> QED  BY <3>2, <3>5 DEF FileInv
  <2> QED  BY <2>5, <2>6, <2>7, <2>8, <2>9, <2>11, <2>12 DEF RecvInv, Keeps
<1> QED  BY <1>5, <1>8, <1>9

LEMMA NextKeeps ==
    ASSUME NoTrust, RecvInv, RecvNext
    PROVE  Keeps
<1>1. CASE StopWaiting  BY <1>1, StoppedKeeps DEF StopWaiting
<1>2. CASE \E n \in Paths : DeleteFile(n) \/ TruncateFile(n)
  BY <1>2, DamageKeeps
<1>3. CASE \E n \in Paths, i \in Pieces : RotPiece(n, i)
  BY <1>3, DamageKeeps
<1> QED  BY <1>1, <1>2, <1>3, BeginKeeps, LearnsKeeps, TimersKeep, AssignKeeps, FilledKeeps,
            TaskStepKeeps, JoinKeeps, AskKeeps, FinishKeeps, CrashKeeps DEF RecvNext

LEMMA StutterKeeps ==
    ASSUME RecvInv, UNCHANGED recvVars
    PROVE  Keeps
BY StutterRecv DEF recvVars, loop, sources

\* The window, the queue, the tasks, the sidecar and the bytes agree at every
\* step of a download, for any number of pieces and providers (recv_chunked).
THEOREM RecvInvHolds == ASSUME NoTrust PROVE RecvSpec => []RecvInv
<1>1. RecvInv /\ [RecvNext]_recvVars => RecvInv'
  BY NextKeeps, StutterKeeps DEF Keeps
<1> QED  BY InitKeeps, <1>1, PTL DEF RecvSpec

\* Every piece of a running download is claimed and written, waiting, or being
\* fetched, whichever racers win, lose, lie or fail: none is forgotten, and none
\* is claimed before its bytes are down (recv_chunked, read_sidecar,
\* revalidate_have).
THEOREM PiecesAreAccounted == ASSUME NoTrust PROVE RecvSpec => []PiecesAccounted
<1>1. ASSUME RecvInv PROVE PiecesAccounted
  <2>1. \A n \in Paths : files[n] \in OutFile  BY <1>1 DEF RecvInv, FilesInv, FilesOK
  <2>2. \A n \in Paths :
          /\ files[n].len \in 0..N
          /\ files[n].bytes \in [Pieces -> Ticket \cup {"hole", "rot"}]
          /\ files[n].side = Nothing \/ files[n].side \subseteq Pieces
          /\ \A i \in Pieces : files[n].stage[i] \in [1..ENDGAME_PARALLEL -> StageStates]
    BY <2>1 DEF OutFile
  <2>3. run.phase \in {"idle", "running", "completed", "paused", "cancelled", "failed"}
    BY <1>1 DEF RecvInv, RunInv, Run, Phases
  <2>4. RecvTypeOK  BY <1>1, <2>2, <2>3 DEF RecvTypeOK, RecvInv, LoopInv, WindowInv, Shapes
  <2>5. ClaimsAreWritten  BY <1>1 DEF ClaimsAreWritten, RecvInv, DiskInv
  <2> QED  BY <1>1, <2>4, <2>5 DEF PiecesAccounted, RecvInv, LoopInv
<1> QED  BY <1>1, RecvInvHolds, PTL

\* A download reported complete is the file that was sent, to the last piece,
\* with nothing beside it: over crashes, stops, full disks, damage to the partial
\* and resumes, as long as no two sends are mixed in one file (recv_chunked,
\* revalidate_have, collision_free, discard_incomplete).
THEOREM DownloadsAreRight == ASSUME NoTrust, NoMixing PROVE RecvSpec => []DoneIsRight
<1>1. RecvInv /\ FileInv /\ [RecvNext]_recvVars => (RecvInv /\ FileInv)'
  BY NextKeeps, StutterKeeps DEF Keeps
<1>2. ASSUME RecvInv, FileInv PROVE DoneIsRight
  <2>1. ASSUME NEW t \in Ticket, done[t] # Nothing
        PROVE  /\ files[done[t].path] \in OutFile
               /\ Settled(files[done[t].path], done[t].unseen, t)
    BY <1>2, <2>1 DEF RecvInv, FilesInv, FilesOK, FileInv, DoneInv
  <2>2. DoneIsIntact  BY <2>1 DEF DoneIsIntact, Settled
  <2>3. ASSUME NEW x \in OutFile, x.side = Nothing, x.note = Nothing, x.stage = NoFile.stage
        PROVE  x = [x EXCEPT !.side = Nothing, !.note = Nothing, !.stage = NoFile.stage]
    BY <2>3 DEF OutFile
  <2>4. NothingLeftBehind  BY <2>1, <2>3 DEF NothingLeftBehind, Settled
  <2> QED  BY <2>2, <2>4 DEF DoneIsRight
<1> QED  BY InitKeeps, <1>1, <1>2, PTL DEF RecvSpec
=============================================================================
