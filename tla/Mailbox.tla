------------------------------ MODULE Mailbox ------------------------------
(***************************************************************************)
(* The relay's mailbox: the `entries` and `uploads` tables, the blob       *)
(* directory they describe, the HTTP requests that work on both, the       *)
(* reaper, the hourly orphan sweep, and a process crash at any point.      *)
(*                                                                         *)
(* Every SQL statement runs under the one connection mutex, so a step is   *)
(* what happens between two acquisitions of it, or between two `await`s.   *)
(* Rows and files survive a crash; requests and the sweep do not.          *)
(*                                                                         *)
(* Time is relative.  A row keeps the seconds it has `left` (0: its        *)
(* deadline has passed), a file the `age` of its mtime.  Tick moves them   *)
(* all at once.  Nothing compares two deadlines with each other, so this   *)
(* is the same as comparing absolute times with now_unix().                *)
(***************************************************************************)
EXTENDS Naturals, FiniteSets

CONSTANTS
    Claim,           \* claim tokens: names of entries and of their .bin files
    Upload,          \* upload session ids: names of .part files
    Request,         \* slots for HTTP requests in progress
    Token,           \* revoke tokens
    None,            \* no row, no file, no value
    MaxTtl,          \* ARVOLO_MAX_TTL, the longest TTL granted
    MaxDownloadsCap, \* MAX_DOWNLOADS_CAP
    MaxBlob,         \* largest ciphertext, in chunks
    Grace,           \* ORPHAN_GRACE of the sweep
    UploadIdle,      \* UPLOAD_IDLE_SECS
    CommittedGrace,  \* UPLOAD_COMMITTED_GRACE_SECS
    MaxOpenUploads,  \* ARVOLO_MAX_OPEN_UPLOADS
    MaxStall,        \* longest silence within a deposit's body
    MaxWait,         \* longest a complete upload waits for its commit
    MaxWalk,         \* longest the sweep takes before, and over, the directory
    MaxCrashes       \* bound on crashes, so that liveness can be asked

ASSUME MailboxConstants ==
    /\ MaxTtl \in Nat
    /\ MaxDownloadsCap \in Nat \ {0}
    /\ MaxBlob \in Nat
    /\ Grace \in Nat
    /\ UploadIdle \in Nat
    /\ CommittedGrace \in Nat
    /\ MaxOpenUploads \in Nat
    /\ MaxStall \in Nat
    /\ MaxWait \in Nat
    /\ MaxWalk \in Nat
    /\ MaxCrashes \in Nat

\* The sweep's grace outlasts the longest silence of a client that is still at
\* work, with the sweep's own delay on top.
GraceCovers ==
    /\ MaxStall + MaxWalk < Grace
    /\ MaxWait + MaxWalk < Grace

VARIABLES
    entries,   \* the entries table
    bin,       \* {claim}.bin files
    uploads,   \* the uploads table
    part,      \* {id}.part files
    req,       \* requests in progress
    sweep,     \* sweep_orphan_blobs in progress
    crashes,   \* how often the process died
    spent,     \* history: downloads spent on a claim
    fate       \* history: what became of the entry of a claim

vars == <<entries, bin, uploads, part, req, sweep, crashes, spent, fate>>

AgeCap == Grace + MaxWalk   \* ages are told apart up to here
MaxLeft == UploadIdle + CommittedGrace

EntryRow == [left: 0..MaxTtl, max: 1..MaxDownloadsCap,
             downloads: 0..MaxDownloadsCap, token: Token \cup {None},
             size: 0..MaxBlob]
UploadRow == [left: 0..MaxLeft, length: 0..MaxBlob, claim: Claim \cup {None}]
File == [age: 0..AgeCap, len: 0..MaxBlob]

\* deposit: streaming a body; fetch, held: plan made, file not opened yet;
\* append: writing a PATCH body; commit, renamed, inserted: in commit_upload.
Op == {"idle", "deposit", "fetch", "held", "append", "commit", "renamed",
       "inserted"}
Req == [op: Op, claim: Claim \cup {None}, up: Upload \cup {None},
        len: 0..MaxBlob, burn: BOOLEAN]
Doing(op, claim, up, len, burn) ==
    [op |-> op, claim |-> claim, up |-> up, len |-> len, burn |-> burn]
Idle == Doing("idle", None, None, 0, FALSE)

Sweep == [pc: {"idle", "ids", "walk"}, claims: SUBSET Claim,
          ids: SUBSET Upload, elapsed: 0..MaxWalk]
SweepIdle == [pc |-> "idle", claims |-> {}, ids |-> {}, elapsed |-> 0]

Fate == {"none", "live", "spent", "expired", "revoked", "cut"}

\* None is none of the rows, files and names it stands in for.
ASSUME NoneAssumption ==
    /\ None \notin EntryRow \cup UploadRow \cup File
    /\ None \notin Claim \cup Upload

Min2(a, b) == IF a <= b THEN a ELSE b

-----------------------------------------------------------------------------
(* Reading the tables.                                                     *)

Expired(c) == entries[c].left = 0

IsOpen(u) == uploads[u] # None /\ uploads[u].claim = None
OpenUploads == {u \in Upload : IsOpen(u)}

\* A claim or id is 16 random bytes, so a new one is one nothing refers to.
FreshClaim(c) ==
    /\ entries[c] = None /\ bin[c] = None
    /\ c \notin sweep.claims
    /\ \A r \in Request : req[r].claim # c
    /\ \A u \in Upload : uploads[u] # None => uploads[u].claim # c
FreshUpload(u) ==
    /\ uploads[u] = None /\ part[u] = None
    /\ u \notin sweep.ids
    /\ \A r \in Request : req[r].up # u

\* The AppendGuard: held by the request, dropped with it.
Busy(u) == \E r \in Request :
    req[r].up = u /\ req[r].op \in {"append", "commit", "renamed", "inserted"}

-----------------------------------------------------------------------------
(* Steps shared by several operations.                                     *)

Finish(r) == req' = [req EXCEPT ![r] = Idle]

\* Mailbox::delete: the file, then the row, both under the lock.
Delete(c, why) ==
    /\ bin' = [bin EXCEPT ![c] = None]
    /\ entries' = [entries EXCEPT ![c] = None]
    /\ fate' = [fate EXCEPT ![c] = why]

\* Mailbox::commit_deposit: clamp, then insert the row.
GrantTtl(ttl) == Min2(ttl, MaxTtl)
GrantMaxUnclamped(max) == max                                     \* mutant
GrantMax(max) == IF max = 0 THEN 1 ELSE Min2(max, MaxDownloadsCap)

CommitDeposit(c, ttl, max, token, size) ==
    /\ entries' = [entries EXCEPT ![c] =
            [left |-> GrantTtl(ttl), max |-> GrantMax(max),
             downloads |-> 0, token |-> token, size |-> size]]
    /\ fate' = [fate EXCEPT ![c] = "live"]

\* The two bookkeeping fields of a claim when its name is first used.
NewHistory(c) ==
    /\ spent' = [spent EXCEPT ![c] = 0]
    /\ fate' = [fate EXCEPT ![c] = "none"]

Spend(c) == spent' = [spent EXCEPT ![c] = @ + 1]

-----------------------------------------------------------------------------
(* POST /v1/deposit: create the file, stream into it, insert the row.      *)

DepositStart(r, c) ==
    /\ req[r] = Idle
    /\ FreshClaim(c)
    /\ bin' = [bin EXCEPT ![c] = [age |-> 0, len |-> 0]]
    /\ req' = [req EXCEPT ![r] = Doing("deposit", c, None, 0, FALSE)]
    /\ NewHistory(c)
    /\ UNCHANGED <<entries, uploads, part, sweep, crashes>>

\* One chunk of the body within the per-blob cap.  The handle stays good when
\* the file has been unlinked under it, so `len` moves with or without a file.
DepositChunk(r) ==
    LET c == req[r].claim IN
    /\ req[r].op = "deposit"
    /\ req[r].len < MaxBlob
    /\ req' = [req EXCEPT ![r].len = @ + 1]
    /\ bin' = [bin EXCEPT ![c] =
            IF @ = None THEN None ELSE [age |-> 0, len |-> @.len + 1]]
    /\ UNCHANGED <<entries, uploads, part, sweep, crashes, spent, fate>>

\* The body ends and the row goes in.
DepositCommit(r, ttl, max, token) ==
    /\ req[r].op = "deposit"
    /\ CommitDeposit(req[r].claim, ttl, max, token, req[r].len)
    /\ Finish(r)
    /\ UNCHANGED <<bin, uploads, part, sweep, crashes, spent>>

\* A read or write error, a body over a cap, an INSERT that fails: the file
\* goes and the request answers an error.
DepositAbort(r) ==
    /\ req[r].op = "deposit"
    /\ bin' = [bin EXCEPT ![req[r].claim] = None]
    /\ Finish(r)
    /\ UNCHANGED <<entries, uploads, part, sweep, crashes, spent, fate>>

\* The connection closes and the handler's future is dropped at an await: no
\* clean-up runs, and a file the request was writing stays.
Cancel(r) ==
    /\ req[r].op \in {"deposit", "fetch", "held", "append"}
    /\ Finish(r)
    /\ UNCHANGED <<entries, bin, uploads, part, sweep, crashes, spent, fate>>

-----------------------------------------------------------------------------
(* GET /v1/fetch/{claim}, with and without hold, and its ack.              *)

Servable(c) == /\ entries[c] # None
               /\ ~Expired(c)
               /\ entries[c].downloads < entries[c].max

LastDownloadLate(c) == entries[c].downloads >= entries[c].max     \* mutant
LastDownload(c) == entries[c].downloads + 1 >= entries[c].max

\* Expired, or out of downloads: deleted where the fetch finds it.
FetchRefuse(c) ==
    /\ entries[c] # None
    /\ ~Servable(c)
    /\ Delete(c, "expired")
    /\ UNCHANGED <<uploads, part, req, sweep, crashes, spent>>

\* fetch_plan: the download is spent now; the last one takes the row with it
\* and leaves the file to the request.
FetchPlan(r, c) ==
    /\ req[r] = Idle
    /\ Servable(c)
    /\ IF LastDownload(c)
       THEN /\ entries' = [entries EXCEPT ![c] = None]
            /\ fate' = [fate EXCEPT ![c] = "spent"]
            /\ req' = [req EXCEPT ![r] = Doing("fetch", c, None, 0, TRUE)]
       ELSE /\ entries' = [entries EXCEPT ![c].downloads = @ + 1]
            /\ req' = [req EXCEPT ![r] = Doing("fetch", c, None, 0, FALSE)]
            /\ UNCHANGED fate
    /\ Spend(c)
    /\ UNCHANGED <<bin, uploads, part, sweep, crashes>>

\* fetch_plan_held: the row is left exactly as it was.
FetchPlanHeld(r, c) ==
    /\ req[r] = Idle
    /\ Servable(c)
    /\ req' = [req EXCEPT ![r] = Doing("held", c, None, 0, FALSE)]
    /\ UNCHANGED <<entries, bin, uploads, part, sweep, crashes, spent, fate>>

\* The file is opened; a burned one is unlinked behind the open handle.  When
\* there is no file the request answers 500 and removes nothing.
FetchOpen(r) ==
    /\ req[r].op \in {"fetch", "held"}
    /\ bin' = [bin EXCEPT ![req[r].claim] = IF req[r].burn THEN None ELSE @]
    /\ Finish(r)
    /\ UNCHANGED <<entries, uploads, part, sweep, crashes, spent, fate>>

\* ack_fetch: spends a download; whether one was held is not recorded.
AckFetch(c) ==
    /\ entries[c] # None
    /\ IF Expired(c) \/ LastDownload(c)
       THEN /\ Delete(c, IF Expired(c) THEN "expired" ELSE "spent")
       ELSE /\ entries' = [entries EXCEPT ![c].downloads = @ + 1]
            /\ UNCHANGED <<bin, fate>>
    /\ Spend(c)
    /\ UNCHANGED <<uploads, part, req, sweep, crashes>>

\* DELETE of an entry with the token whose hash the deposit recorded.
Revoke(c, token) ==
    /\ entries[c] # None
    /\ entries[c].token = token
    /\ Delete(c, "revoked")
    /\ UNCHANGED <<uploads, part, req, sweep, crashes, spent>>

-----------------------------------------------------------------------------
(* Upload sessions: open, append, commit, abort.                           *)

\* The TTL, the download budget and the revoke hash are columns of the row
\* that only commit_upload reads; they are chosen there.
OpenUpload(u, length) ==
    /\ FreshUpload(u)
    /\ Cardinality(OpenUploads) < MaxOpenUploads
    /\ part' = [part EXCEPT ![u] = [age |-> 0, len |-> 0]]
    /\ uploads' = [uploads EXCEPT ![u] =
            [left |-> UploadIdle, length |-> length, claim |-> None]]
    /\ UNCHANGED <<entries, bin, req, sweep, crashes, spent, fate>>

\* upload_info of a session not committed: there, not idle, with its file.
Resumable(u) == IsOpen(u) /\ uploads[u].left > 0 /\ part[u] # None

Received(u) == Min2(part[u].len, uploads[u].length)

CompleteUnchecked(u) == TRUE                                      \* mutant
Complete(u) == Received(u) = uploads[u].length

\* begin_append, upload_info and the offset check.
AppendBegin(r, u) ==
    /\ req[r] = Idle
    /\ ~Busy(u)
    /\ Resumable(u)
    /\ req' = [req EXCEPT ![r] = Doing("append", None, u, Received(u), FALSE)]
    /\ UNCHANGED <<entries, bin, uploads, part, sweep, crashes, spent, fate>>

RoomPastLength(r) == req[r].len <= uploads[req[r].up].length      \* mutant
Room(r) == req[r].len < uploads[req[r].up].length

AppendChunk(r) ==
    LET u == req[r].up IN
    /\ req[r].op = "append"
    /\ Room(r)
    /\ req' = [req EXCEPT ![r].len = @ + 1]
    /\ part' = [part EXCEPT ![u] =
            IF @ = None THEN None ELSE [age |-> 0, len |-> @.len + 1]]
    /\ UNCHANGED <<entries, bin, uploads, sweep, crashes, spent, fate>>

\* The body ends or breaks off: what landed is kept, and the deadline moves.
AppendEnd(r) ==
    LET u == req[r].up IN
    /\ req[r].op = "append"
    /\ uploads' = [uploads EXCEPT ![u] =
            IF IsOpen(u) THEN [@ EXCEPT !.left = UploadIdle] ELSE @]
    /\ Finish(r)
    /\ UNCHANGED <<entries, bin, part, sweep, crashes, spent, fate>>

\* commit_upload up to the rename.  A session already committed answers with
\* its claim and an incomplete one with its offset; neither changes anything.
\* PromptClient bounds how long a complete file waits for its commit.
PromptClient(u) == part[u].age <= MaxWait

CommitBegin(r, u) ==
    /\ req[r] = Idle
    /\ ~Busy(u)
    /\ Resumable(u)
    /\ Complete(u)
    /\ PromptClient(u)
    /\ req' = [req EXCEPT ![r] = Doing("commit", None, u, 0, FALSE)]
    /\ UNCHANGED <<entries, bin, uploads, part, sweep, crashes, spent, fate>>

\* A rename keeps the mtime: the blob is as old as its last byte.
CommitRename(r, c) ==
    LET u == req[r].up IN
    /\ req[r].op = "commit"
    /\ FreshClaim(c)
    /\ part[u] # None
    /\ bin' = [bin EXCEPT ![c] = part[u]]
    /\ part' = [part EXCEPT ![u] = None]
    /\ req' = [req EXCEPT ![r] = Doing("renamed", c, u, 0, FALSE)]
    /\ NewHistory(c)
    /\ UNCHANGED <<entries, uploads, sweep, crashes>>

CommitInsert(r, ttl, max, token) ==
    /\ req[r].op = "renamed"
    /\ CommitDeposit(req[r].claim, ttl, max, token, uploads[req[r].up].length)
    /\ req' = [req EXCEPT ![r].op = "inserted"]
    /\ UNCHANGED <<bin, uploads, part, sweep, crashes, spent>>

CommitRenameFails(r) ==
    /\ req[r].op = "commit"
    /\ Finish(r)
    /\ UNCHANGED <<entries, bin, uploads, part, sweep, crashes, spent, fate>>

\* The INSERT fails: the file goes back where the session expects it.
CommitInsertFails(r) ==
    LET c == req[r].claim IN
    /\ req[r].op = "renamed"
    /\ part' = [part EXCEPT ![req[r].up] = bin[c]]
    /\ bin' = [bin EXCEPT ![c] = None]
    /\ Finish(r)
    /\ UNCHANGED <<entries, uploads, sweep, crashes, spent, fate>>

\* The session is marked committed, in a statement of its own.
CommitMemo(r) ==
    LET u == req[r].up IN
    /\ req[r].op = "inserted"
    /\ uploads' = [uploads EXCEPT ![u] = IF @ = None THEN None ELSE
            [left |-> CommittedGrace, length |-> @.length,
             claim |-> req[r].claim]]
    /\ Finish(r)
    /\ UNCHANGED <<entries, bin, part, sweep, crashes, spent, fate>>

CommitMemoFails(r) ==
    /\ req[r].op = "inserted"
    /\ Finish(r)
    /\ UNCHANGED <<entries, bin, uploads, part, sweep, crashes, spent, fate>>

\* A committed session only loses its memo.
AbortUpload(u) ==
    /\ ~Busy(u)
    /\ uploads[u] # None
    /\ part' = [part EXCEPT ![u] = IF IsOpen(u) THEN None ELSE @]
    /\ uploads' = [uploads EXCEPT ![u] = None]
    /\ UNCHANGED <<entries, bin, req, sweep, crashes, spent, fate>>

-----------------------------------------------------------------------------
(* The reaper's minute tick and the hourly sweep.                          *)

ReapEarly == {c \in Claim : entries[c] # None /\ entries[c].left <= 1} \* mutant
ReapWithFile ==                                                   \* mutant
    {c \in Claim : entries[c] # None /\ Expired(c) /\ bin[c] # None}
ExpiredEntries == {c \in Claim : entries[c] # None /\ Expired(c)}

Reap ==
    /\ ExpiredEntries # {}
    /\ bin' = [c \in Claim |-> IF c \in ExpiredEntries THEN None ELSE bin[c]]
    /\ entries' =
         [c \in Claim |-> IF c \in ExpiredEntries THEN None ELSE entries[c]]
    /\ fate' =
         [c \in Claim |-> IF c \in ExpiredEntries THEN "expired" ELSE fate[c]]
    /\ UNCHANGED <<uploads, part, req, sweep, crashes, spent>>

\* An upload a request is working on is left for the next pass.
ReapableBusy(u) == uploads[u] # None /\ uploads[u].left = 0       \* mutant
ReapableMemo(u) ==                                                \* mutant
    uploads[u] # None /\ uploads[u].left = 0 /\ uploads[u].claim # None
Reapable(u) == uploads[u] # None /\ uploads[u].left = 0 /\ ~Busy(u)

UploadReap ==
    /\ \E u \in Upload : Reapable(u)
    /\ part' =
         [u \in Upload |-> IF Reapable(u) /\ IsOpen(u) THEN None ELSE part[u]]
    /\ uploads' =
         [u \in Upload |-> IF Reapable(u) THEN None ELSE uploads[u]]
    /\ UNCHANGED <<entries, bin, req, sweep, crashes, spent, fate>>

\* claims(), then open_upload_ids() and the clock, then one file at a time.
SweepClaims ==
    /\ sweep.pc = "idle"
    /\ sweep' = [pc |-> "ids", claims |-> {c \in Claim : entries[c] # None},
                 ids |-> {}, elapsed |-> 0]
    /\ UNCHANGED <<entries, bin, uploads, part, req, crashes, spent, fate>>

SweepIds ==
    /\ sweep.pc = "ids"
    /\ sweep' = [pc |-> "walk", claims |-> sweep.claims, ids |-> OpenUploads,
                 elapsed |-> 0]
    /\ UNCHANGED <<entries, bin, uploads, part, req, crashes, spent, fate>>

\* Untouched for Grace when the sweep read the clock.
OldAnyAge(file) == file # None                                    \* mutant
Old(file) == file # None /\ file.age >= Grace + sweep.elapsed

UnclaimedNever(c) == FALSE                                        \* mutant
Unclaimed(c) == Old(bin[c]) /\ c \notin sweep.claims
UnownedAnyId(u) == Old(part[u])                                   \* mutant
Unowned(u) == Old(part[u]) /\ u \notin sweep.ids

SweepBin(c) ==
    /\ sweep.pc = "walk"
    /\ Unclaimed(c)
    /\ bin' = [bin EXCEPT ![c] = None]
    /\ UNCHANGED <<entries, uploads, part, req, sweep, crashes, spent, fate>>

SweepPart(u) ==
    /\ sweep.pc = "walk"
    /\ Unowned(u)
    /\ part' = [part EXCEPT ![u] = None]
    /\ UNCHANGED <<entries, bin, uploads, req, sweep, crashes, spent, fate>>

\* The walk visits every file the directory held when it began; one renamed
\* into place meanwhile may be visited or missed.
SweepDone ==
    /\ sweep.pc = "walk"
    /\ \A c \in Claim : Unclaimed(c) => entries[c] # None
    /\ \A u \in Upload : ~Unowned(u)
    /\ sweep' = SweepIdle
    /\ UNCHANGED <<entries, bin, uploads, part, req, crashes, spent, fate>>

-----------------------------------------------------------------------------
(* The clock and the crash.                                                *)

Older(file) == IF file = None THEN None
               ELSE [file EXCEPT !.age = Min2(@ + 1, AgeCap)]
Sooner(row) == IF row = None THEN None
               ELSE [row EXCEPT !.left = IF @ = 0 THEN 0 ELSE @ - 1]

\* How long a file that no row names yet may lie untouched: between two chunks
\* of a body, and up to and during a commit.
Patience(r) == IF req[r].op = "deposit" THEN MaxStall ELSE MaxWait
PendingFiles(r) ==
    {bin[c] : c \in {d \in Claim : req[r].op \in {"deposit", "renamed"}
                                   /\ req[r].claim = d}}
    \cup {part[u] : u \in {v \in Upload : req[r].op = "commit"
                                        /\ req[r].up = v}}

\* Requests keep to their Patience, and neither half of the sweep takes longer
\* than MaxWalk.
InTime ==
    /\ \A r \in Request : \A f \in PendingFiles(r) \ {None} :
            f.age < Patience(r)
    /\ sweep.pc # "idle" => sweep.elapsed < MaxWalk

Tick ==
    /\ InTime
    /\ entries' = [c \in Claim |-> Sooner(entries[c])]
    /\ bin' = [c \in Claim |-> Older(bin[c])]
    /\ uploads' = [u \in Upload |-> Sooner(uploads[u])]
    /\ part' = [u \in Upload |-> Older(part[u])]
    /\ sweep' = IF sweep.pc = "idle" THEN sweep
                ELSE [sweep EXCEPT !.elapsed = @ + 1]
    /\ UNCHANGED <<req, crashes, spent, fate>>

Die ==
    /\ crashes < MaxCrashes
    /\ crashes' = crashes + 1
    /\ req' = [r \in Request |-> Idle]
    /\ sweep' = SweepIdle

Crash ==
    /\ Die
    /\ UNCHANGED <<entries, bin, uploads, part, spent, fate>>

\* The process dies inside Mailbox::delete, between the file and the row.
CrashInDelete(c) ==
    /\ entries[c] # None
    /\ \/ Expired(c)
       \/ entries[c].token # None
       \/ LastDownload(c)
    /\ bin' = [bin EXCEPT ![c] = None]
    /\ fate' = [fate EXCEPT ![c] = "cut"]
    /\ Die
    /\ UNCHANGED <<entries, uploads, part, spent>>

\* The process dies inside open_upload, between the file and the row.
CrashInOpen(u) ==
    /\ FreshUpload(u)
    /\ part' = [part EXCEPT ![u] = [age |-> 0, len |-> 0]]
    /\ Die
    /\ UNCHANGED <<entries, bin, uploads, spent, fate>>

\* The process dies inside abort_upload or upload_reap, likewise.
CrashInDrop(u) ==
    /\ IsOpen(u) /\ ~Busy(u)
    /\ part' = [part EXCEPT ![u] = None]
    /\ Die
    /\ UNCHANGED <<entries, bin, uploads, spent, fate>>

-----------------------------------------------------------------------------
Init ==
    /\ entries = [c \in Claim |-> None]
    /\ bin = [c \in Claim |-> None]
    /\ uploads = [u \in Upload |-> None]
    /\ part = [u \in Upload |-> None]
    /\ req = [r \in Request |-> Idle]
    /\ sweep = SweepIdle
    /\ crashes = 0
    /\ spent = [c \in Claim |-> 0]
    /\ fate = [c \in Claim |-> "none"]

\* What a depositor asks for, one past each clamp included.
AskedTtl == 0..MaxTtl + 1
AskedMax == 0..MaxDownloadsCap + 1

DepositNext(r) ==
    \/ \E c \in Claim : DepositStart(r, c)
    \/ DepositChunk(r)
    \/ \E ttl \in AskedTtl, max \in AskedMax, token \in Token \cup {None} :
            DepositCommit(r, ttl, max, token)
    \/ DepositAbort(r)
    \/ Cancel(r)

FetchNext(r) ==
    \/ \E c \in Claim : FetchPlan(r, c) \/ FetchPlanHeld(r, c)
    \/ FetchOpen(r)

EntryNext(c) ==
    \/ FetchRefuse(c)
    \/ AckFetch(c)
    \/ \E token \in Token : Revoke(c, token)
    \/ CrashInDelete(c)

UploadNext(r) ==
    \/ \E u \in Upload : AppendBegin(r, u) \/ CommitBegin(r, u)
    \/ AppendChunk(r)
    \/ AppendEnd(r)
    \/ \E c \in Claim : CommitRename(r, c)
    \/ \E ttl \in AskedTtl, max \in AskedMax, token \in Token \cup {None} :
            CommitInsert(r, ttl, max, token)
    \/ CommitRenameFails(r)
    \/ CommitInsertFails(r)
    \/ CommitMemo(r)
    \/ CommitMemoFails(r)

SessionNext(u) ==
    \/ \E length \in 0..MaxBlob : OpenUpload(u, length)
    \/ AbortUpload(u)
    \/ CrashInOpen(u)
    \/ CrashInDrop(u)

SweepNext ==
    \/ SweepClaims
    \/ SweepIds
    \/ \E c \in Claim : SweepBin(c)
    \/ \E u \in Upload : SweepPart(u)
    \/ SweepDone

Next ==
    \/ \E r \in Request : DepositNext(r) \/ FetchNext(r) \/ UploadNext(r)
    \/ \E c \in Claim : EntryNext(c)
    \/ \E u \in Upload : SessionNext(u)
    \/ Reap
    \/ UploadReap
    \/ SweepNext
    \/ Tick
    \/ Crash

Spec == Init /\ [][Next]_vars

-----------------------------------------------------------------------------
(* What the mailbox promises.                                              *)

\* Every table, file, request and counter stays within its columns' ranges:
\* commit_deposit's clamps, the per-blob cap and the download accounting are
\* what keep them there.
TypeOK ==
    /\ entries \in [Claim -> EntryRow \cup {None}]
    /\ bin \in [Claim -> File \cup {None}]
    /\ uploads \in [Upload -> UploadRow \cup {None}]
    /\ part \in [Upload -> File \cup {None}]
    /\ req \in [Request -> Req]
    /\ sweep \in Sweep
    /\ crashes \in 0..MaxCrashes
    /\ spent \in [Claim -> 0..MaxDownloadsCap]
    /\ fate \in [Claim -> Fate]

\* A row the relay would serve has its whole ciphertext on disk, of the length
\* the row was charged for: neither the sweep, nor the rename of a commit, nor
\* an aborted or cancelled request takes the file from under it.  Only a crash
\* inside Mailbox::delete may, and then on an entry that was being deleted.
BlobBacked ==
    \A c \in Claim : entries[c] # None /\ fate[c] # "cut" =>
        bin[c] # None /\ bin[c].len = entries[c].size

\* The `downloads` column is the number of downloads ever spent on the claim,
\* by plain fetches and by acks, and a row whose budget is used up is gone: the
\* budget is never overspent, whatever fetches, acks and crashes interleave.
DownloadsAccounted ==
    \A c \in Claim : entries[c] # None =>
        /\ entries[c].downloads = spent[c]
        /\ spent[c] < entries[c].max

\* A request that holds the AppendGuard works alone on a session that is still
\* open, and until the rename on a file that is still there: neither the
\* reaper, nor an abort, nor the sweep, nor another append or commit gets in.
GuardHolds ==
    \A r \in Request :
        req[r].op \in {"append", "commit", "renamed", "inserted"} =>
            /\ IsOpen(req[r].up)
            /\ req[r].op \in {"append", "commit"} => part[req[r].up] # None
            /\ \A q \in Request \ {r} : req[q].up # req[r].up

\* An entry that has not expired disappears only when its sender revokes it or
\* when its last download has been spent.  A held fetch, a sweep, a crash or a
\* reaper pass never costs the recipient the deposit.
LeavesForAReason ==
    [][\A c \in Claim :
        entries[c] # None /\ entries'[c] = None /\ ~Expired(c) =>
            \/ fate'[c] = "revoked"
            \/ spent'[c] = entries[c].max]_vars

\* What a session has received is never taken back while it stays open, except
\* by its own commit moving the file, or by a crash while it was dropped: the
\* offset a client was told to resume from stays good across appends, broken
\* bodies, sweeps and crashes.
OffsetNeverShrinks ==
    [][\A u \in Upload :
        /\ IsOpen(u) /\ part[u] # None
        /\ uploads'[u] # None
        => \/ part'[u] # None /\ part'[u].len >= part[u].len
           \/ \E r \in Request : req'[r].op = "renamed" /\ req'[r].up = u
           \/ CrashInDrop(u)]_vars

\* The requests in progress end, time passes, and the reaper and the sweep of
\* main.rs come round again.
RequestEnds(r) ==
    DepositAbort(r) \/ Cancel(r) \/ FetchOpen(r) \/ AppendEnd(r)
        \/ CommitRenameFails(r) \/ CommitInsertFails(r) \/ CommitMemo(r)

Fairness ==
    /\ \A r \in Request : WF_vars(RequestEnds(r))
    /\ []<><<Tick>>_vars
    /\ WF_vars(Reap)
    /\ WF_vars(UploadReap)
    /\ WF_vars(SweepNext)

FairSpec == Spec /\ Fairness

Stranded(c) == bin[c] # None /\ entries[c] = None
Stray(u) == part[u] # None /\ uploads[u] = None

\* No ciphertext without a row stays on disk for good: what a crash, a dropped
\* connection or a fetch that never opened its file leaves behind is found by
\* the sweep (or becomes an entry, when the request is still under way).
StrandedFreed ==
    /\ \A c \in Claim : Stranded(c) ~> ~Stranded(c)
    /\ \A u \in Upload : Stray(u) ~> ~Stray(u)

\* No entry is immortal: the TTL ends every one, fetched or not.
EntriesEnd == \A c \in Claim : entries[c] # None ~> entries[c] = None

\* A session its client has left alone gives its reservation back.
ReservationsEnd ==
    \A u \in Upload : []<>(uploads[u] = None)
        \/ []<><<\E r \in Request : req[r].up = u /\ AppendEnd(r)>>_vars

\* Nothing stays on the relay's disk for good: stranded files, entries and
\* reservations all end (main.rs, the hourly task).
StorageFreed == StrandedFreed /\ EntriesEnd /\ ReservationsEnd

-----------------------------------------------------------------------------
(* What comments in the code say and the code does not keep to.            *)

\* fetch_plan's download is spent before the file is opened, and a download
\* spent is one served, unless the entry expired, was revoked or was being
\* deleted in a crash meanwhile.
SpentIsServed ==
    \A r \in Request : req[r].op = "fetch" /\ bin[req[r].claim] = None =>
        fate[req[r].claim] \in {"expired", "revoked", "cut"}

\* A session that nobody is committing either remembers the claim it became or
\* still has its file to commit: asking again never ends in an error.
CommitAnswersAgain ==
    \A u \in Upload : IsOpen(u) /\ ~Busy(u) => part[u] # None

=============================================================================
