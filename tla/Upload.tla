------------------------------- MODULE Upload -------------------------------
(***************************************************************************)
(* One file put on a relay: a browser link, or a mailbox deposit with its  *)
(* offer.  The client opens a session, appends segments from where the     *)
(* relay says it stands, and commits; it retries blips itself, waits out   *)
(* an outage, and carries a link on after a restart.  A request it gave up *)
(* on may still be draining at the relay.                                  *)
(*                                                                         *)
(* A byte is <<seal, version, index>>: what it was sealed with, the        *)
(* version of the file it was read from, and its place in the ciphertext.  *)
(* Versions only grow; MaxFaults bounds drops, refusals, lapses, edits,    *)
(* crashes and cancels.                                                    *)
(***************************************************************************)
EXTENDS Naturals, Sequences, FiniteSets, FiniteSetsExt

CONSTANTS
    Kinds,              \* a subset of {"link", "deposit"}
    Sizes,              \* Sizes[v]: ciphertext length of the file's version v
    SEGMENT_BYTES,
    MAX_QUIET_RETRIES,
    MaxRestarts,
    MaxSeals, MaxUps, MaxClaims, MaxFaults,
    None

ASSUME UploadConstants ==
    /\ Kinds # {} /\ Kinds \subseteq {"link", "deposit"}
    /\ {SEGMENT_BYTES, MaxSeals, MaxUps, MaxClaims} \subseteq Nat \ {0}
    /\ {MAX_QUIET_RETRIES, MaxRestarts, MaxFaults} \subseteq Nat
    /\ Sizes \in Seq(Nat \ {0}) /\ Sizes # <<>>

Ups == 1..MaxUps
Claims == 1..MaxClaims
Over == {"done", "failed", "cancelled"}
Steps == Over \cup {"start", "open", "status", "send", "sent", "single", "offer", "waiting", "down"}

\* What the variables hold: a SealedLayout, a Resumable, an UploadRecord, a row of
\* the relay's uploads, a stored entry, the body of an append.
Seal == [n : Nat, size : Nat]
Byte == Nat \X Nat \X Nat
Resumable == [seal : Seal, session : Ups \cup {None}]
UploadRecord == [seal : Seal, session : Ups \cup {None}, stamp : Nat]
UploadRow == [seal : Seal, bytes : Seq(Byte), claim : Claims \cup {None}]
Entry == [seal : Seal, bytes : Seq(Byte)]
Body == [up : Ups, next : Nat, live : BOOLEAN, v : Nat, to : Nat]

\* None is none of the things it stands in for.
ASSUME UploadNone ==
    /\ None \notin Ups \cup Claims
    /\ None \notin Resumable \cup UploadRecord \cup UploadRow \cup Entry \cup Body

VARIABLES
    kind,
    file,      \* the version on disk
    row,       \* the transfer: where it is, and upload's counters
    mem, disk, \* its Resumable, and the UploadRecord beside it
    ups,       \* the relay's upload sessions
    flight,    \* the append the relay is handling
    entries,   \* the relay's entries, by claim
    told,      \* the claim the user, or the recipient, was given
    got,       \* the one who collects it
    burnt,     \* the entry a download spent (history)
    made, faults

client == <<kind, row, mem, disk>>
relay == <<ups, flight, entries>>
reader == <<got, burnt>>
vars == <<client, file, relay, told, reader, made, faults>>

Fault == faults < MaxFaults /\ faults' = faults + 1

\* Versions differ in size or only in content.
Fresh(v) == [n |-> made.seal + 1, size |-> Sizes[v]]
CanSeal == made.seal < MaxSeals
SealMade == made' = [made EXCEPT !.seal = @ + 1]

Init ==
    /\ kind \in Kinds /\ file = 1
    /\ LET seal == [n |-> 1, size |-> Sizes[1]]
       IN  /\ mem = IF kind = "link" THEN [seal |-> seal, session |-> None] ELSE None
           /\ disk = IF kind = "link" THEN [seal |-> seal, session |-> None, stamp |-> 1] ELSE None
    /\ made = [seal |-> IF kind = "link" THEN 1 ELSE 0, up |-> 0, claim |-> 0]
    /\ row = [st |-> "start", quiet |-> 0, restarts |-> 0, pos |-> 0, claim |-> None]
    /\ ups = [u \in Ups |-> None] /\ flight = None /\ entries = [c \in Claims |-> None]
    /\ told = None /\ got = "none" /\ burnt = None /\ faults = 0

-----------------------------------------------------------------------------
(* The relay's sessions, as the handlers answer for them.                  *)

Received(u) == IF ups[u].claim # None THEN ups[u].seal.size ELSE Len(ups[u].bytes)

Busy(u) == flight # None /\ flight.up = u

Abort(u) == IF u = None \/ Busy(u) THEN ups ELSE [ups EXCEPT ![u] = None]

-----------------------------------------------------------------------------
(* What the record keeps.                                                  *)

\* persist_upload: only for a link here, stamped with the file as it is now.
Persisted(r) ==
    IF kind # "link" THEN None
    ELSE [seal |-> r.seal, session |-> r.session, stamp |-> file]

Remember(r) == mem' = r /\ disk' = Persisted(r)

SessionChanged(s) == Remember([mem EXCEPT !.session = s])

\* forget, with the session abandoned or not; the DELETE may not get there.
Forget == mem' = None /\ disk' = None

Abandon ==
    \/ mem = None /\ UNCHANGED ups
    \/ mem # None /\ ups' \in {ups, Abort(mem.session)}

-----------------------------------------------------------------------------
(* How an attempt goes on or ends.                                         *)

At(st) == row' = [row EXCEPT !.st = st]

Waits == row' = [row EXCEPT !.st = "waiting", !.quiet = 0, !.restarts = 0, !.pos = 0]

\* One more failure with no progress: again from the session's offset, or wait.
Quiet(again) ==
    IF row.quiet + 1 > MAX_QUIET_RETRIES THEN Waits
    ELSE row' = [row EXCEPT !.st = again, !.quiet = @ + 1, !.pos = 0]

Ends(how) ==
    row' = [row EXCEPT !.st = how, !.quiet = 0, !.restarts = 0, !.pos = 0]

\* mutant: the dead session is kept
KeepsSession ==
    /\ UNCHANGED <<mem, disk>>
    /\ IF row.restarts + 1 > MaxRestarts THEN Waits
       ELSE row' = [row EXCEPT !.st = "status", !.restarts = @ + 1, !.pos = 0]

\* The relay no longer knows the session.
Restarted ==
    /\ SessionChanged(None)
    /\ IF row.restarts + 1 > MaxRestarts THEN Waits
       ELSE row' = [row EXCEPT !.st = "open", !.restarts = @ + 1, !.pos = 0]

\* mutant: a deposit is done once stored, its offer not posted
DoneUntold(c) == Forget /\ UNCHANGED told /\ Ends("done")

\* A link is told of at once; a deposit's recipient has to be sent the offer.
Committed(c) ==
    /\ Forget
    /\ IF kind = "link" THEN told' = c /\ Ends("done")
       ELSE UNCHANGED told /\ row' = [row EXCEPT !.st = "offer", !.claim = c]

-----------------------------------------------------------------------------
(* An attempt: the seal, the question whether the relay has sessions, and  *)
(* then the session the record names or a new one.                         *)

SupportsUpload(b) == \/ b /\ UNCHANGED faults
                     \/ ~b /\ Fault     \* no answer reads as no

PathAssumes(b, r) == IF ~b THEN "single" ELSE "status" \* mutant

Path(b, r) == IF ~b THEN "single" ELSE IF r.session = None THEN "open" ELSE "status"

\* deposit_link_with: the file must be the size the seal was made at.
BeginLink ==
    /\ row.st = "start" /\ kind = "link"
    /\ IF Sizes[file] # mem.seal.size
       THEN Ends("failed") /\ Abandon /\ Forget /\ UNCHANGED faults
       ELSE /\ \E b \in BOOLEAN : SupportsUpload(b) /\ At(Path(b, mem))
            /\ UNCHANGED <<mem, disk, ups>>
    /\ UNCHANGED <<kind, file, flight, entries, told, reader, made>>

\* mailbox_seal: the one it has at this size, or a fresh one.
BeginDeposit ==
    /\ row.st = "start" /\ kind = "deposit"
    /\ \E b \in BOOLEAN : SupportsUpload(b) /\
        IF mem # None /\ mem.seal.size = Sizes[file]
        THEN At(Path(b, mem)) /\ UNCHANGED <<mem, disk, ups, made>>
        ELSE /\ CanSeal /\ SealMade /\ Abandon
             /\ Remember([seal |-> Fresh(file), session |-> None])
             /\ At(Path(b, [session |-> None]))
    /\ UNCHANGED <<kind, file, flight, entries, told, reader>>

OpenedAt(u) ==
    /\ u = made.up + 1 /\ u \in Ups /\ made' = [made EXCEPT !.up = u]
    /\ ups' = [ups EXCEPT ![u] = [seal |-> mem.seal, bytes |-> <<>>, claim |-> None]]

Open(u) ==
    /\ row.st = "open" /\ OpenedAt(u)
    /\ SessionChanged(u) /\ At("status")
    /\ UNCHANGED <<kind, file, flight, entries, told, reader, faults>>

\* The answer is lost, the session is there; or the request never arrived.
OpenLost(u) ==
    /\ row.st = "open" /\ Fault /\ Quiet("open")
    /\ OpenedAt(u) \/ UNCHANGED <<ups, made>>
    /\ UNCHANGED <<kind, mem, disk, file, flight, entries, told, reader>>

\* refusal: full for now, or final: too large, links off.
OpenRefused ==
    /\ row.st = "open" /\ Fault
    /\ \/ Waits /\ UNCHANGED <<mem, disk>>
       \/ Ends("failed") /\ Forget
    /\ UNCHANGED <<kind, file, relay, told, reader, made>>

Status ==
    /\ row.st = "status"
    /\ IF ups[mem.session] = None THEN Restarted
       ELSE /\ row' = [row EXCEPT !.st = "send", !.pos = Received(mem.session)]
            /\ UNCHANGED <<mem, disk>>
    /\ UNCHANGED <<kind, file, relay, told, reader, made, faults>>

StatusLost ==
    /\ row.st = "status" /\ Fault /\ Quiet("status")
    /\ UNCHANGED <<kind, mem, disk, file, relay, told, reader, made>>

Len0 == mem.seal.size

OffsetUnchecked(u) == TRUE \* mutant

OffsetMatches(u) == row.pos = Received(u)

\* PATCH, and the answers that take no byte: gone, busy, committed, another offset.
Send ==
    /\ row.st = "send" /\ row.pos < Len0
    /\ LET u == mem.session
       IN  IF ups[u] = None THEN Restarted /\ UNCHANGED flight
           ELSE /\ UNCHANGED <<mem, disk>>
                /\ IF Busy(u) THEN Quiet("status") /\ UNCHANGED flight
                   ELSE IF ~OffsetMatches(u) \/ ups[u].claim # None
                   THEN row' = [row EXCEPT !.pos = Received(u)] /\ UNCHANGED flight
                   ELSE /\ flight' = [up |-> u, next |-> row.pos + 1, live |-> TRUE,
                                      v |-> file, to |-> Min({row.pos + SEGMENT_BYTES, Len0})]
                        /\ At("sent")
    /\ UNCHANGED <<kind, file, ups, entries, told, reader, made, faults>>

\* Nobody waits for the answer any more; what was read of the file is on its way.
Detached ==
    flight' = IF flight = None \/ ~flight.live THEN flight
              ELSE [flight EXCEPT !.live = FALSE, !.v = file]

\* SealedLayout::stream, pulled by the socket; short of a shrunken file.
BodyArrives ==
    /\ flight # None /\ flight.next <= flight.to
    /\ flight.live => flight.next <= Sizes[file]
    /\ LET v == IF flight.live THEN file ELSE flight.v
       IN  ups' = [ups EXCEPT ![flight.up].bytes =
                    Append(@, <<ups[flight.up].seal.n, v, flight.next>>)]
    /\ flight' = [flight EXCEPT !.next = @ + 1]
    /\ UNCHANGED <<client, file, entries, told, reader, made, faults>>

BodyEnds ==
    /\ flight # None /\ flight.live /\ flight.next > flight.to
    /\ flight' = None
    /\ row' = [row EXCEPT !.st = "send", !.pos = Received(flight.up), !.quiet = 0]
    /\ UNCHANGED <<kind, mem, disk, file, ups, entries, told, reader, made, faults>>

\* The connection dies or stalls; the handler keeps draining for a while.
BodyBreaks ==
    /\ flight # None /\ flight.live /\ Fault
    /\ Detached /\ Quiet("status")
    /\ UNCHANGED <<kind, mem, disk, file, ups, entries, told, reader, made>>

\* take_fault: a local failure behind a broken body is final.
ReadFails ==
    /\ flight # None /\ flight.live /\ flight.next <= flight.to /\ flight.next > Sizes[file]
    /\ Detached /\ Ends("failed") /\ Abandon /\ Forget
    /\ UNCHANGED <<kind, file, entries, told, reader, made, faults>>

HandlerEnds ==
    /\ flight # None /\ ~flight.live /\ flight' = None
    /\ UNCHANGED <<client, file, ups, entries, told, reader, made, faults>>

Complete(u) == Received(u) = ups[u].seal.size

EntryMade(c, u, seal, bytes) ==
    /\ c = made.claim + 1 /\ c \in Claims /\ made' = [made EXCEPT !.claim = c]
    /\ entries' = [entries EXCEPT ![c] = [seal |-> seal, bytes |-> bytes]]

\* commit_upload: an upload already committed answers with the same claim.
CommitAt(c, u) ==
    IF ups[u].claim # None THEN c = ups[u].claim /\ UNCHANGED <<ups, entries, made>>
    ELSE /\ EntryMade(c, u, ups[u].seal, ups[u].bytes)
         /\ ups' = [ups EXCEPT ![u].claim = c, ![u].bytes = <<>>]

Commit(c) ==
    /\ row.st = "send" /\ row.pos >= Len0
    /\ ups[mem.session] # None /\ ~Busy(mem.session) /\ Complete(mem.session)
    /\ CommitAt(c, mem.session)
    /\ \/ Committed(c) /\ UNCHANGED faults
       \/ Fault /\ Quiet("status") /\ UNCHANGED <<mem, disk, told>>
    /\ UNCHANGED <<kind, file, flight, reader>>

CommitRefused ==
    /\ row.st = "send" /\ row.pos >= Len0
    /\ LET u == mem.session
       IN  IF ups[u] = None THEN Restarted
           ELSE /\ UNCHANGED <<mem, disk>>
                /\ \/ Busy(u) /\ Quiet("status")
                   \/ ~Busy(u) /\ ~Complete(u) /\ row' = [row EXCEPT !.pos = Received(u)]
    /\ UNCHANGED <<kind, file, relay, told, reader, made, faults>>

WholeFile == [i \in 1..Len0 |-> <<mem.seal.n, file, i>>]

\* The deposit as one request: stored and answered, stored unanswered, or neither.
Single(c) ==
    /\ row.st = "single" /\ Sizes[file] >= Len0
    /\ EntryMade(c, None, mem.seal, WholeFile)
    /\ \/ Committed(c) /\ UNCHANGED faults
       \/ Fault /\ Waits /\ UNCHANGED <<mem, disk, told>>
    /\ UNCHANGED <<kind, file, ups, flight, reader>>

SingleFails ==
    /\ row.st = "single"
    /\ \/ Fault /\ Waits /\ UNCHANGED <<mem, disk, ups>>
       \/ Sizes[file] < Len0 /\ Ends("failed") /\ Abandon /\ Forget /\ UNCHANGED faults
    /\ UNCHANGED <<kind, file, flight, entries, told, reader, made>>

PostOffer ==
    /\ row.st = "offer" /\ told' = row.claim /\ Ends("done")
    /\ UNCHANGED <<kind, mem, disk, file, relay, reader, made, faults>>

\* The deposit is done and its upload forgotten; the retry starts from the file.
OfferFails ==
    /\ row.st = "offer" /\ Fault
    /\ row' = [row EXCEPT !.st = "waiting", !.claim = None]
    /\ UNCHANGED <<kind, mem, disk, file, relay, told, reader, made>>

\* The pause of run_link and run_deposit.
Retry ==
    /\ row.st = "waiting" /\ At("start")
    /\ UNCHANGED <<kind, mem, disk, file, relay, told, reader, made, faults>>

Cancel ==
    /\ row.st \notin Over \cup {"down"} /\ Fault
    /\ Ends("cancelled") /\ Abandon /\ Forget /\ Detached
    /\ UNCHANGED <<kind, file, entries, told, reader, made>>

-----------------------------------------------------------------------------
(* A restart.  A deposit asked for does not come back; a link does.        *)

Crash ==
    /\ row.st \notin Over \cup {"down"} /\ Fault
    /\ mem' = None /\ Detached
    /\ Ends(IF kind = "link" THEN "down" ELSE "failed")
    /\ UNCHANGED <<kind, disk, file, ups, entries, told, reader, made>>

StampIgnored == TRUE \* mutant

StampMatches == disk.stamp = file

\* take_upload_record, then restore_link.
RestoreLink ==
    /\ row.st = "down" /\ At("start")
    /\ IF StampMatches
       THEN Remember([seal |-> disk.seal, session |-> disk.session]) /\ UNCHANGED <<ups, made>>
       ELSE /\ CanSeal /\ SealMade
            /\ Remember([seal |-> Fresh(file), session |-> None])
            /\ ups' \in {ups, Abort(disk.session)}
    /\ UNCHANGED <<kind, file, flight, entries, told, reader, faults>>

-----------------------------------------------------------------------------
(* What happens around it.                                                 *)

Edit ==
    /\ row.st \notin Over /\ file < Len(Sizes) /\ Fault /\ file' = file + 1
    /\ UNCHANGED <<client, relay, told, reader, made>>

\* upload_reap: idle past the deadline, or a memo past its grace; never while busy.
UploadReap(u) ==
    /\ ups[u] # None /\ ~Busy(u) /\ Fault /\ ups' = [ups EXCEPT ![u] = None]
    /\ UNCHANGED <<client, file, flight, entries, told, reader, made>>

Whole(e) == /\ Len(e.bytes) = e.seal.size
            /\ \A i \in 1..Len(e.bytes) : e.bytes[i][1] = e.seal.n /\ e.bytes[i][3] = i

Burn(c) == entries' = [entries EXCEPT ![c] = None] /\ burnt' = c

BurnsNow(c) == Burn(c) \* mutant

\* A deposit is fetched with hold=1; a link's page spends the download at once.
Serves(c) ==
    IF kind = "link" THEN Burn(c) ELSE UNCHANGED <<entries, burnt>>

Fetch ==
    /\ told # None /\ got = "none" /\ entries[told] # None
    /\ got' = IF Whole(entries[told]) THEN "pulling" ELSE "garbled"
    /\ Serves(told)
    /\ UNCHANGED <<client, file, ups, flight, told, made, faults>>

FetchBreaks ==
    /\ got = "pulling" /\ Fault /\ got' = "none"
    /\ UNCHANGED <<client, file, relay, told, burnt, made>>

\* Every byte on disk, then the ack, which may be lost.
FetchDone ==
    /\ got = "pulling" /\ got' = "held"
    /\ \/ kind = "deposit" /\ entries[told] # None /\ Burn(told) /\ UNCHANGED faults
       \/ kind = "link" /\ UNCHANGED <<entries, burnt, faults>>
       \/ Fault /\ UNCHANGED <<entries, burnt>>
    /\ UNCHANGED <<client, file, ups, flight, told, made>>

-----------------------------------------------------------------------------
Attempt ==
    \/ BeginLink \/ BeginDeposit
    \/ \E u \in Ups : Open(u)
    \/ Status \/ Send \/ BodyArrives \/ BodyEnds \/ ReadFails \/ HandlerEnds
    \/ \E c \in Claims : Commit(c) \/ Single(c)
    \/ CommitRefused \/ SingleFails \/ PostOffer \/ Retry

Next ==
    \/ Attempt
    \/ (\E u \in Ups : OpenLost(u) \/ UploadReap(u))
    \/ OpenRefused \/ StatusLost \/ BodyBreaks \/ OfferFails \/ Cancel
    \/ Crash \/ RestoreLink \/ Edit
    \/ Fetch \/ FetchBreaks \/ FetchDone

\* The upload's task and the relay's handlers run on their own.
Spec == Init /\ [][Next]_vars /\ WF_vars(Attempt) /\ WF_vars(HandlerEnds)

-----------------------------------------------------------------------------
(* Properties.                                                             *)

\* Types of the state; a segment waits on the handler that takes it, and a step
\* that asks about a session has one.
TypeOK ==
    /\ row.st \in Steps
    /\ row.st = "sent" <=> flight # None /\ flight.live
    /\ row.st \in {"status", "send", "sent"} => mem # None /\ mem.session \in Ups
    /\ row.quiet <= MAX_QUIET_RETRIES /\ row.restarts <= MaxRestarts
    /\ told # None => told \in Claims

\* A stored blob is its ciphertext, in order, under one key: no retry, late body or
\* stale offset makes the relay keep a byte twice or out of place.
BlobIsWhole == \A c \in Claims : entries[c] # None => Whole(entries[c])

\* A restart carries a session on only into the file its bytes were read from: two
\* versions never meet in a blob across a restart (UploadRecord's stamp).
RestartKeepsTheFile ==
    [][ row.st = "down" /\ row'.st = "start" /\ mem'.session # None
        => LET s == ups[mem'.session]
           IN  s # None => \A i \in 1..Len(s.bytes) : s.bytes[i][2] = file ]_vars

\* A sealed deposit is spent only by a receiver that holds all of it.
SpentIsHeld == kind = "deposit" /\ burnt # None => got = "held"

\* What the relay keeps is whole, and is given up only to who has it.
BlobsAreSound == TypeOK /\ BlobIsWhole /\ SpentIsHeld

\* An upload does not hang: it ends, or the daemon is down.
UploadEnds == <>(row.st \in Over \cup {"down"})

\* The resumable upload is a deposit: whole or not there, and told of only once stored.
D == INSTANCE Deposit WITH
    Claim <- Claims,
    copies <- {c \in Claims : entries[c] # None /\ Whole(entries[c])},
    outcome <- IF row.st \in Over THEN row.st ELSE "pending"

Refinement == D!Spec

\* The file must still be the one the seal was made for: resuming into a file that
\* changed would stitch two files together under one key (deposit_link_with,
\* deposit_offline_with).
ResumesTheSameFile ==
    [][ row.st = "start" /\ row'.st = "status"
        => LET s == ups[mem.session]
           IN  s # None => \A i \in 1..Len(s.bytes) : s.bytes[i][2] = file ]_vars

=============================================================================
