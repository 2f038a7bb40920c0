------------------------------ MODULE Receive ------------------------------
(***************************************************************************)
(* One chunked download at a time: recv_chunked's scheduling loop, its     *)
(* fetch tasks and their stage files, the output file with its .arvhave    *)
(* and .arvticket sidecars, and what the machine may do to them between    *)
(* two runs.                                                               *)
(*                                                                         *)
(* A file is N pieces.  On disk a piece is a hole, the bytes of some       *)
(* ticket, or rot.  A provider is the origin (it has every piece while its *)
(* control channel is up), the relay (what was backfilled), or a swarm     *)
(* peer (what its bitfield says); a liar serves bytes that fail the hash.  *)
(* Timers are choices: a cool-down or a back-off ends at any moment.       *)
(* MaxFaults bounds stalls, drops, full disks, crashes, stops asked by the *)
(* user and what befalls the files.                                        *)
(***************************************************************************)
EXTENDS Naturals, FiniteSets, FiniteSetsExt

CONSTANTS
    Ticket,            \* sends that suggest the same file name
    N,                 \* pieces in each
    Peer, Liars,
    Holds,             \* what the relay and each peer serve
    Dests,             \* what the caller passes: "file" (a path, as the daemon always
                       \* does), "dir" (an existing directory)
    Levels,            \* how a resume checks the partial: "length", "deep", "trust"
    ENDGAME_PIECES, ENDGAME_PARALLEL, Concurrency,
    Rates,             \* throughputs a provider may have been measured at; 0 is unmeasured
    Nothing,
    MaxFaults

Pieces == 1..N
Provider == {"origin", "relay"} \cup Peer

ASSUME ReceiveConstants ==
    /\ {N, ENDGAME_PIECES, ENDGAME_PARALLEL, Concurrency} \subseteq Nat \ {0}
    /\ Liars \subseteq Peer
    /\ Holds \in [{"relay"} \cup Peer -> SUBSET Pieces]
    /\ Dests \subseteq {"file", "dir"} /\ Levels \subseteq {"length", "deep", "trust"}
    /\ Rates \subseteq Nat /\ MaxFaults \in Nat
    /\ Ticket \cap {"hole", "rot"} = {}

\* The suggested name, and the same with " (1)", " (2)", ...; a download is
\* started again only after a fault or a stop, so these are enough.
Paths == 1..(MaxFaults + 1)

VARIABLES
    files,     \* the output files and the sidecars beside them
    run,       \* the download under way, or how the last one ended
    dest,      \* the destination recorded for each ticket
    have,      \* have_bf, and so `satisfied`
    remaining,
    tasks,     \* the JoinSet
    banned, cooldown, backoff,
    live, onRelay, known,    \* sender_live, on_relay, the peers the tracker named
    done,      \* where a ticket's file was reported complete
    faults

loop == <<have, remaining, tasks, banned, cooldown, backoff>>
sources == <<live, onRelay, known>>
recvVars == <<files, run, dest, loop, sources, done, faults>>

Fault == faults < MaxFaults /\ faults' = faults + 1
Running == run.phase = "running"

-----------------------------------------------------------------------------
(* The files of a download.                                                *)

NoFile == [there |-> FALSE, len |-> 0, bytes |-> [i \in Pieces |-> "hole"],
           side |-> Nothing, note |-> Nothing,
           stage |-> [i \in Pieces |-> [n \in 1..ENDGAME_PARALLEL |-> "absent"]]]

\* Open with create and without truncate.
Opened(f) == IF f.there THEN f
             ELSE [f EXCEPT !.there = TRUE, !.len = 0, !.bytes = NoFile.bytes]

\* remove_file of the output leaves its sidecars behind.
Removed(f) == [f EXCEPT !.there = FALSE, !.len = 0, !.bytes = NoFile.bytes]

\* A missing or wrong-sized sidecar is an empty bitfield.
ReadSidecar(f) == IF f.side = Nothing THEN {} ELSE f.side

WriteSidecar(f, bits) == [f EXCEPT !.side = bits]

WriteTicket(f, t) == [f EXCEPT !.note = t]

KeepsStages(f) == f \* mutant

RemoveStageFiles(f) == [f EXCEPT !.stage = NoFile.stage]

\* A name not taken, or taken by a partial that can be resumed.
Free(n) == ~files[n].there \/ files[n].side # Nothing

CollisionFree(n) == Free(n) /\ \A m \in 1..(n - 1) : ~Free(m)

\* The one path a destination resolves to; none once the names of the model have
\* run out.
SingleFileOut(d) == {n \in Paths : IF d = "dir" THEN CollisionFree(n) ELSE n = 1}

RevalidateNothing(f, bits, t, level) == bits \* mutant

\* What of the sidecar the bytes on disk bear out.
RevalidateHave(f, bits, t, level) ==
    {i \in bits : i <= f.len /\ (level = "deep" => f.bytes[i] = t)}

\* discard_incomplete is given the destination, not the path it resolved to.
Discarded(d) ==
    IF d = "dir" THEN files
    ELSE [files EXCEPT ![1] = [Removed(RemoveStageFiles(@))
                               EXCEPT !.side = Nothing, !.note = Nothing]]

-----------------------------------------------------------------------------
(* Who can serve a piece, and who is asked.                                *)

IsEligible(p) == p \notin banned /\ p \notin cooldown

ProvidersHaving(i) ==
    {p \in {"origin"} : live /\ IsEligible(p)}
        \cup {p \in {"relay"} : i \in onRelay /\ IsEligible(p)}
        \cup {p \in known : i \in Holds[p] /\ IsEligible(p)}

\* piece_srcs: a committed piece has lost its entry.
Srcs(i) == {t.prov : t \in {u \in tasks : u.piece = i /\ i \notin have}}

InFlight(p) == Cardinality({t \in tasks : t.prov = p})

PreferOffloadable(cands) ==
    LET offloadable == {i \in cands : ProvidersHaving(i) \ {"origin"} # {}}
    IN  IF InFlight("origin") > 0 /\ offloadable # {} THEN offloadable ELSE cands

RarestSet(cands) ==
    {i \in cands : \A j \in cands :
        Cardinality(ProvidersHaving(i)) <= Cardinality(ProvidersHaving(j))}

Fresh ==
    RarestSet(PreferOffloadable({i \in remaining \ backoff : ProvidersHaving(i) # {}}))

\* Estimated time to serve one more piece is Load / Speed: the origin counts four
\* times, an unmeasured provider is as fast as the fastest of the candidates.
Load(p) == (InFlight(p) + 1) * (IF p = "origin" THEN 4 ELSE 1)

Speed(p, rate) ==
    IF rate[p] > 0 THEN rate[p] ELSE Max({rate[q] : q \in DOMAIN rate} \cup {1})

ChooseProvider(cands) ==
    {p \in cands : \E rate \in [cands -> Rates] : \A q \in cands :
        Load(p) * Speed(q, rate) <= Load(q) * Speed(p, rate)}

\* mutant
EndgameReuses ==
    {c \in Pieces \X Provider : Srcs(c[1]) # {} /\ Cardinality(Srcs(c[1])) < ENDGAME_PARALLEL
                                 /\ c[2] \in ProvidersHaving(c[1])}

\* A tail piece in flight, and the providers that may race for it.
Endgame ==
    LET inFlight == {i \in Pieces : Srcs(i) # {}}
        Rivals(i) == ProvidersHaving(i) \ Srcs(i)
    IN  {c \in inFlight \X Provider :
            /\ Cardinality(inFlight) <= ENDGAME_PIECES
            /\ Cardinality(Srcs(c[1])) < ENDGAME_PARALLEL
            /\ c[2] \in ChooseProvider(Rivals(c[1]))}

Assignable ==
    LET fresh == UNION {{i} \X ChooseProvider(ProvidersHaving(i)) : i \in Fresh}
    IN  IF fresh # {} THEN fresh ELSE Endgame

-----------------------------------------------------------------------------
(* Starting, and starting again.                                           *)

NoCall == [phase |-> "idle", pc |-> "wait", ticket |-> Nothing, path |-> 1,
         unseen |-> {}, asked |-> Nothing]

RecvInit ==
    /\ files = [n \in Paths |-> NoFile]
    /\ run = NoCall
    /\ dest = [t \in Ticket |-> Nothing]
    /\ have = {} /\ remaining = {} /\ tasks = {}
    /\ banned = {} /\ cooldown = {} /\ backoff = {}
    /\ live = FALSE /\ onRelay = {} /\ known = {}
    /\ done = [t \in Ticket |-> Nothing]
    /\ faults = 0

\* The loop's local state goes with the call; the files stay.
Ended(phase, fs) ==
    /\ run' = [NoCall EXCEPT !.phase = phase]
    /\ files' = fs
    /\ have' = {} /\ remaining' = {} /\ tasks' = {}
    /\ banned' = {} /\ cooldown' = {} /\ backoff' = {}
    /\ live' = FALSE /\ onRelay' = {} /\ known' = {}

\* The damage a check of lengths lets through.
Unseen(f, kept, level) == {i \in kept : level # "deep" /\ f.bytes[i] = "rot"}

\* The output opened without truncating it, the ticket recorded beside it.
SetUp(path, t) == WriteTicket(Opened(files[path]), t)

\* What of the sidecar is kept: all of it when trusted, else what bears checking.
Resumed(f, t, level) ==
    IF level = "trust" THEN ReadSidecar(f) ELSE RevalidateHave(f, ReadSidecar(f), t, level)

\* A partial that is wholly gone pauses the download, instead of fetching it all
\* again; the sidecar is empty by then, so a second start does.
Vanished(f, kept) == ReadSidecar(f) # {} /\ kept = {}

\* A disk plainly too small for the rest, or one that fills up, stops the download
\* with what it has.
StorageFull(fs) == Fault /\ Ended("paused", fs)

\* The sets the loop starts from.
StartLoop(t, path, f, kept, level) ==
    /\ run' = [NoCall EXCEPT !.phase = "running", !.ticket = t, !.path = path,
                           !.unseen = Unseen(f, kept, level)]
    /\ have' = kept /\ remaining' = Pieces \ kept
    /\ UNCHANGED <<tasks, banned, cooldown, backoff, sources>>

\* start_download, or a resume: the destination is the one first recorded, and is
\* resolved to a path again each time.
Begin(t, d, level) ==
    /\ ~Running /\ done[t] = Nothing /\ dest[t] \in {Nothing, d}
    /\ dest' = [dest EXCEPT ![t] = d]
    /\ \E path \in SingleFileOut(d) :
        LET f == SetUp(path, t)
            kept == Resumed(f, t, level)
            fs == [files EXCEPT ![path] =
                    IF kept # ReadSidecar(f) THEN WriteSidecar(f, kept) ELSE f]
        IN  \/ Vanished(f, kept) /\ Ended("paused", fs) /\ UNCHANGED faults
            \/ ~Vanished(f, kept) /\ StorageFull(fs)
            \/ /\ ~Vanished(f, kept) /\ StartLoop(t, path, f, kept, level)
               /\ files' = fs /\ UNCHANGED faults
    /\ UNCHANGED done

-----------------------------------------------------------------------------
(* What the loop learns meanwhile.                                         *)

Learns == UNCHANGED <<files, run, dest, loop, done>>

\* The control supervisor reconnects for as long as the download runs.
ControlUp == Running /\ ~live /\ live' = TRUE /\ Learns /\ UNCHANGED <<onRelay, known, faults>>

ControlDrops == Running /\ live /\ Fault /\ live' = FALSE /\ Learns /\ UNCHANGED <<onRelay, known>>

\* have_probe only ever adds.
Probe ==
    /\ Running /\ onRelay # Holds["relay"] /\ onRelay' = onRelay \cup Holds["relay"]
    /\ Learns /\ UNCHANGED <<live, known, faults>>

\* spawn_swarm_coordinator: the tracker's answer replaces the list.
Announce ==
    /\ Running /\ known # Peer /\ known' = Peer
    /\ Learns /\ UNCHANGED <<live, onRelay, faults>>

StaysCool(p) == p \in cooldown /\ UNCHANGED recvVars \* mutant

Cool(p) ==
    /\ p \in cooldown /\ cooldown' = cooldown \ {p}
    /\ UNCHANGED <<files, run, dest, have, remaining, tasks, banned, backoff, sources, done, faults>>

Unback(i) ==
    /\ i \in backoff /\ backoff' = backoff \ {i}
    /\ UNCHANGED <<files, run, dest, have, remaining, tasks, banned, cooldown, sources, done, faults>>

-----------------------------------------------------------------------------
(* The window: assign until nothing can be, then wait for a task.          *)

\* Whether the loop, looking after this step, finds room and something to assign.
Look ==
    run' = [run EXCEPT !.pc =
        IF run.asked = Nothing /\ Cardinality(tasks') < Concurrency /\ Assignable' # {}
        THEN "fill" ELSE "wait"]

CountSources(i) == Cardinality(Srcs(i)) + 1

\* With nothing in flight the loop sleeps and looks again.  A task's stage file is
\* numbered by how many sources the piece has at that moment.
Assign ==
    /\ Running /\ run.asked = Nothing
    /\ run.pc = "fill" \/ (tasks = {} /\ remaining # {})
    /\ \E c \in Assignable :
        LET n == CountSources(c[1])
        IN  /\ tasks' = tasks \cup {[piece |-> c[1], prov |-> c[2], n |-> n,
                                     st |-> "new", linked |-> FALSE]}
            /\ remaining' = remaining \ {c[1]}
    /\ UNCHANGED <<files, dest, have, banned, cooldown, backoff, sources, done, faults>>
    /\ Look

\* A stop, or a provider that left, ends the look early.
Filled ==
    /\ Running /\ run.pc = "fill" /\ (run.asked # Nothing \/ Assignable = {})
    /\ run' = [run EXCEPT !.pc = "wait"]
    /\ UNCHANGED <<files, dest, loop, sources, done, faults>>

-----------------------------------------------------------------------------
(* A fetch task.                                                           *)

Serves(p, i) == IF p = "origin" THEN live ELSE i \in Holds[p]

\* Opened with create and truncate, whoever else has it open.
OpenStage(t) ==
    /\ Running /\ t.st = "new"
    /\ tasks' = (tasks \ {t}) \cup {[t EXCEPT !.st = "busy", !.linked = TRUE]}
    /\ files' = [files EXCEPT ![run.path].stage[t.piece][t.n] = "empty"]
    /\ UNCHANGED <<run, dest, have, remaining, banned, cooldown, backoff, sources, done, faults>>

Step(t, st) == tasks' = (tasks \ {t}) \cup {[t EXCEPT !.st = st]}

Fetching(t) == Running /\ t.st = "busy"

\* The body is verified whole before a byte reaches the stage.
FetchOk(t) ==
    /\ Fetching(t) /\ Serves(t.prov, t.piece) /\ t.prov \notin Liars
    /\ Step(t, "ok")
    /\ files' = IF t.linked THEN [files EXCEPT ![run.path].stage[t.piece][t.n] = "good"]
                ELSE files
    /\ UNCHANGED <<run, dest, have, remaining, banned, cooldown, backoff, sources, done, faults>>

FetchLies(t) ==
    /\ Fetching(t) /\ Serves(t.prov, t.piece) /\ t.prov \in Liars
    /\ banned' = banned \cup {t.prov} /\ Step(t, "err")
    /\ UNCHANGED <<files, run, dest, have, remaining, cooldown, backoff, sources, done, faults>>

\* Out of reach, silent, a trickle, or cut short.
FetchFails(t) ==
    /\ Fetching(t) /\ Step(t, "err")
    /\ IF Serves(t.prov, t.piece) THEN Fault ELSE UNCHANGED faults
    /\ UNCHANGED <<files, run, dest, have, remaining, banned, cooldown, backoff, sources, done>>

FetchFull(t) ==
    /\ Fetching(t) /\ Fault /\ Step(t, "full")
    /\ UNCHANGED <<files, run, dest, have, remaining, banned, cooldown, backoff, sources, done>>

\* The piece was won by another source, or the download is being stopped.
TokenCancelled(t) ==
    /\ Running /\ t.st \in {"new", "busy"} /\ (t.piece \in have \/ run.asked # Nothing)
    /\ Step(t, "lost")
    /\ UNCHANGED <<files, run, dest, have, remaining, banned, cooldown, backoff, sources, done, faults>>

-----------------------------------------------------------------------------
(* Taking a task's result.                                                 *)

\* remove_file of the stage t wrote: whoever else has it open writes to nothing.
Unlinked(f, t) == [f EXCEPT !.stage[t.piece][t.n] = "absent"]

Orphaned(rest, gone(_)) ==
    {[u EXCEPT !.linked = u.linked /\ ~gone(u)] : u \in rest}

SameStage(t, u) == u.piece = t.piece /\ u.n = t.n

Committed(f, t, i) ==
    [f EXCEPT !.len = Max({@, i}), !.bytes[i] = t,
              !.stage[i] = NoFile.stage[i]]

JoinLost(t) ==
    /\ t.st = "lost" \/ (t.st = "ok" /\ t.piece \in have)
    /\ files' = [files EXCEPT ![run.path] = Unlinked(@, t)]
    /\ tasks' = LET G(u) == SameStage(t, u) IN Orphaned(tasks \ {t}, G)
    /\ UNCHANGED <<have, remaining, banned, cooldown, backoff, sources, faults>>
    /\ Look

\* Decrypt the stage and write it in place; the bit is set only then.  A stage
\* another racer truncated or removed does not decrypt, and the download fails.
Commit(t) ==
    LET i == t.piece
        wrote == Committed(files[run.path], run.ticket, i)
        SamePiece(u) == u.piece = i
    IN  /\ t.st = "ok" /\ i \notin have
        /\ \/ files[run.path].stage[i][t.n] # "good" /\ Ended("failed", files) /\ UNCHANGED faults
           \/ files[run.path].stage[i][t.n] = "good" /\ StorageFull(files)
           \/ /\ files[run.path].stage[i][t.n] = "good"
              /\ have' = have \cup {i} /\ remaining' = remaining \ {i}
              /\ backoff' = backoff \ {i}
              /\ tasks' = Orphaned(tasks \ {t}, SamePiece)
              /\ \/ /\ files' = [files EXCEPT ![run.path] = WriteSidecar(wrote, have \cup {i})]
                    /\ UNCHANGED faults
                 \/ Fault /\ files' = [files EXCEPT ![run.path] = wrote]
              /\ UNCHANGED <<banned, cooldown, sources>>
              /\ Look

JoinFull(t) ==
    /\ t.st = "full"
    /\ Ended("paused", [files EXCEPT ![run.path] = Unlinked(@, t)])
    /\ UNCHANGED faults

ForgetsPiece(t) == UNCHANGED <<remaining, backoff>> \* mutant

\* The piece goes back unless another source is still on it.
Requeue(t) ==
    IF t.piece \notin have /\ Srcs(t.piece) = {t.prov}
    THEN remaining' = remaining \cup {t.piece} /\ backoff' = backoff \cup {t.piece}
    ELSE UNCHANGED <<remaining, backoff>>

JoinErr(t) ==
    /\ t.st = "err"
    /\ cooldown' = (cooldown \cup {t.prov}) \ banned    \* a banned provider is out anyway
    /\ files' = [files EXCEPT ![run.path] = Unlinked(@, t)]
    /\ tasks' = LET G(u) == SameStage(t, u) IN Orphaned(tasks \ {t}, G)
    /\ Requeue(t)
    /\ UNCHANGED <<have, banned, sources, faults>>
    /\ Look

Join(t) ==
    /\ Running /\ run.pc = "wait" /\ t \in tasks
    /\ JoinLost(t) \/ Commit(t) \/ JoinFull(t) \/ JoinErr(t)
    /\ UNCHANGED <<dest, done>>

-----------------------------------------------------------------------------
(* The end of a run.                                                       *)

\* pause and cancel both trip the token; a token tripped once the last piece has
\* landed changes nothing.
Ask(kind) ==
    /\ Running /\ run.asked = Nothing /\ Fault
    /\ run' = [run EXCEPT !.asked = kind]
    /\ UNCHANGED <<files, dest, loop, sources, done>>

\* The marker a pause wrote first tells it from a cancel.
PauseReason == run.asked = "pause"

\* A pause keeps the partial, a cancel discards it.
StoppedShort ==
    /\ IF PauseReason THEN Ended("paused", files)
       ELSE Ended("cancelled", Discarded(dest[run.ticket]))
    /\ UNCHANGED <<dest, done, faults>>

StopWaiting ==
    /\ Running /\ run.pc = "wait" /\ run.asked # Nothing
    /\ tasks # {} \/ remaining # {}
    /\ StoppedShort

NeverShort == FALSE \* mutant

\* The loop also leaves when every task was cancelled under it.
EndedShort == run.asked # Nothing /\ have # Pieces

\* Every piece is in: the acks are flushed, then the sidecars go.
FinishRun ==
    /\ Running /\ run.pc = "wait" /\ tasks = {} /\ remaining = {}
    /\ IF EndedShort THEN StoppedShort
       ELSE /\ Ended("completed", [files EXCEPT ![run.path] =
                    [RemoveStageFiles(@) EXCEPT !.len = N, !.side = Nothing, !.note = Nothing]])
            /\ done' = [done EXCEPT ![run.ticket] = [path |-> run.path, unseen |-> run.unseen]]
            /\ UNCHANGED <<dest, faults>>

\* The process dies; a sidecar being written may be left short, and reads as empty.
ReceiverDies ==
    /\ Running /\ Fault
    /\ \/ Ended("idle", files)
       \/ files[run.path].side # Nothing /\ Ended("idle", [files EXCEPT ![run.path].side = {}])
    /\ UNCHANGED <<dest, done>>

-----------------------------------------------------------------------------
(* Between two runs the user, or the disk, may get at a partial.           *)

Unfinished(n) == files[n].there /\ \A t \in Ticket : done[t] # Nothing => done[t].path # n

Meddle(n, f) ==
    /\ ~Running /\ Unfinished(n) /\ Fault
    /\ files' = [files EXCEPT ![n] = f]
    /\ UNCHANGED <<run, dest, loop, sources, done>>

DeleteFile(n) == Meddle(n, Removed(files[n]))

TruncateFile(n) ==
    /\ files[n].len > 0
    /\ Meddle(n, [files[n] EXCEPT !.len = @ - 1, !.bytes[files[n].len] = "hole"])

RotPiece(n, i) == files[n].bytes[i] \in Ticket /\ Meddle(n, [files[n] EXCEPT !.bytes[i] = "rot"])

-----------------------------------------------------------------------------
TaskStep(t) ==
    OpenStage(t) \/ FetchOk(t) \/ FetchLies(t) \/ FetchFails(t) \/ FetchFull(t)
        \/ TokenCancelled(t)

RecvNext ==
    \/ \E t \in Ticket, d \in Dests, level \in Levels : Begin(t, d, level)
    \/ ControlUp \/ ControlDrops \/ Probe \/ Announce
    \/ \E p \in cooldown : Cool(p)
    \/ \E i \in backoff : Unback(i)
    \/ Assign \/ Filled
    \/ \E t \in tasks : TaskStep(t) \/ Join(t)
    \/ \E kind \in {"pause", "cancel"} : Ask(kind)
    \/ StopWaiting \/ FinishRun \/ ReceiverDies
    \/ \E n \in Paths : DeleteFile(n) \/ TruncateFile(n)
    \/ \E n \in Paths, i \in Pieces : RotPiece(n, i)

\* The origin comes back, timers run out, tasks answer or time out, and the loop
\* goes on.  Nobody has to start a download, stop one or damage its file.
RecvFairness ==
    /\ WF_recvVars(ControlUp)
    /\ WF_recvVars(\E p \in cooldown : Cool(p))
    /\ WF_recvVars(\E i \in backoff : Unback(i))
    /\ WF_recvVars(Assign \/ Filled \/ StopWaiting \/ FinishRun)
    /\ WF_recvVars(\E t \in tasks : OpenStage(t) \/ FetchOk(t) \/ FetchLies(t) \/ FetchFails(t) \/ TokenCancelled(t))
    /\ WF_recvVars(\E t \in tasks : Join(t))

RecvSpec == RecvInit /\ [][RecvNext]_recvVars /\ RecvFairness

-----------------------------------------------------------------------------
(* Properties.                                                             *)

StageStates == {"absent", "empty", "good"}

\* Types of the state; a piece is never in have and in remaining at once, no
\* provider has two requests for one piece, and the window is not exceeded.
RecvTypeOK ==
    /\ \A n \in Paths :
        /\ files[n].len \in 0..N
        /\ files[n].bytes \in [Pieces -> Ticket \cup {"hole", "rot"}]
        /\ files[n].side = Nothing \/ files[n].side \subseteq Pieces
        /\ \A i \in Pieces : files[n].stage[i] \in [1..ENDGAME_PARALLEL -> StageStates]
    /\ run.phase \in {"idle", "running", "completed", "paused", "cancelled", "failed"}
    /\ have \cap remaining = {}
    /\ Cardinality(tasks) <= Concurrency
    /\ \A t, u \in tasks : t.piece = u.piece /\ t.prov = u.prov => t = u
    /\ banned \subseteq Liars

\* A download reported complete holds every piece of its ticket: no hole, nothing
\* of another send, and no damage but what a resume that checks lengths cannot see.
DoneIsIntact ==
    \A t \in Ticket : done[t] # Nothing =>
        \A i \in Pieces :
            files[done[t].path].bytes[i] = (IF i \in done[t].unseen THEN "rot" ELSE t)

\* While a download runs, a piece it lacks is waiting to be assigned or some task
\* is fetching it: none falls between the queue and the tasks.
NoPieceForgotten ==
    Running /\ run.asked = Nothing =>
        \A i \in Pieces : i \in have \/ i \in remaining \/ Srcs(i) # {}

\* What the sidecar claims is on disk for as long as nobody meddles: a commit sets
\* the bit after the bytes, so a crash between the two costs a fetch, not a hole.
ClaimsAreWritten ==
    Running => \A i \in have : files[run.path].bytes[i] # "hole"

\* A finished download leaves nothing beside the file, whichever tasks were cut off.
NothingLeftBehind ==
    \A t \in Ticket : done[t] # Nothing =>
        files[done[t].path] =
            [files[done[t].path] EXCEPT !.side = Nothing, !.note = Nothing,
                                        !.stage = NoFile.stage]

\* A download reported complete is the file that was sent, and nothing is beside it.
DoneIsRight == DoneIsIntact /\ NothingLeftBehind

\* Every piece is accounted for while a download runs: claimed and written, waiting,
\* or being fetched.
PiecesAccounted == RecvTypeOK /\ ClaimsAreWritten /\ NoPieceForgotten

\* A download that runs comes to an end, whatever its providers do, as long as
\* the origin can be reached again.
DownloadEnds == Running ~> ~Running

=============================================================================
