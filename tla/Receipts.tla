------------------------------ MODULE Receipts ------------------------------
(***************************************************************************)
(* What the daemon keeps of the files it leaves on a relay.  The engine    *)
(* has a row and a record of its own for each (manager/); the intake task  *)
(* files a receipt with the revoke token (deposits.rs) and the history     *)
(* (history.rs) from the engine's events; requests make, list and revoke   *)
(* them (daemon.rs); a folder is packed into an archive first and removed  *)
(* when its transfer ends (payload.rs, spawn_temp_cleanup).  Rows and      *)
(* events are memory, and a restart numbers the rows from 1 again; both    *)
(* kinds of record are files.                                              *)
(*                                                                         *)
(* How an upload gets to the relay is the subject of Upload, the relay's   *)
(* side that of Mailbox.                                                   *)
(***************************************************************************)
EXTENDS Naturals, Sequences, FiniteSets, SequencesExt

CONSTANTS
    Sealed,     \* deposits to a recipient
    Linked,     \* download links
    Folders,    \* those of them that are packed into an archive
    Board,      \* whether finished rows are restored too: a phone
    MaxMade,    \* bound on the files that are made
    MaxStops    \* bound on ends of the process and lost relay calls together

Dep == Sealed \cup Linked

ASSUME ReceiptsConstants ==
    /\ Sealed \cap Linked = {} /\ IsFiniteSet(Sealed) /\ IsFiniteSet(Linked)
    /\ Folders \subseteq Dep /\ Board \in BOOLEAN
    /\ MaxMade \in Nat /\ MaxStops \in Nat

VARIABLES
    up,        \* the process runs
    list,      \* the engine's rows, by number
    disk,      \* the engine's record of a deposit or link
    blob,      \* the file on the relay
    clock,     \* how our clock stands to the deadline of a receipt
    receipt,   \* deposits/<id>.toml
    log,       \* the history
    news,      \* the events the intake has not taken
    ask,       \* where the request that makes the file stands
    ear,       \* the outcomes its subscriptions hold
    watch,     \* its archive's cleanup task
    temp,      \* whose archive the daemon's temporary path holds
    drops,     \* withdrawals the engine has under way
    filed, ticketed,   \* what was filed, and with its ticket (history)
    revoked, asked,    \* what its owner revoked, and what a withdrawal was ordered for
    stops

receiptVars == <<up, list, disk, blob, clock, receipt, log, news, ask, ear, watch, temp,
                 drops, filed, ticketed, revoked, asked, stops>>

NoReceipt == [tid |-> 0, ticket |-> FALSE]
NoDep == "none"
Over == {"completed", "failed", "cancelled"}

Entry(d, st) == [dep |-> d, st |-> st, eye |-> st = "deposited"]
Numbers == {n \in 1..Len(list) : list[n].st # "removed"}
RowsOf(d, st) == {n \in Numbers : list[n].dep = d /\ list[n].st = st}
SetSt(n, st) == list' = [list EXCEPT ![n].st = st]

Event(kind, n, d, ticket) == [kind |-> kind, id |-> n, dep |-> d, ticket |-> ticket]

\* subscribe comes before the transfer exists: daemon.rs:1318
HearsLate(d) == ask[d] = "waiting"                                \* mutant
Hears(d) == ask[d] # "none"

\* emit: the intake hears everything, a request and a cleanup their own.
Emit(es) ==
    /\ news' = news \o es
    /\ ear' = [d \in Dep |-> IF Hears(d) THEN ear[d] \cup {es[i].kind : i \in
                                  {j \in DOMAIN es : es[j].dep = d}} ELSE ear[d]]
Quiet == UNCHANGED <<news, ear>>

-----------------------------------------------------------------------------
(* Making one: push with `deposit`, create_link.                           *)

\* resolve_payload: one path per process, whatever is packed.
Pack(d) ==
    /\ up /\ ask[d] = "none"
    /\ Cardinality({x \in Dep : ask[x] # "none"}) < MaxMade
    /\ ask' = [ask EXCEPT ![d] = "packed"]
    /\ temp' = IF d \in Folders THEN d ELSE temp
    /\ UNCHANGED <<up, list, disk, blob, clock, receipt, log, news, ear, watch, drops,
                   filed, ticketed, revoked, asked, stops>>

\* preflight has answered: refused, or a row, its record if it is a link's,
\* and the cleanup of its archive.
Refuse(d) ==
    /\ ask[d] = "packed" /\ d \in Linked
    /\ ask' = [ask EXCEPT ![d] = "answered"]
    /\ temp' = IF d \in Folders THEN NoDep ELSE temp
    /\ UNCHANGED <<up, list, disk, blob, clock, receipt, log, news, ear, watch, drops,
                   filed, ticketed, revoked, asked, stops>>

Create(d) ==
    /\ ask[d] = "packed"
    /\ ask' = [ask EXCEPT ![d] = "created"]
    /\ list' = Append(list, Entry(d, "uploading"))
    /\ disk' = IF d \in Linked THEN [disk EXCEPT ![d] = "kept"] ELSE disk
    /\ watch' = IF d \in Folders THEN [watch EXCEPT ![d] = "on"] ELSE watch
    /\ UNCHANGED <<up, blob, clock, receipt, log, news, ear, temp, drops, filed, ticketed,
                   revoked, asked, stops>>

\* A client that did not detach waits for the outcome of its own transfer.
Wait(d) ==
    /\ ask[d] = "created"
    /\ ask' = [ask EXCEPT ![d] = "waiting"]
    /\ UNCHANGED <<up, list, disk, blob, clock, receipt, log, news, ear, watch, temp, drops,
                   filed, ticketed, revoked, asked, stops>>

Answer(d) ==
    /\ ask[d] = "waiting" /\ ear[d] \cap {"link", "deposited", "failed", "cancelled"} # {}
    /\ ask' = [ask EXCEPT ![d] = "answered"]
    /\ UNCHANGED <<up, list, disk, blob, clock, receipt, log, news, ear, watch, temp, drops,
                   filed, ticketed, revoked, asked, stops>>

\* spawn_temp_cleanup: the path is removed, whosever archive it holds by now.
CleanUp(d) ==
    /\ watch[d] = "on" /\ ear[d] \cap (Over \cup {"deposited"}) # {}
    /\ watch' = [watch EXCEPT ![d] = "done"] /\ temp' = NoDep
    /\ UNCHANGED <<up, list, disk, blob, clock, receipt, log, news, ask, ear, drops, filed,
                   ticketed, revoked, asked, stops>>

-----------------------------------------------------------------------------
(* The engine: run_link, run_deposit and the pickup watcher.               *)

\* A link is over once it is stored, and its record goes first; a deposit's
\* event goes out before its record is written (spawn_offline_confirm).
Land(n) ==
    /\ n \in Numbers /\ list[n].st = "uploading"
    /\ LET d == list[n].dep IN
        /\ blob' = [blob EXCEPT ![d] = "held"]
        /\ IF d \in Linked
           THEN /\ disk' = [disk EXCEPT ![d] = "none"] /\ SetSt(n, "completed")
                /\ Emit(<<Event("link", n, d, FALSE), Event("completed", n, d, FALSE)>>)
           ELSE /\ disk' = [disk EXCEPT ![d] = "owed"]
                /\ list' = [list EXCEPT ![n] = Entry(d, "deposited")]
                /\ Emit(<<Event("deposited", n, d, TRUE)>>)
    /\ UNCHANGED <<up, clock, receipt, log, ask, watch, temp, drops, filed, ticketed,
                   revoked, asked, stops>>

Persist(d) ==
    /\ disk[d] = "owed"
    /\ disk' = [disk EXCEPT ![d] = "kept"]
    /\ UNCHANGED <<up, list, blob, clock, receipt, log, news, ask, ear, watch, temp, drops,
                   filed, ticketed, revoked, asked, stops>>

FailUpload(n) ==
    /\ n \in Numbers /\ list[n].st = "uploading"
    /\ SetSt(n, "failed") /\ disk' = [disk EXCEPT ![list[n].dep] = "none"]
    /\ Emit(<<Event("failed", n, list[n].dep, FALSE)>>)
    /\ UNCHANGED <<up, blob, clock, receipt, log, ask, watch, temp, drops, filed, ticketed,
                   revoked, asked, stops>>

\* confirm_offline_delivery: collected, or nobody came before the deadline.
\* No other ending of the row stops it.
Confirm(n) ==
    /\ n \in Numbers /\ list[n].eye
    /\ LET d == list[n].dep
           word == IF blob[d] = "held" THEN "failed" ELSE "completed" IN
        /\ disk[d] # "owed"
        /\ blob[d] = "gone" \/ clock[d] # "fresh"
        /\ list' = [list EXCEPT ![n] = [dep |-> d, st |-> word, eye |-> FALSE]]
        /\ disk' = [disk EXCEPT ![d] = "none"]
        /\ Emit(<<Event(word, n, d, FALSE)>>)
    /\ UNCHANGED <<up, blob, clock, receipt, log, ask, watch, temp, drops, filed, ticketed,
                   revoked, asked, stops>>

\* The relay: a sealed deposit is collected, any blob lapses.  Our clock may
\* be ahead of the relay's, but by less than REAP_GRACE_SECS.
BlobGoes(d) ==
    /\ blob[d] = "held" /\ blob' = [blob EXCEPT ![d] = "gone"]
    /\ UNCHANGED <<up, list, disk, clock, receipt, log, news, ask, ear, watch, temp, drops,
                   filed, ticketed, revoked, asked, stops>>

Tick(d) ==
    /\ blob[d] # "none"
    /\ \/ clock[d] = "fresh" /\ clock' = [clock EXCEPT ![d] = "expired"]
       \/ clock[d] = "expired" /\ blob[d] = "gone"
          /\ clock' = [clock EXCEPT ![d] = "reapable"]
    /\ UNCHANGED <<up, list, disk, blob, receipt, log, news, ask, ear, watch, temp, drops,
                   filed, ticketed, revoked, asked, stops>>

-----------------------------------------------------------------------------
(* cancel, as a request and on the way to a revocation.                    *)

CancelRow(n) ==
    CASE list[n].st = "uploading" ->
            /\ SetSt(n, "cancelled") /\ disk' = [disk EXCEPT ![list[n].dep] = "none"]
            /\ Emit(<<Event("cancelled", n, list[n].dep, FALSE)>>) /\ UNCHANGED <<drops, asked>>
      [] list[n].st = "deposited" ->
            /\ drops' = drops \cup {[id |-> n, found |-> disk[list[n].dep] = "kept"]}
            /\ asked' = asked \cup {list[n].dep}
            /\ UNCHANGED <<list, disk>> /\ Quiet
      [] OTHER -> UNCHANGED <<list, disk, drops, asked>> /\ Quiet

Cancel(n) ==
    /\ up /\ n \in Numbers /\ list[n].st \in {"uploading", "deposited"}
    /\ CancelRow(n)
    /\ UNCHANGED <<up, blob, clock, receipt, log, ask, watch, temp, filed, ticketed, revoked,
                   stops>>

\* One call to the relay, best effort.
Withdraw(d) ==
    /\ \/ blob' = [blob EXCEPT ![d] = "gone"] /\ UNCHANGED stops
       \/ stops < MaxStops /\ stops' = stops + 1 /\ UNCHANGED blob

\* cancel_deposited: the record it found, or nothing to withdraw with.
Dropped(t) ==
    /\ t \in drops
    /\ drops' = drops \ {t}
    /\ LET d == list[t.id].dep IN
        /\ IF t.found THEN Withdraw(d) ELSE UNCHANGED <<blob, stops>>
        /\ disk' = [disk EXCEPT ![d] = "none"] /\ SetSt(t.id, "cancelled")
        /\ Emit(<<Event("cancelled", t.id, d, FALSE)>>)
    /\ UNCHANGED <<up, clock, receipt, log, ask, watch, temp, filed, ticketed, revoked, asked>>

-----------------------------------------------------------------------------
(* The intake's other arms, and the requests on what it keeps.             *)

\* save: an empty ticket never erases a stored one.
SavedBlank(d, n, ticket) == [tid |-> n, ticket |-> ticket]        \* mutant
Saved(d, n, ticket) == [tid |-> n, ticket |-> ticket \/ receipt[d].ticket]

Logged(e, st) == log \cup {[dep |-> e.dep, st |-> st, shown |-> TRUE] : n \in {e.id} \cap Numbers}

FileEvent ==
    /\ up /\ news # <<>>
    /\ news' = Tail(news)
    /\ LET e == Head(news) IN
        /\ log' = IF e.kind = "link" THEN log ELSE Logged(e, e.kind)
        /\ IF e.kind \in {"link", "deposited"}
           THEN /\ receipt' = [receipt EXCEPT ![e.dep] = Saved(e.dep, e.id, e.ticket)]
                /\ filed' = filed \cup {e.dep}
                /\ ticketed' = ticketed \cup {d \in {e.dep} : e.ticket}
           ELSE UNCHANGED <<receipt, filed, ticketed>>
    /\ UNCHANGED <<up, list, disk, blob, clock, ask, ear, watch, temp, drops, revoked, asked,
                   stops>>

\* Remove and ClearFinished: the row goes, and its entry is hidden.
Hidden(d, st) == {[h EXCEPT !.shown = h.shown /\ ~(h.dep = d /\ h.st = st)] : h \in log}
Forget(n) ==
    /\ up /\ n \in Numbers /\ list[n].st \in Over
    /\ SetSt(n, "removed") /\ log' = Hidden(list[n].dep, list[n].st)
    /\ UNCHANGED <<up, disk, blob, clock, receipt, news, ask, ear, watch, temp, drops, filed,
                   ticketed, revoked, asked, stops>>

\* ListDeposits sweeps the receipts whose blob the relay has let go.
ReapableAtExpiry(d) == clock[d] \in {"expired", "reapable"}       \* mutant
Reapable(d) == clock[d] = "reapable"

ListDeposits ==
    /\ up /\ \E d \in Dep : receipt[d] # NoReceipt /\ Reapable(d)
    /\ receipt' = [d \in Dep |-> IF Reapable(d) THEN NoReceipt ELSE receipt[d]]
    /\ UNCHANGED <<up, list, disk, blob, clock, log, news, ask, ear, watch, temp, drops,
                   filed, ticketed, revoked, asked, stops>>

\* revoke_deposit: through the engine when a row has the receipt's number,
\* else from the receipt, which is not tried once it is past its deadline.
RevokeDeposit(d) ==
    /\ up /\ receipt[d] # NoReceipt
    /\ receipt' = [receipt EXCEPT ![d] = NoReceipt]
    /\ revoked' = revoked \cup {d}
    /\ IF receipt[d].tid \in Numbers
       THEN CancelRow(receipt[d].tid) /\ UNCHANGED <<blob, stops>>
       ELSE /\ asked' = asked \cup {d}
            /\ IF clock[d] = "fresh" THEN Withdraw(d) ELSE UNCHANGED <<blob, stops>>
            /\ UNCHANGED <<list, disk, drops>> /\ Quiet
    /\ UNCHANGED <<up, clock, log, ask, watch, temp, filed, ticketed>>

-----------------------------------------------------------------------------
(* The end of the process, and the next one.                               *)

\* The next process has another id, and so another temporary path.
Stop ==
    /\ up /\ stops < MaxStops
    /\ up' = FALSE /\ stops' = stops + 1
    /\ list' = <<>> /\ news' = <<>> /\ drops' = {} /\ temp' = NoDep
    /\ disk' = [d \in Dep |-> IF disk[d] = "owed" THEN "none" ELSE disk[d]]
    /\ ask' = [d \in Dep |-> IF ask[d] = "none" THEN "none" ELSE "answered"]
    /\ ear' = [d \in Dep |-> {}] /\ watch' = [d \in Dep |-> "none"]
    /\ UNCHANGED <<blob, clock, receipt, log, filed, ticketed, revoked, asked>>

\* resume_incomplete, then restore_board.  A deposit past its deadline is
\* dropped; the others come first and are announced again, without their ticket.
Restorable == {d \in Dep : disk[d] = "kept" /\ (d \in Linked \/ clock[d] = "fresh")}
Rows(ds, st) == [i \in 1..Len(ds) |-> Entry(ds[i], st)]
Restored(ds) == [i \in 1..Len(ds) |-> Event("deposited", i, ds[i], FALSE)]

Finished == {[dep |-> h.dep, st |-> IF h.st = "deposited" THEN "failed" ELSE h.st, eye |-> FALSE] :
                 h \in {x \in log : Board /\ x.shown}}

Start ==
    /\ ~up /\ up' = TRUE
    /\ LET deposits == SetToSeq(Restorable \cap Sealed)
           links == SetToSeq(Restorable \cap Linked) IN
        /\ list' = Rows(deposits, "deposited") \o Rows(links, "uploading")
                        \o SetToSeq(Finished)
        /\ news' = Restored(deposits)
    /\ disk' = [d \in Dep |-> IF d \in Restorable THEN "kept" ELSE "none"]
    /\ UNCHANGED <<blob, clock, receipt, log, ask, ear, watch, temp, drops, filed, ticketed,
                   revoked, asked, stops>>

-----------------------------------------------------------------------------
ReceiptsInit ==
    /\ up = TRUE /\ list = <<>> /\ news = <<>> /\ drops = {} /\ temp = NoDep /\ log = {}
    /\ disk = [d \in Dep |-> "none"] /\ blob = [d \in Dep |-> "none"]
    /\ clock = [d \in Dep |-> "fresh"] /\ receipt = [d \in Dep |-> NoReceipt]
    /\ ask = [d \in Dep |-> "none"] /\ ear = [d \in Dep |-> {}]
    /\ watch = [d \in Dep |-> "none"]
    /\ filed = {} /\ ticketed = {} /\ revoked = {} /\ asked = {} /\ stops = 0

ReceiptsNext ==
    \/ \E d \in Dep : \/ Pack(d) \/ Refuse(d) \/ Create(d) \/ Wait(d) \/ Answer(d)
                      \/ CleanUp(d) \/ Persist(d) \/ BlobGoes(d) \/ Tick(d)
                      \/ RevokeDeposit(d)
    \/ \E n \in 1..Len(list) : Land(n) \/ FailUpload(n) \/ Confirm(n) \/ Cancel(n) \/ Forget(n)
    \/ \E t \in drops : Dropped(t)
    \/ FileEvent \/ ListDeposits \/ Stop \/ Start

ReceiptsSpec == ReceiptsInit /\ [][ReceiptsNext]_receiptVars

\* The intake, the requests and the cleanups are tasks that go on; a process
\* that ended is started again.
ReceiptsFair ==
    /\ WF_receiptVars(FileEvent) /\ WF_receiptVars(Start)
    /\ \A d \in Dep : WF_receiptVars(Wait(d)) /\ WF_receiptVars(Answer(d))
                          /\ WF_receiptVars(CleanUp(d))

-----------------------------------------------------------------------------
(* Properties.                                                             *)

\* As long as a file is on the relay, its owner can take it back: a receipt
\* once filed is not lost to a restart, to a sweep by a clock that runs ahead,
\* or to being filed again (deposits.rs:161, "binning a live one costs the
\* token").
TokenIsKept ==
    \A d \in filed \ revoked : blob[d] = "held" => receipt[d] # NoReceipt

\* And hand it over again: every restart files the receipt once more, from an
\* event that has no ticket, and never blanks the one copy (deposits.rs:206).
TicketIsKept ==
    \A d \in ticketed \ revoked : blob[d] = "held" => receipt[d].ticket

\* A receipt keeps what it was filed for, the token and the ticket.
ReceiptsAreKept == TokenIsKept /\ TicketIsKept

\* A deposit the engine has a record of gets its receipt, though the process
\* may end between the event and the filing: the restart announces it again.
DepositIsFiled ==
    \A d \in Sealed :
        (disk[d] = "kept" /\ blob[d] = "held" /\ clock[d] = "fresh")
            ~> (d \in filed \cup asked \/ blob[d] # "held" \/ clock[d] # "fresh")

\* However quickly a transfer ends, the request that waits for it answers and
\* its archive's cleanup runs (daemon.rs:1318 "so neither the temp cleanup nor
\* the wait below can miss an outcome that comes quickly").
EndIsHeard ==
    \A d \in Dep : (ask[d] \in {"created", "waiting"} /\ \E n \in Numbers : list[n].dep = d /\ list[n].st \in Over)
                       ~> (ask[d] = "answered" /\ watch[d] # "on")

\* serve_code says of a packed archive that it "has to stay readable for the
\* whole session, so it goes when the transfer ends" (daemon.rs:1073).
ArchiveStays ==
    \A d \in Folders : (watch[d] = "on" /\ RowsOf(d, "uploading") # {}) => temp = d

\* "Withdraw a deposit from the relay, then forget the local record"
\* (daemon.rs:1100).
RevokedIsWithdrawn ==
    \A d \in revoked \ asked : blob[d] # "held"
=============================================================================
