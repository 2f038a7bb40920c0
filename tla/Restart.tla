------------------------------ MODULE Restart ------------------------------
(***************************************************************************)
(* The transfer manager's rows and the records that bring them back: every *)
(* way a transfer is registered, written down, stopped and ended, the end  *)
(* of the process at any moment, and resume_incomplete at the next start,  *)
(* one file operation group at a time.                                     *)
(*                                                                         *)
(* A record is a file `<family>-<id>`.  Ids start again at 1 in every      *)
(* process, so each restored transfer is filed anew under a number another *)
(* one may have had.  An item stands for what was asked for (this send to  *)
(* this person, this download), whatever number it goes by; the tasks that *)
(* move bytes are reduced to the records they write and to their end,      *)
(* which comes when it likes, during a start too.  The delivery loop is    *)
(* the subject of Delivery.                                                *)
(***************************************************************************)
EXTENDS Naturals, FiniteSets

CONSTANTS
    Items,       \* what is asked for, each at most once
    None,
    MaxId,       \* bound on the ids one process hands out
    MaxCrashes,  \* bound on the ends of the process
    SameFile,    \* whether the items are copies of one payload
    Commands     \* which of the kinds, and of the stops, a run has

ASSUME RestartConstants ==
    /\ None \notin Items
    /\ MaxId \in Nat /\ MaxCrashes \in Nat
    /\ SameFile \in BOOLEAN

VARIABLES
    disk,     \* the records: [family -> [id -> record]]
    marks,    \* dl-paused-<id>: who stopped the download
    stages,   \* items whose staged archive is on disk
    sess,     \* items with an upload session open on the relay
    rows,     \* the live transfers: [id -> row]
    hosts,    \* the pairing codes answered for, by id
    nextId,   \* next_id
    nap,      \* the row suspend_running has paused and not yet marked
    boot,     \* where resume_incomplete stands
    wish,     \* what was last asked for an item
    exposed,  \* items a start has put at risk (history)
    crashes

files == <<disk, marks, stages>>
vars  == <<files, sess, rows, hosts, nextId, nap, boot, wish, exposed, crashes>>

\* mutant
FirstIdIsZero == 0

FirstId == 1

Ids   == FirstId .. MaxId
Kinds == {"dep", "sendto", "link", "pend", "dl", "send"}
Families == Kinds \cup {"prep", "upl", "code"}

\* A record: the item it was written for, and what else it says of it - the
\* paused flag of a held send, the sort of seal of an upload, whether the
\* share has a code, whether it owns the file it serves.
Tags == {"", "paused", "sendto", "link", "code", "owned"}
Rec == [item : Items, tag : Tags]

Row == [item : Items, kind : Kinds, st : {"run", "stopping", "ending", "paused", "handing"},
        seal : Rec \cup {None}, prep : Items \cup {None}, tag : {"", "code", "owned"}]

\* A record as it was read, and one the start has taken from the disk, with the
\* preparation it found beside it.
ReadRec == [id : Ids, item : Items, tag : Tags]
HandRec == [id : Ids, item : Items, tag : Tags, prep : Rec \cup {None}]

ASSUME RestartNone == None \notin Rec \cup Row \cup HandRec

Phases == {"load", "dep", "preps", "sendto", "link", "pend", "sweep", "dl", "send", "up"}

\* mutant
AfterLosesShares(p) ==
    CASE p = "load" -> "dep"     [] p = "dep" -> "preps"   [] p = "preps" -> "sendto"
      [] p = "sendto" -> "link"  [] p = "link" -> "sweep"  [] p = "pend" -> "sweep"
      [] p = "sweep" -> "dl"     [] p = "dl" -> "send"     [] p = "send" -> "up"

\* The order of resume_incomplete.
After(p) ==
    CASE p = "load" -> "dep"     [] p = "dep" -> "preps"   [] p = "preps" -> "sendto"
      [] p = "sendto" -> "link"  [] p = "link" -> "pend"   [] p = "pend" -> "sweep"
      [] p = "sweep" -> "dl"     [] p = "dl" -> "send"     [] p = "send" -> "up"

Up == boot.at = "up"

Fresh == [at |-> "load", todo |-> [k \in Kinds |-> {}], codes |-> {}, hand |-> None]

\* The records of a family, with the ids they are filed under.
Load(f) == {[id |-> i, item |-> disk[f][i].item, tag |-> disk[f][i].tag] :
                i \in {j \in Ids : disk[f][j] # None}}

\* Writing and removing one record of a disk d.
Put(d, f, i, x, t) == [d EXCEPT ![f][i] = [item |-> x, tag |-> t]]
Del(d, f, i)       == [d EXCEPT ![f][i] = None]

Live(i) == rows[i] # None

RowsOf(x) == {i \in Ids : Live(i) /\ rows[i].item = x}

-----------------------------------------------------------------------------
(* Registering.                                                            *)

\* The kinds whose records share a name when they share a number: an upload
\* record is a held send's or a link's, a pending share becomes a send.
Shelf(k) ==
    CASE k \in {"sendto", "link"} -> {"sendto", "link"}
      [] k \in {"pend", "send"}   -> {"pend", "send"}
      [] OTHER                    -> {k}

\* Items of an earlier process still filed, or still to be restored, under
\* number n in the records a row of kind k writes.
Stale(k, n) ==
    UNION {{disk[f][n].item : i \in {j \in {n} : disk[f][n] # None}}
             \cup {r.item : r \in {q \in boot.todo[f] : q.id = n}} : f \in Shelf(k)}

NewRow(x, k, st, seal, prep, tag) ==
    [item |-> x, kind |-> k, st |-> st, seal |-> seal, prep |-> prep, tag |-> tag]

\* register: the row goes in under the next number of this process.
Register(row) ==
    /\ nextId \in Ids
    /\ rows' = [rows EXCEPT ![nextId] = row]
    /\ nextId' = nextId + 1
    /\ exposed' = exposed \cup
         (IF Stale(row.kind, nextId) = {} THEN {} ELSE {row.item} \cup Stale(row.kind, nextId))

Ask(x, w) == wish' = [wish EXCEPT ![x] = w]

New(x, k) == wish[x] = "new" /\ k \in Commands /\ Ask(x, "go")

SendTo(x) ==
    /\ Up /\ New(x, "sendto")
    /\ Register(NewRow(x, "sendto", "run", None, None, ""))
    /\ disk' = Put(disk, "sendto", nextId, x, "")
    /\ UNCHANGED <<marks, stages, sess, hosts, nap, boot, crashes>>

CreateLink(x) ==
    /\ Up /\ New(x, "link")
    /\ Register(NewRow(x, "link", "run", [item |-> x, tag |-> "link"], None, ""))
    /\ disk' = Put(Put(disk, "link", nextId, x, ""), "upl", nextId, x, "link")
    /\ UNCHANGED <<marks, stages, sess, hosts, nap, boot, crashes>>

\* serve_ticket and serve_code.
StartShare(x, tag) ==
    /\ Up /\ New(x, "share")
    /\ Register(NewRow(x, "pend", "run", None, None, tag))
    /\ disk' = Put(disk, "pend", nextId, x, tag)
    /\ UNCHANGED <<marks, stages, sess, hosts, nap, boot, crashes>>

\* start_download.  The inbox is read, and a trusted sender's offer taken,
\* from before resume_incomplete is called; one taken before the records are
\* read is itself read back and restored.
StartDownload(x) ==
    /\ New(x, "dl")
    /\ Up \/ "early" \in Commands
    /\ nextId \in Ids
    /\ rows' = [rows EXCEPT ![nextId] = NewRow(x, "dl", "run", None, None, "")]
    /\ nextId' = nextId + 1
    /\ LET old == Stale("dl", nextId) IN
       exposed' = exposed \cup old \cup (IF old # {} \/ boot.at = "load" THEN {x} ELSE {})
    /\ disk' = Put(disk, "dl", nextId, x, "")
    /\ UNCHANGED <<marks, stages, sess, hosts, nap, boot, crashes>>

-----------------------------------------------------------------------------
(* What the tasks write down.                                              *)

SetSt(i, s) == rows' = [rows EXCEPT ![i].st = s]

Is(i, k, s) == Live(i) /\ rows[i].kind = k /\ rows[i].st = s

\* persist_prep_record: the attempt has prepared the payload.
Prepare(i) ==
    /\ Is(i, "sendto", "run") /\ rows[i].prep = None
    /\ rows' = [rows EXCEPT ![i].prep = rows[i].item]
    /\ disk' = Put(disk, "prep", i, rows[i].item, "")
    /\ UNCHANGED <<marks, stages, sess, hosts, nextId, nap, boot, wish, exposed, crashes>>

\* mailbox_seal and session_changed: the upload has its seal and a session.
Upload(i) ==
    /\ Is(i, "sendto", "run") \/ Is(i, "link", "run")
    /\ LET r == rows[i]
           s == IF r.seal # None /\ r.seal.tag = r.kind
                THEN r.seal ELSE [item |-> r.item, tag |-> r.kind] IN
       /\ rows' = [rows EXCEPT ![i].seal = s]
       /\ disk' = Put(disk, "upl", i, s.item, s.tag)
       /\ sess' = sess \cup {r.item}
    /\ UNCHANGED <<marks, stages, hosts, nextId, nap, boot, wish, exposed, crashes>>

\* The attempt at the mailbox failed: the upload is forgotten and abandoned.
UploadFails(i) ==
    /\ Is(i, "sendto", "run") /\ rows[i].seal # None
    /\ rows' = [rows EXCEPT ![i].seal = None]
    /\ disk' = Del(disk, "upl", i)
    /\ sess' = sess \ {rows[i].item}
    /\ UNCHANGED <<marks, stages, hosts, nextId, nap, boot, wish, exposed, crashes>>

\* The mailbox has the copy: forget the upload, drop_held, persist_deposited.
Deposit(i) ==
    /\ Is(i, "sendto", "run")
    /\ LET x == rows[i].item IN
       /\ rows' = [rows EXCEPT ![i] = NewRow(x, "dep", "run", None, None, "")]
       /\ disk' = Put(Del(Del(Del(disk, "upl", i), "sendto", i), "prep", i), "dep", i, x, "")
       /\ sess' = sess \ {x}
    /\ UNCHANGED <<marks, stages, hosts, nextId, nap, boot, wish, exposed, crashes>>

\* mutant
BeginServingUnwritten(i) ==
    /\ Is(i, "pend", "run")
    /\ rows' = [rows EXCEPT ![i].kind = "send", ![i].st = "handing"]
    /\ UNCHANGED <<files, sess, hosts, nextId, nap, boot, wish, exposed, crashes>>

\* begin_serving: the ticket exists and is written down.
BeginServing(i) ==
    /\ Is(i, "pend", "run")
    /\ rows' = [rows EXCEPT ![i].kind = "send", ![i].st = "handing"]
    /\ disk' = Put(disk, "send", i, rows[i].item, "")
    /\ UNCHANGED <<marks, stages, sess, hosts, nextId, nap, boot, wish, exposed, crashes>>

\* mutant
HandOverKeepsPending(i) ==
    /\ Is(i, "send", "handing")
    /\ SetSt(i, "run")
    /\ disk' = IF rows[i].tag = "code" THEN Put(disk, "code", i, rows[i].item, "") ELSE disk
    /\ hosts' = [hosts EXCEPT ![i] = IF rows[i].tag = "code" THEN rows[i].item ELSE None]
    /\ UNCHANGED <<marks, stages, sess, nextId, nap, boot, wish, exposed, crashes>>

\* The rest of start_share's task: host_code, then remove_pending_share.
HandOver(i) ==
    /\ Is(i, "send", "handing")
    /\ SetSt(i, "run")
    /\ LET d == IF rows[i].tag = "code" THEN Put(disk, "code", i, rows[i].item, "") ELSE disk
       IN disk' = Del(d, "pend", i)
    /\ hosts' = [hosts EXCEPT ![i] = IF rows[i].tag = "code" THEN rows[i].item ELSE None]
    /\ UNCHANGED <<marks, stages, sess, nextId, nap, boot, wish, exposed, crashes>>

\* A receiver paired or failed to: on_state writes the counters.
CodeUsed(i) ==
    /\ hosts[i] # None
    /\ disk' = Put(disk, "code", i, hosts[i], "")
    /\ UNCHANGED <<marks, stages, sess, rows, hosts, nextId, nap, boot, wish, exposed, crashes>>

\* code_host_task ends: used up, refused by the relay, cancelled.
CodeEnds(i) ==
    /\ hosts[i] # None
    /\ hosts' = [hosts EXCEPT ![i] = None]
    /\ disk' = Del(disk, "code", i)
    /\ UNCHANGED <<marks, stages, sess, rows, nextId, nap, boot, wish, exposed, crashes>>

\* An archive came down whole and is seeded: seed_file re-serves the staged
\* tar as a send of its own, before the download's row is finished.
SeedFile(i) ==
    /\ Is(i, "dl", "run") /\ "seed" \in Commands
    /\ nextId \in Ids
    /\ LET x == rows[i].item IN
       /\ rows' = [rows EXCEPT ![i].st = "handing",
                               ![nextId] = NewRow(x, "send", "run", None, None, "owned")]
       /\ disk' = Put(disk, "send", nextId, x, "owned")
       /\ stages' = stages \cup {x}
       /\ exposed' = exposed \cup (IF Stale("send", nextId) = {} THEN {}
                                    ELSE {x} \cup Stale("send", nextId))
    /\ nextId' = nextId + 1
    /\ UNCHANGED <<marks, sess, hosts, nap, boot, wish, crashes>>

-----------------------------------------------------------------------------
(* The end of a row.                                                       *)

\* remove_send also deletes the file the record on disk says it owns.
StagesWithout(i) ==
    IF disk["send"][i] # None /\ disk["send"][i].tag = "owned"
    THEN stages \ {disk["send"][i].item} ELSE stages

\* What finish leaves of the records of d numbered i.
FinishedDisk(d, i) ==
    [d EXCEPT !["dl"][i] = None, !["send"][i] = None, !["pend"][i] = None,
              !["sendto"][i] = None, !["prep"][i] = None, !["upl"][i] = None]

\* Records of other items numbered i that finish takes with it: during a start
\* the old ones are still there.
Bystanders(i, x) ==
    {disk[f][i].item : f \in {g \in Kinds \ {"dep"} : disk[g][i] # None}} \ {x}

Finish(i) ==
    /\ Live(i) /\ (rows[i].st = "handing" => rows[i].kind = "dl")
    /\ rows' = [rows EXCEPT ![i] = None]
    /\ IF rows[i].kind = "dep"
       \* complete_deposit, or the watcher giving up: the record is retired.
       THEN disk' = Del(disk, "dep", i) /\ UNCHANGED <<marks, stages, sess, exposed>>
       ELSE /\ disk' = LET d == FinishedDisk(disk, i) IN
                       IF rows[i].kind = "link" THEN Del(d, "link", i) ELSE d
            /\ marks' = [marks EXCEPT ![i] = "no"]
            /\ stages' = StagesWithout(i)
            /\ sess' = sess \ {rows[i].item}
            /\ exposed' = exposed \cup Bystanders(i, rows[i].item)
    /\ wish' = [wish EXCEPT ![rows[i].item] = IF RowsOf(rows[i].item) = {i} THEN "done" ELSE @]
    /\ UNCHANGED <<hosts, nextId, nap, boot, crashes>>

-----------------------------------------------------------------------------
(* Stopping and starting again.                                            *)

\* pausable: a held send, or a download with its record, also one whose task
\* has been told to stop and still shows as active.
Pausable(i) ==
    /\ Live(i) /\ rows[i].st \in {"run", "stopping", "ending"}
    /\ rows[i].kind = "sendto" \/ (rows[i].kind = "dl" /\ disk["dl"][i] # None)

\* mutant
PauseWithoutMarker(i) == SetSt(i, "stopping") /\ UNCHANGED marks

\* pause: the marker of a download is written before its fetch is cancelled; a
\* held send is flagged, in memory.
PauseRow(i) ==
    /\ SetSt(i, "stopping")
    /\ marks' = IF rows[i].kind = "dl" THEN [marks EXCEPT ![i] = "user"] ELSE marks

Pause(i) ==
    /\ Up /\ "pause" \in Commands /\ Pausable(i)
    /\ PauseRow(i)
    /\ wish' = IF rows[i].kind = "dl" THEN [wish EXCEPT ![rows[i].item] = "stop"] ELSE wish
    /\ UNCHANGED <<disk, stages, sess, hosts, nextId, nap, boot, exposed, crashes>>

\* The task sees its token: the loop's handle_stop, or the receive settling,
\* which looks for the marker.
Settle(i) ==
    /\ Live(i) /\ rows[i].st = "stopping"
    /\ rows[i].kind = "dl" => marks[i] # "no"
    /\ SetSt(i, "paused")
    /\ IF rows[i].kind = "dl"
       THEN marks' = [marks EXCEPT ![i] = "user"] /\ UNCHANGED <<disk, wish>>
       ELSE /\ disk' = Put(disk, "sendto", i, rows[i].item, "paused")
            /\ wish' = [wish EXCEPT ![rows[i].item] = IF @ = "go" THEN "stop" ELSE @]
            /\ UNCHANGED marks
    /\ UNCHANGED <<stages, sess, hosts, nextId, nap, boot, exposed, crashes>>

\* A download stops of itself on a full disk.
DiskFull(i) ==
    /\ Is(i, "dl", "run") /\ "full" \in Commands
    /\ SetSt(i, "paused")
    /\ marks' = [marks EXCEPT ![i] = "user"]
    /\ Ask(rows[i].item, "stop")
    /\ UNCHANGED <<disk, stages, sess, hosts, nextId, nap, boot, exposed, crashes>>

\* resume of one row: a download needs its record.
Resumable(i) ==
    Live(i) /\ rows[i].st = "paused" /\ (rows[i].kind = "dl" => disk["dl"][i] # None)

\* The rows in I go back to work, their markers cleared, their records rewritten.
Resumed(I) ==
    /\ rows' = [i \in Ids |-> IF i \in I THEN [rows[i] EXCEPT !.st = "run"] ELSE rows[i]]
    /\ marks' = [i \in Ids |-> IF i \in I THEN "no" ELSE marks[i]]
    /\ disk' = [disk EXCEPT !["sendto"] = [i \in Ids |->
                  IF i \in I /\ rows[i].kind = "sendto"
                  THEN [item |-> rows[i].item, tag |-> ""] ELSE disk["sendto"][i]]]

Resume(i) ==
    /\ Up /\ Resumable(i)
    /\ Resumed({i})
    /\ Ask(rows[i].item, "go")
    /\ UNCHANGED <<stages, sess, hosts, nextId, nap, boot, exposed, crashes>>

\* suspend_running stops one row: pause(), then the marker rewritten.
SuspendPause(i) ==
    /\ Up /\ "suspend" \in Commands /\ nap = None /\ Pausable(i)
    /\ PauseRow(i)
    /\ nap' = i
    /\ Ask(rows[i].item, "sleep")
    /\ UNCHANGED <<disk, stages, sess, hosts, nextId, boot, exposed, crashes>>

\* A pause somebody made in between is taken for the machine's own.
SuspendMark ==
    /\ nap # None
    /\ marks' = [marks EXCEPT ![nap] = IF @ = "no" THEN "no" ELSE "system"]
    /\ wish' = [x \in Items |-> IF marks[nap] # "no" /\ nap \in RowsOf(x) /\ wish[x] = "stop"
                                THEN "sleep" ELSE wish[x]]
    /\ nap' = None
    \* A marker another transfer left under the number of a held send.
    /\ exposed' = exposed \cup {x \in Items : marks[nap] # "no" /\ \E i \in RowsOf(x) :
                                              i = nap /\ rows[i].kind = "sendto"}
    /\ UNCHANGED <<disk, stages, sess, rows, hosts, nextId, boot, crashes>>

\* The machine is back: what it had put to sleep is wanted again.
Wake == [x \in Items |-> IF wish[x] = "sleep" THEN "go" ELSE wish[x]]

Slept == {i \in Ids : Resumable(i) /\ marks[i] = "system"}

\* A marker of an earlier life under its number wakes a held send, too.
ResumeSuspended ==
    /\ Up /\ nap = None /\ \E x \in Items : wish[x] = "sleep"
    /\ Resumed(Slept)
    /\ wish' = Wake
    /\ exposed' = exposed \cup {rows[i].item : i \in {j \in Slept : rows[j].kind = "sendto"}}
    /\ UNCHANGED <<stages, sess, hosts, nextId, nap, boot, crashes>>

\* cancel: a running task is told to stop, a paused row ends there and then
\* (Finish); a task already told to stop for a pause hears nothing new.
Cancel(i) ==
    /\ Up /\ "cancel" \in Commands /\ Live(i) /\ rows[i].kind # "dep"
    /\ rows[i].st \in {"run", "stopping"} /\ wish[rows[i].item] # "gone"
    /\ SetSt(i, IF rows[i].st = "run" THEN "ending" ELSE "stopping")
    /\ Ask(rows[i].item, "gone")
    /\ UNCHANGED <<files, sess, hosts, nextId, nap, boot, exposed, crashes>>

-----------------------------------------------------------------------------
(* The end of the process, and resume_incomplete.                          *)

\* Row i goes by a number under which another item's upload or preparation is
\* still filed, the sweep of those not having come yet.
Mixed(i) == \E f \in {"upl", "prep"} : disk[f][i] # None /\ disk[f][i].item # rows[i].item

End ==
    /\ crashes < MaxCrashes
    /\ crashes' = crashes + 1
    /\ rows' = [i \in Ids |-> None] /\ hosts' = [i \in Ids |-> None]
    /\ nextId' = FirstId /\ nap' = None
    /\ boot' = Fresh
    \* A transfer between its old record and its new one, with two, or next
    \* to another's.
    /\ exposed' = exposed \cup (IF boot.hand = None THEN {} ELSE {boot.hand.item})
                    \cup {rows[i].item : i \in {j \in Ids : Live(j) /\ rows[j].st = "handing"}}
                    \cup {rows[i].item : i \in {j \in Ids : Live(j) /\ Mixed(j)}}
    /\ UNCHANGED sess

Crash == End /\ wish' = Wake /\ UNCHANGED files

\* ... or in the middle of finish, between the record of a held send or a link
\* and what hangs on it.
CrashInFinish(i) ==
    /\ End
    /\ Live(i) /\ rows[i].kind \in {"sendto", "link"}
    /\ disk' = Del(Del(disk, "sendto", i), "link", i)
    /\ wish' = [Wake EXCEPT ![rows[i].item] = "done"]
    /\ UNCHANGED <<marks, stages>>

\* Everything is read up front but links and pending shares; the codes leave
\* the disk at once.
LoadAll ==
    /\ boot.at = "load"
    /\ boot' = [at |-> "dep", hand |-> None, codes |-> Load("code"),
                todo |-> [k \in Kinds |-> IF k \in {"link", "pend"} THEN {} ELSE Load(k)]]
    /\ disk' = [disk EXCEPT !["code"] = [i \in Ids |-> None]]
    /\ UNCHANGED <<marks, stages, sess, rows, hosts, nextId, nap, wish, exposed, crashes>>

\* On to the next family; links and pending shares are read as theirs begins.
Proceed ==
    /\ boot.at \in {"dep", "sendto", "link", "pend", "dl", "send"}
    /\ boot.hand = None /\ boot.todo[boot.at] = {}
    /\ LET to == After(boot.at) IN
       boot' = [boot EXCEPT !.at = to, !.codes = IF to = "up" THEN {} ELSE @,
                            !.todo = IF to \in {"link", "pend"}
                                     THEN [boot.todo EXCEPT ![to] = Load(to)] ELSE boot.todo]
    /\ UNCHANGED <<files, sess, rows, hosts, nextId, nap, wish, exposed, crashes>>

\* mutant
SweepNoPreps ==
    /\ boot.at = "preps" /\ boot' = [boot EXCEPT !.at = "sendto"]
    /\ UNCHANGED <<files, sess, rows, hosts, nextId, nap, wish, exposed, crashes>>

\* Preparations whose held send is not coming back.
SweepPreps ==
    /\ boot.at = "preps" /\ boot' = [boot EXCEPT !.at = "sendto"]
    /\ disk' = [disk EXCEPT !["prep"] = [i \in Ids |->
                  IF \E r \in boot.todo["sendto"] : r.id = i THEN disk["prep"][i] ELSE None]]
    /\ UNCHANGED <<marks, stages, sess, rows, hosts, nextId, nap, wish, exposed, crashes>>

\* sweep_upload_records: every upload record there is, and its session.
SweepUploads ==
    /\ boot.at = "sweep" /\ boot' = [boot EXCEPT !.at = "dl"]
    /\ disk' = [disk EXCEPT !["upl"] = [i \in Ids |-> None]]
    /\ sess' = sess \ {r.item : r \in Load("upl")}
    /\ UNCHANGED <<marks, stages, rows, hosts, nextId, nap, wish, exposed, crashes>>

\* The stale records numbered i of kind k go; read_dir gives them in any order.
TakenDisk(k, i) ==
    [disk EXCEPT ![k][i] = None, !["prep"][i] = IF k = "sendto" THEN None ELSE disk["prep"][i]]

Take ==
    /\ boot.at \in Kinds /\ boot.hand = None
    /\ \E r \in boot.todo[boot.at] :
         LET k == boot.at IN
         /\ boot' = [boot EXCEPT !.todo[k] = @ \ {r},
                       !.hand = [id |-> r.id, item |-> r.item,
                                 tag |-> IF k = "dl" /\ marks[r.id] = "user" THEN "paused" ELSE r.tag,
                                 prep |-> IF k = "sendto" THEN disk["prep"][r.id] ELSE None]]
         /\ disk' = TakenDisk(k, r.id)
         /\ marks' = IF k = "dl" THEN [marks EXCEPT ![r.id] = "no"] ELSE marks
         /\ stages' = IF k = "send" THEN StagesWithout(r.id) ELSE stages
    /\ UNCHANGED <<sess, rows, hosts, nextId, nap, wish, exposed, crashes>>

Hand == boot.hand

Refile(k) == boot.at = k /\ Hand # None /\ boot' = [boot EXCEPT !.hand = None]

\* restore_deposited: one whose time is up is dropped.
RestoreDeposited ==
    /\ Refile("dep")
    /\ \/ /\ Register(NewRow(Hand.item, "dep", "run", None, None, ""))
          /\ disk' = Put(disk, "dep", nextId, Hand.item, "")
          /\ UNCHANGED wish
       \/ /\ Ask(Hand.item, "done")
          /\ disk' = Del(disk, "dep", Hand.id)
          /\ UNCHANGED <<rows, nextId, exposed>>
    /\ UNCHANGED <<marks, stages, sess, hosts, nap, crashes>>

\* A record taken over holds for this item if the file is the one it describes.
Matches(rec, x) == rec # None /\ (rec.item = x \/ SameFile)

\* mutant
TakeUploadOfNewId(x) ==
    IF nextId \in Ids /\ Matches(disk["upl"][nextId], x) THEN disk["upl"][nextId] ELSE None

\* take_upload_record: the seal filed under the old number, if it fits.
TakeUpload(x) == IF Matches(disk["upl"][Hand.id], x) THEN disk["upl"][Hand.id] ELSE None

\* restore_sendto, once its records have been taken.
RestoreSendTo ==
    /\ Refile("sendto")
    /\ \E changed \in BOOLEAN :
         LET x == Hand.item
             upl == disk["upl"][Hand.id]
             seal == IF changed THEN None ELSE TakeUpload(x)
             prep == IF ~changed /\ Matches(Hand.prep, x) THEN Hand.prep.item ELSE None
             d0 == Del(disk, "upl", Hand.id)
             d1 == IF seal = None THEN d0 ELSE Put(d0, "upl", nextId, seal.item, seal.tag)
             d2 == IF prep = None THEN d1 ELSE Put(d1, "prep", nextId, prep, "") IN
         /\ Register(NewRow(x, "sendto", IF Hand.tag = "paused" THEN "paused" ELSE "run",
                            seal, prep, ""))
         /\ disk' = Put(d2, "sendto", nextId, x, Hand.tag)
         /\ sess' = IF upl # None /\ seal = None THEN sess \ {upl.item} ELSE sess
    /\ UNCHANGED <<marks, stages, hosts, nap, wish, crashes>>

\* restore_link: with its seal, with a fresh one, or not at all when the file
\* is gone (its row is then registered and failed at once).
RestoreLink ==
    /\ Refile("link")
    /\ \E file \in {"same", "changed", "gone"} :
         LET x == Hand.item
             upl == disk["upl"][Hand.id]
             took == IF file = "same" THEN TakeUpload(x) ELSE None
             seal == IF took # None /\ took.tag = "link" THEN took
                     ELSE [item |-> x, tag |-> "link"]
             d0 == Del(disk, "upl", Hand.id) IN
         /\ sess' = IF upl # None /\ took = None THEN sess \ {upl.item} ELSE sess
         /\ IF file = "gone"
            THEN /\ nextId \in Ids /\ nextId' = nextId + 1
                 /\ disk' = FinishedDisk(d0, nextId)
                 /\ marks' = [marks EXCEPT ![nextId] = "no"]
                 /\ stages' = StagesWithout(nextId)
                 /\ exposed' = exposed \cup Bystanders(nextId, x)
                 /\ Ask(x, "done") /\ UNCHANGED rows
            ELSE /\ Register(NewRow(x, "link", "run", seal, None, ""))
                 /\ disk' = Put(Put(d0, "link", nextId, x, ""), "upl", nextId, seal.item, "link")
                 /\ UNCHANGED <<marks, stages, wish>>
    /\ UNCHANGED <<hosts, nap, crashes>>

\* A pending share starts again, as start_share does.
RestoreShare ==
    /\ Refile("pend")
    /\ Register(NewRow(Hand.item, "pend", "run", None, None, Hand.tag))
    /\ disk' = Put(disk, "pend", nextId, Hand.item, Hand.tag)
    /\ UNCHANGED <<marks, stages, sess, hosts, nap, wish, crashes>>

\* restore_paused_download or start_download.
RestoreDownload ==
    /\ Refile("dl")
    /\ Register(NewRow(Hand.item, "dl", IF Hand.tag = "paused" THEN "paused" ELSE "run",
                       None, None, ""))
    /\ disk' = Put(disk, "dl", nextId, Hand.item, "")
    /\ marks' = IF Hand.tag = "paused" THEN [marks EXCEPT ![nextId] = "user"] ELSE marks
    /\ UNCHANGED <<stages, sess, hosts, nap, wish, crashes>>

\* resume_serve, and resume_code for the code of the same old number.
RestoreSend ==
    /\ Refile("send")
    /\ Register(NewRow(Hand.item, "send", "run", None, None,
                       IF Hand.tag = "owned" THEN "owned" ELSE ""))
    /\ disk' = Put(disk, "send", nextId, Hand.item, Hand.tag)
    /\ hosts' = [hosts EXCEPT ![nextId] =
                   IF \E c \in boot.codes : c.id = Hand.id
                   THEN (CHOOSE c \in boot.codes : c.id = Hand.id).item ELSE None]
    /\ UNCHANGED <<marks, stages, sess, nap, wish, crashes>>

-----------------------------------------------------------------------------

Init ==
    /\ disk = [f \in Families |-> [i \in Ids |-> None]]
    /\ marks = [i \in Ids |-> "no"]
    /\ stages = {} /\ sess = {} /\ exposed = {}
    /\ rows = [i \in Ids |-> None] /\ hosts = [i \in Ids |-> None]
    /\ nextId = FirstId /\ nap = None /\ crashes = 0
    /\ boot = [Fresh EXCEPT !.at = "up"]
    /\ wish = [x \in Items |-> "new"]

Start == \E x \in Items : \/ SendTo(x) \/ CreateLink(x) \/ StartDownload(x)
                          \/ \E tag \in {"", "code"} : StartShare(x, tag)

Task == \E i \in Ids : \/ Prepare(i) \/ Upload(i) \/ UploadFails(i) \/ Deposit(i)
                       \/ BeginServing(i)
                       \/ HandOver(i) \/ CodeUsed(i) \/ CodeEnds(i) \/ SeedFile(i)
                       \/ Finish(i) \/ Settle(i) \/ DiskFull(i)

User == \/ \E i \in Ids : Pause(i) \/ Resume(i) \/ SuspendPause(i) \/ Cancel(i)
        \/ SuspendMark \/ ResumeSuspended

Restore == \/ LoadAll \/ Proceed \/ SweepPreps \/ SweepUploads \/ Take
           \/ RestoreDeposited \/ RestoreSendTo \/ RestoreLink \/ RestoreShare
           \/ RestoreDownload \/ RestoreSend

Next == \/ Start \/ Task \/ User \/ Restore
        \/ Crash \/ \E i \in Ids : CrashInFinish(i)

Spec == Init /\ [][Next]_vars

-----------------------------------------------------------------------------
(* What holds.                                                             *)

TypeOK ==
    /\ disk \in [Families -> [Ids -> Rec \cup {None}]]
    /\ marks \in [Ids -> {"no", "user", "system"}]
    /\ stages \subseteq Items /\ sess \subseteq Items /\ exposed \subseteq Items
    /\ rows \in [Ids -> Row \cup {None}]
    /\ hosts \in [Ids -> Items \cup {None}]
    /\ nextId \in 1 .. MaxId + 1
    /\ nap \in Ids \cup {None}
    /\ boot \in [at : Phases, todo : [Kinds -> SUBSET ReadRec], codes : SUBSET ReadRec,
                 hand : HandRec \cup {None}]
    /\ wish \in [Items -> {"new", "go", "stop", "sleep", "gone", "done"}]
    /\ crashes \in 0 .. MaxCrashes

\* Once a start is over, every transfer on the list has its record under the
\* number it now goes by, so the next start finds it - unless its number, or
\* its old one, met another's on the way.
RowsAreBacked ==
    Up => \A i \in Ids : Live(i) =>
            \/ rows[i].item \in exposed
            \/ /\ disk[rows[i].kind][i] # None
               /\ disk[rows[i].kind][i].item = rows[i].item

\* Nothing that was asked for, and neither ended nor called off, is missing
\* from the list after a start, with the same exceptions and that of a crash
\* between the removal of a record and its rewriting.
NothingForgotten ==
    Up => \A x \in Items :
            wish[x] \in {"go", "stop", "sleep"} => RowsOf(x) # {} \/ x \in exposed

\* No transfer is on the list twice: a record is not left behind by the start,
\* or the hand-over, that replaced it.
NeverTwice ==
    \A i, j \in Ids :
        i # j /\ Live(i) /\ Live(j) /\ rows[i].item = rows[j].item =>
            "handing" \in {rows[i].st, rows[j].st} \/ rows[i].item \in exposed

\* A download somebody paused, and a held send shown as paused, does not run
\* again before it is resumed, across any number of starts.
PauseIsKept ==
    \A i \in Ids : Live(i) /\ wish[rows[i].item] = "stop" =>
        rows[i].st # "run" \/ rows[i].item \in exposed

\* A send uses the key, and the preparation, made for it and no other's.
OwnKeys ==
    \A i \in Ids : Live(i) /\ rows[i].item \notin exposed =>
        /\ rows[i].seal # None => rows[i].seal.item = rows[i].item
        /\ rows[i].prep \in {None, rows[i].item}

\* Once a start is over no record is left of a transfer that is not on the
\* list: none holds a content key for nobody, none starts something again.
NoStrays ==
    Up => /\ \A f \in Families \ {"code"}, i \in Ids : disk[f][i] # None =>
                Live(i) /\ (rows[i].item = disk[f][i].item \/ rows[i].item \in exposed)
          /\ \A i \in Ids : marks[i] # "no" => (Live(i) /\ rows[i].kind = "dl") \/ exposed # {}
          /\ \A i \in Ids : disk["code"][i] # None => hosts[i] = disk["code"][i].item

\* What is on disk and what is on the list agree: a transfer has its record and
\* its own key, and nothing else is there.
DiskAgrees == TypeOK /\ RowsAreBacked /\ OwnKeys /\ NoStrays

\* Every transfer comes back once, and as it was left.
ComesBackOnce == NothingForgotten /\ NeverTwice /\ PauseIsKept

-----------------------------------------------------------------------------
(* What the code or its comments say and a run refutes.                    *)

\* Every transfer on the list is written down under the number it goes by,
\* with no exception: "Re-key the preparation onto the id it now belongs to, or
\* the next restart finds an orphan".  Refuted: the number may be an old one
\* that the start has yet to remove.
RowsAlwaysBacked ==
    Up => \A i \in Ids : Live(i) => disk[rows[i].kind][i] # None

\* What the machine put to sleep is running once it is back: "Start again
\* everything suspend_running stopped".  Refuted: the receive that settles
\* writes the marker again, as a person's, and a held send never had one.
SleepersWake ==
    \A i \in Ids : Live(i) /\ wish[rows[i].item] = "go" => rows[i].st # "paused"

\* A cancel ends the row.  Refuted: one that comes while a pause is settling
\* leaves the transfer paused, with its record.
CancelIsTotal ==
    \A i \in Ids : Live(i) /\ wish[rows[i].item] = "gone" => rows[i].st # "paused"

\* The upload a restored transfer carries on is written down.  Refuted: the
\* sweep that follows takes every record, and ends the session on the relay.
UploadsCarriedOn ==
    Up => \A i \in Ids : Live(i) /\ rows[i].seal # None => disk["upl"][i] # None

\* A code that is answered for is written down.  Refuted: a restored code is
\* filed again only once its counters change.
CodesWrittenDown == Up => \A i \in Ids : hosts[i] # None => disk["code"][i] # None

\* A send that owns the file it serves has it.  Refuted: removing the stale
\* record at the start deletes the file it names.
StagesKept == \A i \in Ids : Live(i) /\ rows[i].tag = "owned" => rows[i].item \in stages

\* A paused marker has its download's record: "the two never desync".  Refuted
\* when a start has removed the record of a download it had just filed.
MarkersHaveRecords == \A i \in Ids : marks[i] # "no" => disk["dl"][i] # None

=============================================================================
