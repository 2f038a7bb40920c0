---------------------------- MODULE UploadProofs ----------------------------
(***************************************************************************)
(* Proofs about Upload, for every size of the file and of its segments,    *)
(* every number of sessions, claims, retries and faults: what the relay    *)
(* keeps is whole, a restart does not stitch two files together, and the   *)
(* resumable upload implements Deposit.                                    *)
(*                                                                         *)
(* The invariant ties the three parties together: a session's bytes are in *)
(* order under its seal, the body being drained goes on where they end,    *)
(* the records name sessions made for their seal, and no byte of the       *)
(* session on record is of another time than between the record's stamp    *)
(* and the file as it is.                                                  *)
(***************************************************************************)
EXTENDS Upload, SequenceTheorems, TLAPS

USE UploadConstants, UploadNone DEF UploadConstants, UploadNone

\* The parts of the invariant.
RowType == [st : Steps, quiet : Nat, restarts : Nat, pos : Nat, claim : Claims \cup {None}]

Types ==
    /\ kind \in Kinds /\ file \in 1..Len(Sizes)
    /\ row \in RowType
    /\ mem \in Resumable \cup {None} /\ disk \in UploadRecord \cup {None}
    /\ ups \in [Ups -> UploadRow \cup {None}]
    /\ flight \in Body \cup {None}
    /\ entries \in [Claims -> Entry \cup {None}]
    /\ told \in Claims \cup {None}
    /\ got \in {"none", "pulling", "garbled", "held"} /\ burnt \in Claims \cup {None}
    /\ made \in [seal : Nat, up : Nat, claim : Nat] /\ faults \in Nat

\* Bytes are under the session's seal and each in its place.
InOrder(s) == \A i \in 1..Len(s.bytes) : s.bytes[i][1] = s.seal.n /\ s.bytes[i][3] = i

\* A session was made; until it is committed its bytes are in order; the memo of a
\* committed one names an entry that stays until its claim has been told.
SessionsOK ==
    \A u \in Ups : ups[u] # None =>
        /\ u <= made.up
        /\ ups[u].claim = None => InOrder(ups[u])
        /\ ups[u].claim # None => ups[u].claim <= made.claim
        /\ ups[u].claim # None /\ told = None => entries[ups[u].claim] # None

\* A body goes on where the bytes of its session end, which nobody commits meanwhile.
FlightOK ==
    flight # None =>
        /\ ups[flight.up] # None
        /\ ups[flight.up].claim = None
        /\ flight.next = Len(ups[flight.up].bytes) + 1

\* A record's session, where it is still there, is sealed as the record says.
Known(s, seal) ==
    s # None => s <= made.up /\ (ups[s] # None => ups[s].seal = seal)

NamesOK ==
    /\ mem # None => Known(mem.session, mem.seal)
    /\ disk # None => Known(disk.session, disk.seal)

EntriesOK ==
    \A c \in Claims : entries[c] # None => c <= made.claim /\ Whole(entries[c])

\* What the transfer's place in its upload says of everything else.
RowFits(r) == r.quiet <= MAX_QUIET_RETRIES /\ r.restarts <= MaxRestarts

RowOK ==
    /\ row.st = "sent" <=> flight # None /\ flight.live
    /\ row.st \in {"open", "single", "status", "send", "sent"} => mem # None
    /\ row.st \in {"status", "send", "sent"} => mem.session # None
    /\ kind = "link" /\ row.st \notin Over \cup {"down"} => mem # None
    /\ row.st = "down" => kind = "link" /\ disk # None /\ mem = None
    /\ kind = "link" /\ mem # None => disk # None
    /\ row.st = "offer" => row.claim # None /\ entries[row.claim] # None
    /\ told # None <=> row.st = "done"
    /\ RowFits(row)

\* What is in the session on record, or still on its way there from a request that
\* was given up, was read from the file since the record's stamp was taken.
Within(s) == \A i \in 1..Len(s.bytes) : disk.stamp <= s.bytes[i][2] /\ s.bytes[i][2] <= file

StampOK ==
    disk # None =>
        /\ disk.stamp <= file
        /\ disk.session # None =>
            /\ ups[disk.session] # None => Within(ups[disk.session])
            /\ flight # None /\ flight.up = disk.session /\ ~flight.live
                 => disk.stamp <= flight.v /\ flight.v <= file

\* Nobody collects what nobody was told of.
ReaderOK == (burnt # None => told # None) /\ (got # "none" => told # None)

Inv ==
    /\ Types /\ SessionsOK /\ FlightOK /\ NamesOK /\ EntriesOK
    /\ RowOK /\ StampOK /\ SpentIsHeld /\ ReaderOK

LEMMA InitInv == Init => Inv
  <1> SUFFICES ASSUME Init PROVE Inv
    OBVIOUS
  <1> USE DEF Init
  <1>1. Sizes[1] \in Nat /\ 1 \in 1..Len(Sizes)
    OBVIOUS
  <1>2. kind = "link" => mem \in Resumable /\ disk \in UploadRecord
    BY <1>1 DEF Resumable, UploadRecord, Seal
  <1>3. Types
    BY <1>1, <1>2 DEF Types, RowType, Steps
  <1>4. SessionsOK /\ FlightOK /\ NamesOK /\ EntriesOK
    BY DEF SessionsOK, FlightOK, NamesOK, Known, EntriesOK
  <1>5. RowOK
    BY <1>2 DEF RowOK, RowFits, Over
  <1>6. StampOK /\ SpentIsHeld /\ ReaderOK
    BY DEF StampOK, SpentIsHeld, ReaderOK
  <1>7. QED
    BY <1>3, <1>4, <1>5, <1>6 DEF Inv

-----------------------------------------------------------------------------

\* The relay's side of a step that adds nothing to it, and the client's side of one
\* that at most drops what it remembers.
RelayShrinks ==
    /\ ups' \in [Ups -> UploadRow \cup {None}]
    /\ \A u \in Ups : ups'[u] # None => ups'[u] = ups[u]
    /\ flight # None => ups'[flight.up] = ups[flight.up]
    /\ \/ flight' = flight \/ flight' = None
       \/ flight # None /\ flight' = [flight EXCEPT !.live = FALSE, !.v = file]
    /\ entries' = entries /\ made'.up = made.up /\ made'.claim = made.claim
    /\ file' = file
    /\ told' = None => told = None

ClientForgets ==
    /\ mem' = mem \/ mem' = None \/ (mem' # None /\ mem'.session = None)
    /\ disk' = disk \/ disk' = None
         \/ (disk' \in UploadRecord /\ disk'.session = None /\ disk'.stamp = file)

LEMMA Shrinking ==
    ASSUME Inv, RelayShrinks, ClientForgets
    PROVE  SessionsOK' /\ FlightOK' /\ NamesOK' /\ EntriesOK' /\ StampOK'
  <1> USE DEF Inv, RelayShrinks
  <1>1. SessionsOK'
    <2> SUFFICES ASSUME NEW u \in Ups, ups'[u] # None
                 PROVE  /\ u <= made'.up
                        /\ ups'[u].claim = None => InOrder(ups'[u])
                        /\ ups'[u].claim # None => ups'[u].claim <= made'.claim
                        /\ ups'[u].claim # None /\ told' = None => entries'[ups'[u].claim] # None
      BY DEF SessionsOK, InOrder
    <2>1. ups'[u] = ups[u]
      OBVIOUS
    <2>2. QED
      BY <2>1 DEF SessionsOK
  <1>2. FlightOK'
    BY DEF FlightOK, Types, Body
  <1>3. NamesOK'
    BY SMTT(30) DEF NamesOK, Known, Types, ClientForgets, Resumable, UploadRecord
  <1>4. EntriesOK'
    BY DEF EntriesOK, Whole
  <1>5. StampOK'
    <2>1. CASE disk' = disk
      <3> SUFFICES ASSUME disk # None, disk.session # None
                   PROVE  /\ ups'[disk.session] # None => Within(ups[disk.session])
                          /\ flight' # None /\ flight'.up = disk.session /\ ~flight'.live
                                => disk.stamp <= flight'.v /\ flight'.v <= file
        BY <2>1 DEF StampOK, Within, Types, UploadRecord
      <3>1. ups'[disk.session] # None => Within(ups[disk.session])
        BY DEF StampOK, Types, UploadRecord
      <3>2. ASSUME flight' # None, flight'.up = disk.session, ~flight'.live
            PROVE  disk.stamp <= flight'.v /\ flight'.v <= file
        <4>1. CASE flight' = flight
          BY <4>1, <3>2 DEF StampOK
        <4>2. CASE flight # None /\ flight' = [flight EXCEPT !.live = FALSE, !.v = file]
          BY <4>2 DEF StampOK, Types, Body
        <4>3. QED
          BY <3>2, <4>1, <4>2
      <3>3. QED
        BY <3>1, <3>2
    <2>2. CASE disk' = None
      BY <2>2 DEF StampOK
    <2>3. CASE disk' \in UploadRecord /\ disk'.session = None /\ disk'.stamp = file
      BY <2>3 DEF StampOK, Types
    <2>4. QED
      BY <2>1, <2>2, <2>3 DEF ClientForgets
  <1>6. QED
    BY <1>1, <1>2, <1>3, <1>4, <1>5

LEMMA AbortShrinks ==
    ASSUME Inv, NEW u \in Ups \cup {None}
    PROVE  /\ Abort(u) \in [Ups -> UploadRow \cup {None}]
           /\ \A v \in Ups : Abort(u)[v] # None => Abort(u)[v] = ups[v]
           /\ flight # None => Abort(u)[flight.up] = ups[flight.up]
  BY DEF Inv, Types, Abort, Busy, Body

LEMMA AbandonShrinks ==
    ASSUME Inv, Abandon
    PROVE  /\ ups' \in [Ups -> UploadRow \cup {None}]
           /\ \A v \in Ups : ups'[v] # None => ups'[v] = ups[v]
           /\ flight # None => ups'[flight.up] = ups[flight.up]
  <1>1. CASE mem = None
    BY <1>1 DEF Inv, Types, Abandon
  <1>2. CASE mem # None
    <2>1. mem.session \in Ups \cup {None}
      BY <1>2 DEF Inv, Types, Resumable
    <2>2. ups' = ups \/ ups' = Abort(mem.session)
      BY <1>2 DEF Abandon
    <2>3. QED
      BY <2>1, <2>2, AbortShrinks DEF Inv, Types
  <1>3. QED
    BY <1>1, <1>2

-----------------------------------------------------------------------------

\* How a step leaves the row.
LEMMA Bounds == MAX_QUIET_RETRIES \in Nat /\ MaxRestarts \in Nat /\ MaxFaults \in Nat
  OBVIOUS

LEMMA RowSet ==
    ASSUME row \in RowType, NEW st \in Steps, NEW q \in Nat, NEW r \in Nat, NEW p \in Nat,
           row' = [row EXCEPT !.st = st, !.quiet = q, !.restarts = r, !.pos = p]
    PROVE  /\ row' \in RowType /\ row'.st = st /\ row'.claim = row.claim
           /\ row'.quiet = q /\ row'.restarts = r
  BY DEF RowType

LEMMA RowFitsAt ==
    ASSUME row' \in RowType, row'.quiet <= MAX_QUIET_RETRIES, row'.restarts <= MaxRestarts
    PROVE  RowFits(row')
  BY DEF RowFits

LEMMA EndsRow ==
    ASSUME row \in RowType, NEW how \in Steps, Ends(how)
    PROVE  row' \in RowType /\ row'.st = how /\ row'.claim = row.claim /\ RowFits(row')
  <1>1. row' \in RowType /\ row'.st = how /\ row'.claim = row.claim /\ row'.quiet = 0 /\ row'.restarts = 0
    BY RowSet DEF Ends
  <1>2. QED
    BY <1>1, Bounds, RowFitsAt

LEMMA AtRow ==
    ASSUME row \in RowType, RowFits(row), NEW st \in Steps, At(st)
    PROVE  row' \in RowType /\ row'.st = st /\ row'.claim = row.claim /\ RowFits(row')
  BY DEF At, RowType, RowFits

LEMMA WaitsRow ==
    ASSUME row \in RowType, Waits
    PROVE  row' \in RowType /\ row'.st = "waiting" /\ row'.claim = row.claim /\ RowFits(row')
  <1>1. "waiting" \in Steps
    BY DEF Steps
  <1>2. Ends("waiting")
    BY DEF Waits, Ends
  <1>3. QED
    BY <1>1, <1>2, EndsRow

LEMMA QuietRow ==
    ASSUME row \in RowType, RowFits(row), NEW again \in Steps, Quiet(again)
    PROVE  row' \in RowType /\ row'.st \in {again, "waiting"} /\ row'.claim = row.claim /\ RowFits(row')
  <1>1. CASE row.quiet + 1 > MAX_QUIET_RETRIES
    BY <1>1, WaitsRow DEF Quiet
  <1>2. CASE ~(row.quiet + 1 > MAX_QUIET_RETRIES)
    <2>1. row' = [row EXCEPT !.st = again, !.quiet = @ + 1, !.pos = 0]
      BY <1>2 DEF Quiet
    <2>2. row.quiet \in Nat /\ row.quiet + 1 \in Nat
      BY DEF RowType
    <2>3. /\ row' \in RowType /\ row'.st = again /\ row'.claim = row.claim
          /\ row'.quiet = row.quiet + 1 /\ row'.restarts = row.restarts
      BY <2>1, <2>2 DEF RowType
    <2>4. row'.quiet <= MAX_QUIET_RETRIES
      BY <1>2, <2>2, <2>3, Bounds
    <2>5. QED
      BY <2>3, <2>4, RowFitsAt DEF RowFits
  <1>3. QED
    BY <1>1, <1>2

LEMMA RestartedRow ==
    ASSUME row \in RowType, RowFits(row), Restarted
    PROVE  row' \in RowType /\ row'.st \in {"open", "waiting"} /\ row'.claim = row.claim /\ RowFits(row')
  <1>1. CASE row.restarts + 1 > MaxRestarts
    BY <1>1, WaitsRow DEF Restarted
  <1>2. CASE ~(row.restarts + 1 > MaxRestarts)
    <2>1. "open" \in Steps
      BY DEF Steps
    <2>2. row' = [row EXCEPT !.st = "open", !.restarts = @ + 1, !.pos = 0]
      BY <1>2 DEF Restarted
    <2>3. row.restarts \in Nat /\ row.restarts + 1 \in Nat
      BY DEF RowType
    <2>4. /\ row' \in RowType /\ row'.st = "open" /\ row'.claim = row.claim
          /\ row'.restarts = row.restarts + 1 /\ row'.quiet = row.quiet
      BY <2>1, <2>2, <2>3 DEF RowType
    <2>5. row'.restarts <= MaxRestarts
      BY <1>2, <2>3, <2>4, Bounds
    <2>6. QED
      BY <2>4, <2>5, RowFitsAt DEF RowFits
  <1>3. QED
    BY <1>1, <1>2

LEMMA FaultType == ASSUME faults \in Nat, Fault \/ faults' = faults PROVE faults' \in Nat
  BY DEF Fault

-----------------------------------------------------------------------------
\* What the record is left as.
LEMMA FileType == ASSUME Types PROVE file \in Nat /\ Sizes[file] \in Nat
  BY DEF Types

LEMMA RememberType ==
    ASSUME Types, NEW r \in Resumable, Remember(r)
    PROVE  /\ mem' = r /\ mem' \in Resumable /\ mem' # None
           /\ disk' \in UploadRecord \cup {None}
           /\ kind = "link" => /\ disk' \in UploadRecord /\ disk' # None
                               /\ disk'.seal = r.seal /\ disk'.session = r.session /\ disk'.stamp = file
           /\ kind # "link" => disk' = None
  <1>1. mem' = r /\ mem' \in Resumable /\ mem' # None
    BY DEF Remember
  <1>2. CASE kind = "link"
    <2>1. disk' = [seal |-> r.seal, session |-> r.session, stamp |-> file]
      BY <1>2 DEF Remember, Persisted
    <2>2. r.seal \in Seal /\ r.session \in Ups \cup {None}
      BY DEF Resumable
    <2>3. disk' \in UploadRecord
      BY <2>1, <2>2, FileType DEF UploadRecord
    <2>4. QED
      BY <1>1, <1>2, <2>1, <2>3
  <1>3. CASE kind # "link"
    BY <1>1, <1>3 DEF Remember, Persisted
  <1>4. QED
    BY <1>2, <1>3

LEMMA RestartedRecord ==
    ASSUME Types, mem # None, Restarted
    PROVE  /\ mem' \in Resumable /\ mem' # None /\ mem'.session = None
           /\ disk' \in UploadRecord \cup {None}
           /\ kind = "link" => disk' # None
           /\ ClientForgets
  <1> DEFINE r == [mem EXCEPT !.session = None]
  <1>1. mem \in Resumable
    BY DEF Types
  <1>2. r \in Resumable /\ r.session = None
    BY <1>1 DEF Resumable
  <1>3. Remember(r)
    BY DEF Restarted, SessionChanged
  <1> HIDE DEF r
  <1>4. QED
    BY <1>2, <1>3, RememberType DEF ClientForgets, Types

LEMMA SealMadeType ==
    ASSUME made \in [seal : Nat, up : Nat, claim : Nat], SealMade
    PROVE  made' \in [seal : Nat, up : Nat, claim : Nat] /\ made'.up = made.up /\ made'.claim = made.claim
  <1> DEFINE n == made.seal + 1
  <1>1. n \in Nat
    OBVIOUS
  <1>2. made' = [made EXCEPT !.seal = n]
    BY DEF SealMade
  <1> HIDE DEF n
  <1>3. QED
    BY <1>1, <1>2

LEMMA RelaySame ==
    ASSUME Inv, UNCHANGED <<relay, file, made>>, told' = None => told = None
    PROVE  RelayShrinks
  BY DEF Inv, Types, RelayShrinks, relay

\* A step that only shrinks the relay and the record keeps the invariant, when it
\* keeps the row's part of it.
LEMMA Light ==
    ASSUME Inv, RelayShrinks, ClientForgets, UNCHANGED <<kind, reader>>,
           row' \in RowType, mem' \in Resumable \cup {None}, disk' \in UploadRecord \cup {None},
           told' \in Claims \cup {None}, made' \in [seal : Nat, up : Nat, claim : Nat],
           Fault \/ faults' = faults, RowOK'
    PROVE  Inv'
  <1>1. flight' \in Body \cup {None}
    <2>1. file \in Nat
      BY FileType DEF Inv
    <2>2. QED
      BY ZenonT(60), <2>1 DEF Inv, Types, RelayShrinks, Body
  <1>2. faults' \in Nat
    BY FaultType DEF Inv, Types
  <1>3. Types'
    BY <1>1, <1>2 DEF Inv, Types, RelayShrinks, reader
  <1>4. SpentIsHeld' /\ ReaderOK'
    BY DEF Inv, SpentIsHeld, ReaderOK, RelayShrinks, reader
  <1>5. QED
    BY <1>3, <1>4, Shrinking DEF Inv

-----------------------------------------------------------------------------
(* The steps of an attempt that add nothing to the relay.                  *)

LEMMA StepBeginLink == ASSUME Inv, BeginLink PROVE Inv'
  <1> USE DEF BeginLink
  <1>1. CASE Sizes[file] # mem.seal.size
    <2>1. RelayShrinks /\ ClientForgets
      BY <1>1, AbandonShrinks DEF RelayShrinks, ClientForgets, Forget, reader
    <2>2. row' \in RowType /\ row'.st = "failed" /\ RowFits(row')
      BY <1>1, EndsRow DEF Inv, Types, Steps, Over
    <2>3. RowOK'
      BY <1>1, <2>2 DEF Inv, RowOK, Forget, Over, reader
    <2>4. QED
      BY <1>1, <2>1, <2>2, <2>3, Light DEF Inv, Types, Forget
  <1>2. CASE Sizes[file] = mem.seal.size
    <2>1. RelayShrinks /\ ClientForgets
      BY <1>2 DEF Inv, Types, RelayShrinks, ClientForgets, reader
    <2>2. PICK b \in BOOLEAN : SupportsUpload(b) /\ At(Path(b, mem))
      BY <1>2
    <2>3. Path(b, mem) \in {"single", "open", "status"}
          /\ (Path(b, mem) = "status" => mem.session # None)
      BY DEF Path
    <2>4. row' \in RowType /\ row'.st = Path(b, mem) /\ RowFits(row')
      BY <2>2, <2>3, AtRow DEF Inv, Types, RowOK, Steps
    <2>5. RowOK'
      BY <1>2, <2>3, <2>4 DEF Inv, RowOK, Over, reader
    <2>6. QED
      BY <1>2, <2>1, <2>2, <2>4, <2>5, Light DEF Inv, Types, SupportsUpload
  <1>3. QED
    BY <1>1, <1>2

LEMMA StepBeginDeposit == ASSUME Inv, BeginDeposit PROVE Inv'
  <1> USE DEF BeginDeposit
  <1>1. PICK b \in BOOLEAN : SupportsUpload(b) /\
        IF mem # None /\ mem.seal.size = Sizes[file]
        THEN At(Path(b, mem)) /\ UNCHANGED <<mem, disk, ups, made>>
        ELSE /\ CanSeal /\ SealMade /\ Abandon
             /\ Remember([seal |-> Fresh(file), session |-> None])
             /\ At(Path(b, [session |-> None]))
    OBVIOUS
  <1>2. CASE mem # None /\ mem.seal.size = Sizes[file]
    <2>1. RelayShrinks /\ ClientForgets
      BY <1>1, <1>2 DEF Inv, Types, RelayShrinks, ClientForgets, reader
    <2>3. Path(b, mem) \in {"single", "open", "status"}
          /\ (Path(b, mem) = "status" => mem.session # None)
      BY DEF Path
    <2>4. row' \in RowType /\ row'.st = Path(b, mem) /\ RowFits(row')
      BY <1>1, <1>2, <2>3, AtRow DEF Inv, Types, RowOK, Steps
    <2>5. RowOK'
      BY <1>1, <1>2, <2>3, <2>4 DEF Inv, RowOK, Over, reader
    <2>6. QED
      BY <1>1, <1>2, <2>1, <2>4, <2>5, Light DEF Inv, Types, SupportsUpload
  <1>3. CASE ~(mem # None /\ mem.seal.size = Sizes[file])
    <2> DEFINE r == [seal |-> Fresh(file), session |-> None]
    <2>1. r \in Resumable /\ r.session = None
      BY SMTT(30), FileType DEF Inv, Types, Fresh, Resumable, Seal
    <2>2. Remember(r) /\ SealMade /\ Abandon /\ At(Path(b, [session |-> None]))
      BY <1>1, <1>3
    <2> HIDE DEF r
    <2>3. made' \in [seal : Nat, up : Nat, claim : Nat] /\ made'.up = made.up /\ made'.claim = made.claim
      BY <2>2, SealMadeType DEF Inv, Types
    <2>4. /\ mem' \in Resumable /\ mem' # None /\ mem'.session = None
          /\ disk' \in UploadRecord \cup {None} /\ disk' = None
      BY <2>1, <2>2, RememberType DEF Inv
    <2>5. RelayShrinks /\ ClientForgets
      BY <2>2, <2>3, <2>4, AbandonShrinks DEF RelayShrinks, ClientForgets, reader
    <2>6. Path(b, [session |-> None]) \in {"single", "open"}
      BY DEF Path
    <2>7. row' \in RowType /\ row'.st \in {"single", "open"} /\ RowFits(row')
      BY <2>2, <2>6, AtRow DEF Inv, Types, RowOK, Steps
    <2>8. RowOK'
      BY <2>4, <2>7 DEF Inv, RowOK, Over, reader
    <2>9. QED
      BY <1>1, <2>3, <2>4, <2>5, <2>7, <2>8, Light DEF Inv, Types, SupportsUpload
  <1>4. QED
    BY <1>2, <1>3

LEMMA StepOpenRefused == ASSUME Inv, OpenRefused PROVE Inv'
  <1> USE DEF OpenRefused
  <1>1. RelayShrinks
    BY RelaySame
  <1>2. CASE Waits /\ UNCHANGED <<mem, disk>>
    <2>1. row' \in RowType /\ row'.st = "waiting" /\ RowFits(row')
      BY <1>2, WaitsRow DEF Inv, Types
    <2>2. RowOK'
      BY <1>2, <2>1 DEF Inv, RowOK, Over, reader, relay
    <2>3. QED
      BY <1>1, <1>2, <2>1, <2>2, Light DEF Inv, Types, ClientForgets
  <1>3. CASE Ends("failed") /\ Forget
    <2>1. row' \in RowType /\ row'.st = "failed" /\ RowFits(row')
      BY <1>3, EndsRow DEF Inv, Types, Steps, Over
    <2>2. RowOK'
      BY <1>3, <2>1 DEF Inv, RowOK, Over, Forget, reader, relay
    <2>3. QED
      BY <1>1, <1>3, <2>1, <2>2, Light DEF Inv, Types, ClientForgets, Forget
  <1>4. QED
    BY <1>2, <1>3

LEMMA Restarts ==
    ASSUME Inv, mem # None, Restarted, row.st \in {"status", "send"},
           UNCHANGED <<kind, file, relay, told, reader, made, faults>>
    PROVE  Inv'
  <1>1. RelayShrinks
    BY RelaySame
  <1>2. row' \in RowType /\ row'.st \in {"open", "waiting"} /\ RowFits(row')
    BY RestartedRow DEF Inv, Types, RowOK
  <1>3. /\ mem' \in Resumable /\ mem' # None /\ mem'.session = None
        /\ disk' \in UploadRecord \cup {None}
        /\ kind = "link" => disk' # None
        /\ ClientForgets
    BY RestartedRecord DEF Inv
  <1>4. RowOK'
    BY <1>2, <1>3 DEF Inv, RowOK, Over, reader, relay
  <1>5. QED
    BY <1>1, <1>2, <1>3, <1>4, Light DEF Inv, Types

\* A step that only moves the row, to a place that needs nothing more.
LEMMA Moves ==
    ASSUME Inv, row.st \in {"status", "send"}, row' \in RowType, RowFits(row'),
           row'.st \in {"status", "send", "waiting"},
           UNCHANGED <<kind, mem, disk, file, relay, told, reader, made>>,
           Fault \/ faults' = faults
    PROVE  Inv'
  <1>1. RelayShrinks
    BY RelaySame
  <1>2. RowOK'
    BY DEF Inv, RowOK, Over, reader, relay
  <1>3. QED
    BY <1>1, <1>2, Light DEF Inv, Types, ClientForgets

LEMMA ReceivedType == ASSUME Types, NEW u \in Ups, ups[u] # None PROVE Received(u) \in Nat
  BY SMTT(30) DEF Types, Received, UploadRow, Seal

LEMMA RowPos ==
    ASSUME row \in RowType, RowFits(row), NEW st \in Steps, NEW p \in Nat,
           row' = [row EXCEPT !.st = st, !.pos = p]
    PROVE  row' \in RowType /\ row'.st = st /\ row'.claim = row.claim /\ RowFits(row')
  BY DEF RowType, RowFits

LEMMA StepStatus == ASSUME Inv, Status PROVE Inv'
  <1> USE DEF Status
  <1>1. mem # None /\ mem.session \in Ups
    BY DEF Inv, Types, RowOK, Resumable
  <1>2. CASE ups[mem.session] = None
    BY <1>1, <1>2, Restarts
  <1>3. CASE ups[mem.session] # None
    <2>1. Received(mem.session) \in Nat
      BY <1>1, <1>3, ReceivedType DEF Inv
    <2>2. row' \in RowType /\ row'.st = "send" /\ RowFits(row')
      BY <1>3, <2>1, RowPos DEF Inv, Types, RowOK, Steps
    <2>3. QED
      BY <1>3, <2>2, Moves
  <1>4. QED
    BY <1>2, <1>3

LEMMA StepStatusLost == ASSUME Inv, StatusLost PROVE Inv'
  <1> USE DEF StatusLost
  <1>1. row' \in RowType /\ row'.st \in {"status", "waiting"} /\ RowFits(row')
    BY QuietRow DEF Inv, Types, RowOK, Steps
  <1>2. QED
    BY <1>1, Moves

LEMMA StepCommitRefused == ASSUME Inv, CommitRefused PROVE Inv'
  <1> USE DEF CommitRefused
  <1>1. mem # None /\ mem.session \in Ups
    BY DEF Inv, Types, RowOK, Resumable
  <1>2. CASE ups[mem.session] = None
    BY <1>1, <1>2, Restarts
  <1>3. CASE ups[mem.session] # None
    <2>1. Received(mem.session) \in Nat
      BY <1>1, <1>3, ReceivedType DEF Inv
    <2>2. row' \in RowType /\ row'.st \in {"status", "waiting", "send"} /\ RowFits(row')
      <3>1. CASE Quiet("status")
        BY <3>1, QuietRow DEF Inv, Types, RowOK, Steps
      <3>2. CASE row' = [row EXCEPT !.pos = Received(mem.session)]
        BY <2>1, <3>2 DEF Inv, Types, RowOK, RowType, RowFits
      <3>3. QED
        BY <1>3, <3>1, <3>2
    <2>3. QED
      BY <1>3, <2>2, Moves
  <1>4. QED
    BY <1>2, <1>3

LEMMA StepPostOffer == ASSUME Inv, PostOffer PROVE Inv'
  <1> USE DEF PostOffer
  <1>1. told' \in Claims /\ told' # None
    BY DEF Inv, Types, RowOK, RowType
  <1>2. RelayShrinks
    BY <1>1, RelaySame
  <1>3. row' \in RowType /\ row'.st = "done" /\ RowFits(row')
    BY EndsRow DEF Inv, Types, Steps, Over
  <1>4. RowOK'
    BY <1>1, <1>3 DEF Inv, RowOK, Over, relay, reader
  <1>5. QED
    BY <1>1, <1>2, <1>3, <1>4, Light DEF Inv, Types, ClientForgets

LEMMA StepOfferFails == ASSUME Inv, OfferFails PROVE Inv'
  <1> USE DEF OfferFails
  <1>1. RelayShrinks
    BY RelaySame
  <1>2. row' \in RowType /\ row'.st = "waiting" /\ RowFits(row')
    BY DEF Inv, Types, RowOK, RowType, RowFits, Steps
  <1>3. RowOK'
    BY <1>2 DEF Inv, RowOK, Over, relay, reader
  <1>4. QED
    BY <1>1, <1>2, <1>3, Light DEF Inv, Types, ClientForgets

LEMMA StepRetry == ASSUME Inv, Retry PROVE Inv'
  <1> USE DEF Retry
  <1>1. RelayShrinks
    BY RelaySame
  <1>2. row' \in RowType /\ row'.st = "start" /\ RowFits(row')
    BY AtRow DEF Inv, Types, RowOK, Steps
  <1>3. RowOK'
    BY <1>2 DEF Inv, RowOK, Over, relay, reader
  <1>4. QED
    BY <1>1, <1>2, <1>3, Light DEF Inv, Types, ClientForgets

\* A body nobody waits for.
LEMMA DetachedFlight ==
    ASSUME Inv, Detached
    PROVE  /\ \/ flight' = flight \/ flight' = None
              \/ flight # None /\ flight' = [flight EXCEPT !.live = FALSE, !.v = file]
           /\ ~(flight' # None /\ flight'.live)
  BY DEF Inv, Types, Detached, Body

\* The upload is given up: failed or cancelled, its session abandoned.
LEMMA GivesUp ==
    ASSUME Inv, row.st \notin Over \cup {"down"}, NEW how \in {"failed", "cancelled"}, Ends(how),
           Abandon, Forget, Detached, UNCHANGED <<kind, file, entries, told, reader, made>>,
           Fault \/ faults' = faults
    PROVE  Inv'
  <1>1. RelayShrinks /\ ClientForgets
    BY AbandonShrinks, DetachedFlight DEF RelayShrinks, ClientForgets, Forget
  <1>2. row' \in RowType /\ row'.st = how /\ RowFits(row')
    BY EndsRow DEF Inv, Types, Steps, Over
  <1>3. RowOK'
    BY <1>2, DetachedFlight DEF Inv, RowOK, Forget, Over
  <1>4. QED
    BY <1>1, <1>2, <1>3, Light DEF Inv, Types, Forget

LEMMA StepCancel == ASSUME Inv, Cancel PROVE Inv'
  BY GivesUp DEF Cancel

LEMMA StepReadFails == ASSUME Inv, ReadFails PROVE Inv'
  <1>1. row.st \notin Over \cup {"down"}
    BY DEF ReadFails, Inv, RowOK, Over
  <1>2. QED
    BY <1>1, GivesUp DEF ReadFails

LEMMA StepCrash == ASSUME Inv, Crash PROVE Inv'
  <1> USE DEF Crash
  <1> DEFINE how == IF kind = "link" THEN "down" ELSE "failed"
  <1>1. RelayShrinks /\ ClientForgets
    BY DetachedFlight DEF RelayShrinks, ClientForgets, Inv, Types
  <1>2. row' \in RowType /\ row'.st = how /\ RowFits(row')
    BY EndsRow DEF Inv, Types, Steps, Over
  <1>3. RowOK'
    BY <1>2, DetachedFlight DEF Inv, RowOK, Over
  <1>4. QED
    BY <1>1, <1>2, <1>3, Light DEF Inv, Types

LEMMA StepSingleFails == ASSUME Inv, SingleFails PROVE Inv'
  <1> USE DEF SingleFails
  <1>1. CASE Fault /\ Waits /\ UNCHANGED <<mem, disk, ups>>
    <2>1. RelayShrinks
      BY <1>1, RelaySame DEF relay
    <2>2. row' \in RowType /\ row'.st = "waiting" /\ RowFits(row')
      BY <1>1, WaitsRow DEF Inv, Types
    <2>3. RowOK'
      BY <1>1, <2>2 DEF Inv, RowOK, Over
    <2>4. QED
      BY <1>1, <2>1, <2>2, <2>3, Light DEF Inv, Types, ClientForgets
  <1>2. CASE Sizes[file] < Len0 /\ Ends("failed") /\ Abandon /\ Forget /\ UNCHANGED faults
    <2>1. Detached
      BY DEF Detached, Inv, RowOK, Types, Body
    <2>2. row.st \notin Over \cup {"down"}
      BY DEF Over
    <2>3. QED
      BY <1>2, <2>1, <2>2, GivesUp
  <1>3. QED
    BY <1>1, <1>2

LEMMA StepUploadReap == ASSUME Inv, NEW u \in Ups, UploadReap(u) PROVE Inv'
  <1> USE DEF UploadReap
  <1>1. RelayShrinks /\ ClientForgets
    BY DEF RelayShrinks, ClientForgets, Busy, Inv, Types, client
  <1>2. RowOK'
    BY DEF Inv, RowOK, RowFits, client
  <1>3. QED
    BY <1>1, <1>2, Light DEF Inv, Types, client

LEMMA StepBodyBreaks == ASSUME Inv, BodyBreaks PROVE Inv'
  <1> USE DEF BodyBreaks
  <1>1. RelayShrinks /\ ClientForgets
    BY DetachedFlight DEF RelayShrinks, ClientForgets, Inv, Types
  <1>2. row' \in RowType /\ row'.st \in {"status", "waiting"} /\ RowFits(row')
    BY QuietRow DEF Inv, Types, RowOK, Steps
  <1>3. RowOK'
    BY <1>2, DetachedFlight DEF Inv, RowOK, Over
  <1>4. QED
    BY <1>1, <1>2, <1>3, Light DEF Inv, Types

LEMMA StepHandlerEnds == ASSUME Inv, HandlerEnds PROVE Inv'
  <1> USE DEF HandlerEnds
  <1>1. RelayShrinks /\ ClientForgets
    BY DEF RelayShrinks, ClientForgets, Inv, Types, client
  <1>2. RowOK'
    BY DEF Inv, RowOK, RowFits, client
  <1>3. QED
    BY <1>1, <1>2, Light DEF Inv, Types, client

LEMMA RowSent ==
    ASSUME row \in RowType, NEW p \in Nat, "send" \in Steps,
           row' = [row EXCEPT !.st = "send", !.pos = p, !.quiet = 0]
    PROVE  /\ row' \in RowType /\ row'.st = "send"
           /\ row'.quiet = 0 /\ row'.restarts = row.restarts
  BY DEF RowType

LEMMA StepBodyEnds == ASSUME Inv, BodyEnds PROVE Inv'
  <1> USE DEF BodyEnds
  <1>1. RelayShrinks /\ ClientForgets
    BY DEF RelayShrinks, ClientForgets, Inv, Types, client
  <1>2. Received(flight.up) \in Nat
    BY ReceivedType DEF Inv, FlightOK, Types, Body
  <1>3. row' \in RowType /\ row'.st = "send" /\ RowFits(row')
    <2>1. row \in RowType /\ row.restarts <= MaxRestarts /\ "send" \in Steps
      BY DEF Inv, Types, RowOK, RowFits, Steps
    <2>2. row' = [row EXCEPT !.st = "send", !.pos = Received(flight.up), !.quiet = 0]
      OBVIOUS
    <2>3. /\ row' \in RowType /\ row'.st = "send"
          /\ row'.quiet = 0 /\ row'.restarts = row.restarts
      BY <1>2, <2>1, <2>2, RowSent
    <2>4. QED
      BY <2>1, <2>3, Bounds, RowFitsAt
  <1>4. RowOK'
    BY <1>3 DEF Inv, RowOK, Over
  <1>5. QED
    BY <1>1, <1>3, <1>4, Light DEF Inv, Types

-----------------------------------------------------------------------------
(* A session is opened.                                                    *)

LEMMA Opened ==
    ASSUME Inv, mem # None, NEW u \in Ups, OpenedAt(u), UNCHANGED <<file, flight, entries, told>>
    PROVE  /\ ups' \in [Ups -> UploadRow \cup {None}]
           /\ made' \in [seal : Nat, up : Nat, claim : Nat] /\ made'.up = u
           /\ u = made.up + 1 /\ made.up \in Nat
           /\ \A v \in Ups : v # u => ups'[v] = ups[v]
           /\ ups'[u] # None /\ ups'[u].seal = mem.seal /\ ups'[u].bytes = <<>> /\ ups'[u].claim = None
           /\ flight # None => flight.up # u /\ flight.up \in Ups
           /\ SessionsOK' /\ FlightOK' /\ EntriesOK'
  <1> USE DEF Inv
  <1>1. u = made.up + 1 /\ made.up \in Nat /\ made'.claim = made.claim /\ made'.up = u
        /\ made' \in [seal : Nat, up : Nat, claim : Nat]
    <2>1. made \in [seal : Nat, up : Nat, claim : Nat] /\ u = made.up + 1 /\ made' = [made EXCEPT !.up = u] /\ u \in Nat
      BY DEF Types, OpenedAt, Ups
    <2>2. QED
      BY <2>1
  <1>2. [seal |-> mem.seal, bytes |-> <<>>, claim |-> None] \in UploadRow
    BY DEF Types, Resumable, UploadRow
  <1>3. /\ ups' \in [Ups -> UploadRow \cup {None}]
        /\ \A v \in Ups : v # u => ups'[v] = ups[v]
        /\ ups'[u] = [seal |-> mem.seal, bytes |-> <<>>, claim |-> None]
    BY <1>2 DEF Types, OpenedAt
  <1>4. ups'[u] # None /\ ups'[u].seal = mem.seal /\ ups'[u].bytes = <<>> /\ ups'[u].claim = None
    BY <1>2, <1>3
  <1>5. flight # None => flight.up # u /\ flight.up \in Ups
    <2> SUFFICES ASSUME flight # None PROVE flight.up # u /\ flight.up \in Ups
      OBVIOUS
    <2>1. flight.up \in Ups /\ ups[flight.up] # None
      BY DEF Types, Body, FlightOK
    <2>2. flight.up <= made.up
      BY <2>1 DEF SessionsOK
    <2>3. flight.up # u
      BY SMTT(30), <1>1, <2>1, <2>2 DEF Ups
    <2>4. QED
      BY <2>1, <2>3
  <1>6. SessionsOK'
    <2> SUFFICES ASSUME NEW v \in Ups, ups'[v] # None
                 PROVE  /\ v <= made'.up
                        /\ ups'[v].claim = None => InOrder(ups'[v])
                        /\ ups'[v].claim # None => ups'[v].claim <= made'.claim
                        /\ ups'[v].claim # None /\ told' = None => entries'[ups'[v].claim] # None
      BY DEF SessionsOK, InOrder
    <2>1. CASE v = u
      <3>1. InOrder(ups'[u])
        BY <1>4 DEF InOrder
      <3>2. u <= made'.up
        <4>1. u <= u
          BY DEF Ups
        <4>2. QED
          BY <1>1, <4>1
      <3>3. QED
        BY <1>4, <2>1, <3>1, <3>2
    <2>2. CASE v # u
      <3>1. ups'[v] = ups[v]
        BY <1>3, <2>2
      <3>2. v <= made.up
        BY <3>1 DEF SessionsOK
      <3>3. v <= made'.up
        BY SMTT(30), <1>1, <3>2 DEF Ups
      <3>4. QED
        BY <1>1, <3>1, <3>3 DEF SessionsOK
    <2>3. QED
      BY <2>1, <2>2
  <1>7. FlightOK'
    BY <1>3, <1>5 DEF FlightOK
  <1>8. EntriesOK'
    BY <1>1 DEF EntriesOK, Whole
  <1>9. QED
    BY <1>1, <1>3, <1>4, <1>5, <1>6, <1>7, <1>8

LEMMA StepOpen == ASSUME Inv, NEW u \in Ups, Open(u) PROVE Inv'
  <1> USE DEF Open
  <1> DEFINE r == [mem EXCEPT !.session = u]
  <1>1. mem # None /\ mem \in Resumable
    BY DEF Inv, Types, RowOK
  <1>2. r \in Resumable /\ r.session = u /\ r.seal = mem.seal /\ Remember(r)
    BY <1>1 DEF Resumable, SessionChanged
  <1> HIDE DEF r
  <1>3. /\ mem' \in Resumable /\ mem' # None /\ mem'.session = u /\ mem'.seal = mem.seal
        /\ disk' \in UploadRecord \cup {None}
        /\ kind = "link" => /\ disk' # None /\ disk'.session = u /\ disk'.seal = mem.seal /\ disk'.stamp = file
        /\ kind # "link" => disk' = None
    BY <1>2, RememberType DEF Inv
  <1>4. row' \in RowType /\ row'.st = "status" /\ RowFits(row')
    BY AtRow DEF Inv, Types, RowOK, Steps
  <1>5. Types'
    BY <1>1, <1>3, <1>4, Opened DEF Inv, Types, reader
  <1>6. SessionsOK' /\ FlightOK' /\ EntriesOK'
    BY <1>1, Opened
  <1>7. u # None /\ u <= u
    BY DEF Ups
  <1>8. NamesOK'
    BY <1>1, <1>3, <1>7, Opened DEF NamesOK, Known
  <1>9. RowOK'
    BY <1>3, <1>4, <1>7 DEF Inv, RowOK, Over
  <1>10. StampOK'
    BY SMTT(30), <1>1, <1>3, Opened, FileType DEF StampOK, Within, Inv
  <1>11. SpentIsHeld' /\ ReaderOK'
    BY DEF Inv, SpentIsHeld, ReaderOK, reader
  <1>12. QED
    BY <1>5, <1>6, <1>8, <1>9, <1>10, <1>11 DEF Inv

LEMMA StepOpenLost == ASSUME Inv, NEW u \in Ups, OpenLost(u) PROVE Inv'
  <1> USE DEF OpenLost
  <1>1. mem # None
    BY DEF Inv, RowOK
  <1>2. row' \in RowType /\ row'.st \in {"open", "waiting"} /\ RowFits(row')
    BY QuietRow DEF Inv, Types, RowOK, Steps
  <1>3. RowOK'
    BY <1>2 DEF Inv, RowOK, Over
  <1>4. CASE UNCHANGED <<ups, made>>
    <2>1. RelayShrinks
      BY <1>4, RelaySame DEF relay
    <2>2. QED
      BY <1>2, <1>3, <1>4, <2>1, Light DEF Inv, Types, ClientForgets
  <1>5. CASE OpenedAt(u)
    <2>1. faults' \in Nat
      BY FaultType DEF Inv, Types
    <2>2. Types'
      BY <1>1, <1>2, <1>5, <2>1, Opened DEF Inv, Types, reader
    <2>3. SessionsOK' /\ FlightOK' /\ EntriesOK'
      BY <1>1, <1>5, Opened
    <2>4. ASSUME NEW s \in Ups, s <= made.up
          PROVE  s <= made'.up /\ ups'[s] = ups[s]
      BY SMTT(30), <1>1, <1>5, <2>4, Opened DEF Ups
    <2>5. (mem.session # None => mem.session \in Ups /\ mem.session <= made.up)
          /\ (disk # None /\ disk.session # None => disk.session \in Ups /\ disk.session <= made.up)
      BY <1>1 DEF Inv, Types, Resumable, UploadRecord, NamesOK, Known
    <2>6. NamesOK'
      BY <1>1, <2>4, <2>5 DEF Inv, NamesOK, Known
    <2>7. StampOK'
      BY <2>4, <2>5 DEF Inv, StampOK, Within
    <2>8. SpentIsHeld' /\ ReaderOK'
      BY DEF Inv, SpentIsHeld, ReaderOK, reader
    <2>9. QED
      BY <1>3, <2>2, <2>3, <2>6, <2>7, <2>8 DEF Inv
  <1>6. QED
    BY <1>4, <1>5

-----------------------------------------------------------------------------
(* A segment is sent and arrives.                                          *)

LEMMA SegmentType == ASSUME NEW n \in Nat PROVE n + SEGMENT_BYTES \in Nat /\ n + 1 \in Nat
  OBVIOUS

LEMMA MinPair == ASSUME NEW a \in Nat, NEW b \in Nat PROVE Min({a, b}) \in Nat
  <1>1. \E x \in {a, b} : \A y \in {a, b} : x <= y
    OBVIOUS
  <1>2. QED
    BY <1>1 DEF Min

LEMMA BodyMade ==
    ASSUME NEW u \in Ups, NEW n \in Nat, NEW v \in Nat, NEW to \in Nat,
           flight' = [up |-> u, next |-> n, live |-> TRUE, v |-> v, to |-> to]
    PROVE  flight' \in Body /\ flight' # None /\ flight'.up = u /\ flight'.live /\ flight'.next = n
  <1>1. flight' \in Body
    BY DEF Body
  <1>2. QED
    BY <1>1

LEMMA BodyMoves ==
    ASSUME NEW f \in Body
    PROVE  LET g == [f EXCEPT !.next = @ + 1]
           IN  /\ g \in Body /\ g # None /\ g.up = f.up /\ g.next = f.next + 1
               /\ g.live = f.live /\ g.v = f.v
  <1> DEFINE n == f.next + 1
  <1>1. n \in Nat /\ [f EXCEPT !.next = @ + 1] = [f EXCEPT !.next = n]
    BY DEF Body
  <1> HIDE DEF n
  <1>2. [f EXCEPT !.next = n] \in Body
    BY <1>1 DEF Body
  <1>3. QED
    BY <1>1, <1>2 DEF Body, n

LEMMA Appended ==
    ASSUME NEW s \in Seq(Byte), NEW b \in Byte
    PROVE  /\ Append(s, b) \in Seq(Byte) /\ Len(Append(s, b)) = Len(s) + 1 /\ Len(s) \in Nat
           /\ \A i \in 1..Len(s) : Append(s, b)[i] = s[i]
           /\ Append(s, b)[Len(s) + 1] = b
           /\ \A i \in 1..(Len(s) + 1) : i = Len(s) + 1 \/ i \in 1..Len(s)
  OBVIOUS

LEMMA RowAppends ==
    ASSUME NEW r \in UploadRow, NEW s \in Seq(Byte)
    PROVE  LET t == [r EXCEPT !.bytes = s]
           IN t \in UploadRow /\ t # None /\ t.seal = r.seal /\ t.claim = r.claim /\ t.bytes = s
  <1>1. [r EXCEPT !.bytes = s] \in UploadRow
    BY DEF UploadRow
  <1>2. QED
    BY <1>1 DEF UploadRow

LEMMA StepSend == ASSUME Inv, Send PROVE Inv'
  <1> USE DEF Send
  <1>1. mem # None /\ mem.session \in Ups
    BY DEF Inv, Types, RowOK, Resumable
  <1> DEFINE u == mem.session
  <1>2. CASE ups[u] = None
    BY <1>1, <1>2, Restarts DEF relay
  <1>3. CASE ups[u] # None /\ Busy(u)
    <2>1. Quiet("status") /\ UNCHANGED <<mem, disk, flight>>
      BY <1>3
    <2>2. row' \in RowType /\ row'.st \in {"status", "waiting"} /\ RowFits(row')
      BY <2>1, QuietRow DEF Inv, Types, RowOK, Steps
    <2>3. QED
      BY <2>1, <2>2, Moves DEF relay
  <1>4. CASE ups[u] # None /\ ~Busy(u) /\ (~OffsetMatches(u) \/ ups[u].claim # None)
    <2>1. row' = [row EXCEPT !.pos = Received(u)] /\ UNCHANGED <<mem, disk, flight>>
      BY <1>4
    <2>2. Received(u) \in Nat
      BY <1>1, <1>4, ReceivedType DEF Inv
    <2>3. row' \in RowType /\ row'.st = "send" /\ RowFits(row')
      BY <2>1, <2>2 DEF Inv, Types, RowOK, RowType, RowFits
    <2>4. QED
      BY <2>1, <2>3, Moves DEF relay
  <1>5. CASE ups[u] # None /\ ~Busy(u) /\ OffsetMatches(u) /\ ups[u].claim = None
    <2> DEFINE to == Min({row.pos + SEGMENT_BYTES, Len0})
    <2>1. /\ flight' = [up |-> u, next |-> row.pos + 1, live |-> TRUE, v |-> file, to |-> to]
          /\ OffsetMatches(u) /\ ups[u].claim = None /\ At("sent") /\ UNCHANGED <<mem, disk>>
      BY <1>5
    <2>2. row.pos \in Nat /\ row.pos = Len(ups[u].bytes)
      BY <2>1 DEF OffsetMatches, Received, Inv, Types, RowType
    <2>3. to \in Nat
      <3>1. Len0 \in Nat
        BY <1>1 DEF Inv, Types, Resumable, Seal, Len0
      <3>2. row.pos + SEGMENT_BYTES \in Nat
        BY <2>2, SegmentType
      <3>3. QED
        BY <3>1, <3>2, MinPair
    <2> HIDE DEF to
    <2>4. flight' \in Body /\ flight'.up = u /\ flight'.live /\ flight' # None
          /\ flight'.next = Len(ups[u].bytes) + 1
      <3>1. row.pos + 1 \in Nat /\ file \in Nat /\ u \in Ups
        BY <1>1, <2>2, SegmentType, FileType DEF Inv
      <3>2. QED
        <4> DEFINE n == row.pos + 1
        <4>1. n \in Nat /\ n = Len(ups[u].bytes) + 1
          BY <2>2, <3>1
        <4>2. flight' = [up |-> u, next |-> n, live |-> TRUE, v |-> file, to |-> to]
          BY <2>1
        <4> HIDE DEF n, u
        <4>3. QED
          BY <2>3, <3>1, <4>1, <4>2, BodyMade
    <2>5. row' \in RowType /\ row'.st = "sent" /\ RowFits(row')
      BY <2>1, AtRow DEF Inv, Types, RowOK, Steps
    <2>6. Types'
      BY <2>1, <2>4, <2>5 DEF Inv, Types, reader
    <2>7. SessionsOK' /\ EntriesOK'
      BY DEF Inv, SessionsOK, InOrder, EntriesOK, Whole
    <2>8. FlightOK'
      BY <1>5, <2>1, <2>4 DEF FlightOK
    <2>9. NamesOK' /\ StampOK'
      BY <2>1, <2>4 DEF Inv, NamesOK, Known, StampOK, Within
    <2>10. RowOK'
      BY <2>1, <2>4, <2>5 DEF Inv, RowOK, Over
    <2>11. SpentIsHeld' /\ ReaderOK'
      BY DEF Inv, SpentIsHeld, ReaderOK, reader
    <2>12. QED
      BY <2>6, <2>7, <2>8, <2>9, <2>10, <2>11 DEF Inv
  <1>6. QED
    BY <1>2, <1>3, <1>4, <1>5

LEMMA StepBodyArrives == ASSUME Inv, BodyArrives PROVE Inv'
  <1> DEFINE u == flight.up
             v == IF flight.live THEN file ELSE flight.v
             b == <<ups[u].seal.n, v, flight.next>>
  <1>0. /\ flight # None /\ ups' = [ups EXCEPT ![u].bytes = Append(@, b)]
        /\ flight' = [flight EXCEPT !.next = @ + 1]
        /\ UNCHANGED <<client, file, entries, told, reader, made, faults>>
    BY DEF BodyArrives
  <1>1. /\ u \in Ups /\ ups[u] # None /\ ups[u] \in UploadRow /\ flight \in Body
        /\ ups[u].claim = None /\ flight.next = Len(ups[u].bytes) + 1
    BY <1>0 DEF Inv, Types, FlightOK, Body
  <1>2. ups[u].seal.n \in Nat /\ v \in Nat /\ flight.next \in Nat /\ ups[u].bytes \in Seq(Byte)
    BY <1>1, FileType DEF Inv, UploadRow, Seal, Body
  <1>3. b \in Byte
    BY <1>2 DEF Byte
  <1>4. ups' = [ups EXCEPT ![u].bytes = Append(@, b)]
    BY <1>0
  <1>5. b[1] = ups[u].seal.n /\ b[2] = v /\ b[3] = flight.next
    OBVIOUS
  <1> HIDE DEF b
  <1>6. /\ Append(ups[u].bytes, b) \in Seq(Byte)
        /\ Len(Append(ups[u].bytes, b)) = flight.next
        /\ \A i \in 1..Len(ups[u].bytes) : Append(ups[u].bytes, b)[i] = ups[u].bytes[i]
        /\ Append(ups[u].bytes, b)[flight.next] = b
        /\ \A i \in 1..flight.next : i = flight.next \/ i \in 1..Len(ups[u].bytes)
    <2> DEFINE s == ups[u].bytes
    <2>1. s \in Seq(Byte) /\ b \in Byte /\ flight.next = Len(s) + 1
      BY <1>1, <1>2, <1>3
    <2> HIDE DEF s, b, u
    <2>2. /\ Append(s, b) \in Seq(Byte) /\ Len(Append(s, b)) = Len(s) + 1 /\ Len(s) \in Nat
          /\ \A i \in 1..Len(s) : Append(s, b)[i] = s[i]
          /\ Append(s, b)[Len(s) + 1] = b
          /\ \A i \in 1..(Len(s) + 1) : i = Len(s) + 1 \/ i \in 1..Len(s)
      BY <2>1, Appended
    <2>3. QED
      BY <2>1, <2>2 DEF s
  <1>7. /\ ups' \in [Ups -> UploadRow \cup {None}] /\ ups'[u] # None
        /\ ups'[u].seal = ups[u].seal /\ ups'[u].claim = None /\ ups'[u].bytes = Append(ups[u].bytes, b)
        /\ \A w \in Ups : w # u => ups'[w] = ups[w]
    <2> DEFINE t == [ups[u] EXCEPT !.bytes = Append(ups[u].bytes, b)]
    <2>1. t \in UploadRow /\ t # None /\ t.seal = ups[u].seal /\ t.claim = ups[u].claim
          /\ t.bytes = Append(ups[u].bytes, b)
      BY <1>1, <1>6, RowAppends
    <2>2. ups' = [ups EXCEPT ![u] = t]
      BY <1>4
    <2> HIDE DEF t
    <2>3. ups \in [Ups -> UploadRow \cup {None}]
      BY DEF Inv, Types
    <2>4. ups' \in [Ups -> UploadRow \cup {None}] /\ ups'[u] = t /\ \A w \in Ups : w # u => ups'[w] = ups[w]
      BY <1>1, <2>1, <2>2, <2>3
    <2>5. QED
      BY <1>1, <2>1, <2>4
  <1>8. flight' \in Body /\ flight' # None /\ flight'.up = u /\ flight'.next = flight.next + 1
        /\ flight'.live = flight.live /\ flight'.v = flight.v
    BY <1>0, <1>1, BodyMoves
  <1>9. \A i \in 1..flight.next : i = flight.next \/ i \in 1..Len(ups[u].bytes)
    BY <1>6
  <1>10. Types'
    BY <1>0, <1>7, <1>8 DEF Inv, Types, client, reader
  <1>11. SessionsOK'
    <2>1. InOrder(ups'[u])
      <3>1. InOrder(ups[u])
        BY <1>1 DEF Inv, SessionsOK
      <3> SUFFICES ASSUME NEW i \in 1..flight.next
                   PROVE  ups'[u].bytes[i][1] = ups[u].seal.n /\ ups'[u].bytes[i][3] = i
        BY <1>6, <1>7 DEF InOrder
      <3>2. CASE i = flight.next
        BY <1>5, <1>6, <1>7, <3>2
      <3>3. CASE i \in 1..Len(ups[u].bytes)
        BY <1>6, <1>7, <3>1, <3>3 DEF InOrder
      <3>4. QED
        BY <1>9, <3>2, <3>3
    <2>2. ASSUME NEW w \in Ups, ups'[w] # None
          PROVE  /\ w <= made'.up
                 /\ ups'[w].claim = None => InOrder(ups'[w])
                 /\ ups'[w].claim # None => ups'[w].claim <= made'.claim
                 /\ ups'[w].claim # None /\ told' = None => entries'[ups'[w].claim] # None
      <3>1. CASE w = u
        BY <1>0, <1>1, <1>7, <2>1, <3>1 DEF Inv, SessionsOK
      <3>2. CASE w # u
        BY <1>0, <1>7, <2>2, <3>2 DEF Inv, SessionsOK
      <3>3. QED
        BY <3>1, <3>2
    <2>3. QED
      BY <1>0, <2>2 DEF SessionsOK, InOrder
  <1>12. FlightOK'
    <2>1. Len(ups'[u].bytes) = flight.next
      BY <1>6, <1>7
    <2>2. QED
      BY <1>7, <1>8, <2>1 DEF FlightOK
  <1>13. NamesOK'
    BY <1>0, <1>1, <1>7 DEF Inv, Types, Resumable, UploadRecord, NamesOK, Known, client
  <1>14. EntriesOK'
    BY ZenonT(60), <1>0 DEF Inv, EntriesOK, Whole
  <1>15. RowOK'
    BY <1>0, <1>1, <1>8 DEF Inv, RowOK, RowFits, client
  <1>16. StampOK'
    <2> SUFFICES ASSUME disk # None, disk.session # None
                 PROVE  /\ ups'[disk.session] # None =>
                            \A i \in 1..Len(ups'[disk.session].bytes) :
                                 disk.stamp <= ups'[disk.session].bytes[i][2] /\ ups'[disk.session].bytes[i][2] <= file
                        /\ u = disk.session /\ ~flight.live => disk.stamp <= flight.v /\ flight.v <= file
      BY <1>0, <1>8 DEF Inv, StampOK, Within, client
    <2>1. u = disk.session /\ ~flight.live => disk.stamp <= flight.v /\ flight.v <= file
      BY <1>1 DEF Inv, StampOK
    <2>2. CASE disk.session # u
      BY <1>7, <2>1, <2>2 DEF Inv, StampOK, Within, Types, UploadRecord
    <2>3. CASE disk.session = u
      <3>1. disk.stamp <= v /\ v <= file
        BY <2>1, <2>3, FileType DEF Inv, StampOK
      <3>2. \A i \in 1..Len(ups[u].bytes) : disk.stamp <= ups[u].bytes[i][2] /\ ups[u].bytes[i][2] <= file
        BY <1>1, <2>3 DEF Inv, StampOK, Within
      <3>3. ASSUME NEW i \in 1..flight.next
            PROVE  disk.stamp <= ups'[u].bytes[i][2] /\ ups'[u].bytes[i][2] <= file
        <4>1. CASE i = flight.next
          <5>1. ups'[u].bytes[i][2] = v
            BY <1>5, <1>6, <1>7, <4>1
          <5>2. QED
            BY <3>1, <5>1
        <4>2. CASE i \in 1..Len(ups[u].bytes)
          BY <1>6, <1>7, <3>2, <4>2
        <4>3. QED
          BY <1>9, <4>1, <4>2
      <3>4. Len(ups'[u].bytes) = flight.next
        BY <1>6, <1>7
      <3>5. QED
        BY <2>1, <2>3, <3>3, <3>4
    <2>4. QED
      BY <2>2, <2>3
  <1>17. SpentIsHeld' /\ ReaderOK'
    BY <1>0 DEF Inv, SpentIsHeld, ReaderOK, reader, client
  <1>18. QED
    BY <1>10, <1>11, <1>12, <1>13, <1>14, <1>15, <1>16, <1>17 DEF Inv

-----------------------------------------------------------------------------
(* An entry is made.                                                       *)

LEMMA Stored ==
    ASSUME Inv, NEW c \in Claims, NEW u, NEW seal, NEW bytes, EntryMade(c, u, seal, bytes),
           [seal |-> seal, bytes |-> bytes] \in Entry, Whole([seal |-> seal, bytes |-> bytes])
    PROVE  /\ entries' \in [Claims -> Entry \cup {None}] /\ entries'[c] # None
           /\ \A d \in Claims : entries[d] # None => entries'[d] # None
           /\ made' \in [seal : Nat, up : Nat, claim : Nat]
           /\ made'.up = made.up /\ made'.claim = c /\ c = made.claim + 1 /\ made.claim \in Nat
           /\ EntriesOK'
  <1> DEFINE e == [seal |-> seal, bytes |-> bytes]
  <1>1. e \in Entry /\ e # None /\ Whole(e)
    OBVIOUS
  <1>2. entries' = [entries EXCEPT ![c] = e] /\ entries \in [Claims -> Entry \cup {None}]
    BY DEF EntryMade, Inv, Types
  <1> HIDE DEF e
  <1>3. /\ entries' \in [Claims -> Entry \cup {None}] /\ entries'[c] = e
        /\ \A d \in Claims : d # c => entries'[d] = entries[d]
    BY <1>1, <1>2
  <1>4. made \in [seal : Nat, up : Nat, claim : Nat] /\ c = made.claim + 1 /\ made' = [made EXCEPT !.claim = c]
        /\ c \in Nat
    BY DEF EntryMade, Inv, Types, Claims
  <1>5. made' \in [seal : Nat, up : Nat, claim : Nat] /\ made'.up = made.up /\ made'.claim = c /\ made.claim \in Nat
    BY <1>4
  <1>6. EntriesOK'
    <2> SUFFICES ASSUME NEW d \in Claims, entries'[d] # None
                 PROVE  d <= made'.claim /\ Whole(entries'[d])
      BY DEF EntriesOK, Whole
    <2>1. CASE d = c
      BY <1>1, <1>3, <1>4, <1>5, <2>1
    <2>2. CASE d # c
      <3>1. entries'[d] = entries[d]
        BY <1>3, <2>2
      <3>2. d <= made.claim /\ Whole(entries[d])
        BY <3>1 DEF Inv, EntriesOK
      <3>3. d <= c
        BY <1>4, <1>5, <3>2 DEF Claims
      <3>4. QED
        BY <1>5, <3>1, <3>2, <3>3
    <2>3. QED
      BY <2>1, <2>2
  <1>7. QED
    BY <1>1, <1>3, <1>4, <1>5, <1>6

\* The answer arrives, or is lost: the part of the invariant about the client.
LEMMA Answered ==
    ASSUME Inv, row.st \in {"send", "single"}, NEW c \in Claims, entries'[c] # None,
           UNCHANGED <<kind, flight>>,
           \/ Committed(c) /\ UNCHANGED faults
           \/ Fault /\ Quiet("status") /\ row.st = "send" /\ UNCHANGED <<mem, disk, told>>
           \/ Fault /\ Waits /\ UNCHANGED <<mem, disk, told>>
    PROVE  /\ row' \in RowType /\ RowOK' /\ faults' \in Nat /\ ClientForgets
           /\ mem' \in Resumable \cup {None} /\ disk' \in UploadRecord \cup {None}
           /\ told' \in Claims \cup {None} /\ (told' = None => told = None)
  <1>1. faults' \in Nat
    BY FaultType DEF Inv, Types
  <1>2. c # None
    OBVIOUS
  <1>3. CASE Committed(c) /\ kind = "link"
    <2>1. told' = c /\ Ends("done") /\ Forget
      BY <1>3 DEF Committed
    <2>2. row' \in RowType /\ row'.st = "done" /\ RowFits(row')
      BY <2>1, EndsRow DEF Inv, Types, Steps, Over
    <2>3. RowOK'
      BY <1>2, <2>1, <2>2 DEF Inv, RowOK, Over, Forget
    <2>4. QED
      BY <1>1, <1>2, <2>1, <2>2, <2>3 DEF Forget, ClientForgets
  <1>4. CASE Committed(c) /\ kind # "link"
    <2>1. told' = told /\ row' = [row EXCEPT !.st = "offer", !.claim = c] /\ Forget
      BY <1>4 DEF Committed
    <2>2. row' \in RowType /\ row'.st = "offer" /\ row'.claim = c /\ RowFits(row')
      BY <2>1 DEF Inv, Types, RowOK, RowType, RowFits, Steps
    <2>3. RowOK'
      BY <1>2, <1>4, <2>1, <2>2 DEF Inv, RowOK, Over, Forget
    <2>4. QED
      BY <1>1, <2>1, <2>2, <2>3 DEF Forget, ClientForgets, Inv, Types
  <1>5. CASE UNCHANGED <<mem, disk, told>> /\ (Waits \/ (Quiet("status") /\ row.st = "send"))
    <2>1. row' \in RowType /\ row'.st \in {"status", "waiting"} /\ RowFits(row')
          /\ (row'.st = "status" => row.st = "send")
      BY <1>5, WaitsRow, QuietRow DEF Inv, Types, RowOK, Steps
    <2>2. RowOK'
      BY <1>5, <2>1 DEF Inv, RowOK, Over
    <2>3. QED
      BY <1>1, <1>5, <2>1, <2>2 DEF ClientForgets, Inv, Types
  <1>6. QED
    BY <1>3, <1>4, <1>5

LEMMA SameRange == ASSUME NEW m \in Nat, NEW n \in Nat, 1..m = 1..n PROVE m = n
  <1>1. m \in 1..m \/ m = 0
    OBVIOUS
  <1>2. n \in 1..n \/ n = 0
    OBVIOUS
  <1>3. m <= n /\ n <= m
    BY <1>1, <1>2
  <1>4. QED
    BY <1>3

LEMMA FcnIsSeq ==
    ASSUME NEW S, NEW n \in Nat, NEW f \in [1..n -> S] PROVE f \in Seq(S) /\ Len(f) = n
  <1>1. f \in UNION {[1..m -> S] : m \in Nat}
    OBVIOUS
  <1>2. f \in Seq(S)
    BY <1>1, SeqDef, Zenon
  <1>3. Len(f) \in Nat /\ 1..Len(f) = DOMAIN f
    BY <1>2, LenProperties
  <1>4. DOMAIN f = 1..n
    OBVIOUS
  <1>5. QED
    BY <1>2, <1>3, <1>4, SameRange

LEMMA Streamed ==
    ASSUME mem.seal.n \in Nat, mem.seal.size \in Nat, file \in Nat
    PROVE  /\ WholeFile \in Seq(Byte) /\ Len(WholeFile) = mem.seal.size
           /\ \A i \in 1..mem.seal.size : WholeFile[i][1] = mem.seal.n /\ WholeFile[i][3] = i
  <1>1. \A i \in 1..mem.seal.size : <<mem.seal.n, file, i>> \in Byte
    BY SMTT(30) DEF Byte
  <1>2. WholeFile = [i \in 1..mem.seal.size |-> <<mem.seal.n, file, i>>]
    BY DEF WholeFile, Len0
  <1>3. \A i \in 1..mem.seal.size : WholeFile[i] = <<mem.seal.n, file, i>>
    BY <1>2
  <1>4. WholeFile \in [1..mem.seal.size -> Byte]
    BY <1>1, <1>2, Zenon
  <1>5. WholeFile \in Seq(Byte) /\ Len(WholeFile) = mem.seal.size
    BY <1>4, FcnIsSeq
  <1>6. QED
    BY SMTT(30), <1>3, <1>5

LEMMA ClaimGrows ==
    ASSUME NEW d \in Claims, NEW m \in Nat, d <= m PROVE d <= m + 1
  BY DEF Claims

LEMMA RowClaimed ==
    ASSUME NEW r \in UploadRow, NEW c \in Claims
    PROVE  LET t == [r EXCEPT !.claim = c, !.bytes = <<>>]
           IN  t \in UploadRow /\ t.seal = r.seal /\ t.bytes = <<>> /\ t.claim = c
  <1>1. <<>> \in Seq(Byte)
    OBVIOUS
  <1>2. QED
    BY <1>1 DEF UploadRow

LEMMA CommitEntry ==
    ASSUME Inv, NEW u \in Ups, ups[u] # None
    PROVE  [seal |-> ups[u].seal, bytes |-> ups[u].bytes] \in Entry
  BY DEF Inv, Types, UploadRow, Entry

LEMMA SingleEntry ==
    ASSUME Inv, row.st = "single"
    PROVE  /\ [seal |-> mem.seal, bytes |-> WholeFile] \in Entry
           /\ Whole([seal |-> mem.seal, bytes |-> WholeFile])
  <1>1. mem # None /\ mem \in Resumable /\ mem.seal \in Seal /\ mem.seal.n \in Nat /\ mem.seal.size \in Nat
    BY DEF Inv, Types, RowOK, Resumable, Seal
  <1>2. /\ WholeFile \in Seq(Byte) /\ Len(WholeFile) = mem.seal.size
        /\ \A i \in 1..mem.seal.size : WholeFile[i][1] = mem.seal.n /\ WholeFile[i][3] = i
    BY <1>1, FileType, Streamed DEF Inv
  <1>3. [seal |-> mem.seal, bytes |-> WholeFile] \in Entry
    BY <1>1, <1>2 DEF Entry
  <1>4. Whole([seal |-> mem.seal, bytes |-> WholeFile])
    <2> DEFINE e == [seal |-> mem.seal, bytes |-> WholeFile]
    <2>1. e.seal = mem.seal /\ e.bytes = WholeFile
      OBVIOUS
    <2> HIDE DEF e
    <2>2. Whole(e)
      BY <1>2, <2>1 DEF Whole
    <2>3. QED
      BY <2>2 DEF e
  <1>5. QED
    BY <1>3, <1>4

LEMMA StepSingle == ASSUME Inv, NEW c \in Claims, Single(c) PROVE Inv'
  <1> USE DEF Single
  <1>5. /\ entries' \in [Claims -> Entry \cup {None}] /\ entries'[c] # None
        /\ \A d \in Claims : entries[d] # None => entries'[d] # None
        /\ made' \in [seal : Nat, up : Nat, claim : Nat]
        /\ made'.up = made.up /\ made'.claim = c /\ c = made.claim + 1 /\ made.claim \in Nat
        /\ EntriesOK'
    BY SingleEntry, Stored
  <1>6. /\ row' \in RowType /\ RowOK' /\ faults' \in Nat /\ ClientForgets
        /\ mem' \in Resumable \cup {None} /\ disk' \in UploadRecord \cup {None}
        /\ told' \in Claims \cup {None} /\ (told' = None => told = None)
    BY <1>5, Answered
  <1>7. Types'
    BY <1>5, <1>6 DEF Inv, Types, reader
  <1>8. SessionsOK'
    <2> SUFFICES ASSUME NEW v \in Ups, ups[v] # None
                 PROVE  /\ v <= made'.up
                        /\ ups[v].claim = None => InOrder(ups[v])
                        /\ ups[v].claim # None => ups[v].claim <= made'.claim
                        /\ ups[v].claim # None /\ told' = None => entries'[ups[v].claim] # None
      BY ZenonT(60) DEF SessionsOK, InOrder
    <2>1. ups[v].claim # None => ups[v].claim \in Claims /\ ups[v].claim <= made.claim
      BY DEF Inv, Types, UploadRow, SessionsOK
    <2>2. ups[v].claim # None => ups[v].claim <= made'.claim
      <3>1. made'.claim = made.claim + 1 /\ made.claim \in Nat
        BY <1>5
      <3>2. QED
        BY <2>1, <3>1, ClaimGrows
    <2>3. QED
      BY <1>5, <1>6, <2>1, <2>2 DEF Inv, SessionsOK
  <1>9. FlightOK'
    BY DEF Inv, FlightOK
  <1>10. NamesOK'
    BY <1>5, <1>6 DEF Inv, NamesOK, Known, ClientForgets
  <1>11. StampOK'
    <2>1. CASE disk' = disk
      BY <2>1 DEF Inv, StampOK, Within
    <2>2. CASE disk' = None
      BY <2>2 DEF StampOK
    <2>3. CASE disk' \in UploadRecord /\ disk'.session = None /\ disk'.stamp = file
      BY <2>3, FileType DEF Inv, StampOK
    <2>4. QED
      BY <1>6, <2>1, <2>2, <2>3 DEF ClientForgets
  <1>12. SpentIsHeld' /\ ReaderOK'
    BY <1>6 DEF Inv, SpentIsHeld, ReaderOK, reader
  <1>13. QED
    BY <1>5, <1>6, <1>7, <1>8, <1>9, <1>10, <1>11, <1>12 DEF Inv

LEMMA StepCommit == ASSUME Inv, NEW c \in Claims, Commit(c) PROVE Inv'
  <1> USE DEF Commit
  <1> DEFINE u == mem.session
  <1>1. /\ mem # None /\ u \in Ups /\ ups[u] # None /\ ups[u] \in UploadRow /\ told = None
        /\ ups \in [Ups -> UploadRow \cup {None}]
    BY DEF Inv, Types, RowOK, Resumable
  <1>2. CASE ups[u].claim # None
    <2>1. c = ups[u].claim /\ UNCHANGED <<ups, entries, made>>
      BY <1>2 DEF CommitAt
    <2>2. entries'[c] # None
      BY <1>1, <1>2, <2>1 DEF Inv, SessionsOK
    <2>3. /\ row' \in RowType /\ RowOK' /\ faults' \in Nat /\ ClientForgets
          /\ mem' \in Resumable \cup {None} /\ disk' \in UploadRecord \cup {None}
          /\ told' \in Claims \cup {None} /\ (told' = None => told = None)
      BY <2>2, Answered
    <2>4. RelayShrinks
      BY <2>1, <2>3, RelaySame DEF relay
    <2>5. Fault \/ faults' = faults
      OBVIOUS
    <2>6. QED
      BY <2>1, <2>3, <2>4, <2>5, Light DEF Inv, Types
  <1>3. CASE ups[u].claim = None
    <2>1. /\ EntryMade(c, u, ups[u].seal, ups[u].bytes)
          /\ ups' = [ups EXCEPT ![u].claim = c, ![u].bytes = <<>>]
      BY <1>3 DEF CommitAt
    <2>2. /\ ups[u].seal \in Seal /\ ups[u].bytes \in Seq(Byte) /\ Len(ups[u].bytes) = ups[u].seal.size
          /\ InOrder(ups[u])
      BY <1>1, <1>3 DEF UploadRow, Complete, Received, Inv, SessionsOK
    <2>3. [seal |-> ups[u].seal, bytes |-> ups[u].bytes] \in Entry
      BY <2>2 DEF Entry
    <2>4. Whole([seal |-> ups[u].seal, bytes |-> ups[u].bytes])
      BY <2>2 DEF Whole, InOrder
    <2>5. /\ entries' \in [Claims -> Entry \cup {None}] /\ entries'[c] # None
          /\ \A d \in Claims : entries[d] # None => entries'[d] # None
          /\ made' \in [seal : Nat, up : Nat, claim : Nat]
          /\ made'.up = made.up /\ made'.claim = c /\ c = made.claim + 1 /\ made.claim \in Nat
          /\ EntriesOK'
      BY <2>1, <2>3, <2>4, Stored
    <2>6. /\ row' \in RowType /\ RowOK' /\ faults' \in Nat /\ ClientForgets
          /\ mem' \in Resumable \cup {None} /\ disk' \in UploadRecord \cup {None}
          /\ told' \in Claims \cup {None} /\ (told' = None => told = None)
      BY <2>5, Answered
    <2>7. /\ ups' \in [Ups -> UploadRow \cup {None}] /\ ups'[u] # None
          /\ ups'[u].seal = ups[u].seal /\ ups'[u].bytes = <<>> /\ ups'[u].claim = c
          /\ \A w \in Ups : w # u => ups'[w] = ups[w]
      <3> DEFINE t == [ups[u] EXCEPT !.claim = c, !.bytes = <<>>]
      <3>1. t \in UploadRow /\ t.seal = ups[u].seal /\ t.bytes = <<>> /\ t.claim = c
        BY <1>1, RowClaimed
      <3>2. ups' = [ups EXCEPT ![u] = t]
        BY <2>1, <1>1
      <3> HIDE DEF t
      <3>3. ups' \in [Ups -> UploadRow \cup {None}] /\ ups'[u] = t /\ \A w \in Ups : w # u => ups'[w] = ups[w]
        BY <1>1, <3>1, <3>2
      <3>4. QED
        BY <3>1, <3>3
    <2>8. Types'
      BY <2>5, <2>6, <2>7 DEF Inv, Types, reader
    <2>9. SessionsOK'
      <3> SUFFICES ASSUME NEW v \in Ups, ups'[v] # None
                   PROVE  /\ v <= made'.up
                          /\ ups'[v].claim = None => InOrder(ups'[v])
                          /\ ups'[v].claim # None => ups'[v].claim <= made'.claim
                          /\ ups'[v].claim # None /\ told' = None => entries'[ups'[v].claim] # None
        BY DEF SessionsOK, InOrder
      <3>1. CASE v = u
        <4>1. c <= c /\ c # None
          BY DEF Claims
        <4>2. QED
          BY <1>1, <2>5, <2>7, <3>1, <4>1 DEF Inv, SessionsOK
      <3>2. CASE v # u
        <4>1. ups'[v] = ups[v]
          BY <2>7, <3>2
        <4>2. ups[v].claim # None => ups[v].claim \in Claims /\ ups[v].claim <= made.claim
          BY <4>1 DEF Inv, Types, UploadRow, SessionsOK
        <4>3. ups[v].claim # None => ups[v].claim <= made'.claim
          <5>1. made'.claim = made.claim + 1 /\ made.claim \in Nat
            BY <2>5
          <5>2. QED
            BY <4>2, <5>1, ClaimGrows
        <4>4. QED
          BY <1>1, <2>5, <4>1, <4>2, <4>3 DEF Inv, SessionsOK
      <3>3. QED
        BY <3>1, <3>2
    <2>10. FlightOK'
      BY <2>7 DEF Inv, Types, Body, FlightOK, Busy
    <2>11. NamesOK'
      <3>1. ASSUME NEW s \in Ups, ups'[s] # None PROVE ups[s] # None /\ ups'[s].seal = ups[s].seal
        BY <1>1, <2>7, <3>1
      <3>2. QED
        <4>1. mem' # None => Known(mem.session, mem.seal)'
          BY SMTT(30), <2>5, <2>6, <3>1 DEF Inv, Types, NamesOK, Known, ClientForgets, Resumable
        <4>2. disk' # None => Known(disk.session, disk.seal)'
          <5>1. CASE disk' = disk
            <6>1. disk # None => disk.session \in Ups \cup {None} /\ Known(disk.session, disk.seal)
              BY DEF Inv, Types, UploadRecord, NamesOK
            <6>2. QED
              BY <2>5, <3>1, <5>1, <6>1 DEF Known
          <5>2. CASE disk' = None \/ disk'.session = None
            BY <5>2 DEF Known
          <5>3. QED
            BY <2>6, <5>1, <5>2 DEF ClientForgets
        <4>3. QED
          BY <4>1, <4>2 DEF NamesOK
    <2>12. StampOK'
      <3>1. CASE disk' = disk
        <4>1. ASSUME disk # None, disk.session # None, ups'[disk.session] # None
              PROVE  \A i \in 1..Len(ups'[disk.session].bytes) :
                       disk.stamp <= ups'[disk.session].bytes[i][2] /\ ups'[disk.session].bytes[i][2] <= file
          <5>1. disk.session \in Ups
            BY <4>1 DEF Inv, Types, UploadRecord
          <5>2. CASE disk.session = u
            BY <2>7, <5>2
          <5>3. CASE disk.session # u
            BY <2>7, <4>1, <5>1, <5>3 DEF Inv, StampOK, Within
          <5>4. QED
            BY <5>2, <5>3
        <4>2. QED
          BY <3>1, <4>1 DEF Inv, StampOK, Within
      <3>2. CASE disk' = None
        BY <3>2 DEF StampOK
      <3>3. CASE disk' \in UploadRecord /\ disk'.session = None /\ disk'.stamp = file
        BY <3>3, FileType DEF Inv, StampOK
      <3>4. QED
        BY <2>6, <3>1, <3>2, <3>3 DEF ClientForgets
    <2>13. SpentIsHeld' /\ ReaderOK'
      BY <2>6 DEF Inv, SpentIsHeld, ReaderOK, reader
    <2>14. QED
      BY <2>5, <2>6, <2>8, <2>9, <2>10, <2>11, <2>12, <2>13 DEF Inv
  <1>4. QED
    BY <1>2, <1>3

-----------------------------------------------------------------------------
(* The restart, the file, the reader.                                      *)

LEMMA StepRestoreLink == ASSUME Inv, RestoreLink PROVE Inv'
  <1> USE DEF RestoreLink
  <1>1. kind = "link" /\ disk # None /\ disk \in UploadRecord /\ mem = None
    BY DEF Inv, Types, RowOK
  <1>2. row' \in RowType /\ row'.st = "start" /\ RowFits(row')
    BY AtRow DEF Inv, Types, RowOK, Steps
  <1>3. CASE StampMatches
    <2> DEFINE r == [seal |-> disk.seal, session |-> disk.session]
    <2>1. r \in Resumable /\ r.seal = disk.seal /\ r.session = disk.session
      BY <1>1 DEF UploadRecord, Resumable
    <2>2. Remember(r) /\ UNCHANGED <<ups, made>>
      BY <1>3
    <2> HIDE DEF r
    <2>3. /\ mem' \in Resumable /\ mem' # None /\ mem'.seal = disk.seal /\ mem'.session = disk.session
          /\ disk' \in UploadRecord /\ disk' # None
          /\ disk'.seal = disk.seal /\ disk'.session = disk.session /\ disk'.stamp = disk.stamp
      <3>1. disk.stamp = file
        BY <1>3 DEF StampMatches
      <3>2. QED
        BY <1>1, <2>1, <2>2, <3>1, RememberType DEF Inv
    <2>4. Types'
      BY <1>2, <2>2, <2>3 DEF Inv, Types, reader
    <2>5. SessionsOK' /\ FlightOK' /\ EntriesOK'
      <3>1. UNCHANGED <<ups, made, entries, told, flight>>
        BY <2>2
      <3> HIDE DEF RestoreLink
      <3>2. SessionsOK'
        BY ZenonT(60), <3>1 DEF Inv, SessionsOK, InOrder
      <3>3. FlightOK' /\ EntriesOK'
        BY <3>1 DEF Inv, FlightOK, EntriesOK, Whole
      <3>4. QED
        BY <3>2, <3>3
    <2>6. NamesOK'
      BY <1>1, <2>2, <2>3 DEF Inv, NamesOK, Known
    <2>7. RowOK'
      BY <1>1, <1>2, <2>3 DEF Inv, RowOK, Over
    <2>8. StampOK'
      BY <1>1, <2>2, <2>3 DEF Inv, StampOK, Within
    <2>9. SpentIsHeld' /\ ReaderOK'
      BY DEF Inv, SpentIsHeld, ReaderOK, reader
    <2>10. QED
      BY <2>4, <2>5, <2>6, <2>7, <2>8, <2>9 DEF Inv
  <1>4. CASE ~StampMatches
    <2> DEFINE r == [seal |-> Fresh(file), session |-> None]
    <2>1. r \in Resumable /\ r.session = None
      BY SMTT(30), FileType DEF Inv, Types, Fresh, Resumable, Seal
    <2>2. Remember(r) /\ SealMade /\ ups' \in {ups, Abort(disk.session)}
      BY <1>4
    <2> HIDE DEF r
    <2>3. made' \in [seal : Nat, up : Nat, claim : Nat] /\ made'.up = made.up /\ made'.claim = made.claim
      BY <2>2, SealMadeType DEF Inv, Types
    <2>4. /\ mem' \in Resumable /\ mem' # None /\ mem'.session = None
          /\ disk' \in UploadRecord /\ disk' # None /\ disk'.session = None /\ disk'.stamp = file
      BY <1>1, <2>1, <2>2, RememberType DEF Inv
    <2>5. disk.session \in Ups \cup {None}
      BY <1>1 DEF UploadRecord
    <2>6. /\ ups' \in [Ups -> UploadRow \cup {None}]
          /\ \A v \in Ups : ups'[v] # None => ups'[v] = ups[v]
          /\ flight # None => ups'[flight.up] = ups[flight.up]
      BY <2>2, <2>5, AbortShrinks DEF Inv, Types
    <2>7. RelayShrinks /\ ClientForgets
      BY <2>3, <2>4, <2>6 DEF RelayShrinks, ClientForgets
    <2>8. RowOK'
      BY <1>1, <1>2, <2>4 DEF Inv, RowOK, Over
    <2>9. QED
      BY <1>2, <2>3, <2>4, <2>7, <2>8, Light DEF Inv, Types
  <1>5. QED
    BY <1>3, <1>4

LEMMA StepEdit == ASSUME Inv, Edit PROVE Inv'
  <1> USE DEF Edit
  <1>1. file \in Nat /\ Len(Sizes) \in Nat /\ file' = file + 1 /\ file' \in 1..Len(Sizes)
    BY SMTT(30), FileType DEF Inv
  <1>2. faults' \in Nat
    BY FaultType DEF Inv, Types
  <1>3. Types'
    BY <1>1, <1>2 DEF Inv, Types, client, relay, reader
  <1>4. SessionsOK' /\ FlightOK' /\ NamesOK' /\ EntriesOK'
    BY ZenonT(60) DEF Inv, SessionsOK, InOrder, FlightOK, NamesOK, Known, EntriesOK, Whole, client, relay
  <1>5. RowOK'
    BY DEF Inv, RowOK, RowFits, client, relay
  <1>6. StampOK'
    <2>1. ASSUME NEW n \in Nat, n <= file PROVE n <= file'
      BY <1>1, <2>1
    <2>2. ASSUME disk # None PROVE disk.stamp <= file'
      BY <2>1, <2>2 DEF Inv, StampOK, Types, UploadRecord
    <2>3. ASSUME disk # None, disk.session # None, ups[disk.session] # None,
                 NEW i \in 1..Len(ups[disk.session].bytes)
          PROVE  disk.stamp <= ups[disk.session].bytes[i][2] /\ ups[disk.session].bytes[i][2] <= file'
      <3>1. disk.stamp <= ups[disk.session].bytes[i][2] /\ ups[disk.session].bytes[i][2] <= file
        BY <2>3 DEF Inv, StampOK, Within
      <3>2. ups[disk.session].bytes \in Seq(Byte)
        BY <2>3 DEF Inv, Types, UploadRecord, UploadRow
      <3>3. ups[disk.session].bytes[i] \in Byte
        BY <3>2
      <3>4. ups[disk.session].bytes[i][2] \in Nat
        BY <3>3 DEF Byte
      <3>5. QED
        BY <2>1, <3>1, <3>4
    <2>4. ASSUME disk # None, disk.session # None, flight # None, flight.up = disk.session, ~flight.live
          PROVE  disk.stamp <= flight.v /\ flight.v <= file'
      <3>1. disk.stamp <= flight.v /\ flight.v <= file /\ flight.v \in Nat
        BY <2>4 DEF Inv, StampOK, Types, Body
      <3>2. QED
        BY <2>1, <3>1
    <2>5. QED
      BY <2>2, <2>3, <2>4 DEF StampOK, Within, client, relay
  <1>7. SpentIsHeld' /\ ReaderOK'
    BY DEF Inv, SpentIsHeld, ReaderOK, reader, client
  <1>8. QED
    BY <1>3, <1>4, <1>5, <1>6, <1>7 DEF Inv

\* Who collects touches the entries only once their claim was told.
LEMMA Collects ==
    ASSUME Inv, told # None, UNCHANGED <<client, file, ups, flight, told, made>>,
           Fault \/ faults' = faults, got' \in {"none", "pulling", "garbled", "held"},
           entries' = entries \/ entries' = [entries EXCEPT ![told] = None],
           burnt' \in {burnt, told}, SpentIsHeld'
    PROVE  Inv'
  <1>1. told \in Claims /\ entries \in [Claims -> Entry \cup {None}]
    BY DEF Inv, Types
  <1>2. /\ entries' \in [Claims -> Entry \cup {None}]
        /\ \A d \in Claims : entries'[d] # None => entries'[d] = entries[d]
    BY <1>1
  <1>3. faults' \in Nat
    BY FaultType DEF Inv, Types
  <1>4. Types'
    BY <1>1, <1>2, <1>3 DEF Inv, Types, client
  <1>5. SessionsOK'
    BY ZenonT(60) DEF Inv, SessionsOK, InOrder, client
  <1>6. EntriesOK'
    BY SMTT(30), <1>2 DEF Inv, EntriesOK, Whole
  <1>7. FlightOK' /\ NamesOK' /\ StampOK'
    BY DEF Inv, FlightOK, NamesOK, Known, StampOK, Within, client
  <1>8. RowOK'
    BY DEF Inv, RowOK, RowFits, Over, client
  <1>9. ReaderOK'
    BY DEF Inv, ReaderOK
  <1>10. QED
    BY <1>4, <1>5, <1>6, <1>7, <1>8, <1>9 DEF Inv

LEMMA StepFetch == ASSUME Inv, Fetch PROVE Inv'
  <1> USE DEF Fetch
  <1>1. entries' = entries \/ entries' = [entries EXCEPT ![told] = None]
    BY DEF Serves, Burn
  <1>2. burnt' \in {burnt, told} /\ (kind # "link" => burnt' = burnt)
    BY DEF Serves, Burn
  <1>3. SpentIsHeld'
    BY <1>2 DEF Inv, SpentIsHeld, client
  <1>4. QED
    BY <1>1, <1>2, <1>3, Collects

LEMMA PullingTold == ASSUME Inv, got = "pulling" PROVE told # None
  BY DEF Inv, ReaderOK

LEMMA StepFetchBreaks == ASSUME Inv, FetchBreaks PROVE Inv'
  <1> USE DEF FetchBreaks
  <1>1. SpentIsHeld'
    BY DEF Inv, SpentIsHeld, client
  <1>2. QED
    BY <1>1, PullingTold, Collects DEF relay

LEMMA StepFetchDone == ASSUME Inv, FetchDone PROVE Inv'
  <1> USE DEF FetchDone
  <1>1. entries' = entries \/ entries' = [entries EXCEPT ![told] = None]
    BY DEF Burn
  <1>2. burnt' \in {burnt, told}
    BY DEF Burn
  <1>3. SpentIsHeld'
    BY DEF Inv, SpentIsHeld, client
  <1>4. QED
    BY <1>1, <1>2, <1>3, PullingTold, Collects

-----------------------------------------------------------------------------
LEMMA Stutters == ASSUME Inv, UNCHANGED vars PROVE Inv'
  BY DEF vars, client, relay, reader, Inv, Types, SessionsOK, InOrder, FlightOK, NamesOK, Known,
         EntriesOK, Whole, RowOK, RowFits, StampOK, Within, SpentIsHeld, ReaderOK

LEMMA StepInv == Inv /\ [Next]_vars => Inv'
  <1> SUFFICES ASSUME Inv, [Next]_vars PROVE Inv'
    OBVIOUS
  <1>1. CASE Attempt
    BY <1>1, StepBeginLink, StepBeginDeposit, StepOpen, StepStatus, StepSend, StepBodyArrives,
       StepBodyEnds, StepReadFails, StepHandlerEnds, StepCommit, StepSingle, StepCommitRefused,
       StepSingleFails, StepPostOffer, StepRetry DEF Attempt
  <1>2. CASE \E u \in Ups : OpenLost(u) \/ UploadReap(u)
    BY <1>2, StepOpenLost, StepUploadReap
  <1>3. CASE OpenRefused \/ StatusLost \/ BodyBreaks \/ OfferFails \/ Cancel \/ Crash \/ RestoreLink
    BY <1>3, StepOpenRefused, StepStatusLost, StepBodyBreaks, StepOfferFails, StepCancel, StepCrash,
       StepRestoreLink
  <1>4. CASE Edit \/ Fetch \/ FetchBreaks \/ FetchDone
    BY <1>4, StepEdit, StepFetch, StepFetchBreaks, StepFetchDone
  <1>5. CASE UNCHANGED vars
    BY <1>5, Stutters
  <1>6. QED
    BY <1>1, <1>2, <1>3, <1>4, <1>5 DEF Next

\* The invariant holds whatever the relay, the network, the user and the file do.
THEOREM InvHolds == Spec => []Inv
  BY InitInv, StepInv, PTL DEF Spec

\* commit_upload only ever files the ciphertext, whole and in order, whichever retries,
\* late bodies and stale offsets came before it; a sealed deposit is spent only by a
\* receiver that holds it.
THEOREM SpecBlobsAreSound == Spec => []BlobsAreSound
  <1>1. Inv => BlobsAreSound
    <2> SUFFICES ASSUME Inv PROVE BlobsAreSound
      OBVIOUS
    <2>1. TypeOK
      BY DEF Inv, Types, RowType, Resumable, RowOK, RowFits, TypeOK
    <2>2. BlobIsWhole /\ SpentIsHeld
      BY DEF Inv, EntriesOK, BlobIsWhole
    <2>3. QED
      BY <2>1, <2>2 DEF BlobsAreSound
  <1>2. QED
    BY <1>1, InvHolds, PTL

LEMMA Squeezed == ASSUME NEW a \in Nat, NEW b \in Nat, a <= b, b <= a PROVE b = a
  OBVIOUS

\* restore_link goes on with a session only when every byte in it was read from the
\* file that is there now: the stamp of the record decides it.
THEOREM SpecRestartKeepsTheFile == Spec => RestartKeepsTheFile
  <1>1. Inv /\ [Next]_vars
        => [ row.st = "down" /\ row'.st = "start" /\ mem'.session # None
             => LET s == ups[mem'.session]
                IN  s # None => \A i \in 1..Len(s.bytes) : s.bytes[i][2] = file ]_vars
    <2> SUFFICES ASSUME Inv, Next, row.st = "down", row'.st = "start", mem'.session # None,
                        ups[mem'.session] # None, NEW i \in 1..Len(ups[mem'.session].bytes)
                 PROVE  ups[mem'.session].bytes[i][2] = file
      OBVIOUS
    <2>1. RestoreLink
      <3>1. ~(\/ BeginLink \/ BeginDeposit \/ (\E u \in Ups : Open(u)) \/ Status \/ Send
              \/ (\E c \in Claims : Commit(c) \/ Single(c))
              \/ CommitRefused \/ SingleFails \/ PostOffer \/ Retry \/ (\E u \in Ups : OpenLost(u))
              \/ OpenRefused \/ StatusLost \/ OfferFails \/ Cancel \/ Crash)
        BY DEF BeginLink, BeginDeposit, Open, Status, Send, Commit, Single, CommitRefused, SingleFails,
               PostOffer, Retry, OpenLost, OpenRefused, StatusLost, OfferFails, Cancel, Crash
      <3>2. ~(BodyEnds \/ ReadFails \/ BodyBreaks)
        BY DEF BodyEnds, ReadFails, BodyBreaks, Inv, RowOK
      <3>3. ~(\/ BodyArrives \/ HandlerEnds \/ (\E u \in Ups : UploadReap(u))
              \/ Edit \/ Fetch \/ FetchBreaks \/ FetchDone)
        BY DEF BodyArrives, HandlerEnds, UploadReap, Edit, Fetch, FetchBreaks, FetchDone, client
      <3>4. QED
        BY <3>1, <3>2, <3>3 DEF Next, Attempt
    <2>2. disk # None /\ disk \in UploadRecord /\ kind = "link"
      BY DEF Inv, Types, RowOK
    <2>3. StampMatches
      <3> SUFFICES ASSUME ~StampMatches PROVE FALSE
        OBVIOUS
      <3>1. mem' = [seal |-> Fresh(file), session |-> None]
        BY <2>1 DEF RestoreLink, Remember
      <3>2. QED
        BY <3>1
    <2>4. mem'.session = disk.session
      BY <2>1, <2>3 DEF RestoreLink, Remember
    <2>5. disk.stamp = file /\ disk.stamp <= ups[mem'.session].bytes[i][2] /\ ups[mem'.session].bytes[i][2] <= file
      BY <2>2, <2>3, <2>4 DEF Inv, StampOK, Within, StampMatches
    <2>6. ups[mem'.session].bytes[i][2] \in Nat
      <3>1. disk.session \in Ups
        BY <2>2, <2>4 DEF UploadRecord
      <3>2. ups[mem'.session].bytes \in Seq(Byte)
        BY <2>4, <3>1 DEF Inv, Types, UploadRow
      <3>3. ups[mem'.session].bytes[i] \in Byte
        BY <3>2
      <3>4. QED
        BY <3>3 DEF Byte
    <2>7. file \in Nat
      BY FileType DEF Inv
    <2>8. QED
      BY <2>5, <2>6, <2>7, Squeezed
  <1>2. QED
    BY <1>1, InvHolds, PTL DEF Spec, RestartKeepsTheFile

-----------------------------------------------------------------------------
(* The refinement.                                                         *)

\* The refinement mapping: the copies and the outcome that Deposit sees.
Copies == {c \in Claims : entries[c] # None /\ Whole(entries[c])}

Outcome == IF row.st \in Over THEN row.st ELSE "pending"

LEMMA CopiesAre == ASSUME Inv PROVE Copies = {c \in Claims : entries[c] # None}
  BY DEF Copies, Inv, EntriesOK

LEMMA CopiesArePrime == ASSUME Inv' PROVE Copies' = {c \in Claims : entries'[c] # None}
  BY DEF Copies, Inv, EntriesOK

\* A step of Deposit, or none.
Abstract == D!Next \/ UNCHANGED <<Copies, told, Outcome>>

\* The abstract step that a step is, by what it does to the entries, the claim told
\* of and the row.
LEMMA IsStutter ==
    ASSUME UNCHANGED <<entries, told>>, (row.st \notin Over /\ row'.st \notin Over) \/ row' = row
    PROVE  Abstract
  BY DEF Abstract, Copies, Outcome, Whole

LEMMA IsGiveUp ==
    ASSUME UNCHANGED <<entries, told>>, row.st \notin Over, row'.st \in {"failed", "cancelled"}
    PROVE  Abstract
  <1>1. D!GiveUp(row'.st)
    BY DEF D!GiveUp, Over, Whole
  <1>2. QED
    BY <1>1 DEF Abstract, D!Next

LEMMA IsTell ==
    ASSUME Inv, NEW c \in Claims, entries[c] # None, UNCHANGED entries, told' = c,
           row.st \notin Over, row'.st = "done"
    PROVE  Abstract
  <1>1. c \in Copies
    BY CopiesAre
  <1>2. Copies' = Copies
    BY DEF Copies, Whole
  <1>3. D!Tell(c)
    BY <1>1, <1>2 DEF D!Tell, Copies, Over
  <1>4. QED
    BY <1>3 DEF Abstract, D!Next

LEMMA IsStore ==
    ASSUME Inv, Inv', NEW c \in Claims, entries[c] = None, entries'[c] # None,
           \A d \in Claims : d # c => entries'[d] = entries[d],
           row.st \notin Over,
           \/ told' = told /\ row'.st \notin Over
           \/ told' = c /\ row'.st = "done"
    PROVE  Abstract
  <1>1. Copies' = Copies \cup {c} /\ c \notin Copies
    BY CopiesAre, CopiesArePrime
  <1>2. CASE told' = told /\ row'.st \notin Over
    <2>1. D!Store(c)
      BY <1>1, <1>2 DEF D!Store, Copies
    <2>2. QED
      BY <2>1 DEF Abstract, D!Next
  <1>3. CASE told' = c /\ row'.st = "done"
    <2>1. D!StoreAndTell(c)
      BY <1>1, <1>3 DEF D!StoreAndTell, Copies, Over
    <2>2. QED
      BY <2>1 DEF Abstract, D!Next
  <1>4. QED
    BY <1>2, <1>3

LEMMA IsLapse ==
    ASSUME Inv, Inv', NEW c \in Claims, entries[c] # None, entries' = [entries EXCEPT ![c] = None],
           UNCHANGED <<told, row>>
    PROVE  Abstract
  <1>1. Copies' = Copies \ {c} /\ c \in Copies
    <2>1. entries \in [Claims -> Entry \cup {None}]
      BY DEF Inv, Types
    <2>2. QED
      BY <2>1, CopiesAre, CopiesArePrime
  <1>2. D!Lapse(c)
    BY <1>1 DEF D!Lapse, Copies
  <1>3. QED
    BY <1>2 DEF Abstract, D!Next

\* An entry is made under a claim that none was made under.
LEMMA StoredWhere ==
    ASSUME Inv, NEW c \in Claims, NEW u, NEW seal, NEW bytes, EntryMade(c, u, seal, bytes)
    PROVE  entries[c] = None /\ \A d \in Claims : d # c => entries'[d] = entries[d]
  <1>1. entries[c] = None
    <2> SUFFICES ASSUME entries[c] # None PROVE FALSE
      OBVIOUS
    <2>1. c <= made.claim /\ made.claim \in Nat /\ c = made.claim + 1
      BY DEF Inv, EntriesOK, Types, EntryMade
    <2>2. QED
      BY <2>1
  <1>2. QED
    BY <1>1 DEF EntryMade, Inv, Types

LEMMA EntryIsNew ==
    ASSUME Types, NEW c \in Claims, NEW u, NEW seal, NEW bytes, EntryMade(c, u, seal, bytes),
           [seal |-> seal, bytes |-> bytes] \in Entry
    PROVE  entries'[c] # None
  BY DEF EntryMade, Types

\* What the row's own operators make of st.
LEMMA RowMoves ==
    ASSUME Inv
    PROVE  /\ \A st \in Steps : At(st) => row'.st = st
           /\ \A st \in Steps : Ends(st) => row'.st = st
           /\ Waits => row'.st = "waiting"
           /\ \A st \in Steps : Quiet(st) => row'.st \in {st, "waiting"}
           /\ Restarted => row'.st \in {"open", "waiting"}
  BY AtRow, EndsRow, WaitsRow, QuietRow, RestartedRow DEF Inv, Types, RowOK

LEMMA RefineAttempt ==
    ASSUME Inv, \/ BeginLink \/ BeginDeposit \/ (\E u \in Ups : Open(u) \/ OpenLost(u)) \/ OpenRefused
                \/ Status \/ StatusLost \/ Send \/ CommitRefused \/ SingleFails \/ Retry
    PROVE  Abstract
  <1>1. CASE BeginLink
    <2>1. row.st \notin Over /\ UNCHANGED <<entries, told>>
      BY <1>1 DEF BeginLink, Over
    <2>2. Ends("failed") \/ \E b \in BOOLEAN : At(Path(b, mem))
      BY <1>1 DEF BeginLink
    <2>3. row'.st = "failed" \/ row'.st \in {"single", "open", "status"}
      BY <2>2, RowMoves DEF Path, Steps, Over
    <2>4. QED
      BY <2>1, <2>3, IsStutter, IsGiveUp DEF Over
  <1>2. CASE BeginDeposit
    <2>1. row.st \notin Over /\ UNCHANGED <<entries, told>>
      BY <1>2 DEF BeginDeposit, Over
    <2>2. \E b \in BOOLEAN : At(Path(b, mem)) \/ At(Path(b, [session |-> None]))
      BY <1>2 DEF BeginDeposit
    <2>3. row'.st \in {"single", "open", "status"}
      BY <2>2, RowMoves DEF Path, Steps, Over
    <2>4. QED
      BY <2>1, <2>3, IsStutter DEF Over
  <1>3. CASE (\E u \in Ups : Open(u) \/ OpenLost(u)) \/ Retry \/ StatusLost
    <2>1. row.st \notin Over /\ UNCHANGED <<entries, told>>
      BY <1>3 DEF Open, OpenLost, Retry, StatusLost, Over, relay
    <2>2. At("status") \/ Quiet("open") \/ At("start") \/ Quiet("status")
      BY <1>3 DEF Open, OpenLost, Retry, StatusLost
    <2>3. row'.st \in {"start", "open", "status", "waiting"}
      BY <2>2, RowMoves DEF Steps
    <2>4. QED
      BY <2>1, <2>3, IsStutter DEF Over
  <1>4. CASE OpenRefused \/ SingleFails
    <2>1. row.st \notin Over /\ UNCHANGED <<entries, told>>
      BY <1>4 DEF OpenRefused, SingleFails, Over, relay
    <2>2. Waits \/ Ends("failed")
      BY <1>4 DEF OpenRefused, SingleFails
    <2>3. row'.st \in {"waiting", "failed"}
      BY <2>2, RowMoves DEF Steps, Over
    <2>4. QED
      BY <2>1, <2>3, IsStutter, IsGiveUp DEF Over
  <1>5. CASE Status
    <2>1. row.st \notin Over /\ UNCHANGED <<entries, told>>
      BY <1>5 DEF Status, Over, relay
    <2>2. Restarted \/ row' = [row EXCEPT !.st = "send", !.pos = Received(mem.session)]
      BY <1>5 DEF Status
    <2>3. row'.st \in {"send", "open", "waiting"}
      BY <2>2, RowMoves DEF Inv, Types, RowType
    <2>4. QED
      BY <2>1, <2>3, IsStutter DEF Over
  <1>6. CASE Send
    <2>1. row.st = "send" /\ UNCHANGED <<entries, told>>
      BY <1>6 DEF Send
    <2>2. Restarted \/ Quiet("status") \/ At("sent") \/ row' = [row EXCEPT !.pos = Received(mem.session)]
      BY <1>6 DEF Send
    <2>3. row'.st \in {"status", "sent", "send", "open", "waiting"}
      BY <2>1, <2>2, RowMoves DEF Inv, Types, RowType, Steps
    <2>4. QED
      BY <2>1, <2>3, IsStutter DEF Over
  <1>7. CASE CommitRefused
    <2>1. row.st = "send" /\ UNCHANGED <<entries, told>>
      BY <1>7 DEF CommitRefused, relay
    <2>2. Restarted \/ Quiet("status") \/ row' = [row EXCEPT !.pos = Received(mem.session)]
      BY <1>7 DEF CommitRefused
    <2>3. row'.st \in {"status", "send", "open", "waiting"}
      BY <2>1, <2>2, RowMoves DEF Inv, Types, RowType, Steps
    <2>4. QED
      BY <2>1, <2>3, IsStutter DEF Over
  <1>8. QED
    BY <1>1, <1>2, <1>3, <1>4, <1>5, <1>6, <1>7

LEMMA RefineBodies ==
    ASSUME Inv, \/ BodyArrives \/ BodyEnds \/ BodyBreaks \/ ReadFails \/ HandlerEnds
                \/ (\E u \in Ups : UploadReap(u)) \/ Edit
    PROVE  Abstract
  <1>1. CASE BodyArrives \/ HandlerEnds \/ (\E u \in Ups : UploadReap(u)) \/ Edit
    <2>1. UNCHANGED <<entries, told, row>>
      BY <1>1 DEF BodyArrives, HandlerEnds, UploadReap, Edit, client, relay
    <2>2. QED
      BY <2>1, IsStutter
  <1>2. CASE BodyEnds \/ BodyBreaks \/ ReadFails
    <2>1. row.st = "sent" /\ UNCHANGED <<entries, told>>
      BY <1>2 DEF BodyEnds, BodyBreaks, ReadFails, Inv, RowOK
    <2>2. \/ row' = [row EXCEPT !.st = "send", !.pos = Received(flight.up), !.quiet = 0]
          \/ Quiet("status") \/ Ends("failed")
      BY <1>2 DEF BodyEnds, BodyBreaks, ReadFails
    <2>3. row'.st \in {"send", "status", "waiting", "failed"}
      BY <2>2, RowMoves DEF Inv, Types, RowType, Steps, Over
    <2>4. QED
      BY <2>1, <2>3, IsStutter, IsGiveUp DEF Over
  <1>3. QED
    BY <1>1, <1>2

\* What is told of an entry: the answer to a commit, or to the deposit as one request.
LEMMA AnsweredRow ==
    ASSUME Inv, NEW c \in Claims,
           Committed(c) \/ (Quiet("status") /\ UNCHANGED told) \/ (Waits /\ UNCHANGED told)
    PROVE  \/ told' = told /\ row'.st \notin Over
           \/ told' = c /\ row'.st = "done"
  <1>1. CASE Committed(c)
    <2>1. \/ told' = c /\ Ends("done")
          \/ told' = told /\ row' = [row EXCEPT !.st = "offer", !.claim = c]
      BY <1>1 DEF Committed
    <2>2. QED
      BY ZenonT(60), <2>1, RowMoves DEF Inv, Types, RowType, Steps, Over
  <1>2. CASE (Quiet("status") /\ UNCHANGED told) \/ (Waits /\ UNCHANGED told)
    <2>1. row'.st \in {"status", "waiting"}
      BY <1>2, RowMoves DEF Steps
    <2>2. QED
      BY <1>2, <2>1 DEF Over
  <1>3. QED
    BY <1>1, <1>2

LEMMA RefineStores ==
    ASSUME Inv, Inv', NEW c \in Claims, Commit(c) \/ Single(c) PROVE Abstract
  <1>1. row.st \in {"send", "single"} /\ row.st \notin Over
    BY DEF Commit, Single, Over
  <1>2. \/ told' = told /\ row'.st \notin Over
        \/ told' = c /\ row'.st = "done"
    <2>1. Committed(c) \/ (Quiet("status") /\ UNCHANGED told) \/ (Waits /\ UNCHANGED told)
      <3>1. CASE Commit(c)
        BY <3>1 DEF Commit
      <3>2. CASE Single(c)
        BY <3>2 DEF Single
      <3>3. QED
        BY <3>1, <3>2
    <2>2. QED
      BY <2>1, AnsweredRow, Zenon
  <1>3. ASSUME NEW u, NEW seal, NEW bytes, EntryMade(c, u, seal, bytes),
               [seal |-> seal, bytes |-> bytes] \in Entry
        PROVE  Abstract
    <2>1. entries[c] = None /\ \A d \in Claims : d # c => entries'[d] = entries[d]
      BY <1>3, StoredWhere
    <2>2. entries'[c] # None
      BY <1>3, EntryIsNew DEF Inv
    <2>3. QED
      BY <1>1, <1>2, <2>1, <2>2, IsStore
  <1>4. CASE Single(c)
    BY <1>3, <1>4, SingleEntry DEF Single
  <1>5. CASE Commit(c)
    <2>1. CASE ups[mem.session].claim = None
      <3>1. /\ mem.session \in Ups /\ ups[mem.session] # None
            /\ EntryMade(c, mem.session, ups[mem.session].seal, ups[mem.session].bytes)
        BY <1>5, <2>1 DEF Commit, CommitAt, Inv, RowOK, Types, Resumable
      <3>2. QED
        BY <1>3, <3>1, CommitEntry
    <2>2. CASE ups[mem.session].claim # None
      <3>1. c = ups[mem.session].claim /\ UNCHANGED entries
        BY <1>5, <2>2 DEF Commit, CommitAt
      <3>2. told = None /\ mem.session \in Ups /\ ups[mem.session] # None
        BY <1>5 DEF Commit, Inv, RowOK, Types, Resumable
      <3>3. entries[c] # None
        BY <2>2, <3>1, <3>2 DEF Inv, SessionsOK
      <3>4. QED
        BY <1>1, <1>2, <3>1, <3>3, IsTell, IsStutter
    <2>3. QED
      BY <2>1, <2>2
  <1>6. QED
    BY <1>4, <1>5

LEMMA RefineRest ==
    ASSUME Inv, Inv', \/ PostOffer \/ OfferFails \/ Cancel \/ Crash \/ RestoreLink
                      \/ Fetch \/ FetchBreaks \/ FetchDone
    PROVE  Abstract
  <1>1. CASE PostOffer
    <2>1. row.st = "offer" /\ told' = row.claim /\ UNCHANGED entries /\ Ends("done")
      BY <1>1 DEF PostOffer, relay
    <2>2. row'.st = "done"
      BY <2>1, RowMoves DEF Steps, Over
    <2>3. row.claim \in Claims /\ entries[row.claim] # None
      BY <2>1 DEF Inv, Types, RowType, RowOK
    <2>4. QED
      BY <2>1, <2>2, <2>3, IsTell DEF Over
  <1>2. CASE OfferFails \/ RestoreLink
    <2>1. row.st \notin Over /\ UNCHANGED <<entries, told>>
      BY <1>2 DEF OfferFails, RestoreLink, relay, Over
    <2>2. row' = [row EXCEPT !.st = "waiting", !.claim = None] \/ At("start")
      BY <1>2 DEF OfferFails, RestoreLink
    <2>3. row'.st \in {"waiting", "start"}
      BY <2>2, RowMoves DEF Inv, Types, RowType, Steps
    <2>4. QED
      BY <2>1, <2>3, IsStutter DEF Over
  <1>3. CASE Cancel \/ Crash
    <2>1. row.st \notin Over /\ UNCHANGED <<entries, told>>
      BY <1>3 DEF Cancel, Crash
    <2>2. Ends("cancelled") \/ Ends("down") \/ Ends("failed")
      BY <1>3 DEF Cancel, Crash
    <2>3. row'.st \in {"cancelled", "down", "failed"}
      BY <2>2, RowMoves DEF Steps, Over
    <2>4. QED
      BY <2>1, <2>3, IsStutter, IsGiveUp DEF Over
  <1>4. CASE Fetch \/ FetchBreaks \/ FetchDone
    <2>1. UNCHANGED <<told, row>>
      BY <1>4 DEF Fetch, FetchBreaks, FetchDone, client
    <2>2. UNCHANGED entries \/ (entries[told] # None /\ told # None /\ entries' = [entries EXCEPT ![told] = None])
      BY <1>4, PullingTold DEF Fetch, FetchBreaks, FetchDone, Serves, Burn, relay
    <2>3. told # None => told \in Claims
      BY DEF Inv, Types
    <2>4. QED
      BY <2>1, <2>2, <2>3, IsStutter, IsLapse
  <1>5. QED
    BY <1>1, <1>2, <1>3, <1>4

LEMMA RefineStep == Inv /\ Inv' /\ [Next]_vars => [D!Next]_<<Copies, told, Outcome>>
  <1> SUFFICES ASSUME Inv, Inv', Next PROVE Abstract
    BY DEF Abstract, vars, relay, client, Copies, Outcome, Whole
  <1>1. QED
    BY RefineAttempt, RefineBodies, RefineStores, RefineRest DEF Next, Attempt

\* deposit_link_with and deposit_offline_with do what one indivisible deposit would:
\* the file is stored whole or not at all, and a claim is told of only once it is there.
THEOREM SpecRefinement == Spec => Refinement
  <1>1. Init => D!Init
    BY DEF Init, D!Init, Over
  <1>2. Inv /\ Inv' /\ [Next]_vars => [D!Next]_(D!dvars)
    BY RefineStep DEF D!dvars, Copies, Outcome
  <1>3. QED
    BY <1>1, <1>2, InvHolds, PTL DEF Spec, Refinement, D!Spec
=============================================================================
