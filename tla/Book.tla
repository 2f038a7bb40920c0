-------------------------------- MODULE Book --------------------------------
(***************************************************************************)
(* The address book and its synchronisation between the devices of one     *)
(* identity: the TOML ledgers a person edits (engine/src/book), the CRDT   *)
(* sidecar beside them (core/src/sync.rs, engine/src/book/sync_bridge.rs)  *)
(* and the round that exchanges whole snapshots through the identity's     *)
(* inbox slot on the relay (engine/src/sync.rs).                           *)
(*                                                                         *)
(* Everything the book says is a cell.  A ledger gives a cell a value or   *)
(* nothing; the sidecar gives it a register: the value, the Lamport clock  *)
(* (n, dev) that wrote it, and a tombstone.  Names, keys, labels and       *)
(* relays are numbers in the order in which their strings sort.            *)
(***************************************************************************)
EXTENDS Integers, Sequences, FiniteSets, FiniteSetsExt

CONSTANTS
    Devices,    \* the machines: positive numbers, as their random ids sort
    Host,       \* the machine whose identity the others join
    Names,      \* petnames a contact can be saved under
    Keys,       \* public keys
    MarkKinds,  \* the marks a key can carry: verified, trusted, blocked
    Labels,     \* display names, of people and of machines
    Relays,     \* relays a contact can listen on
    Unset,      \* no value
    OldName,    \* machine -> the display name its config.toml still has
    OldNotes,   \* what the slot holds at the start: notes of an older build
    MaxEvents   \* bound: edits people make, and preemptions in a merge, crashes, failed rounds

ASSUME BookAssumption ==
    /\ Devices \subseteq Nat \ {0} /\ Host \in Devices /\ IsFiniteSet(Devices)
    /\ MarkKinds \subseteq {"verified", "trusted", "blocked"}
    /\ Names \subseteq Nat /\ Keys \subseteq Nat /\ IsFiniteSet(Names) /\ IsFiniteSet(Keys)
    /\ Labels \subseteq Nat \ {0} /\ Relays \subseteq Nat
    /\ MaxEvents \in Nat

VARIABLES
    book,       \* device -> its files: see Book0
    payload,    \* the snapshot behind an open pairing code, or Unset
    member,     \* the machines that hold the identity
    round,      \* device -> the sync round under way, in memory
    slot,       \* the sync notes in the identity's inbox slot, oldest first
    edits,      \* edits made so far
    faults,     \* faults so far
    lastWord    \* cell -> history: what its last uncontested edit said

bookVars == <<book, payload, member, round, slot, edits, faults, lastWord>>

----------------------------------------------------------------------------
(* Cells and registers *)

Cell(k, x) == [kind |-> k, key |-> x]
Me == Cell("self", 0)
Cells == {Me} \cup {Cell("contact", n) : n \in Names}
              \cup {Cell(k, x) : k \in MarkKinds \cup {"seen", "name", "relay"}, x \in Keys}
              \cup {Cell("device", d) : d \in Devices}

On == 1                                   \* the value of a mark: its stamp orders nothing
Blank == 0                                \* the empty display name, which is a value
NameRow(p, q) == IF p = Unset /\ q = Unset THEN Unset ELSE [pinned |-> p, pending |-> q]
Pinned(row) == IF row = Unset THEN Unset ELSE row.pinned
Pending(row) == IF row = Unset THEN Unset ELSE row.pending

\* mutant
SharedId(v, n, d, del) == [val |-> v, n |-> n, dev |-> IF d = 0 THEN 0 ELSE Host, del |-> del]

Reg(v, n, d, del) == [val |-> v, n |-> n, dev |-> d, del |-> del]
Absent == Reg(Unset, 0, 0, FALSE)
Alive(r) == r.n > 0 /\ ~r.del

\* What a cell can hold, and a register as meta.bin or a note can have it: the
\* high-water mark of "seen" has no clock, and nothing else is without one.
NameRows == [pinned : Labels \cup {Unset}, pending : Labels \cup {Unset}]
Values(c) ==
    CASE c.kind = "contact" -> Keys \cup {Unset}
      [] c.kind \in MarkKinds -> {On, Unset}
      [] c.kind = "seen" -> Nat
      [] c.kind = "name" -> NameRows \cup {Unset}
      [] c.kind = "relay" -> Relays \cup {Unset}
      [] OTHER -> Labels \cup {Blank, Unset}
AnyValue == Nat \cup NameRows \cup {Unset}
Ledgers == {L \in [Cells -> AnyValue] : \A c \in Cells : L[c] \in Values(c)}
AnyRegister == [val : AnyValue, n : Nat, dev : Devices \cup {0}, del : BOOLEAN]
RegisterOf(c) ==
    IF c.kind = "seen" THEN [val : Nat, n : {0}, dev : {0}, del : {FALSE}]
    ELSE {Absent} \cup [val : Values(c), n : Nat \ {0}, dev : Devices \cup {0}, del : BOOLEAN]
States == {s \in [Cells -> AnyRegister] : \A c \in Cells : s[c] \in RegisterOf(c)}

EmptyLedger == [c \in Cells |-> IF c = Me THEN Blank ELSE IF c.kind = "seen" THEN 0 ELSE Unset]
EmptyState == [c \in Cells |-> IF c.kind = "seen" THEN [Absent EXCEPT !.val = 0] ELSE Absent]

\* mutant
CounterOnly(a, b) == a.n > b.n

\* The Lamport order: the counter, and the device id on a tie.
Newer(a, b) == a.n > b.n \/ (a.n = b.n /\ a.dev > b.dev)

----------------------------------------------------------------------------
(* merge: what one register becomes when another is merged into it *)

\* Contacts, names, relays and the display name: the higher clock.
MergeLast(cur, inc) == IF Newer(inc, cur) THEN inc ELSE cur

\* Marks: the higher clock, and on the same clock the tombstone.
MergeMark(cur, inc) ==
    IF inc.n = cur.n /\ inc.dev = cur.dev /\ inc.n > 0
    THEN (IF inc.del /\ ~cur.del THEN inc ELSE cur)
    ELSE MergeLast(cur, inc)

\* Devices: as marks, but a live row only from the machine it describes.
MergeDevice(id, cur, inc) ==
    IF inc.n > 0 /\ ~inc.del /\ inc.dev # id THEN cur ELSE MergeMark(cur, inc)

\* mutant
MergeNewest(s, o) == [c \in Cells |-> IF o[c].n > 0 THEN o[c] ELSE s[c]]

Merge(s, o) == [c \in Cells |->
    CASE c.kind = "seen" -> [s[c] EXCEPT !.val = Max({s[c].val, o[c].val})]
      [] c.kind = "device" -> MergeDevice(c.key, s[c], o[c])
      [] c.kind \in MarkKinds -> MergeMark(s[c], o[c])
      [] OTHER -> MergeLast(s[c], o[c])]

MaxCounter(s) == Max({s[c].n : c \in Cells})

\* mutant
KeepsCounter(l, snap, s) == l

\* The counter moves past everything the device has merged.
Advance(l, snap, s) == Max({l, snap.lamport, MaxCounter(s)})

\* A snapshot is the whole state under its writer's clock.  A shape written
\* before relays or the display name existed decodes without those registers:
\* absent, which merges as "no information".
ToSnapshot(b) == [lamport |-> b.lamport, state |-> b.state, shape |-> 3]
Lacks(shape) == IF shape < 2 THEN {"relay", "self"} ELSE IF shape = 2 THEN {"self"} ELSE {}
DecodeSnapshot(snap) == [snap EXCEPT !.shape = 3, !.state = [c \in Cells |->
    IF c.kind \in Lacks(snap.shape) THEN Absent ELSE snap.state[c]]]
FromSnapshot(snap) == snap.state

\* The notes at the start are of a machine that is gone: a clock of its names one
\* write, a row of its that is live says something, and no round has them yet.
Snapshots == [lamport : Nat, state : States, shape : 1 .. 3]
Notes == [ok : BOOLEAN, snap : Snapshots, by : SUBSET Devices]

ASSUME OldAssumption ==
    /\ OldName \in [Devices -> Labels \cup {Blank}]
    /\ OldNotes \in Seq(Notes)
    /\ \A i \in 1 .. Len(OldNotes) : \A c \in Cells : OldNotes[i].snap.state[c].dev = 0
    /\ \A i, j \in 1 .. Len(OldNotes) : \A c \in {x \in Cells : x.kind # "seen"} :
         LET r == OldNotes[i].snap.state[c] s == OldNotes[j].snap.state[c] IN r.n = s.n => r = s
    /\ \A i \in 1 .. Len(OldNotes) : \A c \in {x \in Cells : x # Me /\ x.kind \notin {"seen", "device"}} :
         Alive(OldNotes[i].snap.state[c]) => OldNotes[i].snap.state[c].val # Unset
    /\ \A i \in 1 .. Len(OldNotes) : OldNotes[i].by = {}

----------------------------------------------------------------------------
(* One machine's files, and what the sync functions make of them *)

\* ledger: the TOML files; first: key -> the first name it claimed here;
\* legacy: the display_name still in config.toml; state and lamport: meta.bin.
Book0(name) == [ledger |-> EmptyLedger, first |-> [k \in Keys |-> Unset], legacy |-> name,
                state |-> EmptyState, lamport |-> 0]

\* register_this_device: a machine whose row is tombstoned stays retired.
ThisDevice(d, b) == IF b.ledger[Cell("device", d)] = Unset THEN Blank ELSE b.ledger[Cell("device", d)]
Retired(d, b) == b.state[Cell("device", d)].del
Announced(d, b) == LET r == b.state[Cell("device", d)] IN
    Alive(r) /\ r.val = ThisDevice(d, b)

\* mutant
AlwaysAnnounces(d, b) == ~Announced(d, b)

MustAnnounce(d, b) == ~Retired(d, b) /\ ~Announced(d, b)

\* register_my_name: the ledger wins over the register; while no machine ever
\* set one, the name left in config.toml is adopted.
Adopts(b) == b.state[Me].n = 0 /\ b.ledger[Me] = Blank /\ b.legacy # Blank
MyName(b) == IF Adopts(b) THEN b.legacy ELSE b.ledger[Me]
MustStampMe(b) == IF b.state[Me].n > 0 THEN b.state[Me].val # b.ledger[Me] ELSE MyName(b) # Blank

\* What the fold adds or changes, and what it finds gone and tombstones.
Added(d, b) == {c \in Cells :
    CASE c = Me -> MustStampMe(b)
      [] c.kind = "device" -> c.key = d /\ MustAnnounce(d, b)
      [] c.kind = "seen" -> FALSE
      [] OTHER -> b.ledger[c] # Unset /\ ~(Alive(b.state[c]) /\ b.state[c].val = b.ledger[c])}

\* mutant
NothingGone(b) == {}

Removed(b) == {c \in Cells : c # Me /\ c.kind \notin {"device", "seen"}
                             /\ b.ledger[c] = Unset /\ Alive(b.state[c])}
Stamped(d, b) == Added(d, b) \cup Removed(b)

\* One tick of the counter per stamp: by kind, what was added before what was
\* removed, in the order of the keys.
KindRank(k) == CASE k = "contact" -> 1 [] k = "verified" -> 2 [] k = "trusted" -> 3 [] k = "blocked" -> 4
                 [] k = "name" -> 5 [] k = "relay" -> 6 [] k = "device" -> 7 [] OTHER -> 8
Turn(c, gone) == <<KindRank(c.kind), IF c \in gone THEN 1 ELSE 0, c.key>>
Before(x, y) == \/ x[1] < y[1]
                \/ x[1] = y[1] /\ x[2] < y[2]
                \/ x[1] = y[1] /\ x[2] = y[2] /\ x[3] < y[3]
Tick(c, stamped, gone) == 1 + Cardinality({x \in stamped : Before(Turn(x, gone), Turn(c, gone))})

Spent(stamped) == Cardinality(stamped)

\* build_local_snapshot: the ledgers, which a person may have edited, are folded
\* into the sidecar; a new display name or device row also into the ledger.
Fold(d, b) ==
    LET gone == Removed(b)
        stamped == Stamped(d, b)
        said == [b.ledger EXCEPT ![Me] = MyName(b),
                                 ![Cell("device", d)] = IF MustAnnounce(d, b) THEN ThisDevice(d, b) ELSE @]
        Reg1(c) == IF c \in gone THEN Reg(b.state[c].val, b.lamport + Tick(c, stamped, gone), d, TRUE)
                   ELSE IF c \in stamped THEN Reg(said[c], b.lamport + Tick(c, stamped, gone), d, FALSE)
                   ELSE IF c.kind = "seen" THEN [b.state[c] EXCEPT !.val = Max({b.state[c].val, b.ledger[c]})]
                   ELSE b.state[c]
    IN  [b EXCEPT !.ledger = said, !.legacy = IF Adopts(b) THEN Blank ELSE b.legacy,
                  !.state = [c \in Cells |-> Reg1(c)], !.lamport = b.lamport + Spent(stamped)]

\* apply_merged_state up to save_meta: local edits are folded in, then the merge.
MergeIn(d, b, snap) ==
    LET folded == Fold(d, b)
        s == Merge(folded.state, FromSnapshot(DecodeSnapshot(snap)))
    IN  [folded EXCEPT !.state = s, !.lamport = Advance(folded.lamport, snap, s)]

\* project_to_ledgers: a live register is a row, a tombstone is absence; the
\* first claims are this device's own and leave only with a tombstoned name.
Project(b, s) ==
    [b EXCEPT !.ledger = [c \in Cells |->
                 CASE c = Me -> IF s[c].n > 0 THEN s[c].val ELSE b.ledger[c]
                   [] c.kind = "seen" -> s[c].val
                   [] OTHER -> IF Alive(s[c]) THEN s[c].val ELSE Unset],
              !.first = [k \in Keys |-> IF s[Cell("name", k)].del THEN Unset ELSE b.first[k]]]

ApplyMerged(d, b, snap) == LET merged == MergeIn(d, b, snap) IN Project(merged, merged.state)

\* A note under the identity's key, and one that does not open with it.
SealedNote(snap) == [ok |-> TRUE, snap |-> snap]
Opens(m) == m.ok

\* Notes are merged one after the other; one that does not decrypt is passed over.
ApplyNote(d, b, m) == IF Opens(m) THEN ApplyMerged(d, b, m.snap) ELSE b
ApplyAll(d, b, notes) ==
    LET After[i \in 0 .. Len(notes)] == IF i = 0 THEN b ELSE ApplyNote(d, After[i - 1], notes[i])
    IN  After[Len(notes)]

\* prune_orphan_names: name rows of keys that are no contact, unless the key
\* introduced itself here.
Holders(b, k) == {n \in Names : b.ledger[Cell("contact", n)] = k}
Prune(b) == [b EXCEPT !.ledger = [c \in Cells |->
    IF c.kind = "name" /\ Holders(b, c.key) = {} /\ b.first[c.key] = Unset THEN Unset ELSE b.ledger[c]]]

----------------------------------------------------------------------------
(* Edits: the ledgers as a person, or an incoming offer, changes them *)

Tracked == {c \in Cells : c.kind \notin {"seen", "device"}}
Idle == [pc |-> "idle", rest |-> <<>>, mem |-> Unset, merged |-> FALSE]

\* A merge is saved and not projected yet, so that the ledger is behind.
Unprojected(d, c) == round[d].pc = "project" /\ Project(book[d], round[d].mem).ledger[c] # book[d].ledger[c]

\* History: the cells an edit changed remember it as their last word, unless
\* another machine holds something this one has not merged yet, or the edit
\* falls between the merge and its projection on this very machine.
Unmerged(d, c) ==
    \/ \E e \in Devices \ {d} :
         c \in Stamped(e, book[e]) \/ Unprojected(e, c) \/ Newer(book[e].state[c], book[d].state[c])
    \/ \E i \in 1 .. Len(slot) : Newer(slot[i].snap.state[c], book[d].state[c])
    \/ payload # Unset /\ Newer(payload.state[c], book[d].state[c])
Standing(d, c) == IF Unmerged(d, c) THEN "contested" ELSE IF round[d].pc = "project" THEN "raced" ELSE "sure"
Remember(d, new) == lastWord' = [c \in Cells |->
    IF c \notin Tracked \/ (new.ledger[c] = book[d].ledger[c] /\ new.state[c] = book[d].state[c]) THEN lastWord[c]
    ELSE [known |-> Standing(d, c), val |-> new.ledger[c]]]

\* What a machine says of a cell before it has projected it is no edit of anyone's.
Raced(d) == lastWord' = [c \in Cells |->
    IF Unprojected(d, c) THEN [lastWord[c] EXCEPT !.known = "raced"] ELSE lastWord[c]]

EditBook(d, new) ==
    /\ edits + faults < MaxEvents
    /\ new # book[d]
    /\ book' = [book EXCEPT ![d] = new]
    /\ edits' = edits + 1
    /\ Remember(d, new)
    /\ UNCHANGED <<payload, member, round, slot, faults>>
EditLedger(d, L) == EditBook(d, [book[d] EXCEPT !.ledger = L])

\* The three ledgers of marks.
VerifiedMark(L, k, v) == [L EXCEPT ![Cell("verified", k)] = v]
TrustedMark(L, k, v) == [L EXCEPT ![Cell("trusted", k)] = v]
BlockedMark(L, k, v) == [L EXCEPT ![Cell("blocked", k)] = v]
MarkRow(L, kind, k, v) == CASE kind = "verified" -> VerifiedMark(L, k, v)
                            [] kind = "trusted" -> TrustedMark(L, k, v)
                            [] kind = "blocked" -> BlockedMark(L, k, v)
Unmarked(L, k) == [c \in Cells |-> IF c.kind \in {"verified", "trusted"} /\ c.key = k THEN Unset ELSE L[c]]

SetRelayRow(L, k, r) == [L EXCEPT ![Cell("relay", k)] = r]

\* contact_add.  A name that changes its key: the old key is no longer verified
\* or trusted, and where it listened is forgotten.
ContactAdd(L, n, k, r) ==
    LET old == L[Cell("contact", n)]
        kept == IF old \in {Unset, k} THEN L ELSE SetRelayRow(Unmarked(L, old), old, Unset)
        bound == [kept EXCEPT ![Cell("contact", n)] = k]
    IN  IF r = Unset THEN bound ELSE SetRelayRow(bound, k, r)

\* forget_name_row: the approvals go, the first claim stays.
ForgetNameRow(L, k) == [L EXCEPT ![Cell("name", k)] = Unset]

ContactRemove(b, n) ==
    LET k == b.ledger[Cell("contact", n)]
        without == [b.ledger EXCEPT ![Cell("contact", n)] = Unset]
    IN  IF Holders(b, k) = {n} THEN SetRelayRow(ForgetNameRow(without, k), k, Unset) ELSE without

\* A name that is taken by another key is re-pointed only when asked to.
AddContact(d, n, k, r, rebind) ==
    /\ rebind \/ book[d].ledger[Cell("contact", n)] \in {Unset, k}
    /\ EditLedger(d, ContactAdd(book[d].ledger, n, k, r))

\* A contact exchanged by code: where it listens, then its name if it has none
\* here, and the exchange is the verification.
SaveTheOtherSide(d, n, k, r) ==
    LET L == IF r = Unset THEN book[d].ledger ELSE SetRelayRow(book[d].ledger, k, r)
        saved == IF Holders(book[d], k) = {} THEN ContactAdd(L, n, k, Unset) ELSE L
    IN  EditLedger(d, VerifiedMark(saved, k, On))

\* One row of an imported book: only a name not saved yet, with its marks if asked.
ImportContact(d, n, k, r, marks) ==
    LET added == ContactAdd(book[d].ledger, n, k, r)
    IN  /\ book[d].ledger[Cell("contact", n)] = Unset
        /\ EditLedger(d, [c \in Cells |-> IF c.kind \in marks /\ c.key = k THEN On ELSE added[c]])

\* The command and the daemon's handler both clear the marks by the name first.
RemoveContact(d, n) ==
    LET k == book[d].ledger[Cell("contact", n)]
    IN  /\ k # Unset
        /\ EditLedger(d, ContactRemove([book[d] EXCEPT !.ledger = Unmarked(book[d].ledger, k)], n))

ContactRename(d, n, new) ==
    LET L == book[d].ledger
    IN  /\ L[Cell("contact", n)] # Unset /\ L[Cell("contact", new)] = Unset
        /\ EditLedger(d, [L EXCEPT ![Cell("contact", n)] = Unset, ![Cell("contact", new)] = L[Cell("contact", n)]])

\* Trusting needs a verified key, or force: an unverified one can be trusted too.
Mark(d, kind, k, force) ==
    /\ (kind = "trusted" /\ ~force) => ("verified" \in MarkKinds /\ book[d].ledger[Cell("verified", k)] = On)
    /\ EditLedger(d, MarkRow(book[d].ledger, kind, k, On))
Unmark(d, kind, k) == EditLedger(d, MarkRow(book[d].ledger, kind, k, Unset))

SetRelay(d, k, r) == EditLedger(d, SetRelayRow(book[d].ledger, k, r))
\* Where a sender says it listens, for a saved contact only.
LearnSenderRelay(d, k, r) == Holders(book[d], k) # {} /\ SetRelay(d, k, r)

RecordSeen(d, k) == EditLedger(d, [book[d].ledger EXCEPT ![Cell("seen", k)] = @ + 1])

\* An offer's advertised name: pending until approved, dropped when it is the
\* approved one again; the first claim is written once.
ObserveName(d, k, l) ==
    LET row == book[d].ledger[Cell("name", k)]
        seenAs == NameRow(Pinned(row), IF Pinned(row) = l THEN Unset ELSE l)
        claim == IF book[d].first[k] = Unset THEN l ELSE book[d].first[k]
    IN  EditBook(d, [book[d] EXCEPT !.ledger = [book[d].ledger EXCEPT ![Cell("name", k)] = seenAs],
                                    !.first = [book[d].first EXCEPT ![k] = claim]])

AcceptName(d, k) ==
    LET row == book[d].ledger[Cell("name", k)]
    IN  /\ Pending(row) # Unset
        /\ EditLedger(d, [book[d].ledger EXCEPT ![Cell("name", k)] = NameRow(Pending(row), Unset)])

\* A write that carries its own tick into the sidecar as well as the ledger.
StampBook(d, c, v, reg) == EditBook(d,
    [book[d] EXCEPT !.ledger = [book[d].ledger EXCEPT ![c] = v], !.state = [book[d].state EXCEPT ![c] = reg],
                    !.lamport = book[d].lamport + 1])

SetMyName(d, l) ==
    IF book[d].state[Me].n > 0 /\ book[d].state[Me].val = l
    THEN EditLedger(d, [book[d].ledger EXCEPT ![Me] = l])
    ELSE StampBook(d, Me, l, Reg(l, book[d].lamport + 1, d, FALSE))

RenameThisDevice(d, l) == EditLedger(d, [book[d].ledger EXCEPT ![Cell("device", d)] = l])

\* forget_device: out of the ledger here, tombstoned in the sidecar for the rest.
ForgetDevice(d, e) ==
    LET c == Cell("device", e)
    IN  /\ e # d /\ book[d].ledger[c] # Unset
        /\ StampBook(d, c, Unset, Reg(book[d].state[c].val, book[d].lamport + 1, d, TRUE))

----------------------------------------------------------------------------
(* Pairing and the sync round *)

\* A note: what it holds, whether it decrypts, and the rounds that have pulled it.
Note(sealed) == [ok |-> sealed.ok, snap |-> sealed.snap, by |-> {}]
Pulled(d) == [i \in 1 .. Len(slot) |-> [slot[i] EXCEPT !.by = @ \cup {d}]]
LetGo(d, notes) == [i \in 1 .. Len(notes) |-> [notes[i] EXCEPT !.by = @ \ {d}]]

\* What the acks of a round leave (SelectSeq, which the prover does not know).
Unpulled(d, notes) ==
    LET Kept[i \in 0 .. Len(notes)] ==
          IF i = 0 THEN <<>> ELSE IF d \in notes[i].by THEN Kept[i - 1] ELSE Append(Kept[i - 1], notes[i])
    IN  Kept[Len(notes)]

\* device pair: the book as it is now, and the identity, wait behind a one-shot code.
PairPayload(b) == ToSnapshot(b)
PairHost(d) ==
    LET host == Fold(d, book[d])
    IN  /\ d \in member /\ member # Devices /\ payload = Unset
        /\ payload' = PairPayload(host)
        /\ book' = [book EXCEPT ![d] = host]
        /\ Raced(d)
        /\ UNCHANGED <<member, round, slot, edits, faults>>

\* device join: a machine that has been on its own so far takes the identity and
\* merges the book as a round would.
PairJoin(e) ==
    /\ e \notin member /\ payload # Unset
    /\ book' = [book EXCEPT ![e] = ApplyMerged(e, @, payload)]
    /\ member' = member \cup {e}
    /\ payload' = Unset
    /\ UNCHANGED <<round, slot, edits, faults, lastWord>>

\* The notes in the slot, merged in order.  Nothing of this is seen outside the
\* machine, so it is one step unless something happens on the machine meanwhile.
PullRound(d) ==
    /\ d \in member /\ round[d].pc = "idle"
    /\ round' = [round EXCEPT ![d] = [Idle EXCEPT !.pc = "push", !.merged = \E i \in 1 .. Len(slot) : slot[i].ok]]
    /\ slot' = Pulled(d)
    /\ book' = [book EXCEPT ![d] = ApplyAll(d, @, slot)]
    /\ UNCHANGED <<payload, member, edits, faults, lastWord>>

\* The same, preempted after the i-th merge is saved and before it is projected:
\* meta.bin says one thing and the ledgers still another.
PullPreempted(d, i) ==
    LET before == ApplyAll(d, book[d], SubSeq(slot, 1, i - 1))
        merged == MergeIn(d, before, slot[i].snap)
    IN  /\ d \in member /\ round[d].pc = "idle" /\ slot[i].ok /\ edits + faults < MaxEvents
        /\ faults' = faults + 1
        /\ book' = [book EXCEPT ![d] = merged]
        /\ round' = [round EXCEPT ![d] = [Idle EXCEPT !.pc = "project", !.mem = merged.state,
                        !.rest = SubSeq(LetGo(d, slot), i + 1, Len(slot)), !.merged = TRUE]]
        /\ slot' = Pulled(d)
        /\ UNCHANGED <<payload, member, edits, lastWord>>

\* The projection comes, from the state the merge left in memory.
ResumeRound(d) ==
    /\ round[d].pc = "project"
    /\ round' = [round EXCEPT ![d] = [@ EXCEPT !.pc = "push", !.mem = Unset, !.rest = <<>>]]
    /\ book' = [book EXCEPT ![d] = ApplyAll(d, Project(@, round[d].mem), round[d].rest)]
    /\ UNCHANGED <<payload, member, slot, edits, faults, lastWord>>

\* Everything pulled is merged: publish what the book now says, then delete what
\* this round merged or could not read.  The acks are best effort; a merge is
\* followed by a sweep of the name rows.
PublishRound(d, acked) ==
    LET mine == Fold(d, book[d])
        new == IF round[d].merged THEN Prune(mine) ELSE mine
        posted == Append(slot, Note(SealedNote(ToSnapshot(mine))))
    IN  /\ round[d].pc = "push"
        /\ round' = [round EXCEPT ![d] = Idle]
        /\ \/ acked
           \/ ~acked /\ (\E i \in 1 .. Len(slot) : d \in slot[i].by) /\ edits + faults < MaxEvents
        /\ faults' = IF acked THEN faults ELSE faults + 1
        /\ slot' = IF acked THEN Unpulled(d, posted) ELSE LetGo(d, posted)
        /\ book' = [book EXCEPT ![d] = new]
        /\ lastWord' = [c \in Cells |-> IF new.ledger[c] = mine.ledger[c] THEN lastWord[c]
                                         ELSE [known |-> Standing(d, c), val |-> new.ledger[c]]]
        /\ UNCHANGED <<payload, member, edits>>

\* The process dies, or cannot publish: what it had not written yet is gone.
EndRound(d) ==
    /\ round[d].pc # "idle" /\ edits + faults < MaxEvents
    /\ faults' = faults + 1
    /\ round' = [round EXCEPT ![d] = Idle]
    /\ Raced(d)
    /\ slot' = LetGo(d, slot)
    /\ UNCHANGED <<book, payload, member, edits>>

\* The daemon starts: the sweep for books written by older builds.
StartSweep(d) ==
    /\ round[d].pc = "idle" /\ Prune(book[d]) # book[d]
    /\ book' = [book EXCEPT ![d] = Prune(@)]
    /\ Remember(d, Prune(book[d]))
    /\ UNCHANGED <<payload, member, round, slot, edits, faults>>

----------------------------------------------------------------------------
\* Every machine starts empty, but one that predates the register has a name in
\* config.toml.  The slot may hold what an older build left there.
BookInit ==
    /\ book = [d \in Devices |-> Book0(OldName[d])]
    /\ member = {Host} /\ payload = Unset
    /\ round = [d \in Devices |-> Idle]
    /\ slot = OldNotes
    /\ edits = 0 /\ faults = 0
    /\ lastWord = [c \in Cells |-> [val |-> EmptyLedger[c], known |->
         IF (c = Me /\ \E d \in Devices : book[d].legacy # Blank) \/ \E i \in 1 .. Len(slot) : slot[i].snap.state[c].n > 0
         THEN "contested" ELSE "sure"]]

Edit(d) ==
    \/ \E n \in Names, k \in Keys, r \in Relays \cup {Unset}, rebind \in BOOLEAN : AddContact(d, n, k, r, rebind)
    \/ \E n \in Names, k \in Keys : SaveTheOtherSide(d, n, k, Unset)
    \/ \E n \in Names, k \in Keys, marks \in SUBSET (MarkKinds \ {"blocked"}) : ImportContact(d, n, k, Unset, marks)
    \/ \E n \in Names : RemoveContact(d, n)
    \/ \E n, new \in Names : ContactRename(d, n, new)
    \/ \E kind \in MarkKinds, k \in Keys, force \in BOOLEAN : Mark(d, kind, k, force)
    \/ \E kind \in MarkKinds, k \in Keys : Unmark(d, kind, k)
    \/ \E k \in Keys, r \in Relays \cup {Unset} : SetRelay(d, k, r)
    \/ \E k \in Keys, r \in Relays : LearnSenderRelay(d, k, r)
    \/ \E k \in Keys : RecordSeen(d, k)
    \/ \E k \in Keys, l \in Labels : ObserveName(d, k, l)
    \/ \E k \in Keys : AcceptName(d, k)
    \/ \E l \in Labels \cup {Blank} : SetMyName(d, l)
    \/ \E l \in Labels : RenameThisDevice(d, l)
    \/ \E e \in Devices : ForgetDevice(d, e)

RoundStep(d) == PullRound(d) \/ ResumeRound(d) \/ PublishRound(d, TRUE)

Fault(d) == (\E i \in 1 .. Len(slot) : PullPreempted(d, i)) \/ EndRound(d) \/ PublishRound(d, FALSE)

BookNext ==
    \/ \E d \in Devices : Edit(d)
    \/ \E d \in Devices : PairHost(d) \/ PairJoin(d)
    \/ \E d \in Devices : RoundStep(d)
    \/ \E d \in Devices : Fault(d)
    \/ \E d \in Devices : StartSweep(d)

\* The auto-sync loop runs a round every five minutes on every machine that
\* holds the identity, and a round's own steps follow one another: weak fairness
\* of RoundStep(d), which is enabled exactly while the machine is a member.
Fairness == \A d \in Devices : []<>(d \notin member) \/ []<><<RoundStep(d)>>_bookVars

BookSpec == BookInit /\ [][BookNext]_bookVars /\ Fairness

----------------------------------------------------------------------------
(* Properties *)

\* Types: clocks belong to machines that exist (0 wrote the old notes), and the
\* counter of a machine is never behind a clock it has seen.
BookTypeOK ==
    /\ \A d \in Devices : \A c \in Cells :
         /\ book[d].state[c].n \in 0 .. book[d].lamport /\ book[d].state[c].dev \in Devices \cup {0}
         /\ c.kind \in MarkKinds => book[d].ledger[c] \in {Unset, On}
         /\ c.kind = "contact" => book[d].ledger[c] \in Keys \cup {Unset}
         /\ c.kind = "seen" => book[d].ledger[c] \in Nat
    /\ member \subseteq Devices
    /\ \A d \in Devices : round[d].pc \in {"idle", "project", "push"}
    /\ edits \in Nat /\ faults \in Nat /\ edits + faults <= MaxEvents

\* A clock names one write: wherever two registers of a cell carry the same
\* clock, on two machines or in a note, they say the same thing.  Merging
\* keeps the current value on a tie, so convergence rests on this.
Registers(c) == {book[d].state[c] : d \in Devices} \cup {slot[i].snap.state[c] : i \in 1 .. Len(slot)}
OneValuePerClock == \A c \in {x \in Cells : x.kind # "seen"} : \A r, s \in Registers(c) :
    (r.n = s.n /\ r.dev = s.dev) => r = s

\* Registers can be compared: their clocks are in range and tell values apart.
RegistersAgree == BookTypeOK /\ OneValuePerClock

\* Once every machine has the identity and all of them agree, the book says
\* what the last person to edit it said: an edit made where everything known
\* so far had arrived is not undone by a merge, whatever order notes come in.
Settled ==
    /\ member = Devices
    /\ \A d \in Devices : round[d].pc = "idle" /\ Stamped(d, book[d]) \cap Tracked = {}
    /\ \A d, e \in Devices : book[d].state = book[e].state
Says(standings) == \A c \in Tracked : lastWord[c].known \in standings =>
    \A d \in Devices : book[d].ledger[c] = lastWord[c].val
LastWordWins == Settled => Says({"sure"})

\* The claim of apply_merged_state's comment, taken at its word: an edit that
\* falls inside a merge on the same machine, or a merge cut short by a crash,
\* loses nothing either.
MergeNeverReverts == Settled => Says({"sure", "raced"})

\* A register only ever moves forward on a machine: a note that arrives late,
\* twice or out of order never brings an older write back.
RegistersAdvance == \A d \in Devices, c \in Cells : ~Newer(book[d].state[c], book[d].state[c]')

\* A machine that learnt it was forgotten does not announce itself again.
RetirementSticks == \A d \in Devices : Retired(d, book[d]) => Retired(d, book[d])'

\* Nothing on a machine moves backwards: no register, and no retirement.
MovesForward == [][RegistersAdvance /\ RetirementSticks]_bookVars

\* How a key introduced itself to this machine is written once and never
\* touched again, as NameRow's comment says.
FirstClaimIsKept == [][\A d \in Devices, k \in Keys : book[d].first[k] # Unset => book'[d].first[k] = book[d].first[k]]_bookVars

\* When people stop editing, the machines come to agree on all of the book and
\* stay agreed, faults, crashes and expired rounds notwithstanding.
Agree == \A d, e \in member : book[d].state = book[e].state /\ book[d].ledger = book[e].ledger
Convergence == <>[]Agree
=============================================================================
