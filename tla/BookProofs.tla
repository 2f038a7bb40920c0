----------------------------- MODULE BookProofs -----------------------------
(***************************************************************************)
(* Proofs about the address book, for any number of machines, of edits and *)
(* of faults, and any notes an older build has left in the slot.           *)
(*                                                                         *)
(* `BookInv` looks at every register that may still be merged somewhere    *)
(* (`Pool`): on a machine, in the slot, behind a pairing code, or pulled   *)
(* and waiting for its turn.  `CountersInv`: no counter is behind a clock  *)
(* it has seen, or behind one it gave out; so what a machine stamps is     *)
(* new, and a clock names one write (`ClocksInv`).  `OwnRowInv`: no        *)
(* machine meets a row of itself that is newer than the one it has, so     *)
(* that only another's word retires it.  Folds, merges and projections are *)
(* all of one kind (`Moves`): each register stays, comes from the pool, or *)
(* is stamped above the machine's counter.                                 *)
(*                                                                         *)
(* `WordInv` adds where the last word is.  Some machine holds the newest   *)
(* register of the cell and says the word (`WordOn`); no other will stamp  *)
(* the cell on its own, at the latest when the merge it has saved is       *)
(* projected (`Coming`), so it can only take what it is told.  A note that *)
(* a round has pulled and acked must be somewhere still: `RestInv` and     *)
(* `PulledInv` say where.                                                  *)
(*                                                                         *)
(* What a sequence of notes does is shown by the least number of them for  *)
(* which it would fail (`Least`).                                          *)
(***************************************************************************)
EXTENDS Book, FiniteSetTheorems, SequenceTheorems, WellFoundedInduction, TLAPS

-----------------------------------------------------------------------------
(* Numbers.                                                                *)

\* Every set of naturals that is not empty has a least element.
LEMMA Least ==
    ASSUME NEW T, T \subseteq Nat, T # {}
    PROVE  \E m \in T : \A n \in T : m <= n
<1> DEFINE R == OpToRel(<, Nat)
<1>1. IsWellFoundedOn(R, Nat)  BY NatLessThanWellFounded
<1>2. \A x, y \in Nat : <<y, x>> \in R <=> y < x  BY DEF OpToRel
<1> HIDE DEF R
<1>3. PICK x \in T : \A y \in T : ~ (<<y, x>> \in R)  BY <1>1, WFMin
<1>4. x \in Nat  OBVIOUS
<1>5. \A y \in T : y \in Nat /\ ~(y < x)  BY <1>2, <1>3, <1>4
<1> QED  BY <1>4, <1>5

\* A finite set of naturals is bounded.
LEMMA FiniteIsBounded ==
    ASSUME NEW S, S \subseteq Nat, IsFiniteSet(S)
    PROVE  \E b \in Nat : \A x \in S : x <= b
<1> DEFINE Bounded(X) == \E b \in Nat : \A x \in X : x <= b
           T == {n \in Nat : \E X \in SUBSET S : IsFiniteSet(X) /\ Cardinality(X) = n /\ ~Bounded(X)}
<1> SUFFICES ASSUME ~Bounded(S) PROVE FALSE  OBVIOUS
<1>1. Cardinality(S) \in T  BY FS_CardinalityType
<1>2. PICK m \in T : \A n \in T : m <= n  BY <1>1, Least
<1>3. PICK X \in SUBSET S : IsFiniteSet(X) /\ Cardinality(X) = m /\ ~Bounded(X)  BY <1>2
<1>4. PICK x \in X : TRUE
  <2>1. X # {}
    <3> SUFFICES ASSUME X = {} PROVE FALSE  OBVIOUS
    <3>1. Bounded({})  OBVIOUS
    <3> QED  BY <1>3, <3>1
  <2> QED  BY <2>1
<1> DEFINE Y == X \ {x}
<1>5. IsFiniteSet(Y) /\ Cardinality(Y) = m - 1  BY <1>3, <1>4, FS_RemoveElement
<1>6. m \in Nat /\ Cardinality(Y) \in Nat /\ ~(m <= m - 1)  BY <1>2, <1>5, FS_CardinalityType
<1>7. Y \in SUBSET S /\ m - 1 \in Nat  BY <1>5, <1>6
<1> HIDE DEF Y
<1>8. m - 1 \notin T  BY <1>2, <1>6, <1>7
<1>9. Bounded(Y)  BY <1>5, <1>7, <1>8
<1>10. PICK b \in Nat : \A y \in Y : y <= b  BY <1>9
<1>11. x \in Nat  BY <1>4
<1> DEFINE h == IF b < x THEN x ELSE b
<1>12. h \in Nat /\ b <= h /\ x <= h  BY <1>11
<1>13. ASSUME NEW y \in X PROVE y <= h
  <2>1. CASE y = x  BY <2>1, <1>12
  <2>2. CASE y # x
    <3>1. y \in Y /\ y \in Nat  BY <2>2 DEF Y
    <3>2. y <= b  BY <1>10, <3>1
    <3> QED  BY <3>1, <3>2, <1>12
  <2> QED  BY <2>1, <2>2
<1>14. Bounded(X)  BY <1>12, <1>13
<1> QED  BY <1>3, <1>14

\* The maximum of a finite set of naturals.
LEMMA MaxIs ==
    ASSUME NEW S, S \subseteq Nat, IsFiniteSet(S), S # {}
    PROVE  Max(S) \in S /\ \A x \in S : x <= Max(S)
<1> DEFINE T == {b \in Nat : \A x \in S : x <= b}
<1>1. T # {}  BY FiniteIsBounded
<1>2. PICK m \in T : \A n \in T : m <= n  BY <1>1, Least
<1>3. m \in S
  <2> SUFFICES ASSUME m \notin S PROVE FALSE  OBVIOUS
  <2>1. \A x \in S : x \in Nat /\ x <= m /\ x # m  BY <1>2
  <2>2. PICK z \in S : TRUE  OBVIOUS
  <2>3. m \in Nat /\ m # 0  BY <1>2, <2>1, <2>2
  <2>4. m - 1 \in Nat /\ \A x \in S : x <= m - 1  BY <2>1, <2>3
  <2>5. m <= m - 1  BY <1>2, <2>4
  <2> QED  BY <2>3, <2>5
<1>4. m \in S /\ \A y \in S : m >= y  BY <1>2, <1>3
<1>5. \E x \in S : \A y \in S : x >= y  BY <1>4
<1>6. Max(S) \in S /\ \A y \in S : Max(S) >= y  BY <1>5 DEF Max
<1>7. \A x \in S : x \in Nat  OBVIOUS
<1> QED  BY <1>6, <1>7

LEMMA PairFinite ==
    ASSUME NEW a, NEW b
    PROVE  IsFiniteSet({a, b})
<1>1. IsFiniteSet({a} \cup {b})  BY FS_Singleton, FS_AddElement
<1>2. {a} \cup {b} = {a, b}  OBVIOUS
<1> QED  BY <1>1, <1>2

LEMMA MaxOfTwo ==
    ASSUME NEW a \in Nat, NEW b \in Nat
    PROVE  Max({a, b}) \in {a, b} /\ a <= Max({a, b}) /\ b <= Max({a, b})
<1>1. IsFiniteSet({a, b})  BY PairFinite
<1> QED  BY <1>1, MaxIs

LEMMA MaxOfThree ==
    ASSUME NEW a \in Nat, NEW b \in Nat, NEW c \in Nat
    PROVE  /\ Max({a, b, c}) \in Nat
           /\ a <= Max({a, b, c}) /\ b <= Max({a, b, c}) /\ c <= Max({a, b, c})
<1>1. IsFiniteSet({a, b})  BY PairFinite
<1>2. IsFiniteSet({a, b} \cup {c})  BY <1>1, FS_AddElement
<1>3. {a, b} \cup {c} = {a, b, c}  OBVIOUS
<1>4. IsFiniteSet({a, b, c})  BY <1>2, <1>3
<1> QED  BY <1>4, MaxIs

-----------------------------------------------------------------------------
(* Cells.                                                                  *)

\* A book has finitely many cells, so that a fold over them has a maximum.
LEMMA CellsFinite == IsFiniteSet(Cells)
<1> DEFINE A == {Cell("contact", n) : n \in Names}
           D == {Cell("device", d) : d \in Devices}
           K == {"verified", "trusted", "blocked", "seen", "name", "relay"}
           B(k) == {Cell(k, x) : x \in Keys}
<1>1. IsFiniteSet(A)
  <2> DEFINE f == [n \in Names |-> Cell("contact", n)]
  <2>1. f \in Surjection(Names, A)  BY DEF Surjection
  <2> QED  BY <2>1, BookAssumption, FS_Surjection
<1>2. IsFiniteSet(D)
  <2> DEFINE f == [d \in Devices |-> Cell("device", d)]
  <2>1. f \in Surjection(Devices, D)  BY DEF Surjection
  <2> QED  BY <2>1, BookAssumption, FS_Surjection
<1>3. ASSUME NEW k PROVE IsFiniteSet(B(k))
  <2> DEFINE f == [x \in Keys |-> Cell(k, x)]
  <2>1. f \in Surjection(Keys, B(k))  BY DEF Surjection
  <2> QED  BY <2>1, BookAssumption, FS_Surjection
<1> DEFINE U == B("verified") \cup B("trusted") \cup B("blocked") \cup B("seen") \cup B("name") \cup B("relay")
<1>4. IsFiniteSet(U)
  <2> HIDE DEF B
  <2> QED  BY <1>3, FS_Union
<1>5. Cells \subseteq {Me} \cup A \cup U \cup D
  BY BookAssumption DEF Cells
<1>6. IsFiniteSet({Me})  BY FS_Singleton
<1>7. IsFiniteSet({Me} \cup A \cup U \cup D)
  <2> HIDE DEF A, U, D
  <2> QED  BY <1>1, <1>2, <1>4, <1>6, FS_Union
<1> QED  BY <1>5, <1>7, FS_Subset

Kinds6 == {"verified", "trusted", "blocked", "seen", "name", "relay"}

\* A cell has one of ten kinds and a number for its key.
LEMMA CellIs ==
    ASSUME NEW c \in Cells
    PROVE  /\ c.key \in Nat
           /\ c = [kind |-> c.kind, key |-> c.key]
           /\ c.kind \in {"self", "contact", "device", "verified", "trusted", "blocked", "seen", "name", "relay"}
           /\ c.kind = "contact" => c.key \in Names
           /\ c.kind \in Kinds6 => c.key \in Keys
           /\ c.kind = "device" => c.key \in Devices
           /\ c.kind = "self" => c = Me
           /\ (c.kind \in {"verified", "trusted", "blocked"}) => c.kind \in MarkKinds
<1>1. CASE c = Me  BY <1>1, BookAssumption DEF Me, Cell, Kinds6
<1>2. CASE \E n \in Names : c = Cell("contact", n)  BY <1>2, BookAssumption DEF Cell, Kinds6
<1>3. CASE \E k \in MarkKinds \cup {"seen", "name", "relay"}, x \in Keys : c = Cell(k, x)
  BY <1>3, BookAssumption DEF Cell, Kinds6
<1>4. CASE \E d \in Devices : c = Cell("device", d)  BY <1>4, BookAssumption DEF Cell, Kinds6
<1> QED  BY <1>1, <1>2, <1>3, <1>4 DEF Cells

\* The cells there are.
LEMMA CellIn ==
    /\ Me \in Cells /\ Me.kind = "self" /\ Me.key = 0
    /\ \A n \in Names : Cell("contact", n) \in Cells
    /\ \A k \in MarkKinds \cup {"seen", "name", "relay"}, x \in Keys : Cell(k, x) \in Cells
    /\ \A d \in Devices : Cell("device", d) \in Cells
    /\ \A k, x : Cell(k, x).kind = k /\ Cell(k, x).key = x
    /\ \A k, x, l, y : Cell(k, x) = Cell(l, y) <=> k = l /\ x = y
<1>1. \A k, x : Cell(k, x).kind = k /\ Cell(k, x).key = x  BY DEF Cell
<1>2. \A k, x, l, y : Cell(k, x) = Cell(l, y) <=> k = l /\ x = y  BY <1>1
<1>3. Me.kind = "self" /\ Me.key = 0  BY <1>1 DEF Me
<1> QED  BY <1>1, <1>2, <1>3 DEF Cells

-----------------------------------------------------------------------------
(* Values and registers.                                                   *)

Books == [ledger : Ledgers, first : [Keys -> Labels \cup {Unset}], legacy : Labels \cup {Blank},
          state : States, lamport : Nat]

LEMMA ValueIs ==
    ASSUME NEW c \in Cells
    PROVE  /\ Values(c) \subseteq AnyValue
           /\ c.kind # "seen" => Unset \in Values(c)
           /\ c.kind = "seen" => Values(c) = Nat
           /\ c.kind = "contact" => Values(c) = Keys \cup {Unset}
           /\ c.kind \in MarkKinds => Values(c) = {On, Unset}
           /\ c.kind = "name" => Values(c) = NameRows \cup {Unset}
           /\ c.kind = "relay" => Values(c) = Relays \cup {Unset}
           /\ c.kind \in {"self", "device"} => Values(c) = Labels \cup {Blank, Unset}
<1>1. c.kind \in {"self", "contact", "device", "verified", "trusted", "blocked", "seen", "name", "relay"}
      /\ (c.kind \in {"verified", "trusted", "blocked"} => c.kind \in MarkKinds)  BY CellIs
<1>2. MarkKinds \subseteq {"verified", "trusted", "blocked"}  BY BookAssumption
<1>3. CASE c.kind \in MarkKinds  BY <1>2, <1>3 DEF Values, AnyValue, On
<1>4. CASE c.kind = "seen"  BY <1>2, <1>4 DEF Values, AnyValue
<1>5. CASE c.kind = "contact"  BY <1>2, <1>5, BookAssumption DEF Values, AnyValue
<1>6. CASE c.kind = "name"  BY <1>2, <1>6 DEF Values, AnyValue
<1>7. CASE c.kind = "relay"  BY <1>2, <1>7, BookAssumption DEF Values, AnyValue
<1>8. CASE c.kind \in {"self", "device"}  BY <1>2, <1>8, BookAssumption DEF Values, AnyValue, Blank
<1> QED  BY <1>1, <1>3, <1>4, <1>5, <1>6, <1>7, <1>8

\* What a register of a cell is.
LEMMA RegIs ==
    ASSUME NEW c \in Cells, NEW r \in RegisterOf(c)
    PROVE  /\ r \in AnyRegister
           /\ r.n \in Nat /\ r.dev \in Devices \cup {0} /\ r.dev \in Nat /\ r.del \in BOOLEAN
           /\ r.val \in Values(c)
           /\ c.kind = "seen" => r.n = 0 /\ r.dev = 0 /\ r.del = FALSE /\ r.val \in Nat
           /\ (c.kind # "seen" /\ r.n = 0) => r = Absent
<1>1. Values(c) \subseteq AnyValue /\ (c.kind # "seen" => Unset \in Values(c))
      /\ (c.kind = "seen" => Values(c) = Nat)  BY ValueIs
<1>2. Devices \subseteq Nat /\ Unset \in AnyValue  BY BookAssumption DEF AnyValue
<1>3. Absent = [val |-> Unset, n |-> 0, dev |-> 0, del |-> FALSE]  BY DEF Absent, Reg
<1>4. CASE c.kind = "seen"  BY <1>1, <1>2, <1>4 DEF RegisterOf, AnyRegister, AnyValue
<1>5. CASE c.kind # "seen" /\ r = Absent  BY <1>1, <1>2, <1>3, <1>5 DEF AnyRegister
<1>6. CASE c.kind # "seen" /\ r \in [val : Values(c), n : Nat \ {0}, dev : Devices \cup {0}, del : BOOLEAN]
  <2>1. /\ r.val \in Values(c) /\ r.n \in Nat /\ r.n # 0 /\ r.dev \in Devices \cup {0} /\ r.del \in BOOLEAN
        /\ r = [val |-> r.val, n |-> r.n, dev |-> r.dev, del |-> r.del]
    BY <1>6
  <2>2. r \in AnyRegister  BY <1>1, <2>1 DEF AnyRegister
  <2>3. r.dev \in Nat  BY <1>2, <2>1
  <2> QED  BY <1>6, <2>1, <2>2, <2>3
<1> QED  BY <1>4, <1>5, <1>6 DEF RegisterOf

LEMMA StateIs ==
    /\ \A s \in States : \A c \in Cells : s[c] \in RegisterOf(c)
    /\ \A s \in States : s \in [Cells -> AnyRegister]
    /\ \A s : (s \in [Cells -> AnyRegister] /\ \A c \in Cells : s[c] \in RegisterOf(c)) => s \in States
  BY DEF States

LEMMA LedgerIs ==
    /\ \A L \in Ledgers : L \in [Cells -> AnyValue] /\ \A c \in Cells : L[c] \in Values(c)
    /\ \A L : (L \in [Cells -> AnyValue] /\ \A c \in Cells : L[c] \in Values(c)) => L \in Ledgers
  BY DEF Ledgers

\* A ledger written cell by cell, and one with a new value in a cell.
LEMMA LedgerMade ==
    ASSUME NEW F(_), \A c \in Cells : F(c) \in Values(c)
    PROVE  [c \in Cells |-> F(c)] \in Ledgers
<1>1. \A c \in Cells : F(c) \in AnyValue  BY ValueIs
<1> QED  BY <1>1, LedgerIs

LEMMA LedgerSet ==
    ASSUME NEW L \in Ledgers, NEW c, NEW v, c \in Cells => v \in Values(c)
    PROVE  [L EXCEPT ![c] = v] \in Ledgers
<1>1. L \in [Cells -> AnyValue] /\ \A x \in Cells : L[x] \in Values(x)  BY LedgerIs
<1>2. c \in Cells => v \in AnyValue  BY ValueIs
<1>3. [L EXCEPT ![c] = v] \in [Cells -> AnyValue]  BY <1>1, <1>2
<1>4. \A x \in Cells : [L EXCEPT ![c] = v][x] \in Values(x)  BY <1>1
<1> QED  BY <1>3, <1>4, LedgerIs

-----------------------------------------------------------------------------
(* Fold.                                                                   *)

\* A stamp's tick is one of those spent.
LEMMA TickIs ==
    ASSUME NEW stamped \in SUBSET Cells, NEW gone, NEW c \in stamped
    PROVE  Tick(c, stamped, gone) \in 1 .. Spent(stamped) /\ Spent(stamped) \in Nat
<1> DEFINE S == {x \in stamped : Before(Turn(x, gone), Turn(c, gone))}
<1>1. IsFiniteSet(stamped) /\ c \in stamped  BY CellsFinite, FS_Subset
<1>2. ~Before(Turn(c, gone), Turn(c, gone))
  <2>1. c.key \in Nat  BY CellIs
  <2>2. KindRank(c.kind) \in Nat  BY DEF KindRank
  <2>3. (IF c \in gone THEN 1 ELSE 0) \in Nat  OBVIOUS
  <2> QED  BY <2>1, <2>2, <2>3 DEF Before, Turn
<1>3. S \subseteq stamped \ {c}  BY <1>2
<1>4. IsFiniteSet(stamped \ {c}) /\ Cardinality(stamped \ {c}) = Cardinality(stamped) - 1
  BY <1>1, FS_RemoveElement
<1>5. IsFiniteSet(S) /\ Cardinality(S) <= Cardinality(stamped \ {c})  BY <1>3, <1>4, FS_Subset
<1>6. Cardinality(S) \in Nat /\ Cardinality(stamped) \in Nat  BY <1>1, <1>5, FS_CardinalityType
<1>7. Tick(c, stamped, gone) = 1 + Cardinality(S)  BY DEF Tick
<1> QED  BY <1>4, <1>5, <1>6, <1>7 DEF Spent

LEMMA SpentIs ==
    ASSUME NEW stamped \in SUBSET Cells
    PROVE  Spent(stamped) \in Nat
  BY CellsFinite, FS_Subset, FS_CardinalityType DEF Spent

\* What is stamped: no counter of "seen", and of the machines only this one.
LEMMA StampedIs ==
    ASSUME NEW d, NEW b
    PROVE  /\ Stamped(d, b) \subseteq Cells /\ Removed(b) \subseteq Stamped(d, b)
           /\ \A c \in Stamped(d, b) : c.kind # "seen" /\ (c.kind = "device" => c.key = d /\ MustAnnounce(d, b))
           /\ \A c \in Removed(b) : c.kind \notin {"device", "seen"} /\ c # Me
<1>1. Me.kind = "self"  BY CellIn
<1>2. Added(d, b) \subseteq Cells /\ Removed(b) \subseteq Cells  BY DEF Added, Removed
<1>3. \A c \in Added(d, b) : c.kind # "seen" /\ (c.kind = "device" => c.key = d /\ MustAnnounce(d, b))
  BY <1>1 DEF Added
<1>4. \A c \in Removed(b) : c.kind \notin {"device", "seen"} /\ c # Me  BY DEF Removed
<1> QED  BY <1>2, <1>3, <1>4 DEF Stamped

Said(d, b) == [b.ledger EXCEPT ![Me] = MyName(b),
                  ![Cell("device", d)] = IF MustAnnounce(d, b) THEN ThisDevice(d, b) ELSE @]

LEMMA SaidIs ==
    ASSUME NEW d \in Devices, NEW b \in Books
    PROVE  /\ Said(d, b) \in Ledgers
           /\ \A c \in Cells : Said(d, b)[c] =
                IF c = Me THEN MyName(b)
                ELSE IF c = Cell("device", d) /\ MustAnnounce(d, b) THEN ThisDevice(d, b) ELSE b.ledger[c]
<1> DEFINE e == Cell("device", d)
<1>1. e \in Cells /\ Me \in Cells /\ e # Me /\ e.kind = "device" /\ Me.kind = "self"  BY CellIn DEF Me
<1>2. b.ledger \in Ledgers /\ b.legacy \in Labels \cup {Blank}  BY DEF Books
<1>3. b.ledger \in [Cells -> AnyValue] /\ \A c \in Cells : b.ledger[c] \in Values(c)  BY <1>2, LedgerIs
<1>4. Values(e) = Labels \cup {Blank, Unset} /\ Values(Me) = Labels \cup {Blank, Unset}  BY <1>1, ValueIs
<1>5. MyName(b) \in Values(Me)  BY <1>1, <1>2, <1>3, <1>4 DEF MyName
<1>6. ThisDevice(d, b) \in Values(e)  BY <1>1, <1>3, <1>4 DEF ThisDevice
<1> DEFINE L1 == [b.ledger EXCEPT ![Me] = MyName(b)]
           v == IF MustAnnounce(d, b) THEN ThisDevice(d, b) ELSE b.ledger[e]
<1>7. L1 \in Ledgers  BY <1>2, <1>5, LedgerSet
<1>8. v \in Values(e)  BY <1>1, <1>3, <1>6
<1>9. [L1 EXCEPT ![e] = v] \in Ledgers  BY <1>7, <1>8, LedgerSet
<1>10. L1[e] = b.ledger[e]  BY <1>1, <1>3
<1>11. Said(d, b) = [L1 EXCEPT ![e] = v]  BY <1>10 DEF Said
<1>12. \A c \in Cells : [L1 EXCEPT ![e] = v][c] = IF c = e THEN v ELSE IF c = Me THEN MyName(b) ELSE b.ledger[c]
  BY <1>1, <1>3
<1> QED  BY <1>1, <1>9, <1>11, <1>12

FoldReg(d, b, c) ==
    IF c \in Removed(b)
    THEN Reg(b.state[c].val, b.lamport + Tick(c, Stamped(d, b), Removed(b)), d, TRUE)
    ELSE IF c \in Stamped(d, b)
    THEN Reg(Said(d, b)[c], b.lamport + Tick(c, Stamped(d, b), Removed(b)), d, FALSE)
    ELSE IF c.kind = "seen" THEN [b.state[c] EXCEPT !.val = Max({b.state[c].val, b.ledger[c]})]
    ELSE b.state[c]

\* The fields of a folded book.
LEMMA FoldFields ==
    ASSUME NEW d, NEW b \in Books, b.legacy \in Labels \cup {Blank}, Said(d, b) \in Ledgers,
           [c \in Cells |-> FoldReg(d, b, c)] \in States, b.lamport + Spent(Stamped(d, b)) \in Nat
    PROVE  /\ Fold(d, b) \in Books
           /\ Fold(d, b).ledger = Said(d, b) /\ Fold(d, b).first = b.first
           /\ Fold(d, b).legacy = IF Adopts(b) THEN Blank ELSE b.legacy
           /\ Fold(d, b).state = [c \in Cells |-> FoldReg(d, b, c)]
           /\ Fold(d, b).lamport = b.lamport + Spent(Stamped(d, b))
<1> DEFINE L == Said(d, b)
           g == IF Adopts(b) THEN Blank ELSE b.legacy
           s == [c \in Cells |-> FoldReg(d, b, c)]
           l == b.lamport + Spent(Stamped(d, b))
<1>1. Fold(d, b) = [b EXCEPT !.ledger = L, !.legacy = g, !.state = s, !.lamport = l]
  BY Zenon DEF Fold, FoldReg, Said
<1>2. L \in Ledgers /\ g \in Labels \cup {Blank} /\ s \in States /\ l \in Nat  OBVIOUS
<1> HIDE DEF L, g, s, l
<1>3. Fold(d, b) \in Books  BY <1>1, <1>2 DEF Books
<1>4. /\ Fold(d, b).ledger = L /\ Fold(d, b).first = b.first /\ Fold(d, b).legacy = g
      /\ Fold(d, b).state = s /\ Fold(d, b).lamport = l  BY <1>1 DEF Books
<1> QED  BY <1>3, <1>4 DEF L, g, s, l

\* What a fold stamps is this machine's, newer than all it has and one tick of its
\* counter; the rest of the state is as it was.
LEMMA FoldIs ==
    ASSUME NEW d \in Devices, NEW b \in Books
    PROVE  /\ Fold(d, b) \in Books
           /\ b.lamport <= Fold(d, b).lamport
           /\ Fold(d, b).first = b.first /\ Fold(d, b).legacy = IF Adopts(b) THEN Blank ELSE b.legacy
           /\ Fold(d, b).ledger = Said(d, b)
           /\ \A c \in Stamped(d, b) :
                LET r == Fold(d, b).state[c] IN
                /\ r.dev = d /\ r.n > b.lamport /\ r.n <= Fold(d, b).lamport
                /\ r.del <=> c \in Removed(b)
                /\ c \notin Removed(b) => r.val = Said(d, b)[c]
           /\ \A c \in Cells \ Stamped(d, b) : c.kind # "seen" => Fold(d, b).state[c] = b.state[c]
<1> DEFINE S == Stamped(d, b)
           G == Removed(b)
           f == Fold(d, b)
<1>1. b.ledger \in Ledgers /\ b.state \in States /\ b.lamport \in Nat
      /\ b.first \in [Keys -> Labels \cup {Unset}] /\ b.legacy \in Labels \cup {Blank}  BY DEF Books
<1>3. /\ S \in SUBSET Cells /\ G \subseteq S
      /\ \A c \in S : c.kind # "seen" /\ (c.kind = "device" => c.key = d)  BY StampedIs
<1>4. Spent(S) \in Nat  BY <1>3, SpentIs
<1>5. Said(d, b) \in Ledgers  BY SaidIs
<1>6. \A c \in Cells : b.state[c] \in RegisterOf(c)  BY <1>1, StateIs
<1>7. \A c \in Cells : Said(d, b)[c] \in Values(c) /\ b.ledger[c] \in Values(c)  BY <1>1, <1>5, LedgerIs
<1>8. \A c \in S : Tick(c, S, G) \in 1 .. Spent(S)  BY <1>3, TickIs
<1>9. ASSUME NEW c \in G
      PROVE  /\ FoldReg(d, b, c) \in RegisterOf(c)
             /\ FoldReg(d, b, c).dev = d /\ FoldReg(d, b, c).del = TRUE
             /\ FoldReg(d, b, c).n = b.lamport + Tick(c, S, G)
  <2>1. c \in S /\ c \in Cells /\ c.kind # "seen"  BY <1>3
  <2>2. b.state[c].val \in Values(c)  BY <1>6, <2>1, RegIs
  <2>3. b.lamport + Tick(c, S, G) \in Nat \ {0}  BY <1>1, <1>4, <1>8, <2>1
  <2>4. FoldReg(d, b, c) = Reg(b.state[c].val, b.lamport + Tick(c, S, G), d, TRUE)  BY DEF FoldReg
  <2> DEFINE v == b.state[c].val
             m == b.lamport + Tick(c, S, G)
  <2> HIDE DEF v, m
  <2>5. v \in Values(c) /\ m \in Nat \ {0}  BY <2>2, <2>3 DEF v, m
  <2>6. FoldReg(d, b, c) = Reg(v, m, d, TRUE)  BY <2>4 DEF v, m
  <2>8. /\ Reg(v, m, d, TRUE) \in RegisterOf(c)
        /\ Reg(v, m, d, TRUE).n = m /\ Reg(v, m, d, TRUE).dev = d /\ Reg(v, m, d, TRUE).del = TRUE
    BY <2>1, <2>5, SMT DEF Reg, RegisterOf
  <2> QED  BY <2>6, <2>8 DEF m
<1>10. ASSUME NEW c \in S \ G
       PROVE  /\ FoldReg(d, b, c) \in RegisterOf(c)
              /\ FoldReg(d, b, c).dev = d /\ FoldReg(d, b, c).del = FALSE
              /\ FoldReg(d, b, c).n = b.lamport + Tick(c, S, G)
              /\ FoldReg(d, b, c).val = Said(d, b)[c]
  <2>1. c \in S /\ c \in Cells /\ c.kind # "seen"  BY <1>3
  <2>3. b.lamport + Tick(c, S, G) \in Nat \ {0}  BY <1>1, <1>4, <1>8, <2>1
  <2>4. FoldReg(d, b, c) = Reg(Said(d, b)[c], b.lamport + Tick(c, S, G), d, FALSE)  BY DEF FoldReg
  <2> DEFINE v == Said(d, b)[c]
             m == b.lamport + Tick(c, S, G)
  <2> HIDE DEF v, m
  <2>5. v \in Values(c) /\ m \in Nat \ {0}  BY <1>7, <2>1, <2>3 DEF v, m
  <2>6. FoldReg(d, b, c) = Reg(v, m, d, FALSE)  BY <2>4 DEF v, m
  <2>8. /\ Reg(v, m, d, FALSE) \in RegisterOf(c) /\ Reg(v, m, d, FALSE).val = v
        /\ Reg(v, m, d, FALSE).n = m /\ Reg(v, m, d, FALSE).dev = d /\ Reg(v, m, d, FALSE).del = FALSE
    BY <2>1, <2>5, SMT DEF Reg, RegisterOf
  <2> QED  BY <2>6, <2>8 DEF v, m
<1>11. ASSUME NEW c \in Cells \ S
       PROVE  FoldReg(d, b, c) \in RegisterOf(c) /\ (c.kind # "seen" => FoldReg(d, b, c) = b.state[c])
  <2>1. CASE c.kind # "seen"  BY <1>3, <1>6, <2>1 DEF FoldReg
  <2>2. CASE c.kind = "seen"
    <3>1. b.state[c] \in [val : Nat, n : {0}, dev : {0}, del : {FALSE}]  BY <1>6, <2>2 DEF RegisterOf
    <3>2. b.ledger[c] \in Nat /\ b.state[c].val \in Nat  BY <1>7, <2>2, <3>1, ValueIs
    <3>3. Max({b.state[c].val, b.ledger[c]}) \in Nat  BY <3>2, MaxOfTwo
    <3>4. [b.state[c] EXCEPT !.val = Max({b.state[c].val, b.ledger[c]})] \in [val : Nat, n : {0}, dev : {0}, del : {FALSE}]
      BY <3>1, <3>3
    <3> QED  BY <1>3, <2>2, <3>4 DEF FoldReg, RegisterOf
  <2> QED  BY <2>1, <2>2
<1>12. \A c \in Cells : FoldReg(d, b, c) \in RegisterOf(c)  BY <1>9, <1>10, <1>11
<1>13. \A c \in Cells : FoldReg(d, b, c) \in AnyRegister  BY <1>12, RegIs
<1>14. [c \in Cells |-> FoldReg(d, b, c)] \in States  BY <1>12, <1>13, StateIs
<1>15. f \in Books /\ f.lamport = b.lamport + Spent(S) /\ f.first = b.first /\ f.ledger = Said(d, b)
      /\ f.state = [c \in Cells |-> FoldReg(d, b, c)]
  BY <1>1, <1>4, <1>5, <1>14, FoldFields
<1> DEFINE g == IF Adopts(b) THEN Blank ELSE b.legacy
<1>21. f.legacy = g
  <2>1. b.lamport + Spent(S) \in Nat  BY <1>1, <1>4
  <2> QED  BY <1>1, <1>5, <1>14, <2>1, FoldFields
<1> HIDE DEF g
<1>16. \A c \in Cells : f.state[c] = FoldReg(d, b, c)  BY <1>15
<1>17. ASSUME NEW c \in S
       PROVE  /\ f.state[c].dev = d /\ f.state[c].n > b.lamport /\ f.state[c].n <= f.lamport
              /\ f.state[c].del <=> c \in G
              /\ c \notin G => f.state[c].val = Said(d, b)[c]
  <2>1. f.state[c].n = b.lamport + Tick(c, S, G)  BY <1>3, <1>9, <1>10, <1>16
  <2>2. Tick(c, S, G) \in 1 .. Spent(S)  BY <1>8
  <2>3. f.state[c].n > b.lamport /\ f.state[c].n <= f.lamport
    <3> DEFINE m == f.state[c].n
               k == Tick(c, S, G)
    <3> HIDE DEF f, S, G, m, k
    <3>1. m = b.lamport + k /\ k \in 1 .. Spent(S) /\ f.lamport = b.lamport + Spent(S)
      BY <1>15, <2>1, <2>2 DEF m, k
    <3> QED  BY <1>1, <1>4, <3>1 DEF m
  <2>4. CASE c \in G  BY <1>9, <1>16, <1>3, <2>3, <2>4
  <2>5. CASE c \notin G  BY <1>10, <1>16, <1>3, <2>3, <2>5
  <2> QED  BY <2>4, <2>5
<1>18. \A c \in Cells \ S : c.kind # "seen" => f.state[c] = b.state[c]  BY <1>11, <1>16
<1>19. b.lamport <= f.lamport  BY <1>1, <1>4, <1>15
<1> HIDE DEF f
<1>20. \A c \in S : LET r == f.state[c] IN
          /\ r.dev = d /\ r.n > b.lamport /\ r.n <= f.lamport
          /\ r.del <=> c \in G
          /\ c \notin G => r.val = Said(d, b)[c]  BY <1>17
<1> QED  BY <1>15, <1>18, <1>19, <1>20, <1>21 DEF f, g

-----------------------------------------------------------------------------
(* Merge.                                                                  *)

\* The order of the clocks.
LEMMA NotNewerTrans ==
    ASSUME NEW a, NEW b, NEW c, a.n \in Nat, b.n \in Nat, c.n \in Nat,
           a.dev \in Nat, b.dev \in Nat, c.dev \in Nat, ~Newer(a, b), ~Newer(b, c)
    PROVE  ~Newer(a, c)
  BY DEF Newer

LEMMA MergeMarkIs ==
    ASSUME NEW a, NEW b, a.n \in Nat, b.n \in Nat, a.dev \in Nat, b.dev \in Nat
    PROVE  /\ MergeMark(a, b) \in {a, b}
           /\ ~Newer(a, MergeMark(a, b)) /\ ~Newer(b, MergeMark(a, b))
  BY DEF MergeMark, MergeLast, Newer

LEMMA MergeLastIs ==
    ASSUME NEW a, NEW b, a.n \in Nat, b.n \in Nat, a.dev \in Nat, b.dev \in Nat
    PROVE  /\ MergeLast(a, b) \in {a, b}
           /\ ~Newer(a, MergeLast(a, b)) /\ ~Newer(b, MergeLast(a, b))
  BY DEF MergeLast, Newer

\* A merged register is one of the two, and not the older one.
LEMMA MergeIs ==
    ASSUME NEW s \in States, NEW o \in States
    PROVE  /\ Merge(s, o) \in States
           /\ \A c \in Cells :
                /\ c.kind # "seen" => Merge(s, o)[c] \in {s[c], o[c]}
                /\ ~Newer(s[c], Merge(s, o)[c])
                /\ c.kind # "device" => ~Newer(o[c], Merge(s, o)[c])
                /\ c.kind = "device" => Merge(s, o)[c] = MergeDevice(c.key, s[c], o[c])
<1>1. ASSUME NEW c \in Cells
      PROVE  /\ Merge(s, o)[c] \in RegisterOf(c)
             /\ c.kind # "seen" => Merge(s, o)[c] \in {s[c], o[c]}
             /\ ~Newer(s[c], Merge(s, o)[c])
             /\ c.kind # "device" => ~Newer(o[c], Merge(s, o)[c])
             /\ c.kind = "device" => Merge(s, o)[c] = MergeDevice(c.key, s[c], o[c])
  <2>1. s[c] \in RegisterOf(c) /\ o[c] \in RegisterOf(c)  BY StateIs
  <2>2. /\ s[c].n \in Nat /\ o[c].n \in Nat /\ s[c].dev \in Nat /\ o[c].dev \in Nat
        /\ c.kind = "seen" => s[c].val \in Nat /\ o[c].val \in Nat /\ s[c].n = 0 /\ s[c].dev = 0 /\ o[c].n = 0
    BY <2>1, RegIs
  <2>3. c.kind \in MarkKinds => c.kind \notin {"seen", "device"}  BY BookAssumption
  <2>4. CASE c.kind = "seen"
    <3>1. Merge(s, o)[c] = [s[c] EXCEPT !.val = Max({s[c].val, o[c].val})]  BY <2>3, <2>4 DEF Merge
    <3>2. Max({s[c].val, o[c].val}) \in Nat  BY <2>2, <2>4, MaxOfTwo
    <3>3. s[c] \in [val : Nat, n : {0}, dev : {0}, del : {FALSE}]  BY <2>1, <2>4 DEF RegisterOf
    <3>4. Merge(s, o)[c] \in [val : Nat, n : {0}, dev : {0}, del : {FALSE}]  BY <3>1, <3>2, <3>3
    <3>5. Merge(s, o)[c].n = 0 /\ Merge(s, o)[c].dev = 0  BY <3>4
    <3> HIDE DEF Merge
    <3>6. ~Newer(s[c], Merge(s, o)[c])  BY <2>2, <2>4, <3>5 DEF Newer
    <3>7. ~Newer(o[c], Merge(s, o)[c])
      <4>1. o[c].dev = 0  BY <2>1, <2>4, RegIs
      <4> QED  BY <2>2, <2>4, <3>5, <4>1 DEF Newer
    <3> QED  BY <2>4, <3>4, <3>6, <3>7 DEF RegisterOf
  <2>5. CASE c.kind = "device"
    <3>1. Merge(s, o)[c] = MergeDevice(c.key, s[c], o[c])  BY <2>3, <2>5 DEF Merge
    <3>2. MergeMark(s[c], o[c]) \in {s[c], o[c]} /\ ~Newer(s[c], MergeMark(s[c], o[c]))  BY <2>2, MergeMarkIs
    <3>3. ~Newer(s[c], s[c])  BY <2>2 DEF Newer
    <3>4. MergeDevice(c.key, s[c], o[c]) \in {s[c], MergeMark(s[c], o[c])}  BY DEF MergeDevice
    <3> QED  BY <2>1, <2>5, <3>1, <3>2, <3>3, <3>4
  <2>6. CASE c.kind \in MarkKinds
    <3>1. Merge(s, o)[c] = MergeMark(s[c], o[c])  BY <2>3, <2>6 DEF Merge
    <3> QED  BY <2>1, <2>2, <2>3, <2>6, <3>1, MergeMarkIs
  <2>7. CASE c.kind \notin MarkKinds \cup {"seen", "device"}
    <3>1. Merge(s, o)[c] = MergeLast(s[c], o[c])  BY <2>7 DEF Merge
    <3> QED  BY <2>1, <2>2, <2>7, <3>1, MergeLastIs
  <2> QED  BY <2>4, <2>5, <2>6, <2>7
<1>2. Merge(s, o) \in [Cells -> AnyRegister]
  <2>1. \A c \in Cells : Merge(s, o)[c] \in AnyRegister  BY <1>1, RegIs
  <2>2. Merge(s, o) = [c \in Cells |-> Merge(s, o)[c]]  BY DEF Merge
  <2> HIDE DEF Merge
  <2> QED  BY <2>1, <2>2
<1>3. Merge(s, o) \in States  BY <1>1, <1>2, StateIs
<1> QED  BY <1>1, <1>3

LEMMA MaxCounterIs ==
    ASSUME NEW s \in States
    PROVE  MaxCounter(s) \in Nat /\ \A c \in Cells : s[c].n <= MaxCounter(s)
<1> DEFINE S == {s[c].n : c \in Cells}
           f == [c \in Cells |-> s[c].n]
<1>1. \A c \in Cells : s[c].n \in Nat  BY StateIs, RegIs
<1>2. f \in Surjection(Cells, S)  BY DEF Surjection
<1>3. IsFiniteSet(S)  BY <1>2, CellsFinite, FS_Surjection
<1>4. S \subseteq Nat /\ S # {}  BY <1>1, CellIn
<1>5. Max(S) \in S /\ \A x \in S : x <= Max(S)  BY <1>3, <1>4, MaxIs
<1>6. Max(S) \in Nat  BY <1>4, <1>5
<1> QED  BY <1>5, <1>6 DEF MaxCounter

\* Decoding gives registers of the cells, those a shape lacks absent.
LEMMA DecodeIs ==
    ASSUME NEW snap \in Snapshots
    PROVE  /\ FromSnapshot(DecodeSnapshot(snap)) \in States
           /\ \A c \in Cells :
                \/ FromSnapshot(DecodeSnapshot(snap))[c] = snap.state[c]
                \/ c.kind # "seen" /\ FromSnapshot(DecodeSnapshot(snap))[c] = Absent
<1> DEFINE o == [c \in Cells |-> IF c.kind \in Lacks(snap.shape) THEN Absent ELSE snap.state[c]]
<1>1. snap.state \in States /\ snap.shape \in 1 .. 3  BY DEF Snapshots
<1>2. FromSnapshot(DecodeSnapshot(snap)) = o  BY DEF FromSnapshot, DecodeSnapshot, Snapshots
<1>3. "seen" \notin Lacks(snap.shape)  BY DEF Lacks
<1>4. ASSUME NEW c \in Cells PROVE o[c] \in RegisterOf(c)
  <2>1. CASE c.kind \in Lacks(snap.shape)  BY <1>3, <2>1 DEF RegisterOf
  <2>2. CASE c.kind \notin Lacks(snap.shape)  BY <1>1, <2>2, StateIs
  <2> QED  BY <2>1, <2>2
<1>5. \A c \in Cells : o[c] \in AnyRegister  BY <1>4, RegIs
<1>6. o \in States  BY <1>4, <1>5, StateIs
<1>7. \A c \in Cells : o[c] = snap.state[c] \/ (c.kind # "seen" /\ o[c] = Absent)  BY <1>3
<1> QED  BY <1>2, <1>6, <1>7

-----------------------------------------------------------------------------
(* What a machine's own steps make of its book.                            *)

\* The registers in P are of their cells, the book's own and the absent one
\* among them, and no row of this machine in P is newer than the one it has.
PoolFits(d, P, b) ==
    /\ b \in Books /\ d \in Devices
    /\ \A c \in Cells : /\ \A r \in P[c] : r \in RegisterOf(c)
                        /\ c.kind # "seen" => Absent \in P[c] /\ b.state[c] \in P[c]
    /\ \A r \in P[Cell("device", d)] : Alive(r) /\ r.dev = d => ~Newer(r, b.state[Cell("device", d)])

\* On machine d, folds and merges of registers in P lead from b to x.
Moves(d, P, b, x) ==
    /\ x \in Books /\ b.lamport <= x.lamport
    /\ \A c \in Cells : x.state[c].n <= x.lamport
    /\ \A c \in Cells : c.kind # "seen" =>
         x.state[c] \in P[c] \/ (x.state[c].dev = d /\ x.state[c].n > b.lamport)
    /\ \A c \in Cells : ~Newer(b.state[c], x.state[c])
    /\ Retired(d, b) => Retired(d, x)

LEMMA BookIs ==
    ASSUME NEW b \in Books
    PROVE  /\ b.ledger \in Ledgers /\ b.state \in States /\ b.lamport \in Nat
           /\ b.first \in [Keys -> Labels \cup {Unset}] /\ b.legacy \in Labels \cup {Blank}
           /\ \A c \in Cells : b.state[c] \in RegisterOf(c) /\ b.state[c].n \in Nat /\ b.state[c].dev \in Nat
           /\ \A c \in Cells : b.ledger[c] \in Values(c)
<1>1. /\ b.ledger \in Ledgers /\ b.state \in States /\ b.lamport \in Nat
      /\ b.first \in [Keys -> Labels \cup {Unset}] /\ b.legacy \in Labels \cup {Blank}  BY DEF Books
<1>2. \A c \in Cells : b.state[c] \in RegisterOf(c)  BY <1>1, StateIs
<1>3. \A c \in Cells : b.state[c].n \in Nat /\ b.state[c].dev \in Nat  BY <1>2, RegIs
<1>4. \A c \in Cells : b.ledger[c] \in Values(c)  BY <1>1, LedgerIs
<1> QED  BY <1>1, <1>2, <1>3, <1>4

\* Nothing done is a move.
LEMMA StandsStill ==
    ASSUME NEW d, NEW P, NEW b, PoolFits(d, P, b), \A c \in Cells : b.state[c].n <= b.lamport
    PROVE  Moves(d, P, b, b)
<1>1. b \in Books  BY DEF PoolFits
<1>2. b.lamport \in Nat /\ \A c \in Cells : b.state[c].n \in Nat /\ b.state[c].dev \in Nat  BY <1>1, BookIs
<1>3. \A c \in Cells : ~Newer(b.state[c], b.state[c])  BY <1>2 DEF Newer
<1>4. \A c \in Cells : c.kind # "seen" => b.state[c] \in P[c]  BY DEF PoolFits
<1> QED  BY <1>1, <1>2, <1>3, <1>4 DEF Moves

\* A move goes on where nothing but ledgers changes.
LEMMA LedgerMoves ==
    ASSUME NEW d, NEW P, NEW b, NEW x, NEW y \in Books, Moves(d, P, b, x),
           y.state = x.state, y.lamport = x.lamport
    PROVE  Moves(d, P, b, y)
  BY DEF Moves, Retired

\* ... and with a fold.
LEMMA FoldMoves ==
    ASSUME NEW d, NEW P, NEW b, NEW x, PoolFits(d, P, b), Moves(d, P, b, x)
    PROVE  Moves(d, P, b, Fold(d, x))
<1> DEFINE f == Fold(d, x)
           S == Stamped(d, x)
<1>1. x \in Books /\ d \in Devices /\ b \in Books  BY DEF PoolFits, Moves
<1>2. /\ f \in Books /\ x.lamport <= f.lamport
      /\ \A c \in S : /\ f.state[c].dev = d /\ f.state[c].n > x.lamport /\ f.state[c].n <= f.lamport
                      /\ f.state[c].del <=> c \in Removed(x)
      /\ \A c \in Cells \ S : c.kind # "seen" => f.state[c] = x.state[c]  BY <1>1, FoldIs
<1>3. \A c \in S : c.kind # "seen" /\ c \in Cells /\ (c.kind = "device" => c.key = d /\ MustAnnounce(d, x))  BY StampedIs
<1>4. /\ b.lamport \in Nat /\ x.lamport \in Nat /\ f.lamport \in Nat
      /\ \A c \in Cells : b.state[c].n \in Nat /\ b.state[c].dev \in Nat
      /\ \A c \in Cells : x.state[c].n \in Nat /\ x.state[c].dev \in Nat /\ f.state[c] \in RegisterOf(c)
      /\ \A c \in Cells : f.state[c].n \in Nat /\ f.state[c].dev \in Nat  BY <1>1, <1>2, BookIs
<1>5. b.lamport <= x.lamport /\ \A c \in Cells : x.state[c].n <= x.lamport /\ ~Newer(b.state[c], x.state[c])
  BY DEF Moves
<1> HIDE DEF f, S
<1>6. b.lamport <= f.lamport  BY <1>2, <1>4, <1>5
<1>7. ASSUME NEW c \in Cells
      PROVE  /\ f.state[c].n <= f.lamport /\ ~Newer(b.state[c], f.state[c])
             /\ c.kind # "seen" =>
                  f.state[c] \in P[c] \/ (f.state[c].dev = d /\ f.state[c].n > b.lamport)
  <2>1. CASE c \in S
    <3>1. f.state[c].dev = d /\ f.state[c].n > x.lamport /\ f.state[c].n <= f.lamport  BY <1>2, <2>1
    <3>2. f.state[c].n > b.lamport /\ x.state[c].n < f.state[c].n  BY <1>4, <1>5, <3>1
    <3>3. ~Newer(x.state[c], f.state[c])  BY <1>4, <3>2 DEF Newer
    <3>4. ~Newer(b.state[c], f.state[c])  BY <1>4, <1>5, <3>3, NotNewerTrans
    <3> QED  BY <1>3, <2>1, <3>1, <3>2, <3>4
  <2>2. CASE c \notin S /\ c.kind # "seen"
    <3>1. f.state[c] = x.state[c]  BY <1>2, <2>2
    <3>2. f.state[c].n <= f.lamport  BY <1>2, <1>4, <1>5, <3>1
    <3> QED  BY <1>5, <2>2, <3>1, <3>2 DEF Moves
  <2>3. CASE c.kind = "seen"
    <3>1. f.state[c].n = 0 /\ f.state[c].dev = 0 /\ b.state[c].n = 0 /\ b.state[c].dev = 0
      BY <1>1, <1>4, <2>3, BookIs, RegIs
    <3> QED  BY <1>4, <2>3, <3>1 DEF Newer
  <2> QED  BY <2>1, <2>2, <2>3
<1>8. Retired(d, x) => Retired(d, f)
  <2> SUFFICES ASSUME Retired(d, x) PROVE Retired(d, f)  OBVIOUS
  <2> DEFINE e == Cell("device", d)
  <2>1. e \in Cells /\ e.kind = "device"  BY <1>1, CellIn
  <2>2. ~MustAnnounce(d, x)  BY DEF MustAnnounce
  <2>3. e \notin S  BY <1>3, <2>1, <2>2
  <2>4. f.state[e] = x.state[e]  BY <1>2, <2>1, <2>3
  <2> QED  BY <2>4 DEF Retired
<1>9. Retired(d, b) => Retired(d, x)  BY DEF Moves
<1>10. Moves(d, P, b, f)  BY <1>2, <1>6, <1>7, <1>8, <1>9 DEF Moves
<1> QED  BY <1>10 DEF f

\* ... and with a merge of registers in P.
LEMMA MergeMoves ==
    ASSUME NEW d, NEW P, NEW b, NEW x, NEW o \in States, NEW y \in Books,
           PoolFits(d, P, b), Moves(d, P, b, x),
           \A c \in Cells : c.kind # "seen" => o[c] \in P[c],
           y.state = Merge(x.state, o), y.lamport >= x.lamport, \A c \in Cells : y.state[c].n <= y.lamport
    PROVE  Moves(d, P, b, y)
<1>1. x \in Books /\ d \in Devices /\ b \in Books  BY DEF PoolFits, Moves
<1>2. /\ b.lamport \in Nat /\ x.lamport \in Nat /\ y.lamport \in Nat /\ x.state \in States
      /\ \A c \in Cells : /\ b.state[c].n \in Nat /\ b.state[c].dev \in Nat
                          /\ x.state[c].n \in Nat /\ x.state[c].dev \in Nat /\ x.state[c] \in RegisterOf(c)
                          /\ y.state[c].n \in Nat /\ y.state[c].dev \in Nat  BY <1>1, BookIs
<1>3. /\ b.lamport <= x.lamport
      /\ Retired(d, b) => Retired(d, x)
      /\ \A c \in Cells : ~Newer(b.state[c], x.state[c])
      /\ \A c \in Cells : c.kind # "seen" =>
           x.state[c] \in P[c] \/ (x.state[c].dev = d /\ x.state[c].n > b.lamport)
  BY DEF Moves
<1>4. \A c \in Cells :
        /\ c.kind # "seen" => y.state[c] \in {x.state[c], o[c]}
        /\ ~Newer(x.state[c], y.state[c])
        /\ c.kind = "device" => y.state[c] = MergeDevice(c.key, x.state[c], o[c])  BY <1>2, MergeIs
<1>5. b.lamport <= y.lamport  BY <1>2, <1>3
<1>6. \A c \in Cells : ~Newer(b.state[c], y.state[c])  BY <1>2, <1>3, <1>4, NotNewerTrans
<1>7. \A c \in Cells : c.kind # "seen" =>
        y.state[c] \in P[c] \/ (y.state[c].dev = d /\ y.state[c].n > b.lamport)
  BY <1>3, <1>4
<1>8. Retired(d, x) => Retired(d, y)
  <2> SUFFICES ASSUME Retired(d, x) PROVE Retired(d, y)  OBVIOUS
  <2> DEFINE e == Cell("device", d)
             cur == x.state[e]
             inc == o[e]
  <2>1. e \in Cells /\ e.kind = "device" /\ e.key = d  BY <1>1, CellIn
  <2>2. y.state[e] = MergeDevice(d, cur, inc)  BY <1>4, <2>1
  <2>3. cur.del /\ cur.n \in Nat /\ cur.dev \in Nat /\ inc \in P[e] /\ inc \in RegisterOf(e)  BY <1>2, <2>1, StateIs DEF Retired
  <2>4. inc.n \in Nat /\ inc.dev \in Nat /\ inc.del \in BOOLEAN  BY <2>1, <2>3, RegIs
  <2>5. cur.del = TRUE
    <3>1. cur.del \in BOOLEAN  BY <1>2, <2>1, RegIs
    <3> QED  BY <2>3, <3>1
  <2>6. CASE inc.del
    <3>1. MergeDevice(d, cur, inc) \in {cur, inc}  BY DEF MergeDevice, MergeMark, MergeLast
    <3> QED  BY <2>2, <2>3, <2>6, <3>1 DEF Retired
  <2>7. CASE ~inc.del /\ inc.n > 0 /\ inc.dev = d
    <3>1. Alive(inc)  BY <2>7 DEF Alive
    <3>2. ~Newer(inc, b.state[e])  BY <2>3, <2>7, <3>1 DEF PoolFits
    <3>3. ~Newer(inc, cur)  BY <1>2, <1>3, <2>1, <2>3, <2>4, <3>2, NotNewerTrans
    <3>4. MergeDevice(d, cur, inc) = cur  BY <2>7, <3>3 DEF MergeDevice, MergeMark, MergeLast
    <3> QED  BY <2>2, <2>3, <3>4 DEF Retired
  <2>8. CASE ~inc.del /\ inc.n > 0 /\ inc.dev # d
    <3>1. MergeDevice(d, cur, inc) = cur  BY <2>8 DEF MergeDevice
    <3> QED  BY <2>2, <2>3, <3>1 DEF Retired
  <2>9. CASE ~inc.del /\ inc.n = 0
    <3>1. inc = Absent  BY <2>1, <2>3, <2>9, RegIs
    <3>2. inc.dev = 0  BY <3>1 DEF Absent, Reg
    <3>3. ~Newer(inc, cur)  BY <2>3, <2>9, <3>2 DEF Newer
    <3>4. MergeDevice(d, cur, inc) = cur  BY <2>9, <3>3 DEF MergeDevice, MergeMark, MergeLast
    <3> QED  BY <2>2, <2>3, <3>4 DEF Retired
  <2> QED  BY <2>4, <2>6, <2>7, <2>8, <2>9
<1> QED  BY <1>3, <1>5, <1>6, <1>7, <1>8 DEF Moves

\* What MergeIn makes of a book.
LEMMA MergeInIs ==
    ASSUME NEW d \in Devices, NEW x \in Books, NEW snap \in Snapshots
    PROVE  LET f == Fold(d, x)
               m == MergeIn(d, x, snap)
           IN  /\ f \in Books /\ m \in Books /\ m.state = Merge(f.state, FromSnapshot(DecodeSnapshot(snap)))
               /\ m.ledger = f.ledger /\ m.legacy = f.legacy /\ m.first = f.first
               /\ m.lamport >= f.lamport /\ \A c \in Cells : m.state[c].n <= m.lamport
<1> DEFINE f == Fold(d, x)
           o == FromSnapshot(DecodeSnapshot(snap))
           s == Merge(f.state, o)
           l == Advance(f.lamport, snap, s)
           m == MergeIn(d, x, snap)
<1>1. f \in Books  BY FoldIs
<1>2. f.state \in States /\ f.lamport \in Nat  BY <1>1, BookIs
<1>3. o \in States  BY DecodeIs
<1>4. snap.lamport \in Nat  BY DEF Snapshots
<1>5. m = [f EXCEPT !.state = s, !.lamport = l]  BY DEF MergeIn
<1> HIDE DEF f, o, m
<1>6. s \in States  BY <1>2, <1>3, MergeIs
<1>7. MaxCounter(s) \in Nat /\ \A c \in Cells : s[c].n <= MaxCounter(s) /\ s[c].n \in Nat
  <2>1. \A c \in Cells : s[c].n \in Nat  BY <1>6, StateIs, RegIs
  <2> QED  BY <1>6, <2>1, MaxCounterIs
<1> HIDE DEF s
<1>8. l \in Nat /\ f.lamport <= l /\ MaxCounter(s) <= l
  <2>1. l = Max({f.lamport, snap.lamport, MaxCounter(s)})  BY DEF Advance
  <2> QED  BY <1>2, <1>4, <1>7, <2>1, MaxOfThree
<1> HIDE DEF l
<1>9. m \in Books  BY <1>1, <1>5, <1>6, <1>8 DEF Books
<1>10. m.state = s /\ m.lamport = l /\ m.ledger = f.ledger /\ m.legacy = f.legacy /\ m.first = f.first
  BY <1>1, <1>5 DEF Books
<1>11. \A c \in Cells : s[c].n <= l  BY <1>7, <1>8
<1>12. m.lamport >= f.lamport  BY <1>2, <1>8, <1>10
<1> QED  BY <1>1, <1>9, <1>10, <1>11, <1>12 DEF f, o, s, m

\* ... and so a move goes on with all of MergeIn.
LEMMA MergeInMoves ==
    ASSUME NEW d, NEW P, NEW b, NEW x, NEW snap \in Snapshots,
           PoolFits(d, P, b), Moves(d, P, b, x),
           \A c \in Cells : c.kind # "seen" => snap.state[c] \in P[c]
    PROVE  Moves(d, P, b, MergeIn(d, x, snap))
<1> DEFINE f == Fold(d, x)
           o == FromSnapshot(DecodeSnapshot(snap))
           y == MergeIn(d, x, snap)
<1>1. d \in Devices /\ x \in Books  BY DEF PoolFits, Moves
<1>2. Moves(d, P, b, f)  BY FoldMoves
<1>3. o \in States /\ \A c \in Cells : o[c] = snap.state[c] \/ (c.kind # "seen" /\ o[c] = Absent)  BY DecodeIs
<1>4. \A c \in Cells : c.kind # "seen" => o[c] \in P[c]  BY <1>3 DEF PoolFits
<1>5. /\ y \in Books /\ y.state = Merge(f.state, o)
      /\ y.lamport >= f.lamport /\ \A c \in Cells : y.state[c].n <= y.lamport  BY <1>1, MergeInIs
<1> HIDE DEF f, o, y
<1>6. Moves(d, P, b, y)  BY <1>2, <1>3, <1>4, <1>5, MergeMoves
<1> QED  BY <1>6 DEF y

\* Projecting writes ledgers.
LEMMA ProjectIs ==
    ASSUME NEW b \in Books, NEW s \in States
    PROVE  /\ Project(b, s) \in Books
           /\ Project(b, s).state = b.state /\ Project(b, s).lamport = b.lamport
           /\ Project(b, s).legacy = b.legacy
           /\ \A c \in Cells : Project(b, s).ledger[c] =
                IF c = Me THEN (IF s[c].n > 0 THEN s[c].val ELSE b.ledger[c])
                ELSE IF c.kind = "seen" THEN s[c].val
                ELSE IF Alive(s[c]) THEN s[c].val ELSE Unset
<1> DEFINE F(c) == CASE c = Me -> IF s[c].n > 0 THEN s[c].val ELSE b.ledger[c]
                     [] c.kind = "seen" -> s[c].val
                     [] OTHER -> IF Alive(s[c]) THEN s[c].val ELSE Unset
           L == [c \in Cells |-> F(c)]
           g == [k \in Keys |-> IF s[Cell("name", k)].del THEN Unset ELSE b.first[k]]
<1>1. /\ b.ledger \in Ledgers /\ b.first \in [Keys -> Labels \cup {Unset}]
      /\ \A c \in Cells : b.ledger[c] \in Values(c)  BY BookIs
<1>2. \A c \in Cells : s[c].val \in Values(c)  BY StateIs, RegIs
<1>3. Me.kind # "seen"  BY CellIn
<1>4. \A c \in Cells : F(c) = IF c = Me THEN (IF s[c].n > 0 THEN s[c].val ELSE b.ledger[c])
                              ELSE IF c.kind = "seen" THEN s[c].val
                              ELSE IF Alive(s[c]) THEN s[c].val ELSE Unset
  BY <1>3
<1>5. \A c \in Cells : F(c) \in Values(c)
  <2>1. \A c \in Cells : c.kind # "seen" => Unset \in Values(c)  BY ValueIs
  <2> HIDE DEF F
  <2> QED  BY <1>1, <1>2, <1>4, <2>1
<1>6. L \in Ledgers
  <2>1. \A c \in Cells : F(c) \in AnyValue  BY <1>5, ValueIs
  <2> HIDE DEF F
  <2>2. L \in [Cells -> AnyValue] /\ \A c \in Cells : L[c] \in Values(c)  BY <1>5, <2>1
  <2> QED  BY <2>2, LedgerIs
<1>7. g \in [Keys -> Labels \cup {Unset}]  BY <1>1
<1>8. Project(b, s) = [b EXCEPT !.ledger = L, !.first = g]  BY DEF Project
<1>9. \A c \in Cells : L[c] = F(c)  OBVIOUS
<1> HIDE DEF L, g, F
<1>10. Project(b, s) \in Books  BY <1>6, <1>7, <1>8 DEF Books
<1>11. /\ Project(b, s).state = b.state /\ Project(b, s).lamport = b.lamport
       /\ Project(b, s).legacy = b.legacy /\ Project(b, s).ledger = L  BY <1>8 DEF Books
<1> QED  BY <1>4, <1>9, <1>10, <1>11

LEMMA ProjectMoves ==
    ASSUME NEW d, NEW P, NEW b, NEW x, NEW s \in States, Moves(d, P, b, x)
    PROVE  Moves(d, P, b, Project(x, s))
<1>1. x \in Books  BY DEF Moves
<1>2. Project(x, s) \in Books /\ Project(x, s).state = x.state /\ Project(x, s).lamport = x.lamport
  BY <1>1, ProjectIs
<1> QED  BY <1>2, LedgerMoves

LEMMA ApplyMergedMoves ==
    ASSUME NEW d, NEW P, NEW b, NEW x, NEW snap \in Snapshots,
           PoolFits(d, P, b), Moves(d, P, b, x),
           \A c \in Cells : c.kind # "seen" => snap.state[c] \in P[c]
    PROVE  Moves(d, P, b, ApplyMerged(d, x, snap))
<1> DEFINE m == MergeIn(d, x, snap)
<1>1. Moves(d, P, b, m)  BY MergeInMoves
<1>2. m.state \in States  BY <1>1, BookIs DEF Moves
<1>3. ApplyMerged(d, x, snap) = Project(m, m.state)  BY DEF ApplyMerged
<1> HIDE DEF m
<1> QED  BY <1>1, <1>2, <1>3, ProjectMoves

-----------------------------------------------------------------------------
(* A sequence of notes.                                                    *)

AfterDef(d, b, notes, n, f) ==
    f = [i \in 0 .. n |-> IF i = 0 THEN b ELSE ApplyNote(d, f[i - 1], notes[i])]

\* The books after each of the first notes.
LEMMA AfterExists ==
    ASSUME NEW d, NEW b, NEW notes, NEW n \in Nat
    PROVE  \E f : AfterDef(d, b, notes, n, f)
<1> DEFINE T == {k \in Nat : ~\E f : AfterDef(d, b, notes, k, f)}
<1> SUFFICES ASSUME T # {} PROVE FALSE  OBVIOUS
<1>1. PICK m \in T : \A k \in T : m <= k  BY Least
<1>2. m # 0
  <2> SUFFICES ASSUME m = 0 PROVE FALSE  OBVIOUS
  <2> DEFINE f == [i \in 0 .. 0 |-> b]
  <2>1. AfterDef(d, b, notes, 0, f)  BY DEF AfterDef
  <2> QED  BY <1>1, <2>1
<1>3. m \in Nat /\ m - 1 \in Nat /\ ~(m <= m - 1)  BY <1>2
<1>4. m - 1 \notin T  BY <1>1, <1>3
<1>5. PICK f : AfterDef(d, b, notes, m - 1, f)  BY <1>3, <1>4
<1> DEFINE g == [i \in 0 .. m |-> IF i = m THEN ApplyNote(d, f[m - 1], notes[m]) ELSE f[i]]
<1>6. \A i \in 0 .. (m - 1) : f[i] = IF i = 0 THEN b ELSE ApplyNote(d, f[i - 1], notes[i])
  BY <1>5, Zenon DEF AfterDef
<1>7. ASSUME NEW i \in 0 .. m
      PROVE  g[i] = IF i = 0 THEN b ELSE ApplyNote(d, g[i - 1], notes[i])
  <2>1. CASE i = m
    <3>1. m - 1 \in 0 .. m /\ m - 1 # m  BY <1>3
    <3>2. g[m - 1] = f[m - 1]  BY <3>1
    <3>3. g[m] = ApplyNote(d, f[m - 1], notes[m])  BY <1>3
    <3> QED  BY <1>2, <2>1, <3>2, <3>3
  <2>2. CASE i # m /\ i # 0
    <3>1. i - 1 \in 0 .. m /\ i - 1 # m /\ i \in 0 .. (m - 1)  BY <1>3, <2>2
    <3>2. g[i - 1] = f[i - 1] /\ g[i] = f[i]  BY <2>2, <3>1
    <3> QED  BY <1>6, <2>2, <3>1, <3>2
  <2>3. CASE i = 0
    <3>1. 0 \in 0 .. m /\ 0 # m /\ 0 \in 0 .. (m - 1)  BY <1>2, <1>3
    <3>2. g[0] = f[0]  BY <3>1
    <3> QED  BY <1>6, <2>3, <3>1, <3>2
  <2> QED  BY <2>1, <2>2, <2>3
<1>8. g = [i \in 0 .. m |-> g[i]]  OBVIOUS
<1> HIDE DEF g
<1>9. g = [i \in 0 .. m |-> IF i = 0 THEN b ELSE ApplyNote(d, g[i - 1], notes[i])]  BY <1>7, <1>8, Zenon
<1>10. AfterDef(d, b, notes, m, g)  BY <1>9 DEF AfterDef
<1> QED  BY <1>1, <1>10

\* ApplyAll is the last of such a series of books.
LEMMA ApplyAllIs ==
    ASSUME NEW d, NEW b, NEW notes, Len(notes) \in Nat
    PROVE  \E f : /\ f[0] = b /\ ApplyAll(d, b, notes) = f[Len(notes)]
                  /\ \A i \in 1 .. Len(notes) : f[i] = ApplyNote(d, f[i - 1], notes[i])
<1> DEFINE n == Len(notes)
           F == CHOOSE f : f = [i \in 0 .. n |-> IF i = 0 THEN b ELSE ApplyNote(d, f[i - 1], notes[i])]
<1>1. \E f : f = [i \in 0 .. n |-> IF i = 0 THEN b ELSE ApplyNote(d, f[i - 1], notes[i])]
  <2>1. PICK f : AfterDef(d, b, notes, n, f)  BY AfterExists
  <2> QED  BY <2>1, Zenon DEF AfterDef
<1>2. F = [i \in 0 .. n |-> IF i = 0 THEN b ELSE ApplyNote(d, F[i - 1], notes[i])]  BY <1>1, Zenon
<1>3. ApplyAll(d, b, notes) = F[n]  BY Zenon DEF ApplyAll
<1> HIDE DEF F
<1>4. \A i \in 0 .. n : F[i] = IF i = 0 THEN b ELSE ApplyNote(d, F[i - 1], notes[i])  BY <1>2, Zenon
<1>5. 0 \in 0 .. n /\ \A i \in 1 .. n : i \in 0 .. n /\ i # 0  OBVIOUS
<1>6. F[0] = b /\ \A i \in 1 .. n : F[i] = ApplyNote(d, F[i - 1], notes[i])  BY <1>4, <1>5, Zenon
<1> QED  BY <1>3, <1>6

LEMMA ApplyAllMoves ==
    ASSUME NEW d, NEW P, NEW b, NEW x, NEW notes \in Seq(Notes), PoolFits(d, P, b), Moves(d, P, b, x),
           \A i \in 1 .. Len(notes) : \A c \in Cells : c.kind # "seen" => notes[i].snap.state[c] \in P[c]
    PROVE  Moves(d, P, b, ApplyAll(d, x, notes))
<1> DEFINE n == Len(notes)
<1>1. n \in Nat  OBVIOUS
<1>2. PICK f : /\ f[0] = x /\ ApplyAll(d, x, notes) = f[n]
               /\ \A i \in 1 .. n : f[i] = ApplyNote(d, f[i - 1], notes[i])  BY SMTT(30), <1>1, ApplyAllIs
<1> DEFINE T == {i \in Nat : i <= n /\ ~Moves(d, P, b, f[i])}
<1> SUFFICES ASSUME T # {} PROVE FALSE  BY <1>1, <1>2
<1>3. PICK m \in T : \A k \in T : m <= k  BY Least
<1>4. m # 0  BY <1>2, <1>3
<1>5. m \in 1 .. n /\ m - 1 \in Nat /\ ~(m <= m - 1) /\ m - 1 <= n  BY <1>1, <1>3, <1>4
<1>6. Moves(d, P, b, f[m - 1])  BY <1>3, <1>5
<1>7. notes[m] \in Notes /\ notes[m].snap \in Snapshots
  <2>1. notes[m] \in Notes  BY <1>5, ElementOfSeq
  <2> QED  BY <2>1 DEF Notes
<1>8. Moves(d, P, b, ApplyMerged(d, f[m - 1], notes[m].snap))  BY <1>5, <1>6, <1>7, ApplyMergedMoves
<1>9. Moves(d, P, b, ApplyNote(d, f[m - 1], notes[m]))  BY <1>6, <1>8 DEF ApplyNote
<1> QED  BY <1>2, <1>3, <1>5, <1>9

KeptDef(d, notes, n, f) ==
    f = [i \in 0 .. n |-> IF i = 0 THEN <<>> ELSE IF d \in notes[i].by THEN f[i - 1] ELSE Append(f[i - 1], notes[i])]

LEMMA KeptExists ==
    ASSUME NEW d, NEW notes, NEW n \in Nat
    PROVE  \E f : KeptDef(d, notes, n, f)
<1> DEFINE T == {k \in Nat : ~\E f : KeptDef(d, notes, k, f)}
           Step(x, i) == IF d \in notes[i].by THEN x ELSE Append(x, notes[i])
<1> SUFFICES ASSUME T # {} PROVE FALSE  OBVIOUS
<1>0. \A k, f : KeptDef(d, notes, k, f) <=> f = [i \in 0 .. k |-> IF i = 0 THEN <<>> ELSE Step(f[i - 1], i)]
  BY Zenon DEF KeptDef
<1> HIDE DEF Step
<1>1. PICK m \in T : \A k \in T : m <= k  BY Least
<1>2. m # 0
  <2> SUFFICES ASSUME m = 0 PROVE FALSE  OBVIOUS
  <2> DEFINE f == [i \in 0 .. 0 |-> <<>>]
  <2>1. f = [i \in 0 .. 0 |-> IF i = 0 THEN <<>> ELSE Step(f[i - 1], i)]  OBVIOUS
  <2> QED  BY <1>0, <1>1, <2>1, Zenon
<1>3. m \in Nat /\ m - 1 \in Nat /\ ~(m <= m - 1)  BY <1>2
<1>4. m - 1 \notin T  BY <1>1, <1>3
<1>5. PICK f : KeptDef(d, notes, m - 1, f)  BY <1>3, <1>4
<1> DEFINE g == [i \in 0 .. m |-> IF i = m THEN Step(f[m - 1], m) ELSE f[i]]
<1>6. \A i \in 0 .. (m - 1) : f[i] = IF i = 0 THEN <<>> ELSE Step(f[i - 1], i)
  <2>1. f = [i \in 0 .. (m - 1) |-> IF i = 0 THEN <<>> ELSE Step(f[i - 1], i)]  BY <1>0, <1>5
  <2> QED  BY <2>1, Zenon
<1>7. ASSUME NEW i \in 0 .. m
      PROVE  g[i] = IF i = 0 THEN <<>> ELSE Step(g[i - 1], i)
  <2>1. CASE i = m
    <3>1. m - 1 \in 0 .. m /\ m - 1 # m  BY <1>3
    <3>2. g[m - 1] = f[m - 1]  BY <3>1
    <3>3. g[m] = Step(f[m - 1], m)  BY <1>3
    <3> QED  BY <1>2, <2>1, <3>2, <3>3
  <2>2. CASE i # m /\ i # 0
    <3>1. i - 1 \in 0 .. m /\ i - 1 # m /\ i \in 0 .. (m - 1)  BY <1>3, <2>2
    <3>2. g[i - 1] = f[i - 1] /\ g[i] = f[i]  BY <2>2, <3>1
    <3> QED  BY <1>6, <2>2, <3>1, <3>2
  <2>3. CASE i = 0
    <3>1. 0 \in 0 .. m /\ 0 # m /\ 0 \in 0 .. (m - 1)  BY <1>2, <1>3
    <3>2. g[0] = f[0]  BY <3>1
    <3> QED  BY <1>6, <2>3, <3>1, <3>2
  <2> QED  BY <2>1, <2>2, <2>3
<1>8. g = [i \in 0 .. m |-> g[i]]  OBVIOUS
<1> HIDE DEF g
<1>9. g = [i \in 0 .. m |-> IF i = 0 THEN <<>> ELSE Step(g[i - 1], i)]  BY <1>7, <1>8, Zenon
<1>10. KeptDef(d, notes, m, g)  BY <1>0, <1>9
<1> QED  BY <1>1, <1>10

\* What the acks leave are notes that were there.
LEMMA UnpulledIs ==
    ASSUME NEW d, NEW notes \in Seq(Notes)
    PROVE  /\ Unpulled(d, notes) \in Seq(Notes)
           /\ \A i \in 1 .. Len(Unpulled(d, notes)) : \E j \in 1 .. Len(notes) :
                Unpulled(d, notes)[i] = notes[j] /\ d \notin notes[j].by
           /\ \A j \in 1 .. Len(notes) : d \notin notes[j].by =>
                \E i \in 1 .. Len(Unpulled(d, notes)) : Unpulled(d, notes)[i] = notes[j]
<1> DEFINE n == Len(notes)
           F == CHOOSE f : f = [i \in 0 .. n |-> IF i = 0 THEN <<>> ELSE IF d \in notes[i].by THEN f[i - 1]
                                                 ELSE Append(f[i - 1], notes[i])]
           Good(k, s) == /\ s \in Seq(Notes)
                         /\ \A i \in 1 .. Len(s) : \E j \in 1 .. n : s[i] = notes[j] /\ d \notin notes[j].by
                         /\ \A j \in 1 .. n : j <= k /\ d \notin notes[j].by => \E i \in 1 .. Len(s) : s[i] = notes[j]
<1>1. n \in Nat  OBVIOUS
<1>2. \E f : f = [i \in 0 .. n |-> IF i = 0 THEN <<>> ELSE IF d \in notes[i].by THEN f[i - 1]
                                   ELSE Append(f[i - 1], notes[i])]
  <2>1. PICK f : KeptDef(d, notes, n, f)  BY <1>1, KeptExists
  <2> QED  BY <2>1, Zenon DEF KeptDef
<1>3. F = [i \in 0 .. n |-> IF i = 0 THEN <<>> ELSE IF d \in notes[i].by THEN F[i - 1]
                            ELSE Append(F[i - 1], notes[i])]  BY <1>2, Zenon
<1>4. Unpulled(d, notes) = F[n]  BY Zenon DEF Unpulled
<1> HIDE DEF F
<1>5. \A i \in 0 .. n : F[i] = IF i = 0 THEN <<>> ELSE IF d \in notes[i].by THEN F[i - 1] ELSE Append(F[i - 1], notes[i])
  BY <1>3, Zenon
<1> DEFINE T == {i \in Nat : i <= n /\ ~Good(i, F[i])}
<1> SUFFICES ASSUME T # {} PROVE FALSE
  <2>1. T = {} => Good(n, F[n])
    <3> HIDE DEF Good
    <3> QED  BY <1>1
  <2>2. \A j \in 1 .. n : j <= n  BY <1>1
  <2> QED  BY <1>4, <2>1, <2>2 DEF Good
<1> HIDE DEF Good
<1>6. PICK m \in T : \A k \in T : m <= k  BY Least
<1>7. m # 0
  <2>1. F[0] = <<>>  BY <1>1, <1>5
  <2>2. \A j \in 1 .. n : ~(j <= 0)  BY <1>1
  <2>3. Good(0, <<>>)  BY <2>2 DEF Good
  <2> QED  BY <1>6, <2>1, <2>3
<1>8. m \in 1 .. n /\ m - 1 \in Nat /\ ~(m <= m - 1) /\ m - 1 <= n  BY <1>1, <1>6, <1>7
<1>9. Good(m - 1, F[m - 1])  BY <1>6, <1>8
<1>10. F[m] = IF d \in notes[m].by THEN F[m - 1] ELSE Append(F[m - 1], notes[m])  BY <1>5, <1>7, <1>8
<1>11. notes[m] \in Notes /\ \A j \in 1 .. n : j <= m => j <= m - 1 \/ j = m  BY <1>8, ElementOfSeq
<1>12. CASE d \in notes[m].by
  <2>1. Good(m, F[m - 1])  BY <1>9, <1>11, <1>12 DEF Good
  <2> QED  BY <1>6, <1>10, <1>12, <2>1
<1>13. CASE d \notin notes[m].by
  <2> DEFINE s == F[m - 1]
             t == Append(s, notes[m])
  <2>1. F[m] = t /\ s \in Seq(Notes) /\ Good(m - 1, s)  BY <1>9, <1>10, <1>13 DEF Good
  <2> HIDE DEF s
  <2>2. t \in Seq(Notes) /\ Len(t) = Len(s) + 1 /\ Len(s) \in Nat  BY <1>11, <2>1
  <2>3. t[Len(s) + 1] = notes[m] /\ \A i \in 1 .. Len(s) : t[i] = s[i] /\ i \in 1 .. Len(t)  BY <1>11, <2>1, <2>2
  <2>4. Len(s) + 1 \in 1 .. Len(t) /\ \A i \in 1 .. Len(t) : i = Len(s) + 1 \/ i \in 1 .. Len(s)  BY <2>2
  <2> HIDE DEF t
  <2>5. \A i \in 1 .. Len(t) : \E j \in 1 .. n : t[i] = notes[j] /\ d \notin notes[j].by
    BY SMTT(30), <1>8, <1>13, <2>1, <2>3, <2>4 DEF Good
  <2>6. ASSUME NEW j \in 1 .. n, j <= m, d \notin notes[j].by PROVE \E i \in 1 .. Len(t) : t[i] = notes[j]
    <3>1. CASE j = m  BY <2>3, <2>4, <3>1
    <3>2. CASE j <= m - 1
      <4>1. PICK i \in 1 .. Len(s) : s[i] = notes[j]  BY <2>1, <2>6, <3>2 DEF Good
      <4> QED  BY <2>3, <4>1
    <3> QED  BY <1>11, <2>6, <3>1, <3>2
  <2>7. Good(m, t)  BY <2>2, <2>5, <2>6 DEF Good
  <2> QED  BY <1>6, <2>1, <2>7
<1> QED  BY <1>12, <1>13

-----------------------------------------------------------------------------
(* The invariant.                                                          *)

Rounds == [pc : {"idle", "project", "push"}, rest : Seq(Notes), mem : States \cup {Unset}, merged : BOOLEAN]

BookTypes ==
    /\ book \in [Devices -> Books] /\ payload \in Snapshots \cup {Unset} /\ member \in SUBSET Devices
    /\ round \in [Devices -> Rounds] /\ slot \in Seq(Notes)
    /\ edits \in Nat /\ faults \in Nat /\ edits + faults <= MaxEvents
    /\ \A d \in Devices : round[d].pc = "project" => round[d].mem \in States

\* Every register of a cell that may still be merged somewhere: on a machine, in
\* the slot, behind a pairing code, or pulled and waiting for its turn.
Pool(c) == {r \in RegisterOf(c) :
    \/ \E d \in Devices : r = book[d].state[c]
    \/ \E i \in 1 .. Len(slot) : r = slot[i].snap.state[c]
    \/ payload # Unset /\ r = payload.state[c]
    \/ \E d \in Devices : \E i \in 1 .. Len(round[d].rest) : r = round[d].rest[i].snap.state[c]}

Clocked == {c \in Cells : c.kind # "seen"}

\* No counter is behind a clock it has seen, nor behind a clock it gave out.
CountersInv ==
    /\ \A d \in Devices : \A c \in Cells : book[d].state[c].n <= book[d].lamport
    /\ \A c \in Clocked : \A r \in Pool(c) : r.dev \in Devices => r.n <= book[r.dev].lamport

\* A clock names one write.
ClocksInv == \A c \in Clocked : \A r, s \in Pool(c) : (r.n = s.n /\ r.dev = s.dev) => r = s

\* No machine meets a row of itself that is newer than the one it has.
OwnRowInv == \A d \in Devices : \A r \in Pool(Cell("device", d)) :
    Alive(r) /\ r.dev = d => ~Newer(r, book[d].state[Cell("device", d)])

BookInv == BookTypes /\ CountersInv /\ ClocksInv /\ OwnRowInv

PoolFn == [c \in Cells |-> IF c.kind = "seen" THEN {} ELSE Pool(c) \cup {Absent}]

\* What may be merged now is what a step of a machine starts from.
LEMMA PoolFitsNow ==
    ASSUME BookInv, NEW d \in Devices
    PROVE  PoolFits(d, PoolFn, book[d])
<1>1. book[d] \in Books  BY DEF BookInv, BookTypes
<1>2. ASSUME NEW c \in Cells
      PROVE  /\ \A r \in PoolFn[c] : r \in RegisterOf(c)
             /\ c.kind # "seen" => Absent \in PoolFn[c] /\ book[d].state[c] \in PoolFn[c]
  <2>1. book[d].state[c] \in RegisterOf(c)  BY <1>1, BookIs
  <2>2. c.kind # "seen" => Absent \in RegisterOf(c)  BY DEF RegisterOf
  <2>3. book[d].state[c] \in Pool(c)  BY <2>1 DEF Pool
  <2>4. Pool(c) \subseteq RegisterOf(c)  BY DEF Pool
  <2> HIDE DEF Pool
  <2> QED  BY <2>2, <2>3, <2>4 DEF PoolFn
<1>3. ASSUME NEW r \in PoolFn[Cell("device", d)], Alive(r), r.dev = d
      PROVE  ~Newer(r, book[d].state[Cell("device", d)])
  <2>1. Cell("device", d) \in Cells /\ Cell("device", d).kind = "device"  BY CellIn
  <2>2. r \in Pool(Cell("device", d)) \cup {Absent}  BY <2>1 DEF PoolFn
  <2>3. r # Absent  BY <1>3 DEF Alive, Absent, Reg
  <2> QED  BY <1>3, <2>2, <2>3 DEF BookInv, OwnRowInv
<1> QED  BY <1>1, <1>2, <1>3 DEF PoolFits

\* The registers of s are known, or those of the book b.
Known(s, b) == \A c \in Clocked : s[c] \in Pool(c) \/ s[c] = b.state[c]

\* The step of a machine d whose book becomes b: what it does to the registers.
MachineStep(d, b) ==
    /\ book' = [book EXCEPT ![d] = b]
    /\ Moves(d, PoolFn, book[d], b)
    /\ \A i \in 1 .. Len(slot') : Known(slot'[i].snap.state, b)
    /\ payload' # Unset => Known(payload'.state, b)
    /\ \A e \in Devices : \A i \in 1 .. Len(round'[e].rest) : Known(round'[e].rest[i].snap.state, b)

\* After the step of a machine, the pool has what it had and what the machine has now.
LEMMA PoolStep ==
    ASSUME BookTypes, NEW d \in Devices, NEW b, MachineStep(d, b), NEW c \in Clocked, NEW r \in Pool(c)'
    PROVE  r \in RegisterOf(c) /\ (r \in Pool(c) \/ r = b.state[c])
<1>1. c \in Cells  BY DEF Clocked
<1>2. /\ r \in RegisterOf(c)
      /\ \/ \E e \in Devices : r = book'[e].state[c]
         \/ \E i \in 1 .. Len(slot') : r = slot'[i].snap.state[c]
         \/ payload' # Unset /\ r = payload'.state[c]
         \/ \E e \in Devices : \E i \in 1 .. Len(round'[e].rest) : r = round'[e].rest[i].snap.state[c]
  BY DEF Pool
<1>3. CASE \E e \in Devices : r = book'[e].state[c]
  <2>1. PICK e \in Devices : r = book'[e].state[c]  BY <1>3
  <2>2. book'[e] = IF e = d THEN b ELSE book[e]  BY DEF MachineStep, BookTypes
  <2>3. CASE e = d  BY SMTT(30), <1>2, <2>1, <2>2, <2>3
  <2>4. CASE e # d
    <3>1. r = book[e].state[c]  BY <2>1, <2>2, <2>4
    <3> QED  BY <1>2, <3>1 DEF Pool
  <2> QED  BY <2>3, <2>4
<1>4. CASE \E i \in 1 .. Len(slot') : r = slot'[i].snap.state[c]
  BY <1>2, <1>4 DEF MachineStep, Known
<1>5. CASE payload' # Unset /\ r = payload'.state[c]
  BY SMTT(30), <1>2, <1>5 DEF MachineStep, Known
<1>6. CASE \E e \in Devices : \E i \in 1 .. Len(round'[e].rest) : r = round'[e].rest[i].snap.state[c]
  BY <1>2, <1>6 DEF MachineStep, Known
<1> QED  BY <1>2, <1>3, <1>4, <1>5, <1>6

\* A machine's step keeps the invariant and moves forward.
LEMMA MachineKeeps ==
    ASSUME BookInv, BookTypes', NEW d \in Devices, NEW b, MachineStep(d, b)
    PROVE  BookInv' /\ RegistersAdvance /\ RetirementSticks
<1>1. /\ book \in [Devices -> Books] /\ book' = [book EXCEPT ![d] = b]
      /\ \A e \in Devices : book'[e] = IF e = d THEN b ELSE book[e]  BY DEF BookInv, BookTypes, MachineStep
<1>2. /\ b \in Books /\ book[d].lamport <= b.lamport
      /\ \A c \in Cells : b.state[c].n <= b.lamport /\ ~Newer(book[d].state[c], b.state[c])
      /\ \A c \in Clocked : \/ b.state[c] \in Pool(c) \/ b.state[c] = Absent
                            \/ b.state[c].dev = d /\ b.state[c].n > book[d].lamport
      /\ Retired(d, book[d]) => Retired(d, b)
  BY DEF MachineStep, Moves, PoolFn, Clocked
<1>3. /\ b.lamport \in Nat /\ \A e \in Devices : book[e].lamport \in Nat /\ book'[e].lamport \in Nat
      /\ \A c \in Cells : b.state[c] \in RegisterOf(c) /\ b.state[c].n \in Nat /\ b.state[c].dev \in Nat
      /\ \A e \in Devices : \A c \in Cells : book[e].state[c].n \in Nat /\ book[e].state[c].dev \in Nat
  BY <1>1, <1>2, BookIs
<1>4. \A e \in Devices : book[e].lamport <= book'[e].lamport  BY <1>1, <1>2, <1>3
<1>5. \A c \in Clocked : c \in Cells /\ \A r \in Pool(c) : r \in RegisterOf(c) /\ r.n \in Nat /\ r.dev \in Nat
  <2>1. \A c \in Clocked : c \in Cells /\ \A r \in Pool(c) : r \in RegisterOf(c)  BY DEF Pool, Clocked
  <2> QED  BY <2>1, RegIs
<1>6. \A c \in Clocked : \A r \in Pool(c)' : r \in RegisterOf(c) /\ (r \in Pool(c) \/ r = b.state[c])
  BY PoolStep DEF BookInv
<1>7. CountersInv'
  <2>1. ASSUME NEW e \in Devices, NEW c \in Cells PROVE book'[e].state[c].n <= book'[e].lamport
    BY <1>1, <1>2 DEF BookInv, CountersInv
  <2>2. ASSUME NEW c \in Clocked, NEW r \in Pool(c)', r.dev \in Devices PROVE r.n <= book'[r.dev].lamport
    <3>1. CASE r \in Pool(c)
      <4>1. r.n <= book[r.dev].lamport  BY <2>2, <3>1 DEF BookInv, CountersInv
      <4>2. r.n \in Nat  BY <1>5, <3>1
      <4> QED  BY <1>3, <1>4, <2>2, <4>1, <4>2
    <3>2. CASE r = b.state[c] /\ r \notin Pool(c)
      <4>1. r # Absent
        <5>1. Absent.dev = 0  BY DEF Absent, Reg
        <5>2. 0 \notin Devices  BY BookAssumption
        <5> QED  BY <2>2, <5>1, <5>2
      <4>2. r.dev = d  BY <1>2, <3>2, <4>1
      <4> QED  BY <1>1, <1>2, <1>5, <3>2, <4>2
    <3> QED  BY <1>6, <3>1, <3>2
  <2> QED  BY <2>1, <2>2 DEF CountersInv
<1>8. ClocksInv'
  <2> SUFFICES ASSUME NEW c \in Clocked, NEW r \in Pool(c)', NEW s \in Pool(c)', r.n = s.n, r.dev = s.dev
               PROVE  r = s
    BY DEF ClocksInv
  <2>1. r \in RegisterOf(c) /\ s \in RegisterOf(c) /\ c \in Cells /\ c.kind # "seen"  BY <1>6 DEF Clocked
  <2>2. CASE r \in Pool(c) /\ s \in Pool(c)  BY <2>2 DEF BookInv, ClocksInv
  <2>3. CASE r.n = 0  BY <2>1, <2>3, RegIs
  <2>4. ASSUME NEW x \in Pool(c), NEW y, y = b.state[c], y \notin Pool(c), y.n # 0, y.n = x.n, y.dev = x.dev
        PROVE  FALSE
    <3>1. y # Absent  BY <2>4 DEF Absent, Reg
    <3>2. y.dev = d /\ y.n > book[d].lamport  BY <1>2, <2>4, <3>1
    <3>3. x.n <= book[d].lamport  BY <2>4, <3>2 DEF BookInv, CountersInv
    <3>4. x.n \in Nat /\ y.n \in Nat  BY <1>3, <1>5, <2>1, <2>4
    <3> QED  BY <1>3, <2>4, <3>2, <3>3, <3>4
  <2>5. CASE r.n # 0 /\ r \notin Pool(c)
    <3>1. r = b.state[c]  BY <1>6, <2>5
    <3>2. s \in Pool(c) => FALSE  BY <2>4, <2>5, <3>1
    <3> QED  BY <1>6, <3>1, <3>2
  <2>6. CASE r.n # 0 /\ s \notin Pool(c)
    <3>1. s = b.state[c]  BY <1>6, <2>6
    <3>2. r \in Pool(c) => FALSE  BY <2>4, <2>6, <3>1
    <3> QED  BY <1>6, <3>1, <3>2
  <2> QED  BY <2>2, <2>3, <2>5, <2>6
<1>9. OwnRowInv'
  <2> SUFFICES ASSUME NEW e \in Devices, NEW r \in Pool(Cell("device", e))', Alive(r), r.dev = e
               PROVE  ~Newer(r, book'[e].state[Cell("device", e)])
    BY DEF OwnRowInv
  <2> DEFINE c == Cell("device", e)
  <2>1. c \in Clocked /\ c \in Cells  BY CellIn DEF Clocked
  <2>2. ~Newer(book[e].state[c], book'[e].state[c])
    <3>1. CASE e = d  BY <1>1, <1>2, <2>1, <3>1
    <3>2. CASE e # d  BY <1>1, <1>3, <2>1, <3>2 DEF Newer
    <3> QED  BY <3>1, <3>2
  <2>3. book'[e].state[c].n \in Nat /\ book'[e].state[c].dev \in Nat  BY <1>1, <1>3, <2>1
  <2>4. CASE r \in Pool(c)
    <3>1. ~Newer(r, book[e].state[c])  BY <2>4 DEF BookInv, OwnRowInv
    <3>2. r.n \in Nat /\ r.dev \in Nat  BY <1>5, <2>1, <2>4
    <3> QED  BY <1>3, <2>1, <2>2, <2>3, <3>1, <3>2, NotNewerTrans
  <2>5. CASE r = b.state[c] /\ r \notin Pool(c)
    <3>1. r # Absent  BY DEF Alive, Absent, Reg
    <3>2. r.dev = d  BY <1>2, <2>1, <2>5, <3>1
    <3>3. book'[e].state[c] = r  BY <1>1, <2>5, <3>2
    <3> QED  BY <2>3, <3>3 DEF Newer
  <2> QED  BY <1>6, <2>1, <2>4, <2>5
<1>10. RegistersAdvance
  <2> SUFFICES ASSUME NEW e \in Devices, NEW c \in Cells PROVE ~Newer(book[e].state[c], book'[e].state[c])
    BY DEF RegistersAdvance
  <2>1. CASE e = d  BY <1>1, <1>2, <2>1
  <2>2. CASE e # d  BY <1>1, <1>3, <2>2 DEF Newer
  <2> QED  BY <2>1, <2>2
<1>11. RetirementSticks
  <2> SUFFICES ASSUME NEW e \in Devices, Retired(e, book[e]) PROVE Retired(e, book'[e])
    BY DEF RetirementSticks, Retired
  <2>1. CASE e = d  BY <1>1, <1>2, <2>1
  <2>2. CASE e # d  BY <1>1, <2>2
  <2> QED  BY <2>1, <2>2
<1> QED  BY <1>7, <1>8, <1>9, <1>10, <1>11 DEF BookInv

-----------------------------------------------------------------------------
(* Edits.                                                                  *)

\* The registers of the notes and of the payload are in the pool.
LEMMA PoolHas ==
    ASSUME BookTypes
    PROVE  /\ \A i \in 1 .. Len(slot) : \A c \in Clocked : slot[i].snap.state[c] \in Pool(c)
           /\ payload # Unset => \A c \in Clocked : payload.state[c] \in Pool(c)
           /\ \A e \in Devices : \A i \in 1 .. Len(round[e].rest) : \A c \in Clocked :
                round[e].rest[i].snap.state[c] \in Pool(c)
<1>1. ASSUME NEW i \in 1 .. Len(slot), NEW c \in Clocked PROVE slot[i].snap.state[c] \in Pool(c)
  <2>1. slot[i] \in Notes /\ c \in Cells  BY <1>1, ElementOfSeq DEF BookTypes, Clocked
  <2>2. slot[i].snap.state \in States  BY <2>1 DEF Notes, Snapshots
  <2>3. slot[i].snap.state[c] \in RegisterOf(c)  BY <2>1, <2>2, StateIs
  <2> QED  BY <2>3 DEF Pool
<1>2. ASSUME payload # Unset, NEW c \in Clocked PROVE payload.state[c] \in Pool(c)
  <2>1. payload.state \in States /\ c \in Cells  BY <1>2 DEF BookTypes, Snapshots, Clocked
  <2>2. payload.state[c] \in RegisterOf(c)  BY SMTT(30), <2>1, StateIs
  <2> QED  BY <1>2, <2>2 DEF Pool
<1>3. ASSUME NEW e \in Devices, NEW i \in 1 .. Len(round[e].rest), NEW c \in Clocked
      PROVE  round[e].rest[i].snap.state[c] \in Pool(c)
  <2>1. round[e].rest \in Seq(Notes) /\ c \in Cells  BY DEF BookTypes, Rounds, Clocked
  <2>2. round[e].rest[i] \in Notes  BY <1>3, <2>1, ElementOfSeq
  <2>3. round[e].rest[i].snap.state \in States  BY <2>2 DEF Notes, Snapshots
  <2>4. round[e].rest[i].snap.state[c] \in RegisterOf(c)  BY <2>1, <2>3, StateIs
  <2> QED  BY <2>4 DEF Pool
<1> QED  BY SMTT(30), <1>1, <1>2, <1>3

LEMMA PoolKnown ==
    ASSUME BookTypes, NEW b
    PROVE  /\ \A i \in 1 .. Len(slot) : Known(slot[i].snap.state, b)
           /\ payload # Unset => Known(payload.state, b)
           /\ \A e \in Devices : \A i \in 1 .. Len(round[e].rest) : Known(round[e].rest[i].snap.state, b)
  BY PoolHas DEF Known

Kept == BookInv' /\ RegistersAdvance /\ RetirementSticks

LEMMA StillNow ==
    ASSUME BookInv, NEW d \in Devices
    PROVE  Moves(d, PoolFn, book[d], book[d])
<1>1. PoolFits(d, PoolFn, book[d])  BY PoolFitsNow
<1>2. \A c \in Cells : book[d].state[c].n <= book[d].lamport  BY DEF BookInv, CountersInv
<1> QED  BY <1>1, <1>2, StandsStill

\* An edit that moves the book of one machine keeps the invariant.
LEMMA EditKeeps ==
    ASSUME BookInv, NEW d \in Devices, NEW new, EditBook(d, new), Moves(d, PoolFn, book[d], new)
    PROVE  Kept
<1>1. /\ edits + faults < MaxEvents /\ book' = [book EXCEPT ![d] = new] /\ edits' = edits + 1
      /\ UNCHANGED <<payload, member, round, slot, faults>>  BY DEF EditBook
<1>2. new \in Books  BY DEF Moves
<1>3. BookTypes  BY DEF BookInv
<1>4. BookTypes'  BY <1>1, <1>2, <1>3, BookAssumption DEF BookTypes
<1>5. MachineStep(d, new)  BY <1>1, <1>3, PoolKnown DEF MachineStep
<1> QED  BY <1>4, <1>5, MachineKeeps DEF Kept

LEMMA EditLedgerKeeps ==
    ASSUME BookInv, NEW d \in Devices, NEW L \in Ledgers, EditLedger(d, L)
    PROVE  Kept
<1> DEFINE new == [book[d] EXCEPT !.ledger = L]
<1>1. book[d] \in Books  BY DEF BookInv, BookTypes
<1>2. new \in Books /\ new.state = book[d].state /\ new.lamport = book[d].lamport  BY <1>1 DEF Books
<1>3. EditBook(d, new)  BY DEF EditLedger
<1> HIDE DEF new
<1>4. Moves(d, PoolFn, book[d], new)  BY <1>2, StillNow, LedgerMoves
<1> QED  BY <1>3, <1>4, EditKeeps

\* The ledger operations keep ledgers.
LEMMA RowsKept ==
    ASSUME NEW L \in Ledgers, NEW k
    PROVE  /\ Unmarked(L, k) \in Ledgers
           /\ ForgetNameRow(L, k) \in Ledgers
           /\ \A r \in Relays \cup {Unset} : SetRelayRow(L, k, r) \in Ledgers
           /\ \A kind \in {"verified", "trusted", "blocked"} : \A v \in {On, Unset} : MarkRow(L, kind, k, v) \in Ledgers
           /\ VerifiedMark(L, k, On) \in Ledgers
           /\ \A n \in Names, x \in Keys \cup {Unset} : [L EXCEPT ![Cell("contact", n)] = x] \in Ledgers
<1>1. \A c \in Cells : L[c] \in Values(c)  BY LedgerIs
<1>2. Unmarked(L, k) \in Ledgers
  <2> DEFINE F(c) == IF c.kind \in {"verified", "trusted"} /\ c.key = k THEN Unset ELSE L[c]
  <2>1. \A c \in Cells : F(c) \in Values(c)  BY <1>1, ValueIs
  <2>2. \A c \in Cells : F(c) \in AnyValue  BY <2>1, ValueIs
  <2> HIDE DEF F
  <2>3. [c \in Cells |-> F(c)] \in Ledgers  BY <2>1, <2>2, LedgerIs
  <2> QED  BY <2>3 DEF Unmarked, F
<1>3. Cell("name", k) \in Cells => Unset \in Values(Cell("name", k))  BY ValueIs, CellIn
<1>4. ForgetNameRow(L, k) \in Ledgers  BY <1>3, LedgerSet DEF ForgetNameRow
<1>5. ASSUME NEW r \in Relays \cup {Unset} PROVE SetRelayRow(L, k, r) \in Ledgers
  <2>1. Cell("relay", k) \in Cells => r \in Values(Cell("relay", k))  BY ValueIs, CellIn
  <2> QED  BY <2>1, LedgerSet DEF SetRelayRow
<1>6. ASSUME NEW kind \in {"verified", "trusted", "blocked"}, NEW v \in {On, Unset}
      PROVE  [L EXCEPT ![Cell(kind, k)] = v] \in Ledgers
  <2>1. Cell(kind, k) \in Cells => kind \in MarkKinds /\ Cell(kind, k).kind = kind  BY CellIs, CellIn
  <2>2. Cell(kind, k) \in Cells => v \in Values(Cell(kind, k))  BY <2>1, ValueIs
  <2> QED  BY <2>2, LedgerSet
<1>7. ASSUME NEW kind \in {"verified", "trusted", "blocked"}, NEW v \in {On, Unset}
      PROVE  MarkRow(L, kind, k, v) \in Ledgers
  <2>1. MarkRow(L, kind, k, v) = [L EXCEPT ![Cell(kind, k)] = v]
    BY DEF MarkRow, VerifiedMark, TrustedMark, BlockedMark
  <2> QED  BY <1>6, <2>1
<1>8. VerifiedMark(L, k, On) \in Ledgers  BY <1>6 DEF VerifiedMark
<1>9. ASSUME NEW n \in Names, NEW x \in Keys \cup {Unset} PROVE [L EXCEPT ![Cell("contact", n)] = x] \in Ledgers
  <2>1. Cell("contact", n) \in Cells /\ Cell("contact", n).kind = "contact"  BY CellIn
  <2>2. x \in Values(Cell("contact", n))  BY <2>1, ValueIs
  <2> QED  BY <2>2, LedgerSet
<1> QED  BY <1>2, <1>4, <1>5, <1>7, <1>8, <1>9

LEMMA ContactAddIs ==
    ASSUME NEW L \in Ledgers, NEW n \in Names, NEW k \in Keys, NEW r \in Relays \cup {Unset}
    PROVE  ContactAdd(L, n, k, r) \in Ledgers
<1> DEFINE old == L[Cell("contact", n)]
           U == Unmarked(L, old)
           kept == IF old \in {Unset, k} THEN L ELSE SetRelayRow(U, old, Unset)
           bound == [kept EXCEPT ![Cell("contact", n)] = k]
<1>1. U \in Ledgers  BY RowsKept
<1>2. SetRelayRow(U, old, Unset) \in Ledgers  BY <1>1, RowsKept
<1>3. kept \in Ledgers  BY <1>2
<1>4. ContactAdd(L, n, k, r) = IF r = Unset THEN bound ELSE SetRelayRow(bound, k, r)  BY DEF ContactAdd
<1> HIDE DEF kept
<1>5. bound \in Ledgers  BY <1>3, RowsKept
<1>6. SetRelayRow(bound, k, r) \in Ledgers  BY <1>5, RowsKept
<1> QED  BY <1>4, <1>5, <1>6

LEMMA LedgerNow ==
    ASSUME BookInv, NEW d \in Devices
    PROVE  /\ book[d] \in Books /\ book[d].ledger \in Ledgers
           /\ \A c \in Cells : book[d].ledger[c] \in Values(c)
<1>1. book[d] \in Books  BY DEF BookInv, BookTypes
<1> QED  BY <1>1, BookIs

LEMMA AddContactKeeps ==
    ASSUME BookInv, NEW d \in Devices, NEW n \in Names, NEW k \in Keys, NEW r \in Relays \cup {Unset}, NEW rebind,
           AddContact(d, n, k, r, rebind)
    PROVE  Kept
<1>1. ContactAdd(book[d].ledger, n, k, r) \in Ledgers  BY LedgerNow, ContactAddIs
<1> QED  BY <1>1, EditLedgerKeeps DEF AddContact

LEMMA SaveTheOtherSideKeeps ==
    ASSUME BookInv, NEW d \in Devices, NEW n \in Names, NEW k \in Keys, SaveTheOtherSide(d, n, k, Unset)
    PROVE  Kept
<1> DEFINE L == book[d].ledger
           saved == IF Holders(book[d], k) = {} THEN ContactAdd(L, n, k, Unset) ELSE L
<1>1. L \in Ledgers  BY LedgerNow
<1>2. ContactAdd(L, n, k, Unset) \in Ledgers  BY <1>1, ContactAddIs
<1>3. saved \in Ledgers  BY <1>1, <1>2
<1>4. EditLedger(d, VerifiedMark(saved, k, On))  BY DEF SaveTheOtherSide
<1> HIDE DEF saved
<1>5. VerifiedMark(saved, k, On) \in Ledgers  BY <1>3, RowsKept
<1> QED  BY <1>4, <1>5, EditLedgerKeeps

LEMMA ImportContactKeeps ==
    ASSUME BookInv, NEW d \in Devices, NEW n \in Names, NEW k \in Keys, NEW flags \in SUBSET MarkKinds,
           ImportContact(d, n, k, Unset, flags)
    PROVE  Kept
<1> DEFINE added == ContactAdd(book[d].ledger, n, k, Unset)
           F(c) == IF c.kind \in flags /\ c.key = k THEN On ELSE added[c]
<1>1. added \in Ledgers  BY LedgerNow, ContactAddIs
<1>2. EditLedger(d, [c \in Cells |-> F(c)])  BY DEF ImportContact
<1> HIDE DEF added
<1>3. \A c \in Cells : F(c) \in Values(c)  BY <1>1, LedgerIs, ValueIs
<1>4. \A c \in Cells : F(c) \in AnyValue  BY <1>3, ValueIs
<1> HIDE DEF F
<1>5. [c \in Cells |-> F(c)] \in Ledgers  BY <1>3, <1>4, LedgerIs
<1> QED  BY <1>2, <1>5, EditLedgerKeeps

LEMMA RemoveContactKeeps ==
    ASSUME BookInv, NEW d \in Devices, NEW n \in Names, RemoveContact(d, n)
    PROVE  Kept
<1> DEFINE k == book[d].ledger[Cell("contact", n)]
           U == Unmarked(book[d].ledger, k)
           b == [book[d] EXCEPT !.ledger = U]
<1>1. book[d] \in Books /\ book[d].ledger \in Ledgers  BY LedgerNow
<1>2. U \in Ledgers  BY <1>1, RowsKept
<1>3. b.ledger = U  BY <1>1 DEF Books
<1>4. EditLedger(d, ContactRemove(b, n))  BY DEF RemoveContact
<1> HIDE DEF b, U
<1>5. ContactRemove(b, n) \in Ledgers
  <2> DEFINE j == b.ledger[Cell("contact", n)]
             w == [b.ledger EXCEPT ![Cell("contact", n)] = Unset]
             x == ForgetNameRow(w, j)
  <2>1. w \in Ledgers  BY <1>2, <1>3, RowsKept
  <2>2. ContactRemove(b, n) = IF Holders(b, j) = {n} THEN SetRelayRow(x, j, Unset) ELSE w  BY DEF ContactRemove
  <2> HIDE DEF w
  <2>3. x \in Ledgers  BY <2>1, RowsKept
  <2> HIDE DEF x
  <2>4. SetRelayRow(x, j, Unset) \in Ledgers  BY <2>3, RowsKept
  <2> QED  BY <2>1, <2>2, <2>4
<1> QED  BY <1>4, <1>5, EditLedgerKeeps

LEMMA ContactRenameKeeps ==
    ASSUME BookInv, NEW d \in Devices, NEW n \in Names, NEW new \in Names, ContactRename(d, n, new)
    PROVE  Kept
<1> DEFINE L == book[d].ledger
           v == L[Cell("contact", n)]
           L1 == [L EXCEPT ![Cell("contact", n)] = Unset]
<1>1. L \in Ledgers /\ v \in Keys \cup {Unset}  BY LedgerNow, CellIn, ValueIs
<1>2. L1 \in Ledgers  BY <1>1, RowsKept
<1>3. EditLedger(d, [L1 EXCEPT ![Cell("contact", new)] = v])  BY DEF ContactRename
<1> HIDE DEF L1, v
<1>4. [L1 EXCEPT ![Cell("contact", new)] = v] \in Ledgers  BY <1>1, <1>2, RowsKept
<1> QED  BY <1>3, <1>4, EditLedgerKeeps

LEMMA MarkKeeps ==
    ASSUME BookInv, NEW d \in Devices, NEW kind \in MarkKinds, NEW k \in Keys, NEW force,
           Mark(d, kind, k, force) \/ Unmark(d, kind, k)
    PROVE  Kept
<1>1. book[d].ledger \in Ledgers /\ kind \in {"verified", "trusted", "blocked"}  BY LedgerNow, BookAssumption
<1>2. MarkRow(book[d].ledger, kind, k, On) \in Ledgers /\ MarkRow(book[d].ledger, kind, k, Unset) \in Ledgers
  BY <1>1, RowsKept
<1> QED  BY <1>2, EditLedgerKeeps DEF Mark, Unmark

LEMMA SetRelayKeeps ==
    ASSUME BookInv, NEW d \in Devices, NEW k \in Keys, NEW r \in Relays \cup {Unset},
           SetRelay(d, k, r) \/ LearnSenderRelay(d, k, r)
    PROVE  Kept
<1>1. SetRelayRow(book[d].ledger, k, r) \in Ledgers  BY LedgerNow, RowsKept
<1> QED  BY <1>1, EditLedgerKeeps DEF SetRelay, LearnSenderRelay

LEMMA RecordSeenKeeps ==
    ASSUME BookInv, NEW d \in Devices, NEW k \in Keys, RecordSeen(d, k)
    PROVE  Kept
<1> DEFINE c == Cell("seen", k)
           L == book[d].ledger
<1>1. L \in Ledgers /\ c \in Cells /\ c.kind = "seen" /\ L[c] \in Values(c)  BY LedgerNow, CellIn
<1>2. L[c] \in Nat /\ Values(c) = Nat  BY <1>1, ValueIs
<1> DEFINE v == L[c] + 1
<1>3. v \in Values(c)  BY <1>2
<1>4. EditLedger(d, [L EXCEPT ![c] = v])  BY DEF RecordSeen
<1> HIDE DEF v
<1>5. [L EXCEPT ![c] = v] \in Ledgers  BY <1>1, <1>3, LedgerSet
<1> QED  BY <1>4, <1>5, EditLedgerKeeps

LEMMA NameRowIs ==
    ASSUME NEW p \in Labels \cup {Unset}, NEW q \in Labels \cup {Unset}
    PROVE  NameRow(p, q) \in NameRows \cup {Unset}
  BY DEF NameRow, NameRows

LEMMA PinnedIs ==
    ASSUME NEW row \in NameRows \cup {Unset}
    PROVE  Pinned(row) \in Labels \cup {Unset} /\ Pending(row) \in Labels \cup {Unset}
  BY DEF Pinned, Pending, NameRows

LEMMA ObserveNameKeeps ==
    ASSUME BookInv, NEW d \in Devices, NEW k \in Keys, NEW l \in Labels, ObserveName(d, k, l)
    PROVE  Kept
<1> DEFINE c == Cell("name", k)
           row == book[d].ledger[c]
           q == IF Pinned(row) = l THEN Unset ELSE l
           s == NameRow(Pinned(row), q)
           L == [book[d].ledger EXCEPT ![c] = s]
           claim == IF book[d].first[k] = Unset THEN l ELSE book[d].first[k]
           f == [book[d].first EXCEPT ![k] = claim]
           new == [book[d] EXCEPT !.ledger = L, !.first = f]
<1>1. book[d] \in Books /\ book[d].ledger \in Ledgers /\ c \in Cells /\ c.kind = "name" /\ row \in Values(c)
  BY LedgerNow, CellIn
<1>2. Values(c) = NameRows \cup {Unset}  BY <1>1, ValueIs
<1>3. Pinned(row) \in Labels \cup {Unset}  BY <1>1, <1>2, PinnedIs
<1>4. s \in Values(c)  BY <1>2, <1>3, NameRowIs
<1>5. L \in Ledgers  BY <1>1, <1>4, LedgerSet
<1>6. book[d].first \in [Keys -> Labels \cup {Unset}]  BY <1>1, BookIs
<1>7. f \in [Keys -> Labels \cup {Unset}]  BY <1>6
<1>8. EditBook(d, new)  BY DEF ObserveName
<1> HIDE DEF L, f
<1>9. new \in Books /\ new.state = book[d].state /\ new.lamport = book[d].lamport  BY <1>1, <1>5, <1>7 DEF Books
<1> HIDE DEF new
<1>10. Moves(d, PoolFn, book[d], new)  BY <1>9, StillNow, LedgerMoves
<1> QED  BY <1>8, <1>10, EditKeeps

LEMMA AcceptNameKeeps ==
    ASSUME BookInv, NEW d \in Devices, NEW k \in Keys, AcceptName(d, k)
    PROVE  Kept
<1> DEFINE c == Cell("name", k)
           row == book[d].ledger[c]
           s == NameRow(Pending(row), Unset)
<1>1. book[d].ledger \in Ledgers /\ c \in Cells /\ c.kind = "name" /\ row \in Values(c)  BY LedgerNow, CellIn
<1>2. Values(c) = NameRows \cup {Unset}  BY <1>1, ValueIs
<1>3. s \in Values(c)  BY <1>1, <1>2, PinnedIs, NameRowIs
<1>4. [book[d].ledger EXCEPT ![c] = s] \in Ledgers  BY <1>1, <1>3, LedgerSet
<1> QED  BY <1>4, EditLedgerKeeps DEF AcceptName

LEMMA RenameThisDeviceKeeps ==
    ASSUME BookInv, NEW d \in Devices, NEW l \in Labels, RenameThisDevice(d, l)
    PROVE  Kept
<1>1. book[d].ledger \in Ledgers /\ Cell("device", d) \in Cells /\ Cell("device", d).kind = "device"  BY LedgerNow, CellIn
<1>2. l \in Values(Cell("device", d))  BY <1>1, ValueIs
<1>3. [book[d].ledger EXCEPT ![Cell("device", d)] = l] \in Ledgers  BY <1>1, <1>2, LedgerSet
<1> QED  BY <1>3, EditLedgerKeeps DEF RenameThisDevice

\* A stamp of its own, of a cell that is not this machine's row.
LEMMA StampKeeps ==
    ASSUME BookInv, NEW d \in Devices, NEW c \in Clocked, c # Cell("device", d), NEW v \in Values(c), NEW w \in Values(c),
           NEW del \in BOOLEAN, StampBook(d, c, v, Reg(w, book[d].lamport + 1, d, del))
    PROVE  Kept
<1> DEFINE b == book[d]
           m == b.lamport + 1
           r == Reg(w, m, d, del)
           L == [b.ledger EXCEPT ![c] = v]
           s == [b.state EXCEPT ![c] = r]
           new == [b EXCEPT !.ledger = L, !.state = s, !.lamport = m]
<1>1. b \in Books /\ b.ledger \in Ledgers /\ c \in Cells /\ c.kind # "seen"  BY LedgerNow DEF Clocked
<1>2. /\ b.state \in States /\ b.lamport \in Nat
      /\ \A x \in Cells : b.state[x] \in RegisterOf(x) /\ b.state[x].n \in Nat /\ b.state[x].dev \in Nat  BY <1>1, BookIs
<1>3. L \in Ledgers  BY <1>1, LedgerSet
<1>4. m \in Nat \ {0} /\ m > b.lamport  BY <1>2
<1>5. EditBook(d, new)  BY DEF StampBook
<1> HIDE DEF m
<1>6. r \in RegisterOf(c) /\ r.n = m /\ r.dev = d  BY <1>1, <1>4, SMT DEF Reg, RegisterOf
<1> HIDE DEF r
<1>7. r \in AnyRegister  BY <1>1, <1>6, RegIs
<1>8. b.state \in [Cells -> AnyRegister]  BY <1>2, StateIs
<1>9. s \in [Cells -> AnyRegister] /\ \A x \in Cells : s[x] = IF x = c THEN r ELSE b.state[x]  BY <1>7, <1>8
<1> HIDE DEF s, L
<1>10. s \in States  BY <1>2, <1>6, <1>9, StateIs
<1>11. new \in Books /\ new.state = s /\ new.lamport = m  BY <1>1, <1>3, <1>4, <1>10 DEF Books
<1> HIDE DEF new, b
<1>12. Moves(d, PoolFn, b, b)  BY StillNow DEF b
<1>13. b.lamport <= new.lamport  BY <1>2, <1>4, <1>11
<1>14. \A x \in Cells : b.state[x].n <= b.lamport  BY <1>12 DEF Moves
<1>15. ASSUME NEW x \in Cells
       PROVE  /\ s[x].n <= m /\ ~Newer(b.state[x], s[x])
              /\ x.kind # "seen" => s[x] \in PoolFn[x] \/ (s[x].dev = d /\ s[x].n > b.lamport)
  <2>1. CASE x = c
    <3>1. s[x] = r  BY <1>9, <2>1
    <3>2. b.state[x].n < r.n  BY <1>2, <1>4, <1>6, <1>14
    <3> QED  BY <1>2, <1>4, <1>6, <3>1, <3>2 DEF Newer
  <2>2. CASE x # c
    <3>1. s[x] = b.state[x]  BY <1>9, <2>2
    <3>2. s[x].n <= m  BY <1>2, <1>4, <1>14, <3>1
    <3> QED  BY <1>12, <3>1, <3>2 DEF Moves
  <2> QED  BY <2>1, <2>2
<1>16. Retired(d, b) => Retired(d, new)
  <2>1. Cell("device", d) \in Cells  BY CellIn
  <2>2. s[Cell("device", d)] = b.state[Cell("device", d)]  BY <1>9, <2>1
  <2> QED  BY <1>11, <2>2 DEF Retired
<1>17. Moves(d, PoolFn, b, new)  BY <1>11, <1>13, <1>15, <1>16 DEF Moves
<1> QED  BY <1>5, <1>17, EditKeeps DEF b

LEMMA SetMyNameKeeps ==
    ASSUME BookInv, NEW d \in Devices, NEW l \in Labels \cup {Blank}, SetMyName(d, l)
    PROVE  Kept
<1>1. book[d].ledger \in Ledgers /\ Me \in Cells /\ Me.kind = "self"  BY LedgerNow, CellIn
<1>2. l \in Values(Me)  BY <1>1, ValueIs
<1>3. [book[d].ledger EXCEPT ![Me] = l] \in Ledgers  BY <1>1, <1>2, LedgerSet
<1>4. Me \in Clocked /\ Me # Cell("device", d)  BY <1>1, CellIn DEF Clocked
<1>5. CASE EditLedger(d, [book[d].ledger EXCEPT ![Me] = l])  BY <1>3, <1>5, EditLedgerKeeps
<1>6. CASE StampBook(d, Me, l, Reg(l, book[d].lamport + 1, d, FALSE))
  <2>1. FALSE \in BOOLEAN  OBVIOUS
  <2> QED  BY <1>2, <1>4, <1>6, <2>1, StampKeeps
<1> QED  BY <1>5, <1>6 DEF SetMyName

LEMMA ForgetDeviceKeeps ==
    ASSUME BookInv, NEW d \in Devices, NEW e \in Devices, ForgetDevice(d, e)
    PROVE  Kept
<1> DEFINE c == Cell("device", e)
           w == book[d].state[c].val
<1>1. e # d /\ StampBook(d, c, Unset, Reg(w, book[d].lamport + 1, d, TRUE))  BY DEF ForgetDevice
<1>2. c \in Cells /\ c.kind = "device" /\ c \in Clocked /\ c # Cell("device", d)  BY <1>1, CellIn DEF Clocked
<1>3. Unset \in Values(c)  BY <1>2, ValueIs
<1>4. w \in Values(c)  BY <1>2, LedgerNow, BookIs, RegIs
<1>5. TRUE \in BOOLEAN  OBVIOUS
<1> HIDE DEF c, w
<1> QED  BY <1>1, <1>2, <1>3, <1>4, <1>5, StampKeeps

-----------------------------------------------------------------------------
(* Pairing and rounds.                                                     *)

LEMMA PruneIs ==
    ASSUME NEW b \in Books
    PROVE  /\ Prune(b) \in Books /\ Prune(b).state = b.state /\ Prune(b).lamport = b.lamport
           /\ Prune(b).first = b.first /\ Prune(b).legacy = b.legacy
           /\ \A c \in Cells : c.kind # "name" => Prune(b).ledger[c] = b.ledger[c]
<1> DEFINE F(c) == IF c.kind = "name" /\ Holders(b, c.key) = {} /\ b.first[c.key] = Unset THEN Unset ELSE b.ledger[c]
           L == [c \in Cells |-> F(c)]
<1>1. \A c \in Cells : b.ledger[c] \in Values(c)  BY BookIs
<1>2. \A c \in Cells : F(c) \in Values(c)  BY <1>1, ValueIs
<1>3. \A c \in Cells : F(c) \in AnyValue  BY <1>2, ValueIs
<1>4. Prune(b) = [b EXCEPT !.ledger = L]  BY DEF Prune
<1>5. \A c \in Cells : c.kind # "name" => L[c] = b.ledger[c]  OBVIOUS
<1> HIDE DEF F
<1>6. L \in Ledgers  BY <1>2, <1>3, LedgerIs
<1> HIDE DEF L
<1> QED  BY <1>4, <1>5, <1>6 DEF Books

LEMMA PairHostKeeps ==
    ASSUME BookInv, NEW d \in Devices, PairHost(d)
    PROVE  Kept
<1> DEFINE h == Fold(d, book[d])
<1>1. /\ payload' = ToSnapshot(h) /\ book' = [book EXCEPT ![d] = h]
      /\ UNCHANGED <<member, round, slot, edits, faults>>  BY DEF PairHost, PairPayload
<1>2. Moves(d, PoolFn, book[d], h)  BY PoolFitsNow, StillNow, FoldMoves
<1>3. h \in Books /\ h.state \in States /\ h.lamport \in Nat  BY <1>2, BookIs DEF Moves
<1> HIDE DEF h
<1>4. payload' \in Snapshots /\ payload'.state = h.state  BY <1>1, <1>3 DEF ToSnapshot, Snapshots
<1>5. BookTypes  BY DEF BookInv
<1>6. BookTypes'  BY <1>1, <1>3, <1>4, <1>5 DEF BookTypes
<1>7. Known(payload'.state, h)  BY <1>4 DEF Known
<1>8. MachineStep(d, h)  BY <1>1, <1>2, <1>5, <1>7, PoolKnown DEF MachineStep
<1> QED  BY <1>6, <1>8, MachineKeeps DEF Kept

\* What the notes of the slot, the payload and the rounds have is in the pool.
LEMMA NotesPooled ==
    ASSUME BookInv
    PROVE  /\ \A i \in 1 .. Len(slot) : \A c \in Cells : c.kind # "seen" => slot[i].snap.state[c] \in PoolFn[c]
           /\ payload # Unset => \A c \in Cells : c.kind # "seen" => payload.state[c] \in PoolFn[c]
           /\ \A e \in Devices : \A i \in 1 .. Len(round[e].rest) : \A c \in Cells :
                c.kind # "seen" => round[e].rest[i].snap.state[c] \in PoolFn[c]
<1>1. \A c \in Cells : c.kind # "seen" => c \in Clocked /\ Pool(c) \subseteq PoolFn[c]  BY DEF PoolFn, Clocked
<1>2. BookTypes  BY DEF BookInv
<1> QED  BY <1>1, <1>2, PoolHas

LEMMA PairJoinKeeps ==
    ASSUME BookInv, NEW e \in Devices, PairJoin(e)
    PROVE  Kept
<1> DEFINE b == ApplyMerged(e, book[e], payload)
<1>1. /\ payload # Unset /\ book' = [book EXCEPT ![e] = b] /\ member' = member \cup {e} /\ payload' = Unset
      /\ UNCHANGED <<round, slot, edits, faults>>  BY DEF PairJoin
<1>2. BookTypes /\ payload \in Snapshots  BY <1>1 DEF BookInv, BookTypes
<1>3. Moves(e, PoolFn, book[e], b)  BY <1>1, <1>2, PoolFitsNow, StillNow, NotesPooled, ApplyMergedMoves
<1> HIDE DEF b
<1>4. b \in Books  BY <1>3 DEF Moves
<1>5. BookTypes'  BY <1>1, <1>2, <1>4 DEF BookTypes
<1>6. MachineStep(e, b)  BY <1>1, <1>2, <1>3, PoolKnown DEF MachineStep
<1> QED  BY <1>5, <1>6, MachineKeeps DEF Kept

\* Marking who has pulled a note leaves what it says.
LEMMA PulledIs ==
    ASSUME NEW d \in Devices, slot \in Seq(Notes)
    PROVE  /\ Pulled(d) \in Seq(Notes) /\ Len(Pulled(d)) = Len(slot)
           /\ \A i \in 1 .. Len(slot) : /\ Pulled(d)[i].snap = slot[i].snap /\ Pulled(d)[i].ok = slot[i].ok
                                       /\ Pulled(d)[i].by = slot[i].by \cup {d}
<1>1. \A i \in 1 .. Len(slot) : slot[i] \in Notes  BY ElementOfSeq
<1> DEFINE F(i) == [slot[i] EXCEPT !.by = @ \cup {d}]
<1>2. \A i \in 1 .. Len(slot) : /\ F(i) \in Notes /\ F(i).snap = slot[i].snap /\ F(i).ok = slot[i].ok
                                 /\ F(i).by = slot[i].by \cup {d}  BY <1>1 DEF Notes
<1>3. Len(slot) \in Nat  OBVIOUS
<1>4. Pulled(d) = [i \in 1 .. Len(slot) |-> F(i)]  BY DEF Pulled
<1> HIDE DEF F
<1>5. [i \in 1 .. Len(slot) |-> F(i)] \in Seq(Notes) /\ Len([i \in 1 .. Len(slot) |-> F(i)]) = Len(slot)
  BY <1>2, <1>3
<1> QED  BY <1>2, <1>4, <1>5

LEMMA LetGoIs ==
    ASSUME NEW d \in Devices, NEW notes \in Seq(Notes)
    PROVE  /\ LetGo(d, notes) \in Seq(Notes) /\ Len(LetGo(d, notes)) = Len(notes)
           /\ \A i \in 1 .. Len(notes) : /\ LetGo(d, notes)[i].snap = notes[i].snap /\ LetGo(d, notes)[i].ok = notes[i].ok
                                        /\ LetGo(d, notes)[i].by = notes[i].by \ {d}
<1>1. \A i \in 1 .. Len(notes) : notes[i] \in Notes  BY ElementOfSeq
<1> DEFINE F(i) == [notes[i] EXCEPT !.by = @ \ {d}]
<1>2. \A i \in 1 .. Len(notes) : /\ F(i) \in Notes /\ F(i).snap = notes[i].snap /\ F(i).ok = notes[i].ok
                                  /\ F(i).by = notes[i].by \ {d}  BY <1>1 DEF Notes
<1>3. Len(notes) \in Nat  OBVIOUS
<1>4. LetGo(d, notes) = [i \in 1 .. Len(notes) |-> F(i)]  BY DEF LetGo
<1> HIDE DEF F
<1>5. [i \in 1 .. Len(notes) |-> F(i)] \in Seq(Notes) /\ Len([i \in 1 .. Len(notes) |-> F(i)]) = Len(notes)
  BY <1>2, <1>3
<1> QED  BY <1>2, <1>4, <1>5

\* A round that is over, and one that has merged all there was.
LEMMA IdleFacts ==
    /\ Idle \in Rounds /\ Idle.rest = <<>> /\ Idle.pc = "idle"
    /\ \A m \in BOOLEAN : LET r == [Idle EXCEPT !.pc = "push", !.merged = m] IN
         r \in Rounds /\ r.rest = <<>> /\ r.pc = "push"
<1>1. <<>> \in Seq(Notes)  OBVIOUS
<1> QED  BY <1>1 DEF Idle, Rounds

LEMMA PullRoundKeeps ==
    ASSUME BookInv, NEW d \in Devices, PullRound(d)
    PROVE  Kept
<1> DEFINE b == ApplyAll(d, book[d], slot)
           m == \E i \in 1 .. Len(slot) : slot[i].ok
           r == [Idle EXCEPT !.pc = "push", !.merged = m]
<1>1. /\ round' = [round EXCEPT ![d] = r] /\ slot' = Pulled(d) /\ book' = [book EXCEPT ![d] = b]
      /\ UNCHANGED <<payload, member, edits, faults>>  BY DEF PullRound
<1>2. BookTypes /\ slot \in Seq(Notes) /\ round \in [Devices -> Rounds]  BY DEF BookInv, BookTypes
<1>3. Moves(d, PoolFn, book[d], b)  BY <1>2, PoolFitsNow, StillNow, NotesPooled, ApplyAllMoves
<1>4. m \in BOOLEAN  OBVIOUS
<1>5. r \in Rounds /\ r.rest = <<>> /\ r.pc = "push"  BY <1>4, IdleFacts
<1> HIDE DEF b, r, m
<1>6. b \in Books  BY <1>3 DEF Moves
<1>7. slot' \in Seq(Notes) /\ Len(slot') = Len(slot) /\ \A i \in 1 .. Len(slot) : slot'[i].snap = slot[i].snap
  BY <1>1, <1>2, PulledIs
<1>8. \A e \in Devices : round'[e] = IF e = d THEN r ELSE round[e]  BY <1>1, <1>2
<1>9. BookTypes'  BY <1>1, <1>2, <1>5, <1>6, <1>7, <1>8 DEF BookTypes
<1>10. \A i \in 1 .. Len(slot') : Known(slot'[i].snap.state, b)  BY <1>2, <1>7, PoolKnown
<1>11. ASSUME NEW e \in Devices, NEW i \in 1 .. Len(round'[e].rest) PROVE Known(round'[e].rest[i].snap.state, b)
  <2>1. CASE e = d  BY <1>5, <1>8, <1>11, <2>1
  <2>2. CASE e # d  BY <1>2, <1>8, <1>11, <2>2, PoolKnown
  <2> QED  BY <2>1, <2>2
<1>12. MachineStep(d, b)  BY <1>1, <1>2, <1>3, <1>10, <1>11, PoolKnown DEF MachineStep
<1> QED  BY <1>9, <1>12, MachineKeeps DEF Kept

\* What a preempted round still has to merge.
LEMMA RestIs ==
    ASSUME NEW d \in Devices, NEW notes \in Seq(Notes), NEW i \in 1 .. Len(notes)
    PROVE  LET rest == SubSeq(LetGo(d, notes), i + 1, Len(notes)) IN
           /\ rest \in Seq(Notes)
           /\ \A j \in 1 .. Len(rest) : \E k \in 1 .. Len(notes) : rest[j].snap = notes[k].snap /\ rest[j].ok = notes[k].ok
           /\ \A k \in 1 .. Len(notes) : k <= i \/ \E j \in 1 .. Len(rest) : rest[j].snap = notes[k].snap /\ rest[j].ok = notes[k].ok
<1> DEFINE g == LetGo(d, notes)
           n == Len(notes)
           rest == SubSeq(g, i + 1, n)
<1>1. g \in Seq(Notes) /\ Len(g) = n /\ \A k \in 1 .. n : g[k].snap = notes[k].snap /\ g[k].ok = notes[k].ok  BY LetGoIs
<1>2. n \in Nat /\ i \in Nat /\ i <= n /\ i >= 1  OBVIOUS
<1> HIDE DEF g, n
<1>3. rest \in Seq(Notes)  BY <1>1, <1>2
<1>4. Len(rest) = IF i + 1 <= n THEN n - i ELSE 0  BY <1>1, <1>2
<1>5. ASSUME NEW j \in 1 .. Len(rest) PROVE \E k \in 1 .. n : rest[j].snap = notes[k].snap /\ rest[j].ok = notes[k].ok
  <2>1. i + 1 <= n /\ Len(rest) = n - i /\ j \in 1 .. (n - i)  BY <1>2, <1>4, <1>5
  <2>2. i + j \in 1 .. n /\ (i + 1) + j - 1 = i + j  BY <1>2, <2>1
  <2>3. rest[j] = g[i + j]  BY <1>1, <1>2, <2>1, <2>2
  <2> QED  BY <1>1, <2>2, <2>3
<1>6. ASSUME NEW k \in 1 .. n, ~(k <= i) PROVE \E j \in 1 .. Len(rest) : rest[j].snap = notes[k].snap /\ rest[j].ok = notes[k].ok
  <2>1. i + 1 <= n /\ Len(rest) = n - i /\ k - i \in 1 .. (n - i)  BY <1>2, <1>4, <1>6
  <2>2. (i + 1) + (k - i) - 1 = k /\ i + (k - i) = k  BY <1>2, <1>6
  <2>3. rest[k - i] = g[k]  BY <1>1, <1>2, <2>1, <2>2
  <2> QED  BY <1>1, <2>1, <2>3
<1> QED  BY <1>3, <1>5, <1>6 DEF g, n

LEMMA SubSeqIs ==
    ASSUME NEW notes \in Seq(Notes), NEW i \in 1 .. Len(notes)
    PROVE  LET front == SubSeq(notes, 1, i - 1) IN
           /\ front \in Seq(Notes) /\ Len(front) = i - 1
           /\ \A j \in 1 .. Len(front) : j \in 1 .. Len(notes) /\ front[j] = notes[j]
<1> DEFINE n == Len(notes)
           front == SubSeq(notes, 1, i - 1)
<1>1. n \in Nat /\ i \in Nat /\ i <= n /\ i >= 1  OBVIOUS
<1>2. front \in Seq(Notes) /\ Len(front) = i - 1  BY <1>1
<1>3. ASSUME NEW j \in 1 .. (i - 1) PROVE j \in 1 .. n /\ front[j] = notes[j]
  <2>1. j \in 1 .. n /\ 1 + j - 1 = j  BY <1>1
  <2> QED  BY <1>1, <1>2, <2>1
<1> QED  BY <1>2, <1>3

LEMMA PullPreemptedKeeps ==
    ASSUME BookInv, NEW d \in Devices, NEW i \in 1 .. Len(slot), PullPreempted(d, i)
    PROVE  Kept
<1> DEFINE front == SubSeq(slot, 1, i - 1)
           before == ApplyAll(d, book[d], front)
           b == MergeIn(d, before, slot[i].snap)
           rest == SubSeq(LetGo(d, slot), i + 1, Len(slot))
           r == [Idle EXCEPT !.pc = "project", !.mem = b.state, !.rest = rest, !.merged = TRUE]
<1>1. /\ round' = [round EXCEPT ![d] = r] /\ slot' = Pulled(d) /\ book' = [book EXCEPT ![d] = b]
      /\ edits + faults < MaxEvents /\ faults' = faults + 1
      /\ UNCHANGED <<payload, member, edits>>  BY DEF PullPreempted
<1>2. BookTypes /\ slot \in Seq(Notes) /\ round \in [Devices -> Rounds]  BY DEF BookInv, BookTypes
<1>3. front \in Seq(Notes) /\ \A j \in 1 .. Len(front) : j \in 1 .. Len(slot) /\ front[j] = slot[j]  BY <1>2, SubSeqIs
<1>4. Moves(d, PoolFn, book[d], before)
  <2> HIDE DEF front
  <2>1. \A j \in 1 .. Len(front) : \A c \in Cells : c.kind # "seen" => front[j].snap.state[c] \in PoolFn[c]
    BY <1>3, NotesPooled
  <2> QED  BY <1>3, <2>1, PoolFitsNow, StillNow, ApplyAllMoves
<1>5. Moves(d, PoolFn, book[d], b)
  <2> HIDE DEF before
  <2>1. slot[i] \in Notes  BY <1>2, ElementOfSeq
  <2>2. slot[i].snap \in Snapshots  BY <2>1 DEF Notes
  <2> QED  BY <1>4, <2>2, PoolFitsNow, NotesPooled, MergeInMoves
<1>6. rest \in Seq(Notes) /\ \A j \in 1 .. Len(rest) : \E k \in 1 .. Len(slot) : rest[j].snap = slot[k].snap
  BY <1>2, RestIs
<1>7. b \in Books /\ b.state \in States  BY <1>5, BookIs DEF Moves
<1> HIDE DEF b, rest
<1>8. r \in Rounds /\ r.rest = rest /\ r.mem \in States  BY <1>6, <1>7 DEF Idle, Rounds
<1> HIDE DEF r
<1>9. slot' \in Seq(Notes) /\ Len(slot') = Len(slot) /\ \A j \in 1 .. Len(slot) : slot'[j].snap = slot[j].snap
  BY <1>1, <1>2, PulledIs
<1>10. \A e \in Devices : round'[e] = IF e = d THEN r ELSE round[e]  BY <1>1, <1>2
<1>11. BookTypes'  BY <1>1, <1>2, <1>7, <1>8, <1>9, <1>10, BookAssumption DEF BookTypes
<1>12. \A j \in 1 .. Len(slot') : Known(slot'[j].snap.state, b)  BY <1>2, <1>9, PoolKnown
<1>13. ASSUME NEW e \in Devices, NEW j \in 1 .. Len(round'[e].rest) PROVE Known(round'[e].rest[j].snap.state, b)
  <2>1. CASE e = d
    <3>1. round'[e].rest = rest  BY <1>8, <1>10, <2>1
    <3>2. PICK k \in 1 .. Len(slot) : rest[j].snap = slot[k].snap  BY <1>6, <1>13, <3>1
    <3>3. Known(slot[k].snap.state, b)  BY <1>2, PoolKnown
    <3> QED  BY <3>1, <3>2, <3>3
  <2>2. CASE e # d  BY <1>2, <1>10, <1>13, <2>2, PoolKnown
  <2> QED  BY <2>1, <2>2
<1>14. MachineStep(d, b)  BY <1>1, <1>2, <1>5, <1>12, <1>13, PoolKnown DEF MachineStep
<1> QED  BY <1>11, <1>14, MachineKeeps DEF Kept

LEMMA ResumeRoundKeeps ==
    ASSUME BookInv, NEW d \in Devices, ResumeRound(d)
    PROVE  Kept
<1> DEFINE p == Project(book[d], round[d].mem)
           b == ApplyAll(d, p, round[d].rest)
           r == [round[d] EXCEPT !.pc = "push", !.mem = Unset, !.rest = <<>>]
<1>1. /\ round' = [round EXCEPT ![d] = r] /\ book' = [book EXCEPT ![d] = b] /\ round[d].pc = "project"
      /\ UNCHANGED <<payload, member, slot, edits, faults>>  BY DEF ResumeRound
<1>2. /\ BookTypes /\ slot \in Seq(Notes) /\ round \in [Devices -> Rounds] /\ round[d] \in Rounds
      /\ round[d].mem \in States  BY <1>1 DEF BookInv, BookTypes
<1>3. Moves(d, PoolFn, book[d], p)  BY <1>2, StillNow, ProjectMoves
<1>4. round[d].rest \in Seq(Notes)  BY <1>2 DEF Rounds
<1>5. Moves(d, PoolFn, book[d], b)
  <2> HIDE DEF p
  <2> QED  BY <1>3, <1>4, PoolFitsNow, NotesPooled, ApplyAllMoves
<1> HIDE DEF b
<1>6. b \in Books  BY <1>5 DEF Moves
<1>7. <<>> \in Seq(Notes)  OBVIOUS
<1>8. r \in Rounds /\ r.rest = <<>> /\ r.pc = "push"  BY <1>2, <1>7 DEF Rounds
<1> HIDE DEF r
<1>9. \A e \in Devices : round'[e] = IF e = d THEN r ELSE round[e]  BY <1>1, <1>2
<1>10. BookTypes'  BY <1>1, <1>2, <1>6, <1>8, <1>9 DEF BookTypes
<1>11. ASSUME NEW e \in Devices, NEW j \in 1 .. Len(round'[e].rest) PROVE Known(round'[e].rest[j].snap.state, b)
  <2>1. CASE e = d  BY <1>8, <1>9, <1>11, <2>1
  <2>2. CASE e # d  BY <1>2, <1>9, <1>11, <2>2, PoolKnown
  <2> QED  BY <2>1, <2>2
<1>12. MachineStep(d, b)  BY <1>1, <1>2, <1>5, <1>11, PoolKnown DEF MachineStep
<1> QED  BY <1>10, <1>12, MachineKeeps DEF Kept

LEMMA PublishRoundKeeps ==
    ASSUME BookInv, NEW d \in Devices, NEW acked \in BOOLEAN, PublishRound(d, acked)
    PROVE  Kept
<1> DEFINE mine == Fold(d, book[d])
           b == IF round[d].merged THEN Prune(mine) ELSE mine
           note == Note(SealedNote(ToSnapshot(mine)))
           posted == Append(slot, note)
<1>1. /\ round' = [round EXCEPT ![d] = Idle] /\ book' = [book EXCEPT ![d] = b]
      /\ acked \/ (~acked /\ edits + faults < MaxEvents)
      /\ faults' = IF acked THEN faults ELSE faults + 1
      /\ slot' = IF acked THEN Unpulled(d, posted) ELSE LetGo(d, posted)
      /\ UNCHANGED <<payload, member, edits>>  BY DEF PublishRound
<1>2. BookTypes /\ slot \in Seq(Notes) /\ round \in [Devices -> Rounds]  BY DEF BookInv, BookTypes
<1>3. Moves(d, PoolFn, book[d], mine)  BY PoolFitsNow, StillNow, FoldMoves
<1>4. mine \in Books /\ mine.state \in States /\ mine.lamport \in Nat  BY <1>3, BookIs DEF Moves
<1> HIDE DEF mine
<1>5. b \in Books /\ b.state = mine.state /\ b.lamport = mine.lamport  BY <1>4, PruneIs
<1>6. Moves(d, PoolFn, book[d], b)  BY <1>3, <1>5, LedgerMoves
<1>7. note \in Notes /\ note.snap.state = b.state
  BY <1>4, <1>5 DEF Note, SealedNote, ToSnapshot, Notes, Snapshots
<1> HIDE DEF b, note
<1>8. /\ posted \in Seq(Notes) /\ Len(posted) = Len(slot) + 1 /\ Len(slot) \in Nat
      /\ \A j \in 1 .. Len(posted) : posted[j] = IF j = Len(slot) + 1 THEN note ELSE slot[j]  BY <1>2, <1>7
<1>9. \A j \in 1 .. Len(posted) : Known(posted[j].snap.state, b)
  <2>1. Known(note.snap.state, b)  BY <1>7 DEF Known
  <2> TAKE j \in 1 .. Len(posted)
  <2>2. CASE j = Len(slot) + 1  BY <1>8, <2>1, <2>2
  <2>3. CASE j # Len(slot) + 1
    <3>1. j \in 1 .. Len(slot) /\ posted[j] = slot[j]  BY <1>8, <2>3
    <3> QED  BY <1>2, <3>1, PoolKnown
  <2> QED  BY <2>2, <2>3
<1> HIDE DEF posted
<1>10. slot' \in Seq(Notes) /\ \A k \in 1 .. Len(slot') : \E j \in 1 .. Len(posted) : slot'[k].snap = posted[j].snap
  <2>1. CASE acked
    <3>1. slot' = Unpulled(d, posted)  BY <1>1, <2>1
    <3>2. /\ Unpulled(d, posted) \in Seq(Notes)
          /\ \A k \in 1 .. Len(Unpulled(d, posted)) : \E j \in 1 .. Len(posted) : Unpulled(d, posted)[k] = posted[j]
      BY <1>8, UnpulledIs
    <3> QED  BY <3>1, <3>2
  <2>2. CASE ~acked  BY <1>1, <1>8, <2>2, LetGoIs
  <2> QED  BY <2>1, <2>2
<1>11. \A k \in 1 .. Len(slot') : Known(slot'[k].snap.state, b)  BY <1>9, <1>10
<1>12. \A e \in Devices : round'[e] = IF e = d THEN Idle ELSE round[e]  BY <1>1, <1>2
<1>13. BookTypes'
  <2>1. edits' \in Nat /\ faults' \in Nat /\ edits' + faults' <= MaxEvents
    BY <1>1, <1>2, BookAssumption DEF BookTypes
  <2>2. \A e \in Devices : round'[e].pc = "project" => round'[e].mem \in States
    BY <1>2, <1>12, IdleFacts DEF BookTypes
  <2> QED  BY <1>1, <1>2, <1>5, <1>10, <2>1, <2>2, IdleFacts DEF BookTypes
<1>14. ASSUME NEW e \in Devices, NEW j \in 1 .. Len(round'[e].rest) PROVE Known(round'[e].rest[j].snap.state, b)
  <2>1. CASE e = d
    <3>1. round'[e].rest = <<>>  BY <1>12, <2>1, IdleFacts
    <3>2. j \in 1 .. 0  BY <1>14, <3>1
    <3> QED  BY <3>2
  <2>2. CASE e # d  BY <1>2, <1>12, <1>14, <2>2, PoolKnown
  <2> QED  BY <2>1, <2>2
<1>15. MachineStep(d, b)  BY <1>1, <1>2, <1>6, <1>11, <1>14, PoolKnown DEF MachineStep
<1> QED  BY <1>13, <1>15, MachineKeeps DEF Kept

LEMMA EndRoundKeeps ==
    ASSUME BookInv, NEW d \in Devices, EndRound(d)
    PROVE  Kept
<1>1. /\ round' = [round EXCEPT ![d] = Idle] /\ edits + faults < MaxEvents /\ faults' = faults + 1
      /\ slot' = LetGo(d, slot) /\ UNCHANGED <<book, payload, member, edits>>  BY DEF EndRound
<1>2. BookTypes /\ slot \in Seq(Notes) /\ round \in [Devices -> Rounds] /\ book \in [Devices -> Books]
  BY DEF BookInv, BookTypes
<1>3. slot' \in Seq(Notes) /\ Len(slot') = Len(slot) /\ \A j \in 1 .. Len(slot) : slot'[j].snap = slot[j].snap
  BY <1>1, <1>2, LetGoIs
<1>4. \A e \in Devices : round'[e] = IF e = d THEN Idle ELSE round[e]  BY <1>1, <1>2
<1>5. BookTypes'
  <2>1. edits' \in Nat /\ faults' \in Nat /\ edits' + faults' <= MaxEvents
    BY <1>1, <1>2, BookAssumption DEF BookTypes
  <2>2. \A e \in Devices : round'[e].pc = "project" => round'[e].mem \in States
    BY <1>2, <1>4, IdleFacts DEF BookTypes
  <2> QED  BY <1>1, <1>2, <1>3, <2>1, <2>2, IdleFacts DEF BookTypes
<1>6. \A j \in 1 .. Len(slot') : Known(slot'[j].snap.state, book[d])  BY <1>2, <1>3, PoolKnown
<1>7. ASSUME NEW e \in Devices, NEW j \in 1 .. Len(round'[e].rest) PROVE Known(round'[e].rest[j].snap.state, book[d])
  <2>1. CASE e = d
    <3>1. round'[e].rest = <<>>  BY <1>4, <2>1, IdleFacts
    <3>2. j \in 1 .. 0  BY <1>7, <3>1
    <3> QED  BY <3>2
  <2>2. CASE e # d  BY <1>2, <1>4, <1>7, <2>2, PoolKnown
  <2> QED  BY <2>1, <2>2
<1>8. book' = [book EXCEPT ![d] = book[d]]  BY <1>1, <1>2
<1>9. MachineStep(d, book[d])  BY <1>1, <1>2, <1>6, <1>7, <1>8, StillNow, PoolKnown DEF MachineStep
<1> QED  BY <1>5, <1>9, MachineKeeps DEF Kept

LEMMA StartSweepKeeps ==
    ASSUME BookInv, NEW d \in Devices, StartSweep(d)
    PROVE  Kept
<1> DEFINE b == Prune(book[d])
<1>1. book' = [book EXCEPT ![d] = b] /\ UNCHANGED <<payload, member, round, slot, edits, faults>>  BY DEF StartSweep
<1>2. BookTypes /\ book[d] \in Books  BY DEF BookInv, BookTypes
<1>3. b \in Books /\ b.state = book[d].state /\ b.lamport = book[d].lamport  BY <1>2, PruneIs
<1> HIDE DEF b
<1>4. Moves(d, PoolFn, book[d], b)  BY <1>3, StillNow, LedgerMoves
<1>5. BookTypes'  BY <1>1, <1>2, <1>3 DEF BookTypes
<1>6. MachineStep(d, b)  BY <1>1, <1>2, <1>4, PoolKnown DEF MachineStep
<1> QED  BY <1>5, <1>6, MachineKeeps DEF Kept

-----------------------------------------------------------------------------
(* The theorems.                                                           *)

\* Any edit a person, or an offer that comes in, makes.
LEMMA EditStepKeeps ==
    ASSUME BookInv, NEW d \in Devices, Edit(d)
    PROVE  Kept
<1>1. CASE \E n \in Names, k \in Keys, r \in Relays \cup {Unset}, rebind \in BOOLEAN : AddContact(d, n, k, r, rebind)
  BY <1>1, AddContactKeeps
<1>2. CASE \E n \in Names, k \in Keys : SaveTheOtherSide(d, n, k, Unset)  BY <1>2, SaveTheOtherSideKeeps
<1>3. CASE \E n \in Names, k \in Keys, flags \in SUBSET (MarkKinds \ {"blocked"}) : ImportContact(d, n, k, Unset, flags)
  BY <1>3, ImportContactKeeps
<1>4. CASE \E n \in Names : RemoveContact(d, n)  BY <1>4, RemoveContactKeeps
<1>5. CASE \E n, new \in Names : ContactRename(d, n, new)  BY <1>5, ContactRenameKeeps
<1>6. CASE \E kind \in MarkKinds, k \in Keys, force \in BOOLEAN : Mark(d, kind, k, force)  BY <1>6, MarkKeeps
<1>7. CASE \E kind \in MarkKinds, k \in Keys : Unmark(d, kind, k)  BY <1>7, MarkKeeps
<1>8. CASE \E k \in Keys, r \in Relays \cup {Unset} : SetRelay(d, k, r)  BY <1>8, SetRelayKeeps
<1>9. CASE \E k \in Keys, r \in Relays : LearnSenderRelay(d, k, r)  BY <1>9, SetRelayKeeps
<1>10. CASE \E k \in Keys : RecordSeen(d, k)  BY <1>10, RecordSeenKeeps
<1>11. CASE \E k \in Keys, l \in Labels : ObserveName(d, k, l)  BY <1>11, ObserveNameKeeps
<1>12. CASE \E k \in Keys : AcceptName(d, k)  BY <1>12, AcceptNameKeeps
<1>13. CASE \E l \in Labels \cup {Blank} : SetMyName(d, l)  BY <1>13, SetMyNameKeeps
<1>14. CASE \E l \in Labels : RenameThisDevice(d, l)  BY <1>14, RenameThisDeviceKeeps
<1>15. CASE \E e \in Devices : ForgetDevice(d, e)  BY <1>15, ForgetDeviceKeeps
<1> QED  BY <1>1, <1>2, <1>3, <1>4, <1>5, <1>6, <1>7, <1>8, <1>9, <1>10, <1>11, <1>12, <1>13, <1>14, <1>15 DEF Edit

LEMMA BookNextKeeps ==
    ASSUME BookInv, BookNext
    PROVE  Kept
<1>1. CASE \E d \in Devices : Edit(d)  BY <1>1, EditStepKeeps
<1>2. CASE \E d \in Devices : PairHost(d) \/ PairJoin(d)  BY <1>2, PairHostKeeps, PairJoinKeeps
<1>3. CASE \E d \in Devices : RoundStep(d)
  <2>1. TRUE \in BOOLEAN  OBVIOUS
  <2> QED  BY <1>3, <2>1, PullRoundKeeps, ResumeRoundKeeps, PublishRoundKeeps DEF RoundStep
<1>4. CASE \E d \in Devices : Fault(d)
  <2>1. FALSE \in BOOLEAN  OBVIOUS
  <2> QED  BY <1>4, <2>1, PullPreemptedKeeps, EndRoundKeeps, PublishRoundKeeps DEF Fault
<1>5. CASE \E d \in Devices : StartSweep(d)  BY <1>5, StartSweepKeeps
<1> QED  BY <1>1, <1>2, <1>3, <1>4, <1>5 DEF BookNext

LEMMA BookStutterKeeps ==
    ASSUME BookInv, UNCHANGED bookVars
    PROVE  BookInv'
<1>1. UNCHANGED <<book, payload, member, round, slot, edits, faults>>  BY DEF bookVars
<1>2. \A c : Pool(c)' = Pool(c)  BY <1>1 DEF Pool
<1> QED  BY <1>1, <1>2 DEF BookInv, BookTypes, CountersInv, ClocksInv, OwnRowInv

LEMMA EmptyIs ==
    /\ EmptyLedger \in Ledgers /\ EmptyState \in States
    /\ \A c \in Cells : EmptyState[c].n = 0 /\ EmptyState[c].dev = 0
<1>1. ASSUME NEW c \in Cells PROVE EmptyLedger[c] \in Values(c)
  <2>1. EmptyLedger[c] = IF c = Me THEN Blank ELSE IF c.kind = "seen" THEN 0 ELSE Unset  BY DEF EmptyLedger
  <2>2. Blank \in Values(Me)  BY CellIn, ValueIs
  <2>3. c.kind # "seen" => Unset \in Values(c)  BY ValueIs
  <2>4. c.kind = "seen" => 0 \in Values(c)  BY ValueIs
  <2> QED  BY <2>1, <2>2, <2>3, <2>4
<1>2. \A c \in Cells : EmptyLedger[c] \in AnyValue  BY <1>1, ValueIs
<1>3. EmptyLedger \in Ledgers
  <2>1. EmptyLedger \in [Cells -> AnyValue]
    <3>1. EmptyLedger = [c \in Cells |-> EmptyLedger[c]]  BY DEF EmptyLedger
    <3> QED  BY <1>2, <3>1
  <2> QED  BY <1>1, <2>1, LedgerIs
<1>4. Absent = [val |-> Unset, n |-> 0, dev |-> 0, del |-> FALSE]  BY DEF Absent, Reg
<1>5. ASSUME NEW c \in Cells
      PROVE  EmptyState[c] \in RegisterOf(c) /\ EmptyState[c].n = 0 /\ EmptyState[c].dev = 0
  <2>1. EmptyState[c] = IF c.kind = "seen" THEN [Absent EXCEPT !.val = 0] ELSE Absent  BY DEF EmptyState
  <2>2. /\ [Absent EXCEPT !.val = 0] \in [val : Nat, n : {0}, dev : {0}, del : {FALSE}]
        /\ [Absent EXCEPT !.val = 0].n = 0 /\ [Absent EXCEPT !.val = 0].dev = 0  BY DEF Absent, Reg
  <2>3. CASE c.kind = "seen"
    <3>1. RegisterOf(c) = [val : Nat, n : {0}, dev : {0}, del : {FALSE}]  BY <2>3 DEF RegisterOf
    <3> QED  BY <2>1, <2>2, <2>3, <3>1
  <2>4. CASE c.kind # "seen"  BY <1>4, <2>1, <2>4 DEF RegisterOf
  <2> QED  BY <2>3, <2>4
<1>6. EmptyState \in States
  <2>1. \A c \in Cells : EmptyState[c] \in AnyRegister  BY <1>5, RegIs
  <2>2. EmptyState = [c \in Cells |-> EmptyState[c]]  BY DEF EmptyState
  <2>3. EmptyState \in [Cells -> AnyRegister]  BY <2>1, <2>2
  <2> QED  BY <1>5, <2>3, StateIs
<1> QED  BY <1>3, <1>5, <1>6

LEMMA BookInitInv ==
    ASSUME BookInit
    PROVE  BookInv
<1>1. /\ book = [d \in Devices |-> Book0(OldName[d])] /\ member = {Host} /\ payload = Unset
      /\ round = [d \in Devices |-> Idle] /\ slot = OldNotes /\ edits = 0 /\ faults = 0  BY DEF BookInit
<1>2. /\ OldName \in [Devices -> Labels \cup {Blank}] /\ OldNotes \in Seq(Notes)
      /\ \A i \in 1 .. Len(OldNotes) : \A c \in Cells : OldNotes[i].snap.state[c].dev = 0  BY OldAssumption
<1>3. ASSUME NEW d \in Devices
      PROVE  book[d] \in Books /\ book[d].state = EmptyState /\ book[d].lamport = 0
  <2>1. book[d] = Book0(OldName[d])  BY <1>1
  <2>2. [k \in Keys |-> Unset] \in [Keys -> Labels \cup {Unset}]  OBVIOUS
  <2>3. OldName[d] \in Labels \cup {Blank}  BY <1>2
  <2> QED  BY <2>1, <2>2, <2>3, EmptyIs DEF Book0, Books
<1>4. BookTypes
  <2>1. book \in [Devices -> Books]  BY <1>1, <1>3
  <2>2. \A d \in Devices : round[d] = Idle  BY <1>1
  <2>3. round \in [Devices -> Rounds]  BY <1>1, IdleFacts
  <2>4. edits \in Nat /\ faults \in Nat /\ edits + faults <= MaxEvents  BY <1>1, BookAssumption
  <2>5. member \subseteq Devices  BY <1>1, BookAssumption
  <2>6. \A d \in Devices : round[d].pc = "project" => round[d].mem \in States  BY <2>2, IdleFacts
  <2> QED  BY <1>1, <1>2, <2>1, <2>3, <2>4, <2>5, <2>6 DEF BookTypes
<1>5. ASSUME NEW c \in Clocked, NEW r \in Pool(c)
      PROVE  /\ r \in RegisterOf(c) /\ r.dev = 0
             /\ r = Absent \/ \E i \in 1 .. Len(OldNotes) : r = OldNotes[i].snap.state[c]
  <2>1. c \in Cells /\ c.kind # "seen"  BY DEF Clocked
  <2>2. /\ r \in RegisterOf(c)
        /\ \/ \E d \in Devices : r = book[d].state[c]
           \/ \E i \in 1 .. Len(slot) : r = slot[i].snap.state[c]
           \/ payload # Unset /\ r = payload.state[c]
           \/ \E d \in Devices : \E i \in 1 .. Len(round[d].rest) : r = round[d].rest[i].snap.state[c]
    BY DEF Pool
  <2>3. \A d \in Devices : Len(round[d].rest) = 0  BY <1>1, IdleFacts
  <2>4. CASE \E d \in Devices : r = book[d].state[c]
    <3>1. r = EmptyState[c]  BY <1>3, <2>4
    <3>2. r.n = 0 /\ r.dev = 0  BY <2>1, <3>1, EmptyIs
    <3>3. r = Absent  BY <2>1, <2>2, <3>2, RegIs
    <3> QED  BY <2>2, <3>2, <3>3
  <2>5. CASE \E i \in 1 .. Len(slot) : r = slot[i].snap.state[c]  BY <1>1, <1>2, <2>1, <2>2, <2>5
  <2> QED  BY <1>1, <2>2, <2>3, <2>4, <2>5
<1>6. 0 \notin Devices  BY BookAssumption
<1>7. CountersInv
  <2>1. \A d \in Devices : \A c \in Cells : book[d].state[c].n <= book[d].lamport  BY <1>3, EmptyIs
  <2> QED  BY <1>5, <1>6, <2>1 DEF CountersInv
<1>8. ClocksInv
  <2> SUFFICES ASSUME NEW c \in Clocked, NEW r \in Pool(c), NEW s \in Pool(c), r.n = s.n, r.dev = s.dev PROVE r = s
    BY DEF ClocksInv
  <2>1. c \in Cells /\ c.kind # "seen"  BY DEF Clocked
  <2>2. CASE r.n = 0  BY <1>5, <2>1, <2>2, RegIs
  <2>3. CASE r.n # 0
    <3>1. r # Absent /\ s # Absent  BY <2>3 DEF Absent, Reg
    <3>2. PICK i \in 1 .. Len(OldNotes) : r = OldNotes[i].snap.state[c]  BY <1>5, <3>1
    <3>3. PICK j \in 1 .. Len(OldNotes) : s = OldNotes[j].snap.state[c]  BY <1>5, <3>1
    <3>4. OldNotes[i].snap.state[c].n = OldNotes[j].snap.state[c].n
            => OldNotes[i].snap.state[c] = OldNotes[j].snap.state[c]  BY <2>1, OldAssumption
    <3> QED  BY <3>2, <3>3, <3>4
  <2> QED  BY <2>2, <2>3
<1>9. OwnRowInv
  <2>1. \A d \in Devices : Cell("device", d) \in Clocked  BY CellIn DEF Clocked
  <2> QED  BY <1>5, <1>6, <2>1 DEF OwnRowInv
<1> QED  BY <1>4, <1>7, <1>8, <1>9 DEF BookInv

\* What the registers, counters and ledgers are, and that a clock names one write.
LEMMA InvMeansAgree ==
    ASSUME BookInv
    PROVE  RegistersAgree
<1>1. BookTypeOK
  <2>1. ASSUME NEW d \in Devices, NEW c \in Cells
        PROVE  /\ book[d].state[c].n \in 0 .. book[d].lamport /\ book[d].state[c].dev \in Devices \cup {0}
               /\ c.kind \in MarkKinds => book[d].ledger[c] \in {Unset, On}
               /\ c.kind = "contact" => book[d].ledger[c] \in Keys \cup {Unset}
               /\ c.kind = "seen" => book[d].ledger[c] \in Nat
    <3>1. book[d] \in Books  BY LedgerNow
    <3>2. /\ book[d].lamport \in Nat /\ book[d].state[c] \in RegisterOf(c) /\ book[d].ledger[c] \in Values(c)
      BY <3>1, BookIs
    <3>3. book[d].state[c].n \in Nat /\ book[d].state[c].dev \in Devices \cup {0}  BY <3>2, RegIs
    <3>4. book[d].state[c].n <= book[d].lamport  BY DEF BookInv, CountersInv
    <3> QED  BY <3>2, <3>3, <3>4, ValueIs
  <2>2. \A d \in Devices : round[d].pc \in {"idle", "project", "push"}  BY DEF BookInv, BookTypes, Rounds
  <2> QED  BY <2>1, <2>2 DEF BookTypeOK, BookInv, BookTypes
<1>2. OneValuePerClock
  <2> SUFFICES ASSUME NEW c \in Cells, c.kind # "seen", NEW r \in Registers(c), NEW s \in Registers(c),
                      r.n = s.n, r.dev = s.dev
               PROVE  r = s
    BY DEF OneValuePerClock
  <2>1. c \in Clocked  BY DEF Clocked
  <2>2. BookTypes  BY DEF BookInv
  <2>3. \A d \in Devices : book[d].state[c] \in Pool(c)
    <3>1. \A d \in Devices : book[d].state[c] \in RegisterOf(c)  BY LedgerNow, BookIs
    <3> QED  BY <3>1 DEF Pool
  <2>4. \A i \in 1 .. Len(slot) : slot[i].snap.state[c] \in Pool(c)  BY <2>1, <2>2, PoolHas
  <2>5. r \in Pool(c) /\ s \in Pool(c)  BY <2>3, <2>4 DEF Registers
  <2> QED  BY <2>1, <2>5 DEF BookInv, ClocksInv
<1> QED  BY <1>1, <1>2 DEF RegistersAgree

\* Counters, clocks and a machine's own row stay as BookInv has them, whatever the
\* order in which build_local_snapshot, apply_merged_state and sync_round run on the
\* machines, and wherever a round is preempted, cut off or fails.
THEOREM BookIsSound == BookSpec => []BookInv
<1>1. BookInit => BookInv  BY BookInitInv
<1>2. BookInv /\ [BookNext]_bookVars => BookInv'  BY BookNextKeeps, BookStutterKeeps DEF Kept
<1> QED  BY <1>1, <1>2, PTL DEF BookSpec

\* Two registers with the same clock (counter, device) are the same write, on whichever
\* machines and in whichever notes they are: SyncState::merge, which lets the higher
\* clock win, never has to choose between two values of one clock.
THEOREM ClocksNameOneWrite == BookSpec => []RegistersAgree
<1>1. BookInv => RegistersAgree  BY InvMeansAgree
<1> QED  BY <1>1, BookIsSound, PTL

\* No step of the code brings back an older register on a machine, and a machine that
\* has learnt that it was retired does not announce itself again
\* (SyncState::merge, register_this_device).
THEOREM BooksMoveForward == BookSpec => MovesForward
<1>1. BookInv /\ [BookNext]_bookVars => [RegistersAdvance /\ RetirementSticks]_bookVars  BY BookNextKeeps DEF Kept
<1> QED  BY <1>1, BookIsSound, PTL DEF BookSpec, MovesForward

-----------------------------------------------------------------------------
(* The last word: one cell of a book.                                      *)

\* The ledger and the register of a cell disagree: the next fold stamps it.
Off(b, c) ==
    IF c = Me THEN MustStampMe(b)
    ELSE IF b.ledger[c] = Unset THEN Alive(b.state[c])
    ELSE ~(Alive(b.state[c]) /\ b.state[c].val = b.ledger[c])

LEMMA TrackedIs ==
    ASSUME NEW c \in Tracked
    PROVE  c \in Cells /\ c \in Clocked /\ c.kind # "seen" /\ c.kind # "device"
  BY DEF Tracked, Clocked

LEMMA MeIsTracked == Me \in Tracked
  BY CellIn DEF Tracked

LEMMA OffIs ==
    ASSUME NEW d, NEW b, NEW c \in Tracked
    PROVE  c \in Stamped(d, b) <=> Off(b, c)
<1>1. c \in Cells /\ c.kind # "seen" /\ c.kind # "device"  BY TrackedIs
<1>2. CASE c = Me
  <2>1. c \in Added(d, b) <=> MustStampMe(b)  BY <1>1, <1>2 DEF Added
  <2>2. c \notin Removed(b)  BY <1>2 DEF Removed
  <2> QED  BY <1>2, <2>1, <2>2 DEF Stamped, Off
<1>3. CASE c # Me
  <2>1. c \in Added(d, b) <=> b.ledger[c] # Unset /\ ~(Alive(b.state[c]) /\ b.state[c].val = b.ledger[c])
    BY <1>1, <1>3 DEF Added
  <2>2. c \in Removed(b) <=> b.ledger[c] = Unset /\ Alive(b.state[c])  BY <1>1, <1>3 DEF Removed
  <2> QED  BY <1>3, <2>1, <2>2 DEF Stamped, Off
<1> QED  BY <1>2, <1>3

\* It depends on the cell alone, and for the display name on what config.toml has.
LEMMA OffSame ==
    ASSUME NEW b, NEW x, NEW c, b.ledger[c] = x.ledger[c], b.state[c] = x.state[c],
           c = Me => b.legacy = x.legacy
    PROVE  Off(b, c) <=> Off(x, c)
<1>1. CASE c # Me  BY <1>1 DEF Off
<1>2. CASE c = Me
  <2>1. Adopts(b) <=> Adopts(x)  BY <1>2 DEF Adopts
  <2>2. MyName(b) = MyName(x)  BY <1>2, <2>1 DEF MyName
  <2> QED  BY <1>2, <2>2 DEF Off, MustStampMe
<1> QED  BY <1>1, <1>2

\* A display name in agreement with its register is not about to be adopted.
LEMMA OffAdopts ==
    ASSUME NEW b, ~Off(b, Me)
    PROVE  ~Adopts(b)
  BY DEF Off, MustStampMe, Adopts, MyName

Valued(c, r) == c # Me /\ Alive(r) => r.val # Unset

\* What a fold makes of a cell: register and ledger agree after it.
LEMMA FoldCell ==
    ASSUME NEW d \in Devices, NEW b \in Books, NEW c \in Tracked
    PROVE  LET f == Fold(d, b) IN
           /\ ~Off(f, c)
           /\ ~Off(b, c) => /\ f.state[c] = b.state[c] /\ f.ledger[c] = b.ledger[c]
                            /\ c = Me => f.legacy = b.legacy
           /\ ~(c = Me /\ Adopts(b)) => f.ledger[c] = b.ledger[c]
           /\ ~(c = Me /\ Adopts(f))
           /\ Off(b, c) => f.state[c].n > b.lamport
           /\ Valued(c, b.state[c]) => Valued(c, f.state[c])
<1> DEFINE f == Fold(d, b)
           S == Stamped(d, b)
<1>1. /\ f \in Books /\ f.ledger = Said(d, b)
      /\ \A x \in S : /\ f.state[x].dev = d /\ f.state[x].n > b.lamport /\ f.state[x].n <= f.lamport
                      /\ f.state[x].del <=> x \in Removed(b)
                      /\ x \notin Removed(b) => f.state[x].val = Said(d, b)[x]
      /\ \A x \in Cells \ S : x.kind # "seen" => f.state[x] = b.state[x]  BY FoldIs
<1>2. f.legacy = IF Adopts(b) THEN Blank ELSE b.legacy  BY FoldIs
<1>3. c \in Cells /\ c.kind # "seen" /\ c.kind # "device" /\ c # Cell("device", d)  BY TrackedIs, CellIn
<1>4. Said(d, b)[c] = IF c = Me THEN MyName(b) ELSE b.ledger[c]  BY <1>3, SaidIs
<1>5. c \in S <=> Off(b, c)  BY OffIs
<1>6. b.lamport \in Nat /\ b.state[c].n \in Nat /\ f.state[c].n \in Nat  BY <1>1, <1>3, BookIs
<1> HIDE DEF f, S
<1>7. CASE ~Off(b, c)
  <2>1. f.state[c] = b.state[c]  BY <1>1, <1>3, <1>5, <1>7
  <2>2. c = Me => ~Adopts(b)  BY <1>7, OffAdopts
  <2>3. f.ledger[c] = b.ledger[c]  BY <1>1, <1>4, <2>2 DEF MyName
  <2>4. c = Me => f.legacy = b.legacy  BY <1>2, <2>2
  <2>5. ~Off(f, c)  BY <1>7, <2>1, <2>3, <2>4, OffSame
  <2>6. c = Me => ~Adopts(f)  BY <2>5, OffAdopts
  <2> QED  BY <1>7, <2>1, <2>3, <2>4, <2>5, <2>6 DEF f, Valued
<1>8. CASE Off(b, c) /\ c = Me
  <2>1. c \notin Removed(b)  BY <1>8 DEF Removed
  <2>2. f.state[c].n > b.lamport /\ f.state[c].val = f.ledger[c]  BY <1>1, <1>5, <1>8, <2>1
  <2>3. f.state[c].n > 0  BY <1>6, <2>2
  <2>4. ~Off(f, c) /\ ~Adopts(f)  BY <1>6, <1>8, <2>2, <2>3 DEF Off, MustStampMe, Adopts
  <2>5. ~Adopts(b) => f.ledger[c] = b.ledger[c]  BY <1>1, <1>4, <1>8 DEF MyName
  <2> QED  BY <1>8, <2>2, <2>4, <2>5 DEF f, Valued
<1>9. CASE Off(b, c) /\ c # Me
  <2>1. f.ledger[c] = b.ledger[c]  BY <1>1, <1>4, <1>9
  <2>2. f.state[c].n > b.lamport /\ f.state[c].n > 0  BY <1>1, <1>5, <1>6, <1>9
  <2>3. c \in Removed(b) <=> b.ledger[c] = Unset
    <3>1. CASE b.ledger[c] = Unset  BY <1>3, <1>9, <3>1 DEF Off, Removed
    <3>2. CASE b.ledger[c] # Unset  BY <3>2 DEF Removed
    <3> QED  BY <3>1, <3>2
  <2>4. CASE b.ledger[c] = Unset
    <3>1. ~Alive(f.state[c])  BY <1>1, <1>5, <1>9, <2>3, <2>4 DEF Alive
    <3> QED  BY <1>9, <2>1, <2>2, <2>4, <3>1 DEF Off, f, Valued
  <2>5. CASE b.ledger[c] # Unset
    <3>1. Alive(f.state[c])  BY <1>1, <1>5, <1>9, <2>2, <2>3, <2>5 DEF Alive
    <3>2. f.state[c].val = b.ledger[c]  BY <1>1, <1>5, <1>9, <2>1, <2>3, <2>5
    <3> QED  BY <1>9, <2>1, <2>2, <2>5, <3>1, <3>2 DEF Off, f, Valued
  <2> QED  BY <2>4, <2>5
<1> QED  BY <1>7, <1>8, <1>9

\* What a snapshot says of a cell to a machine that merges it.
Heard(snap, c) == FromSnapshot(DecodeSnapshot(snap))[c]

SoundBooks == {x \in Books : \A c \in Cells : x.state[c].n <= x.lamport}

\* What a merge makes of a cell.
LEMMA MergeInCell ==
    ASSUME NEW d \in Devices, NEW x \in SoundBooks, NEW snap \in Snapshots, NEW c \in Tracked
    PROVE  LET f == Fold(d, x)
               m == MergeIn(d, x, snap)
               r == Heard(snap, c)
           IN  /\ m \in SoundBooks /\ r \in RegisterOf(c)
               /\ m.ledger[c] = f.ledger[c] /\ m.legacy = f.legacy
               /\ m.state[c] \in {f.state[c], r}
               /\ ~Newer(f.state[c], m.state[c]) /\ ~Newer(r, m.state[c])
               /\ ~Newer(x.state[c], m.state[c])
               /\ Valued(c, x.state[c]) /\ Valued(c, r) => Valued(c, m.state[c])
<1> DEFINE f == Fold(d, x)
           m == MergeIn(d, x, snap)
           o == FromSnapshot(DecodeSnapshot(snap))
           r == Heard(snap, c)
<1>1. c \in Cells /\ c.kind # "seen" /\ c.kind # "device"  BY TrackedIs
<1>2. x \in Books /\ x.state[c].n <= x.lamport  BY <1>1 DEF SoundBooks
<1>3. /\ f \in Books /\ m \in Books /\ m.state = Merge(f.state, o) /\ m.ledger = f.ledger /\ m.legacy = f.legacy
      /\ \A y \in Cells : m.state[y].n <= m.lamport  BY <1>2, MergeInIs
<1>4. o \in States /\ f.state \in States  BY <1>3, DecodeIs, BookIs
<1>5. r = o[c]  BY DEF Heard
<1>6. Off(x, c) => f.state[c].n > x.lamport  BY <1>2, FoldCell
<1>7. ~Off(x, c) => f.state[c] = x.state[c]  BY <1>2, FoldCell
<1>8. Valued(c, x.state[c]) => Valued(c, f.state[c])  BY <1>2, FoldCell
<1> HIDE DEF f, m, o, r
<1>9. /\ x.state[c].n \in Nat /\ x.state[c].dev \in Nat /\ x.lamport \in Nat
      /\ f.state[c].n \in Nat /\ f.state[c].dev \in Nat
      /\ m.state[c].n \in Nat /\ m.state[c].dev \in Nat  BY <1>1, <1>2, <1>3, BookIs
<1>10. m.state[c] \in {f.state[c], r} /\ ~Newer(f.state[c], m.state[c]) /\ ~Newer(r, m.state[c])
  BY <1>1, <1>3, <1>4, <1>5, MergeIs
<1>11. ~Newer(x.state[c], f.state[c])  BY <1>2, <1>6, <1>7, <1>9 DEF Newer
<1>12. ~Newer(x.state[c], m.state[c])  BY <1>9, <1>10, <1>11, NotNewerTrans
<1>13. r \in RegisterOf(c)  BY <1>1, <1>4, <1>5, StateIs
<1>14. m \in SoundBooks  BY <1>3 DEF SoundBooks
<1>15. Valued(c, x.state[c]) /\ Valued(c, r) => Valued(c, m.state[c])  BY <1>8, <1>10
<1> QED  BY <1>3, <1>10, <1>12, <1>13, <1>14, <1>15 DEF f, m, r

\* A projection brings ledger and register together.
LEMMA ProjectCell ==
    ASSUME NEW b \in Books, NEW c \in Tracked, Valued(c, b.state[c]),
           c = Me /\ b.state[c].n = 0 => ~Off(b, c)
    PROVE  /\ ~Off(Project(b, b.state), c)
           /\ ~Off(b, c) => Project(b, b.state).ledger[c] = b.ledger[c]
<1> DEFINE p == Project(b, b.state)
           r == b.state[c]
<1>1. c \in Cells /\ c.kind # "seen"  BY TrackedIs
<1>2. b.state \in States /\ r.n \in Nat  BY <1>1, BookIs
<1>3. /\ p.state[c] = r /\ p.legacy = b.legacy
      /\ p.ledger[c] = IF c = Me THEN (IF r.n > 0 THEN r.val ELSE b.ledger[c])
                       ELSE IF Alive(r) THEN r.val ELSE Unset
  BY <1>1, <1>2, ProjectIs
<1> HIDE DEF p
<1>4. CASE c # Me
  <2>1. Alive(r) => r.val # Unset  BY <1>4 DEF Valued
  <2> QED  BY <1>3, <1>4, <2>1 DEF Off, p
<1>5. CASE c = Me /\ r.n > 0  BY <1>3, <1>5 DEF Off, MustStampMe, p
<1>6. CASE c = Me /\ r.n = 0
  <2>1. ~Off(b, c) /\ p.ledger[c] = b.ledger[c]  BY <1>3, <1>6
  <2>2. ~Off(p, c)  BY <1>3, <2>1, OffSame
  <2> QED  BY <2>1, <2>2 DEF p
<1> QED  BY <1>2, <1>4, <1>5, <1>6

\* All of apply_merged_state, on a cell.
LEMMA ApplyMergedCell ==
    ASSUME NEW d \in Devices, NEW x \in SoundBooks, NEW snap \in Snapshots, NEW c \in Tracked,
           Valued(c, x.state[c]), Valued(c, Heard(snap, c))
    PROVE  LET y == ApplyMerged(d, x, snap)
               m == MergeIn(d, x, snap)
           IN  /\ y \in SoundBooks /\ y.state = m.state /\ y.legacy = m.legacy
               /\ Valued(c, y.state[c]) /\ ~Off(y, c)
               /\ ~Newer(x.state[c], y.state[c]) /\ ~Newer(Heard(snap, c), y.state[c])
               /\ ~Off(x, c) => y.state[c] \in {x.state[c], Heard(snap, c)}
               /\ ~Off(m, c) => y.ledger[c] = m.ledger[c]
<1> DEFINE f == Fold(d, x)
           m == MergeIn(d, x, snap)
           y == ApplyMerged(d, x, snap)
           r == Heard(snap, c)
<1>1. c \in Cells /\ x \in Books /\ r \in RegisterOf(c)  BY TrackedIs, MergeInCell DEF SoundBooks
<1>2. /\ m \in SoundBooks /\ m.ledger[c] = f.ledger[c] /\ m.legacy = f.legacy
      /\ m.state[c] \in {f.state[c], r} /\ ~Newer(f.state[c], m.state[c]) /\ ~Newer(r, m.state[c])
      /\ ~Newer(x.state[c], m.state[c]) /\ Valued(c, m.state[c])  BY MergeInCell
<1>3. y = Project(m, m.state)  BY DEF ApplyMerged
<1>4. ~Off(f, c) /\ (~Off(x, c) => f.state[c] = x.state[c]) /\ f \in Books  BY <1>1, FoldCell, FoldIs
<1> HIDE DEF f, m, y, r
<1>5. m \in Books /\ m.state \in States  BY <1>2, BookIs DEF SoundBooks
<1>6. y \in Books /\ y.state = m.state /\ y.legacy = m.legacy /\ y.lamport = m.lamport  BY <1>3, <1>5, ProjectIs
<1>7. y \in SoundBooks  BY <1>2, <1>6 DEF SoundBooks
<1>8. c = Me /\ m.state[c].n = 0 => ~Off(m, c)
  <2> SUFFICES ASSUME c = Me, m.state[c].n = 0 PROVE ~Off(m, c)  OBVIOUS
  <2>1. c.kind # "seen"  BY TrackedIs
  <2>2. m.state[c] \in RegisterOf(c) /\ f.state[c] \in RegisterOf(c)  BY <1>1, <1>4, <1>5, BookIs
  <2>3. m.state[c] = Absent  BY <1>1, <2>1, <2>2, RegIs
  <2>4. f.state[c].n \in Nat  BY <1>1, <2>2, RegIs
  <2>5. f.state[c].n = 0  BY <1>2, <2>4 DEF Newer
  <2>6. f.state[c] = Absent  BY <1>1, <2>1, <2>2, <2>5, RegIs
  <2> QED  BY <1>2, <1>4, <2>3, <2>6, OffSame
<1>9. ~Off(y, c) /\ (~Off(m, c) => y.ledger[c] = m.ledger[c])  BY <1>2, <1>3, <1>5, <1>8, ProjectCell
<1>10. ~Off(x, c) => y.state[c] \in {x.state[c], r}  BY <1>2, <1>4, <1>6
<1> QED  BY <1>2, <1>6, <1>7, <1>9, <1>10 DEF y, m, r

\* x says w of the cell, under a clock that beats the registers in Q.
Holds(x, c, w, Q) ==
    /\ x \in SoundBooks /\ x.ledger[c] = w /\ ~(c = Me /\ Adopts(x)) /\ Valued(c, x.state[c])
    /\ \A q \in Q : Newer(x.state[c], q) \/ q = x.state[c]

\* In x ledger and register agree, and the register is r or one in Q.
Quiet(x, c, r, Q) ==
    x \in SoundBooks /\ ~Off(x, c) /\ Valued(c, x.state[c]) /\ x.state[c] \in Q \cup {r}

Told(c, Q) == \A q \in Q : q \in RegisterOf(c) /\ Valued(c, q)

\* A fold keeps counters ahead of clocks.
LEMMA FoldSound ==
    ASSUME NEW d \in Devices, NEW x \in SoundBooks
    PROVE  Fold(d, x) \in SoundBooks
<1> DEFINE f == Fold(d, x)
           S == Stamped(d, x)
<1>1. x \in Books /\ \A c \in Cells : x.state[c].n <= x.lamport  BY DEF SoundBooks
<1>2. /\ f \in Books /\ x.lamport <= f.lamport
      /\ \A c \in S : f.state[c].n <= f.lamport
      /\ \A c \in Cells \ S : c.kind # "seen" => f.state[c] = x.state[c]  BY <1>1, FoldIs
<1>3. x.lamport \in Nat /\ f.lamport \in Nat /\ \A c \in Cells : x.state[c].n \in Nat /\ f.state[c] \in RegisterOf(c)
  BY <1>1, <1>2, BookIs
<1>4. \A c \in Cells : c.kind = "seen" => f.state[c].n = 0  BY <1>3, RegIs
<1> HIDE DEF f, S
<1>5. ASSUME NEW c \in Cells PROVE f.state[c].n <= f.lamport
  <2>1. CASE c \in S  BY <1>2, <2>1
  <2>2. CASE c.kind = "seen"  BY <1>3, <1>4, <2>2
  <2>3. CASE c \notin S /\ c.kind # "seen"  BY <1>1, <1>2, <1>3, <2>3
  <2> QED  BY <2>1, <2>2, <2>3
<1>6. f \in SoundBooks  BY <1>2, <1>5 DEF SoundBooks
<1> QED  BY <1>6 DEF f

\* A fold leaves the word standing.
LEMMA FoldHolds ==
    ASSUME NEW d \in Devices, NEW c \in Tracked, NEW w, NEW Q, Told(c, Q), NEW x, Holds(x, c, w, Q)
    PROVE  Holds(Fold(d, x), c, w, Q) /\ ~Off(Fold(d, x), c)
<1> DEFINE f == Fold(d, x)
<1>1. c \in Cells /\ x \in Books /\ x.state[c].n <= x.lamport  BY TrackedIs DEF Holds, SoundBooks
<1>2. /\ ~Off(f, c) /\ (~Off(x, c) => f.state[c] = x.state[c])
      /\ ~(c = Me /\ Adopts(x)) => f.ledger[c] = x.ledger[c]
      /\ ~(c = Me /\ Adopts(f)) /\ (Off(x, c) => f.state[c].n > x.lamport)
      /\ Valued(c, x.state[c]) => Valued(c, f.state[c])  BY <1>1, FoldCell
<1>3. f \in SoundBooks  BY <1>1, FoldSound DEF Holds
<1>4. f \in Books  BY <1>3 DEF SoundBooks
<1> HIDE DEF f
<1>5. x.state[c].n \in Nat /\ x.lamport \in Nat /\ f.state[c].n \in Nat  BY <1>1, <1>4, BookIs
<1>6. ASSUME NEW q \in Q PROVE Newer(f.state[c], q) \/ q = f.state[c]
  <2>1. q.n \in Nat /\ q.dev \in Nat  BY <1>1, RegIs DEF Told
  <2>2. Newer(x.state[c], q) \/ q = x.state[c]  BY DEF Holds
  <2>3. CASE ~Off(x, c)  BY <1>2, <2>2, <2>3
  <2>4. CASE Off(x, c)
    <3>1. q.n <= x.state[c].n  BY <1>5, <2>1, <2>2 DEF Newer
    <3> QED  BY <1>1, <1>2, <1>5, <2>1, <2>4, <3>1 DEF Newer
  <2> QED  BY <2>3, <2>4
<1>7. Holds(f, c, w, Q)  BY <1>2, <1>3, <1>6 DEF Holds
<1> QED  BY <1>2, <1>7 DEF f

\* ... and so does a merge.
LEMMA MergeHolds ==
    ASSUME NEW d \in Devices, NEW c \in Tracked, NEW w, NEW Q, Told(c, Q), NEW x, Holds(x, c, w, Q),
           NEW snap \in Snapshots, Heard(snap, c) \in Q
    PROVE  /\ Holds(MergeIn(d, x, snap), c, w, Q) /\ ~Off(MergeIn(d, x, snap), c)
           /\ Holds(ApplyMerged(d, x, snap), c, w, Q)
<1> DEFINE f == Fold(d, x)
           m == MergeIn(d, x, snap)
           y == ApplyMerged(d, x, snap)
           r == Heard(snap, c)
<1>1. x \in SoundBooks /\ Valued(c, x.state[c]) /\ Valued(c, r) /\ r \in RegisterOf(c)  BY DEF Holds, Told
<1>2. Holds(f, c, w, Q) /\ ~Off(f, c)  BY FoldHolds
<1>3. /\ m \in SoundBooks /\ m.ledger[c] = f.ledger[c] /\ m.legacy = f.legacy
      /\ m.state[c] \in {f.state[c], r} /\ ~Newer(f.state[c], m.state[c])
      /\ Valued(c, m.state[c])  BY <1>1, MergeInCell
<1>4. /\ y \in SoundBooks /\ y.state = m.state /\ y.legacy = m.legacy
      /\ Valued(c, y.state[c]) /\ ~Off(y, c) /\ (~Off(m, c) => y.ledger[c] = m.ledger[c])
  BY <1>1, ApplyMergedCell
<1>5. r \in Q  OBVIOUS
<1> HIDE DEF f, m, y, r
<1>6. m.state[c] = f.state[c]  BY <1>2, <1>3, <1>5 DEF Holds
<1>7. ~Off(m, c)  BY <1>2, <1>3, <1>6, OffSame
<1>8. ~(c = Me /\ Adopts(m)) /\ ~(c = Me /\ Adopts(y))  BY <1>4, <1>7, OffAdopts
<1>9. Holds(m, c, w, Q)  BY <1>2, <1>3, <1>6, <1>8 DEF Holds
<1>10. Holds(y, c, w, Q)  BY <1>4, <1>7, <1>8, <1>9 DEF Holds
<1> QED  BY <1>7, <1>9, <1>10 DEF m, y

\* A machine that agrees with itself still does after a merge.
LEMMA MergeQuiet ==
    ASSUME NEW d \in Devices, NEW c \in Tracked, NEW r, NEW Q, Told(c, Q), NEW x, Quiet(x, c, r, Q),
           NEW snap \in Snapshots, Heard(snap, c) \in Q
    PROVE  Quiet(ApplyMerged(d, x, snap), c, r, Q)
<1> DEFINE y == ApplyMerged(d, x, snap)
<1>1. x \in SoundBooks /\ Valued(c, x.state[c]) /\ Valued(c, Heard(snap, c)) /\ ~Off(x, c)  BY DEF Quiet, Told
<1>2. y \in SoundBooks /\ Valued(c, y.state[c]) /\ ~Off(y, c) /\ y.state[c] \in {x.state[c], Heard(snap, c)}
  BY <1>1, ApplyMergedCell
<1> HIDE DEF y
<1>3. y.state[c] \in Q \cup {r}  BY <1>2 DEF Quiet
<1> QED  BY <1>2, <1>3 DEF Quiet, y

-----------------------------------------------------------------------------
(* ... and through a sequence of notes.                                    *)

\* What every note keeps, all of them keep.
LEMMA ApplyAllIn ==
    ASSUME NEW d, NEW G, NEW x \in G, NEW notes \in Seq(Notes),
           \A i \in 1 .. Len(notes) : notes[i].ok => \A y \in G : ApplyMerged(d, y, notes[i].snap) \in G
    PROVE  ApplyAll(d, x, notes) \in G
<1> DEFINE n == Len(notes)
<1>1. n \in Nat  OBVIOUS
<1>2. PICK f : /\ f[0] = x /\ ApplyAll(d, x, notes) = f[n]
               /\ \A i \in 1 .. n : f[i] = ApplyNote(d, f[i - 1], notes[i])  BY SMTT(30), <1>1, ApplyAllIs
<1> DEFINE T == {i \in Nat : i <= n /\ f[i] \notin G}
<1> SUFFICES ASSUME T # {} PROVE FALSE  BY <1>1, <1>2
<1>3. PICK m \in T : \A k \in T : m <= k  BY Least
<1>4. m # 0  BY <1>2, <1>3
<1>5. m \in 1 .. n /\ m - 1 \in Nat /\ ~(m <= m - 1) /\ m - 1 <= n  BY <1>1, <1>3, <1>4
<1>6. f[m - 1] \in G  BY <1>3, <1>5
<1>7. ApplyNote(d, f[m - 1], notes[m]) \in G  BY <1>5, <1>6 DEF ApplyNote, Opens
<1> QED  BY <1>2, <1>3, <1>5, <1>7

LEMMA NoteIs ==
    ASSUME NEW notes \in Seq(Notes), NEW i \in 1 .. Len(notes)
    PROVE  /\ notes[i] \in Notes /\ notes[i].snap \in Snapshots /\ notes[i].ok \in BOOLEAN
           /\ notes[i].by \in SUBSET Devices
<1>1. notes[i] \in Notes  BY ElementOfSeq
<1> QED  BY <1>1 DEF Notes

\* The holder of the last word still is after any notes that its clock beats.
LEMMA AllHold ==
    ASSUME NEW d \in Devices, NEW c \in Tracked, NEW w, NEW Q, Told(c, Q), NEW x, Holds(x, c, w, Q),
           NEW notes \in Seq(Notes),
           \A i \in 1 .. Len(notes) : notes[i].ok => Heard(notes[i].snap, c) \in Q
    PROVE  Holds(ApplyAll(d, x, notes), c, w, Q)
<1> DEFINE G == {y \in Books : Holds(y, c, w, Q)}
<1>1. \A y : Holds(y, c, w, Q) => y \in Books  BY DEF Holds, SoundBooks
<1>2. x \in G  BY <1>1
<1>3. ASSUME NEW i \in 1 .. Len(notes), notes[i].ok, NEW y \in G PROVE ApplyMerged(d, y, notes[i].snap) \in G
  <2>1. notes[i].snap \in Snapshots /\ Heard(notes[i].snap, c) \in Q  BY <1>3, NoteIs
  <2>2. Holds(ApplyMerged(d, y, notes[i].snap), c, w, Q)  BY <1>3, <2>1, MergeHolds
  <2> QED  BY <1>1, <2>2
<1> HIDE DEF G
<1>4. ApplyAll(d, x, notes) \in G  BY <1>2, <1>3, ApplyAllIn
<1> QED  BY <1>4 DEF G

\* A machine that agrees with itself still does after any notes.
LEMMA AllQuiet ==
    ASSUME NEW d \in Devices, NEW c \in Tracked, NEW r, NEW Q, Told(c, Q), NEW x, Quiet(x, c, r, Q),
           NEW notes \in Seq(Notes),
           \A i \in 1 .. Len(notes) : notes[i].ok => Heard(notes[i].snap, c) \in Q
    PROVE  Quiet(ApplyAll(d, x, notes), c, r, Q)
<1> DEFINE G == {y \in Books : Quiet(y, c, r, Q)}
<1>1. \A y : Quiet(y, c, r, Q) => y \in Books  BY DEF Quiet, SoundBooks
<1>2. x \in G  BY <1>1
<1>3. ASSUME NEW i \in 1 .. Len(notes), notes[i].ok, NEW y \in G PROVE ApplyMerged(d, y, notes[i].snap) \in G
  <2>1. notes[i].snap \in Snapshots /\ Heard(notes[i].snap, c) \in Q  BY <1>3, NoteIs
  <2>2. Quiet(ApplyMerged(d, y, notes[i].snap), c, r, Q)  BY <1>3, <2>1, MergeQuiet
  <2> QED  BY <1>1, <2>2
<1> HIDE DEF G
<1>4. ApplyAll(d, x, notes) \in G  BY <1>2, <1>3, ApplyAllIn
<1> QED  BY <1>4 DEF G

\* What has been merged is not newer than the register it was merged into.
LEMMA AllMerged ==
    ASSUME NEW d \in Devices, NEW c \in Tracked, NEW x \in SoundBooks, Valued(c, x.state[c]), NEW notes \in Seq(Notes),
           \A i \in 1 .. Len(notes) : notes[i].ok => Valued(c, Heard(notes[i].snap, c))
    PROVE  LET z == ApplyAll(d, x, notes) IN
           /\ z \in SoundBooks /\ Valued(c, z.state[c]) /\ ~Newer(x.state[c], z.state[c])
           /\ \A i \in 1 .. Len(notes) : notes[i].ok => ~Newer(Heard(notes[i].snap, c), z.state[c])
<1> DEFINE n == Len(notes)
<1>1. n \in Nat /\ c \in Cells  BY TrackedIs
<1>2. PICK f : /\ f[0] = x /\ ApplyAll(d, x, notes) = f[n]
               /\ \A i \in 1 .. n : f[i] = ApplyNote(d, f[i - 1], notes[i])  BY SMTT(30), <1>1, ApplyAllIs
<1> DEFINE Good(i) == /\ f[i] \in SoundBooks /\ Valued(c, f[i].state[c]) /\ ~Newer(x.state[c], f[i].state[c])
                      /\ \A j \in 1 .. n : j <= i /\ notes[j].ok => ~Newer(Heard(notes[j].snap, c), f[i].state[c])
           T == {i \in Nat : i <= n /\ ~Good(i)}
<1> SUFFICES ASSUME T # {} PROVE FALSE
  <2>1. T = {} => Good(n)  BY <1>1
  <2> QED  BY SMTT(30), <1>1, <1>2, <2>1
<1>3. PICK m \in T : \A k \in T : m <= k  BY Least
<1>4. \A b \in SoundBooks : b \in Books /\ b.state[c].n \in Nat /\ b.state[c].dev \in Nat  BY <1>1, BookIs DEF SoundBooks
<1>5. m # 0
  <2>1. ~Newer(x.state[c], x.state[c])  BY <1>4 DEF Newer
  <2>2. \A j \in 1 .. n : ~(j <= 0)  BY <1>1
  <2>3. Good(0)  BY <1>2, <2>1, <2>2
  <2> QED  BY <1>3, <2>3
<1>6. m \in 1 .. n /\ m - 1 \in Nat /\ ~(m <= m - 1) /\ m - 1 <= n  BY <1>1, <1>3, <1>5
<1>7. Good(m - 1)  BY <1>3, <1>6
<1> DEFINE y == f[m - 1]
           z == f[m]
<1>8. y \in SoundBooks /\ Valued(c, y.state[c]) /\ ~Newer(x.state[c], y.state[c])  BY <1>7
<1>9. \A j \in 1 .. n : j <= m - 1 /\ notes[j].ok => ~Newer(Heard(notes[j].snap, c), y.state[c])  BY <1>7
<1>10. z = IF notes[m].ok THEN ApplyMerged(d, y, notes[m].snap) ELSE y  BY <1>2, <1>6 DEF ApplyNote, Opens
<1>11. \A j \in 1 .. n : LET q == Heard(notes[j].snap, c) IN q \in RegisterOf(c) /\ q.n \in Nat /\ q.dev \in Nat
  <2> TAKE j \in 1 .. n
  <2>1. notes[j].snap \in Snapshots  BY NoteIs
  <2>2. Heard(notes[j].snap, c) \in RegisterOf(c)  BY <1>1, <2>1, DecodeIs, StateIs DEF Heard
  <2> QED  BY <1>1, <2>2, RegIs
<1> HIDE DEF y, z
<1>12. /\ z \in SoundBooks /\ Valued(c, z.state[c]) /\ ~Newer(y.state[c], z.state[c])
       /\ notes[m].ok => ~Newer(Heard(notes[m].snap, c), z.state[c])
  <2>1. CASE notes[m].ok
    <3>1. notes[m].snap \in Snapshots  BY <1>6, NoteIs
    <3> QED  BY <1>6, <1>8, <1>10, <2>1, <3>1, ApplyMergedCell
  <2>2. CASE ~notes[m].ok
    <3>1. ~Newer(y.state[c], y.state[c])  BY <1>4, <1>8 DEF Newer
    <3> QED  BY <1>8, <1>10, <2>2, <3>1
  <2> QED  BY <2>1, <2>2
<1>13. ~Newer(x.state[c], z.state[c])  BY <1>4, <1>8, <1>12, NotNewerTrans
<1>14. ASSUME NEW j \in 1 .. n, j <= m, notes[j].ok PROVE ~Newer(Heard(notes[j].snap, c), z.state[c])
  <2>1. CASE j = m  BY <1>12, <1>14, <2>1
  <2>2. CASE j # m
    <3>1. j <= m - 1  BY <1>6, <1>14, <2>2
    <3>2. ~Newer(Heard(notes[j].snap, c), y.state[c])  BY <1>9, <1>14, <3>1
    <3> QED  BY <1>4, <1>8, <1>11, <1>12, <3>2, NotNewerTrans
  <2> QED  BY <2>1, <2>2
<1>15. Good(m)  BY <1>12, <1>13, <1>14 DEF z
<1> QED  BY <1>3, <1>15

-----------------------------------------------------------------------------
(* The last word: the invariant.                                           *)

\* The book of a machine once the merge it has saved is projected.
Coming(d) == IF round[d].pc = "project" THEN Project(book[d], round[d].mem) ELSE book[d]

\* What is said of a cell in notes that open, and behind a pairing code.
InFlight(c) == {q \in RegisterOf(c) :
    \/ payload # Unset /\ q = Heard(payload, c)
    \/ \E i \in 1 .. Len(slot) : slot[i].ok /\ q = Heard(slot[i].snap, c)
    \/ \E d \in Devices : \E i \in 1 .. Len(round[d].rest) :
         round[d].rest[i].ok /\ q = Heard(round[d].rest[i].snap, c)}

\* Nothing that a machine has, or may still merge, is newer than r.
IsTop(c, r) ==
    /\ \A d \in Devices : ~Newer(book[d].state[c], r)
    /\ \A q \in InFlight(c) : ~Newer(q, r)

\* Machine d has the last word of a cell: the newest register is its, and its
\* ledger says what was said; on every other machine ledger and register agree,
\* or will when a merge that is saved is projected.
WordOn(d, c) ==
    /\ IsTop(c, book[d].state[c])
    /\ book[d].ledger[c] = lastWord[c].val
    /\ round[d].pc = "project" => ~Unprojected(d, c) /\ ~Off(book[d], c)
    /\ ~(c = Me /\ Adopts(book[d]))
    /\ \A e \in Devices \ {d} : ~Off(Coming(e), c)

WordsInv == \A c \in Tracked : lastWord[c].known = "sure" => \E d \in Devices : WordOn(d, c)

\* A register that is live says something.
AllLive(s) == \A c \in Tracked : Valued(c, s[c])
LiveInv ==
    /\ \A d \in Devices : AllLive(book[d].state)
    /\ payload # Unset => AllLive(payload.state)
    /\ \A i \in 1 .. Len(slot) : AllLive(slot[i].snap.state)
    /\ \A d \in Devices : \A i \in 1 .. Len(round[d].rest) : AllLive(round[d].rest[i].snap.state)

\* A note that waits for its turn somewhere is in the slot still, or some machine
\* has merged it.
RestInv == \A e \in Devices : \A i \in 1 .. Len(round[e].rest) : round[e].rest[i].ok =>
    \A c \in Tracked :
      \/ \E f \in Devices : ~Newer(Heard(round[e].rest[i].snap, c), book[f].state[c])
      \/ \E j \in 1 .. Len(slot) : slot[j].ok /\ slot[j].snap = round[e].rest[i].snap

\* What a round has pulled it has merged, or will.
PulledInv == \A d \in Devices : \A j \in 1 .. Len(slot) : d \in slot[j].by /\ slot[j].ok =>
    \/ \A c \in Tracked : ~Newer(Heard(slot[j].snap, c), book[d].state[c])
    \/ \E i \in 1 .. Len(round[d].rest) : round[d].rest[i].ok /\ slot[j].snap = round[d].rest[i].snap

RoundInv == \A d \in Devices :
    /\ round[d].pc # "project" => round[d].rest = <<>>
    /\ round[d].pc # "idle" => d \in member

WordTypes == lastWord \in [Cells -> [known : {"sure", "raced", "contested"}, val : AnyValue]]

WordInv == BookInv /\ WordTypes /\ RoundInv /\ LiveInv /\ RestInv /\ PulledInv /\ WordsInv

\* What is heard of a snapshot is what it has, or nothing.
LEMMA HeardIs ==
    ASSUME NEW snap \in Snapshots, NEW c \in Tracked
    PROVE  /\ Heard(snap, c) \in RegisterOf(c) /\ Heard(snap, c).n \in Nat /\ Heard(snap, c).dev \in Nat
           /\ Valued(c, snap.state[c]) => Valued(c, Heard(snap, c))
           /\ \A r : r.n \in Nat /\ r.dev \in Nat /\ ~Newer(snap.state[c], r) => ~Newer(Heard(snap, c), r)
<1>1. c \in Cells  BY TrackedIs
<1>2. Heard(snap, c) = snap.state[c] \/ Heard(snap, c) = Absent  BY <1>1, DecodeIs DEF Heard
<1>3. Heard(snap, c) \in RegisterOf(c)  BY <1>1, DecodeIs, StateIs DEF Heard
<1>4. Absent.n = 0 /\ Absent.dev = 0  BY DEF Absent, Reg
<1>5. Valued(c, Absent)  BY <1>4 DEF Valued, Alive
<1>6. \A r : r.n \in Nat /\ r.dev \in Nat => ~Newer(Absent, r)  BY <1>4 DEF Newer
<1> QED  BY <1>1, <1>2, <1>3, <1>5, <1>6, RegIs

LEMMA BookNow ==
    ASSUME BookTypes, NEW d \in Devices, NEW c \in Tracked
    PROVE  /\ book[d] \in Books /\ book[d].state[c] \in RegisterOf(c)
           /\ book[d].state[c].n \in Nat /\ book[d].state[c].dev \in Nat
<1>1. book[d] \in Books /\ c \in Cells  BY TrackedIs DEF BookTypes
<1> QED  BY <1>1, BookIs

LEMMA FlightIs ==
    ASSUME NEW c \in Tracked, NEW q \in InFlight(c)
    PROVE  q \in RegisterOf(c) /\ q.n \in Nat /\ q.dev \in Nat
<1>1. q \in RegisterOf(c) /\ c \in Cells  BY TrackedIs DEF InFlight
<1> QED  BY <1>1, RegIs

\* A step of machine d, whose book becomes b, that leaves the last word standing.
LEMMA WordStands ==
    ASSUME BookTypes, BookTypes', NEW d \in Devices, NEW b, NEW c \in Tracked,
           book' = [book EXCEPT ![d] = b], \A e \in Devices \ {d} : round'[e] = round[e],
           lastWord'[c] = lastWord[c],
           \A q \in InFlight(c)' : q \in InFlight(c) \/ ~Newer(q, b.state[c]),
           ~Newer(book[d].state[c], b.state[c]),
           NEW v \in Devices, WordOn(v, c),
           v = d => /\ b.ledger[c] = lastWord[c].val /\ ~(c = Me /\ Adopts(b))
                    /\ round'[d].pc = "project" => ~Unprojected(d, c)' /\ ~Off(b, c),
           v # d => ~Newer(b.state[c], book[v].state[c]) /\ ~Off(Coming(d), c)'
    PROVE  WordOn(v, c)'
<1>1. \A e \in Devices : book'[e] = IF e = d THEN b ELSE book[e]  BY DEF BookTypes
<1>2. \A e \in Devices : /\ book[e].state[c].n \in Nat /\ book[e].state[c].dev \in Nat
                         /\ book'[e].state[c].n \in Nat /\ book'[e].state[c].dev \in Nat
  <2>1. \A e \in Devices : book'[e] \in Books /\ c \in Cells  BY TrackedIs DEF BookTypes
  <2> QED  BY <2>1, BookNow, BookIs
<1>3. \A q \in InFlight(c)' : q.n \in Nat /\ q.dev \in Nat
  <2>1. \A q \in InFlight(c)' : q \in RegisterOf(c) /\ c \in Cells  BY TrackedIs DEF InFlight
  <2> QED  BY <2>1, RegIs
<1>4. b.state[c].n \in Nat /\ b.state[c].dev \in Nat  BY <1>1, <1>2
<1> DEFINE t == book[v].state[c]
           s == book'[v].state[c]
<1>5. /\ \A e \in Devices : ~Newer(book[e].state[c], t)
      /\ \A q \in InFlight(c) : ~Newer(q, t) /\ q.n \in Nat /\ q.dev \in Nat  BY FlightIs DEF WordOn, IsTop
<1>6. s.n \in Nat /\ s.dev \in Nat /\ t.n \in Nat /\ t.dev \in Nat  BY <1>2
<1>7. ~Newer(t, s)
  <2>1. CASE v = d  BY <1>1, <2>1
  <2>2. CASE v # d
    <3>1. s = t  BY <1>1, <2>2
    <3> QED  BY <1>6, <3>1 DEF Newer
  <2> QED  BY <2>1, <2>2
<1>8. ~Newer(b.state[c], s)
  <2>1. CASE v = d
    <3>1. s = b.state[c]  BY <1>1, <2>1
    <3> QED  BY <1>6, <3>1 DEF Newer
  <2>2. CASE v # d  BY <1>1, <2>2
  <2> QED  BY <2>1, <2>2
<1>9. \A e \in Devices : ~Newer(book'[e].state[c], s)
  <2> TAKE e \in Devices
  <2>1. CASE e = d  BY <1>1, <1>8, <2>1
  <2>2. CASE e # d
    <3>1. book'[e].state[c] = book[e].state[c]  BY <1>1, <2>2
    <3> HIDE DEF s, t
    <3> QED  BY <1>2, <1>5, <1>6, <1>7, <3>1, NotNewerTrans
  <2> QED  BY <2>1, <2>2
<1>10. \A q \in InFlight(c)' : ~Newer(q, s)
  <2> TAKE q \in InFlight(c)'
  <2> HIDE DEF s, t
  <2>1. CASE q \in InFlight(c)  BY <1>5, <1>6, <1>7, <2>1, NotNewerTrans
  <2>2. CASE ~Newer(q, b.state[c])  BY <1>3, <1>4, <1>6, <1>8, <2>2, NotNewerTrans
  <2> QED  BY <2>1, <2>2
<1>11. IsTop(c, book[v].state[c])'  BY <1>9, <1>10 DEF IsTop
<1>12. book'[v].ledger[c] = lastWord'[c].val  BY <1>1 DEF WordOn
<1>13. /\ ~(c = Me /\ Adopts(book'[v]))
       /\ round'[v].pc = "project" => ~Unprojected(v, c)' /\ ~Off(book'[v], c)
  <2>1. CASE v = d  BY <1>1, <2>1
  <2>2. CASE v # d
    <3>1. book'[v] = book[v] /\ round'[v] = round[v]  BY <1>1, <2>2
    <3>2. Unprojected(v, c)' <=> Unprojected(v, c)  BY <3>1 DEF Unprojected
    <3> QED  BY <3>1, <3>2 DEF WordOn
  <2> QED  BY <2>1, <2>2
<1>14. ASSUME NEW e \in Devices \ {v} PROVE ~Off(Coming(e), c)'
  <2>1. CASE e = d  BY <2>1
  <2>2. CASE e # d
    <3>1. book'[e] = book[e] /\ round'[e] = round[e]  BY <1>1, <2>2
    <3>2. Coming(e)' = Coming(e)  BY <3>1 DEF Coming
    <3>3. ~Off(Coming(e), c)  BY DEF WordOn
    <3> QED  BY <3>2, <3>3
  <2> QED  BY <2>1, <2>2
<1> QED  BY <1>11, <1>12, <1>13, <1>14 DEF WordOn

\* An edit on machine d, all that was known to others being known to it, is the
\* last word.
LEMMA NewWord ==
    ASSUME BookTypes, BookTypes', RoundInv, RestInv, NEW d \in Devices, NEW b, NEW c \in Tracked,
           Standing(d, c) = "sure",
           book' = [book EXCEPT ![d] = b], \A e \in Devices \ {d} : round'[e] = round[e],
           round'[d].pc # "project", lastWord'[c].val = b.ledger[c],
           \A q \in InFlight(c)' : q \in InFlight(c) \/ ~Newer(q, b.state[c]),
           ~Newer(book[d].state[c], b.state[c]), ~(c = Me /\ Adopts(b))
    PROVE  WordOn(d, c)'
<1> DEFINE t == book[d].state[c]
<1>1. ~Unmerged(d, c) /\ round[d].pc # "project"  BY DEF Standing
<1>2. /\ \A e \in Devices \ {d} : c \notin Stamped(e, book[e]) /\ ~Unprojected(e, c) /\ ~Newer(book[e].state[c], t)
      /\ \A i \in 1 .. Len(slot) : ~Newer(slot[i].snap.state[c], t)
      /\ payload # Unset => ~Newer(payload.state[c], t)  BY <1>1 DEF Unmerged
<1>3. t.n \in Nat /\ t.dev \in Nat  BY BookNow
<1>4. \A e \in Devices : book'[e] = IF e = d THEN b ELSE book[e]  BY DEF BookTypes
<1>5. \A e \in Devices : book[e].state[c].n \in Nat /\ book[e].state[c].dev \in Nat  BY BookNow
<1>6. b.state[c].n \in Nat /\ b.state[c].dev \in Nat
  <2>1. book'[d] \in Books /\ c \in Cells  BY TrackedIs DEF BookTypes
  <2> QED  BY <1>4, <2>1, BookIs
<1>7. \A e \in Devices : ~Newer(book[e].state[c], t)
  <2>1. ~Newer(t, t)  BY <1>3 DEF Newer
  <2> QED  BY <1>2, <2>1
<1>8. slot \in Seq(Notes) /\ (payload # Unset => payload \in Snapshots)  BY DEF BookTypes
<1>9. \A i \in 1 .. Len(slot) : slot[i].snap \in Snapshots /\ ~Newer(Heard(slot[i].snap, c), t)
  <2> TAKE i \in 1 .. Len(slot)
  <2>1. slot[i].snap \in Snapshots  BY <1>8, NoteIs
  <2> QED  BY <1>2, <1>3, <2>1, HeardIs
<1>10. payload # Unset => ~Newer(Heard(payload, c), t)  BY <1>2, <1>3, <1>8, HeardIs
<1>11. ASSUME NEW e \in Devices, NEW i \in 1 .. Len(round[e].rest), round[e].rest[i].ok
       PROVE  ~Newer(Heard(round[e].rest[i].snap, c), t)
  <2> DEFINE r == Heard(round[e].rest[i].snap, c)
  <2>1. round[e].rest \in Seq(Notes)  BY DEF BookTypes, Rounds
  <2>2. round[e].rest[i].snap \in Snapshots  BY <1>11, <2>1, NoteIs
  <2>3. r.n \in Nat /\ r.dev \in Nat  BY <2>2, HeardIs
  <2>4. \/ \E f \in Devices : ~Newer(r, book[f].state[c])
        \/ \E j \in 1 .. Len(slot) : slot[j].ok /\ slot[j].snap = round[e].rest[i].snap  BY <1>11 DEF RestInv
  <2>5. CASE \E j \in 1 .. Len(slot) : slot[j].snap = round[e].rest[i].snap  BY <1>9, <2>5
  <2>6. CASE \E f \in Devices : ~Newer(r, book[f].state[c])
    <3>1. PICK f \in Devices : ~Newer(r, book[f].state[c])  BY <2>6
    <3> HIDE DEF r, t
    <3>2. ~Newer(r, t)  BY <1>3, <1>5, <1>7, <2>3, <3>1, NotNewerTrans
    <3> QED  BY <3>2 DEF r
  <2> QED  BY <2>4, <2>5, <2>6
<1>12. \A q \in InFlight(c) : ~Newer(q, t) /\ q.n \in Nat /\ q.dev \in Nat
  BY <1>9, <1>10, <1>11, FlightIs DEF InFlight
<1>13. \A q \in InFlight(c)' : q.n \in Nat /\ q.dev \in Nat
  <2>1. \A q \in InFlight(c)' : q \in RegisterOf(c) /\ c \in Cells  BY TrackedIs DEF InFlight
  <2> QED  BY <2>1, RegIs
<1> HIDE DEF t
<1>14. ~Newer(t, b.state[c])  BY DEF t
<1>15. IsTop(c, book[d].state[c])'
  <2>1. \A e \in Devices : ~Newer(book'[e].state[c], b.state[c])
    <3> TAKE e \in Devices
    <3>1. CASE e = d
      <4>1. ~Newer(b.state[c], b.state[c])  BY <1>6 DEF Newer
      <4> QED  BY <1>4, <3>1, <4>1
    <3>2. CASE e # d
      <4>1. book'[e].state[c] = book[e].state[c]  BY <1>4, <3>2
      <4> QED  BY <1>3, <1>5, <1>6, <1>7, <1>14, <4>1, NotNewerTrans
    <3> QED  BY <3>1, <3>2
  <2>2. \A q \in InFlight(c)' : ~Newer(q, b.state[c])
    <3> TAKE q \in InFlight(c)'
    <3>1. CASE q \in InFlight(c)  BY <1>3, <1>6, <1>12, <1>14, <3>1, NotNewerTrans
    <3> QED  BY <3>1
  <2>3. book'[d] = b  BY <1>4
  <2> QED  BY <2>1, <2>2, <2>3 DEF IsTop
<1>16. ASSUME NEW e \in Devices \ {d} PROVE ~Off(Coming(e), c)'
  <2>1. book'[e] = book[e] /\ round'[e] = round[e]  BY <1>4
  <2>2. Coming(e)' = Coming(e)  BY <2>1 DEF Coming
  <2>3. ~Off(book[e], c)  BY <1>2, OffIs
  <2>4. CASE round[e].pc # "project"  BY <2>2, <2>3, <2>4 DEF Coming
  <2>5. CASE round[e].pc = "project"
    <3> DEFINE p == Project(book[e], round[e].mem)
    <3>1. book[e] \in Books /\ round[e].mem \in States  BY <2>5 DEF BookTypes
    <3>2. p.state = book[e].state /\ p.legacy = book[e].legacy  BY <3>1, ProjectIs
    <3>3. p.ledger[c] = book[e].ledger[c]  BY <1>2, <2>5 DEF Unprojected
    <3> HIDE DEF p
    <3>4. ~Off(p, c)  BY <2>3, <3>2, <3>3, OffSame
    <3> QED  BY <2>2, <2>5, <3>4 DEF Coming, p
  <2> QED  BY <2>4, <2>5
<1> QED  BY <1>4, <1>15, <1>16 DEF WordOn

-----------------------------------------------------------------------------
(* The last word: what the steps have in common.                           *)

\* What travels after a step that leaves machine d with book b was on its way
\* before, or is what b says.
Carried(b) ==
    /\ payload' # Unset => payload' = payload \/ payload'.state = b.state
    /\ \A k \in 1 .. Len(slot') :
         \/ slot'[k].snap.state = b.state
         \/ \E j \in 1 .. Len(slot) : slot'[k].snap = slot[j].snap /\ slot'[k].ok = slot[j].ok
    /\ \A e \in Devices : \A k \in 1 .. Len(round'[e].rest) :
         LET m == round'[e].rest[k] IN
         \/ \E j \in 1 .. Len(slot) : m.snap = slot[j].snap /\ m.ok = slot[j].ok
         \/ \E j \in 1 .. Len(round[e].rest) : m.snap = round[e].rest[j].snap /\ m.ok = round[e].rest[j].ok

LEMMA LiveKeeps ==
    ASSUME BookTypes, LiveInv, NEW d \in Devices, NEW b, book' = [book EXCEPT ![d] = b], Carried(b), AllLive(b.state)
    PROVE  LiveInv'
<1>1. \A e \in Devices : book'[e] = IF e = d THEN b ELSE book[e]  BY DEF BookTypes
<1>2. \A e \in Devices : AllLive(book'[e].state)  BY <1>1 DEF LiveInv
<1>3. payload' # Unset => AllLive(payload'.state)  BY DEF Carried, LiveInv
<1>4. \A k \in 1 .. Len(slot') : AllLive(slot'[k].snap.state)  BY DEF Carried, LiveInv
<1>5. ASSUME NEW e \in Devices, NEW k \in 1 .. Len(round'[e].rest) PROVE AllLive(round'[e].rest[k].snap.state)
  BY <1>5 DEF Carried, LiveInv
<1>6. \A s : AllLive(s)' <=> AllLive(s)  BY DEF AllLive
<1> QED  BY <1>2, <1>3, <1>4, <1>5, <1>6 DEF LiveInv

\* What travels after a step travelled before, or is what the machine says.
LEMMA FlightKeeps ==
    ASSUME BookTypes, BookTypes', NEW d \in Devices, NEW b, book' = [book EXCEPT ![d] = b], Carried(b), NEW c \in Tracked
    PROVE  \A q \in InFlight(c)' : q \in InFlight(c) \/ ~Newer(q, b.state[c])
<1>1. book'[d] = b /\ b \in Books /\ c \in Cells  BY TrackedIs DEF BookTypes
<1>2. b.state[c].n \in Nat /\ b.state[c].dev \in Nat  BY <1>1, BookIs
<1>3. ~Newer(b.state[c], b.state[c])  BY <1>2 DEF Newer
<1>4. ASSUME NEW snap \in Snapshots, snap.state = b.state PROVE ~Newer(Heard(snap, c), b.state[c])
  BY <1>2, <1>3, <1>4, HeardIs
<1>5. ASSUME NEW q \in InFlight(c)' PROVE q \in InFlight(c) \/ ~Newer(q, b.state[c])
  <2>1. /\ q \in RegisterOf(c)
        /\ \/ payload' # Unset /\ q = Heard(payload', c)
           \/ \E i \in 1 .. Len(slot') : slot'[i].ok /\ q = Heard(slot'[i].snap, c)
           \/ \E e \in Devices : \E i \in 1 .. Len(round'[e].rest) :
                round'[e].rest[i].ok /\ q = Heard(round'[e].rest[i].snap, c)  BY DEF InFlight, Heard
  <2>2. CASE payload' # Unset /\ q = Heard(payload', c)
    <3>1. payload' \in Snapshots  BY <2>2 DEF BookTypes
    <3>2. payload' = payload \/ payload'.state = b.state  BY <2>2 DEF Carried
    <3> QED  BY <1>4, <2>1, <2>2, <3>1, <3>2 DEF InFlight
  <2>3. CASE \E i \in 1 .. Len(slot') : slot'[i].ok /\ q = Heard(slot'[i].snap, c)
    <3>1. PICK i \in 1 .. Len(slot') : slot'[i].ok /\ q = Heard(slot'[i].snap, c)  BY <2>3
    <3>2. slot' \in Seq(Notes)  BY DEF BookTypes
    <3>3. slot'[i].snap \in Snapshots  BY <3>2, NoteIs
    <3>4. \/ slot'[i].snap.state = b.state
          \/ \E j \in 1 .. Len(slot) : slot'[i].snap = slot[j].snap /\ slot'[i].ok = slot[j].ok  BY DEF Carried
    <3> QED  BY <1>4, <2>1, <3>1, <3>3, <3>4 DEF InFlight
  <2>4. CASE \E e \in Devices : \E i \in 1 .. Len(round'[e].rest) :
                round'[e].rest[i].ok /\ q = Heard(round'[e].rest[i].snap, c)
    <3>1. PICK e \in Devices : \E i \in 1 .. Len(round'[e].rest) :
                round'[e].rest[i].ok /\ q = Heard(round'[e].rest[i].snap, c)  BY <2>4
    <3>2. PICK i \in 1 .. Len(round'[e].rest) : round'[e].rest[i].ok /\ q = Heard(round'[e].rest[i].snap, c)  BY <3>1
    <3> DEFINE m == round'[e].rest[i]
    <3>3. \/ \E j \in 1 .. Len(slot) : m.snap = slot[j].snap /\ m.ok = slot[j].ok
          \/ \E j \in 1 .. Len(round[e].rest) : m.snap = round[e].rest[j].snap /\ m.ok = round[e].rest[j].ok
      BY <3>2 DEF Carried
    <3>4. m.ok /\ q = Heard(m.snap, c)  BY <3>2
    <3> HIDE DEF m
    <3> QED  BY <2>1, <3>3, <3>4 DEF InFlight
  <2> QED  BY <2>1, <2>2, <2>3, <2>4
<1> QED  BY <1>5

\* What d has merged once, it has merged for good.
LEMMA StillMerged ==
    ASSUME BookTypes, BookTypes', RegistersAdvance, NEW f \in Devices, NEW c \in Tracked, NEW snap \in Snapshots,
           ~Newer(Heard(snap, c), book[f].state[c])
    PROVE  ~Newer(Heard(snap, c), book'[f].state[c])
<1>1. c \in Cells  BY TrackedIs
<1>2. book[f].state[c].n \in Nat /\ book[f].state[c].dev \in Nat  BY BookNow
<1>3. book'[f] \in Books  BY DEF BookTypes
<1>4. book'[f].state[c].n \in Nat /\ book'[f].state[c].dev \in Nat  BY <1>1, <1>3, BookIs
<1>5. ~Newer(book[f].state[c], book'[f].state[c])  BY <1>1 DEF RegistersAdvance
<1> QED  BY <1>2, <1>4, <1>5, HeardIs, NotNewerTrans

\* A note that waited for its turn is still in the slot, or merged somewhere.
LEMMA RestKeeps ==
    ASSUME BookTypes, BookTypes', RegistersAdvance, RestInv,
           \A e \in Devices : \A i \in 1 .. Len(round'[e].rest) : LET m == round'[e].rest[i] IN
             \/ \E j \in 1 .. Len(slot) : m.snap = slot[j].snap /\ m.ok = slot[j].ok
             \/ \E j \in 1 .. Len(round[e].rest) : m.snap = round[e].rest[j].snap /\ m.ok = round[e].rest[j].ok,
           \A j \in 1 .. Len(slot) : slot[j].ok =>
             \/ \E k \in 1 .. Len(slot') : slot'[k].ok /\ slot'[k].snap = slot[j].snap
             \/ \E f \in Devices : \A c \in Tracked : ~Newer(Heard(slot[j].snap, c), book'[f].state[c])
    PROVE  RestInv'
<1> SUFFICES ASSUME NEW e \in Devices, NEW i \in 1 .. Len(round'[e].rest), round'[e].rest[i].ok, NEW c \in Tracked
             PROVE  \/ \E f \in Devices : ~Newer(Heard(round'[e].rest[i].snap, c), book'[f].state[c])
                    \/ \E j \in 1 .. Len(slot') : slot'[j].ok /\ slot'[j].snap = round'[e].rest[i].snap
  BY DEF RestInv, Heard
<1> DEFINE m == round'[e].rest[i]
<1>1. \/ \E j \in 1 .. Len(slot) : m.snap = slot[j].snap /\ m.ok = slot[j].ok
      \/ \E j \in 1 .. Len(round[e].rest) : m.snap = round[e].rest[j].snap /\ m.ok = round[e].rest[j].ok  OBVIOUS
<1>2. m.ok  OBVIOUS
<1>3. m.snap \in Snapshots
  <2>1. round'[e].rest \in Seq(Notes)  BY DEF BookTypes, Rounds
  <2> QED  BY <2>1, NoteIs
<1> HIDE DEF m
<1>4. ASSUME \E j \in 1 .. Len(slot) : m.snap = slot[j].snap /\ slot[j].ok
      PROVE  \/ \E f \in Devices : ~Newer(Heard(m.snap, c), book'[f].state[c])
             \/ \E j \in 1 .. Len(slot') : slot'[j].ok /\ slot'[j].snap = m.snap
  BY <1>4
<1>5. ASSUME \E j \in 1 .. Len(round[e].rest) : m.snap = round[e].rest[j].snap /\ round[e].rest[j].ok
      PROVE  \/ \E f \in Devices : ~Newer(Heard(m.snap, c), book'[f].state[c])
             \/ \E j \in 1 .. Len(slot') : slot'[j].ok /\ slot'[j].snap = m.snap
  <2>1. \/ \E f \in Devices : ~Newer(Heard(m.snap, c), book[f].state[c])
        \/ \E j \in 1 .. Len(slot) : slot[j].ok /\ slot[j].snap = m.snap  BY <1>5 DEF RestInv
  <2> QED  BY <1>3, <1>4, <2>1, StillMerged
<1> QED  BY <1>1, <1>2, <1>4, <1>5 DEF m

\* What was pulled before, and waits as it did, is merged or is still in its round.
LEMMA PulledKeeps ==
    ASSUME BookTypes, BookTypes', RegistersAdvance, PulledInv,
           \A e \in Devices : \A k \in 1 .. Len(slot') : e \in slot'[k].by /\ slot'[k].ok =>
             \/ /\ round'[e].rest = round[e].rest
                /\ \E j \in 1 .. Len(slot) : slot[j].snap = slot'[k].snap /\ e \in slot[j].by /\ slot[j].ok
             \/ \A c \in Tracked : ~Newer(Heard(slot'[k].snap, c), book'[e].state[c])
             \/ \E i \in 1 .. Len(round'[e].rest) : round'[e].rest[i].ok /\ slot'[k].snap = round'[e].rest[i].snap
    PROVE  PulledInv'
<1> SUFFICES ASSUME NEW e \in Devices, NEW k \in 1 .. Len(slot'), e \in slot'[k].by, slot'[k].ok
             PROVE  \/ \A c \in Tracked : ~Newer(Heard(slot'[k].snap, c), book'[e].state[c])
                    \/ \E i \in 1 .. Len(round'[e].rest) : round'[e].rest[i].ok /\ slot'[k].snap = round'[e].rest[i].snap
  BY DEF PulledInv, Heard
<1>1. CASE /\ round'[e].rest = round[e].rest
           /\ \E j \in 1 .. Len(slot) : slot[j].snap = slot'[k].snap /\ e \in slot[j].by /\ slot[j].ok
  <2>1. PICK j \in 1 .. Len(slot) : slot[j].snap = slot'[k].snap /\ e \in slot[j].by /\ slot[j].ok  BY <1>1
  <2>2. slot \in Seq(Notes)  BY DEF BookTypes
  <2>3. slot[j].snap \in Snapshots  BY <2>2, NoteIs
  <2>4. \/ \A c \in Tracked : ~Newer(Heard(slot[j].snap, c), book[e].state[c])
        \/ \E i \in 1 .. Len(round[e].rest) : round[e].rest[i].ok /\ slot[j].snap = round[e].rest[i].snap
    BY <2>1 DEF PulledInv
  <2>5. CASE \A c \in Tracked : ~Newer(Heard(slot[j].snap, c), book[e].state[c])
    <3>1. \A c \in Tracked : ~Newer(Heard(slot[j].snap, c), book'[e].state[c])  BY <2>3, <2>5, StillMerged
    <3> QED  BY <2>1, <3>1
  <2>6. CASE \E i \in 1 .. Len(round[e].rest) : round[e].rest[i].ok /\ slot[j].snap = round[e].rest[i].snap
    BY <1>1, <2>1, <2>6
  <2> QED  BY <2>4, <2>5, <2>6
<1> QED  BY <1>1

\* What the round makes of a cell depends on the cell alone.
LEMMA ProjectSame ==
    ASSUME NEW b \in Books, NEW x \in Books, NEW s \in States, NEW c \in Tracked, b.ledger[c] = x.ledger[c]
    PROVE  Project(b, s).ledger[c] = Project(x, s).ledger[c]
<1>1. c \in Cells /\ c.kind # "seen"  BY TrackedIs
<1>2. \A y \in Books : Project(y, s).ledger[c] = IF c = Me THEN (IF s[c].n > 0 THEN s[c].val ELSE y.ledger[c])
                                                ELSE IF Alive(s[c]) THEN s[c].val ELSE Unset
  BY <1>1, ProjectIs
<1> QED  BY <1>2

LEMMA ComingIs ==
    ASSUME BookTypes, NEW d \in Devices
    PROVE  /\ Coming(d) \in Books /\ Coming(d).state = book[d].state /\ Coming(d).lamport = book[d].lamport
           /\ Coming(d).legacy = book[d].legacy
           /\ \A c : ~Unprojected(d, c) => Coming(d).ledger[c] = book[d].ledger[c]
<1>1. book[d] \in Books  BY DEF BookTypes
<1>2. CASE round[d].pc = "project"
  <2>1. round[d].mem \in States  BY <1>2 DEF BookTypes
  <2>2. Coming(d) = Project(book[d], round[d].mem)  BY <1>2 DEF Coming
  <2> QED  BY <1>1, <1>2, <2>1, <2>2, ProjectIs DEF Unprojected
<1>3. CASE round[d].pc # "project"  BY <1>1, <1>3 DEF Coming
<1> QED  BY <1>2, <1>3

\* While nothing is left to project, the book is as it will be.
LEMMA ComingOff ==
    ASSUME BookTypes, NEW d \in Devices, NEW c \in Tracked, ~Unprojected(d, c)
    PROVE  Off(Coming(d), c) <=> Off(book[d], c)
<1> DEFINE p == Coming(d)
<1>1. p.state = book[d].state /\ p.legacy = book[d].legacy /\ p.ledger[c] = book[d].ledger[c]  BY ComingIs
<1> HIDE DEF p
<1>2. Off(p, c) <=> Off(book[d], c)  BY <1>1, OffSame
<1> QED  BY <1>2 DEF p

\* Whatever travels says something.
LEMMA FlightTold ==
    ASSUME BookTypes, LiveInv, NEW c \in Tracked
    PROVE  Told(c, InFlight(c))
<1> SUFFICES ASSUME NEW q \in InFlight(c) PROVE Valued(c, q)  BY FlightIs DEF Told
<1>1. \A s \in Snapshots : AllLive(s.state) => Valued(c, Heard(s, c))  BY HeardIs DEF AllLive
<1>2. CASE payload # Unset /\ q = Heard(payload, c)
  <2>1. payload \in Snapshots /\ AllLive(payload.state)  BY <1>2 DEF BookTypes, LiveInv
  <2> QED  BY <1>1, <1>2, <2>1
<1>3. CASE \E i \in 1 .. Len(slot) : slot[i].ok /\ q = Heard(slot[i].snap, c)
  <2>1. PICK i \in 1 .. Len(slot) : slot[i].ok /\ q = Heard(slot[i].snap, c)  BY <1>3
  <2>2. slot \in Seq(Notes) /\ AllLive(slot[i].snap.state)  BY DEF BookTypes, LiveInv
  <2>3. slot[i].snap \in Snapshots  BY <2>2, NoteIs
  <2> QED  BY <1>1, <2>1, <2>2, <2>3
<1>4. CASE \E e \in Devices : \E i \in 1 .. Len(round[e].rest) : round[e].rest[i].ok /\ q = Heard(round[e].rest[i].snap, c)
  <2>1. PICK e \in Devices : \E i \in 1 .. Len(round[e].rest) : q = Heard(round[e].rest[i].snap, c)  BY <1>4
  <2>2. PICK i \in 1 .. Len(round[e].rest) : q = Heard(round[e].rest[i].snap, c)  BY <2>1
  <2>3. round[e].rest \in Seq(Notes) /\ AllLive(round[e].rest[i].snap.state)  BY DEF BookTypes, LiveInv, Rounds
  <2>4. round[e].rest[i].snap \in Snapshots  BY <2>3, NoteIs
  <2> QED  BY <1>1, <2>2, <2>3, <2>4
<1> QED  BY <1>2, <1>3, <1>4 DEF InFlight

\* What is on its way is in the pool, or absent.
LEMMA FlightPooled ==
    ASSUME BookTypes, NEW c \in Tracked, NEW q \in InFlight(c)
    PROVE  q \in Pool(c) \/ q = Absent
<1>1. c \in Cells /\ c \in Clocked  BY TrackedIs
<1>2. \A s \in Snapshots : Heard(s, c) = s.state[c] \/ Heard(s, c) = Absent  BY <1>1, DecodeIs DEF Heard
<1>3. CASE payload # Unset /\ q = Heard(payload, c)
  <2>1. payload \in Snapshots  BY <1>3 DEF BookTypes
  <2> QED  BY <1>1, <1>2, <1>3, <2>1, PoolHas
<1>4. CASE \E i \in 1 .. Len(slot) : slot[i].ok /\ q = Heard(slot[i].snap, c)
  <2>1. PICK i \in 1 .. Len(slot) : slot[i].ok /\ q = Heard(slot[i].snap, c)  BY <1>4
  <2>2. slot \in Seq(Notes)  BY DEF BookTypes
  <2>3. slot[i].snap \in Snapshots  BY <2>2, NoteIs
  <2> QED  BY <1>1, <1>2, <2>1, <2>3, PoolHas
<1>5. CASE \E e \in Devices : \E i \in 1 .. Len(round[e].rest) : round[e].rest[i].ok /\ q = Heard(round[e].rest[i].snap, c)
  <2>1. PICK e \in Devices : \E i \in 1 .. Len(round[e].rest) : q = Heard(round[e].rest[i].snap, c)  BY <1>5
  <2>2. PICK i \in 1 .. Len(round[e].rest) : q = Heard(round[e].rest[i].snap, c)  BY <2>1
  <2>3. round[e].rest \in Seq(Notes)  BY DEF BookTypes, Rounds
  <2>4. round[e].rest[i].snap \in Snapshots  BY <2>3, NoteIs
  <2> QED  BY <1>1, <1>2, <2>2, <2>4, PoolHas
<1> QED  BY <1>3, <1>4, <1>5 DEF InFlight

\* The machine with the last word holds it against all that is on its way.
LEMMA HolderHolds ==
    ASSUME BookInv, LiveInv, NEW d \in Devices, NEW c \in Tracked, WordOn(d, c)
    PROVE  /\ Holds(book[d], c, lastWord[c].val, InFlight(c))
           /\ Holds(Coming(d), c, lastWord[c].val, InFlight(c))
<1> DEFINE t == book[d].state[c]
           p == Coming(d)
<1>1. BookTypes /\ c \in Cells /\ c \in Clocked /\ c.kind # "seen"  BY TrackedIs DEF BookInv
<1>2. book[d] \in Books /\ t \in RegisterOf(c) /\ t.n \in Nat /\ t.dev \in Nat  BY <1>1, BookNow
<1>3. book[d] \in SoundBooks  BY <1>2 DEF SoundBooks, BookInv, CountersInv
<1>4. Valued(c, t)  BY DEF LiveInv, AllLive
<1>5. t \in Pool(c)  BY <1>2 DEF Pool
<1>6. ASSUME NEW q \in InFlight(c) PROVE Newer(t, q) \/ q = t
  <2>1. ~Newer(q, t)  BY DEF WordOn, IsTop
  <2>2. q \in RegisterOf(c) /\ q.n \in Nat /\ q.dev \in Nat  BY FlightIs
  <2> HIDE DEF t
  <2>3. CASE q.n = t.n /\ q.dev = t.dev
    <3>1. CASE q = Absent
      <4>1. t.n = 0  BY <2>3, <3>1 DEF Absent, Reg
      <4> QED  BY <1>1, <1>2, <3>1, <4>1, RegIs
    <3>2. CASE q \in Pool(c)  BY <1>1, <1>5, <2>3, <3>2 DEF BookInv, ClocksInv
    <3> QED  BY <1>1, <3>1, <3>2, FlightPooled
  <2> QED  BY <1>2, <2>1, <2>2, <2>3 DEF Newer
<1>7. ~(c = Me /\ Adopts(book[d])) /\ book[d].ledger[c] = lastWord[c].val  BY DEF WordOn
<1>8. Holds(book[d], c, lastWord[c].val, InFlight(c))  BY <1>3, <1>4, <1>6, <1>7 DEF Holds
<1>9. ~Unprojected(d, c)
  <2>1. CASE round[d].pc = "project"  BY <2>1 DEF WordOn
  <2>2. CASE round[d].pc # "project"  BY <2>2 DEF Unprojected
  <2> QED  BY <2>1, <2>2
<1>10. /\ p \in Books /\ p.state = book[d].state /\ p.lamport = book[d].lamport /\ p.legacy = book[d].legacy
       /\ p.ledger[c] = book[d].ledger[c]  BY <1>1, <1>9, ComingIs
<1> HIDE DEF p
<1>11. p \in SoundBooks  BY <1>3, <1>10 DEF SoundBooks
<1>12. c = Me => ~Adopts(p)  BY <1>7, <1>10 DEF Adopts
<1>13. Holds(p, c, lastWord[c].val, InFlight(c))  BY <1>4, <1>6, <1>7, <1>10, <1>11, <1>12 DEF Holds
<1> QED  BY <1>8, <1>13 DEF p

\* A machine that does not have it is quiet, once its saved merge is projected.
LEMMA OtherQuiet ==
    ASSUME BookInv, LiveInv, NEW v \in Devices, NEW d \in Devices \ {v}, NEW c \in Tracked, WordOn(v, c)
    PROVE  Quiet(Coming(d), c, book[d].state[c], InFlight(c))
<1> DEFINE p == Coming(d)
<1>1. BookTypes /\ c \in Cells  BY TrackedIs DEF BookInv
<1>2. p \in Books /\ p.state = book[d].state /\ p.lamport = book[d].lamport  BY <1>1, ComingIs
<1>3. ~Off(p, c)  BY DEF WordOn
<1> HIDE DEF p
<1>4. p \in SoundBooks  BY <1>2 DEF SoundBooks, BookInv, CountersInv
<1>5. Valued(c, p.state[c])  BY <1>2 DEF LiveInv, AllLive
<1>6. Quiet(p, c, book[d].state[c], InFlight(c))  BY <1>2, <1>3, <1>4, <1>5 DEF Quiet
<1> QED  BY <1>6 DEF p

\* So the word stands where the holder holds it and another machine stays quiet.
LEMMA StepStands ==
    ASSUME BookInv, Kept, LiveInv, NEW d \in Devices, NEW b, NEW c \in Tracked,
           book' = [book EXCEPT ![d] = b], \A e \in Devices \ {d} : round'[e] = round[e], Carried(b),
           lastWord'[c] = lastWord[c], NEW v \in Devices, WordOn(v, c),
           v = d => /\ Holds(b, c, lastWord[c].val, InFlight(c))
                    /\ round'[d].pc = "project" => ~Unprojected(d, c)' /\ ~Off(b, c),
           v # d => b.state[c] \in InFlight(c) \cup {book[d].state[c]} /\ ~Off(Coming(d), c)'
    PROVE  WordOn(v, c)'
<1>1. BookTypes /\ BookTypes' /\ c \in Cells  BY TrackedIs DEF Kept, BookInv
<1>2. \A q \in InFlight(c)' : q \in InFlight(c) \/ ~Newer(q, b.state[c])  BY <1>1, FlightKeeps
<1>3. book'[d] = b  BY <1>1 DEF BookTypes
<1>4. ~Newer(book[d].state[c], b.state[c])  BY <1>1, <1>3 DEF Kept, RegistersAdvance
<1>5. v = d => b.ledger[c] = lastWord[c].val /\ ~(c = Me /\ Adopts(b))  BY DEF Holds
<1>6. v # d => ~Newer(b.state[c], book[v].state[c])  BY DEF WordOn, IsTop
<1> QED  BY <1>1, <1>2, <1>4, <1>5, <1>6, WordStands

-----------------------------------------------------------------------------
(* The last word: edits.                                                   *)

LEMMA StandingIs ==
    ASSUME NEW d, NEW c
    PROVE  Standing(d, c) \in {"sure", "raced", "contested"} /\ (Standing(d, c) = "sure" => round[d].pc # "project")
  BY DEF Standing

\* An edit of the book of d: the cells it changes are its last word, if all that
\* was known had arrived, and the others keep theirs.
LEMMA RememberKeeps ==
    ASSUME WordInv, Kept, NEW d \in Devices, NEW new, book' = [book EXCEPT ![d] = new], Remember(d, new),
           UNCHANGED <<payload, member, round, slot>>, new.legacy = book[d].legacy, AllLive(new.state),
           \/ new.state[Me].n > 0
           \/ new.ledger[Me] = book[d].ledger[Me] /\ new.state[Me] = book[d].state[Me]
    PROVE  WordInv'
<1>1. /\ BookInv /\ BookTypes /\ BookTypes' /\ RegistersAdvance /\ LiveInv /\ RestInv /\ PulledInv /\ RoundInv
      /\ WordTypes /\ WordsInv  BY DEF WordInv, Kept, BookInv
<1>2. /\ payload' = payload /\ member' = member /\ round' = round /\ slot' = slot
      /\ book'[d] = new /\ new \in Books /\ book[d] \in Books  BY <1>1 DEF BookTypes
<1>3. Carried(new)  BY <1>2 DEF Carried
<1>4. LiveInv'  BY <1>1, <1>3, LiveKeeps
<1>5. RestInv'  BY <1>1, <1>2, RestKeeps
<1>6. PulledInv'  BY <1>1, <1>2, PulledKeeps
<1>7. RoundInv'  BY <1>1, <1>2 DEF RoundInv
<1> DEFINE Same(c) == new.ledger[c] = book[d].ledger[c] /\ new.state[c] = book[d].state[c]
<1>8. ASSUME NEW c \in Cells
      PROVE  lastWord'[c] = IF c \notin Tracked \/ Same(c) THEN lastWord[c]
                            ELSE [known |-> Standing(d, c), val |-> new.ledger[c]]
  BY DEF Remember
<1>9. WordTypes'
  <2>1. \A c \in Cells : new.ledger[c] \in AnyValue  BY <1>2, BookIs, ValueIs
  <2>2. lastWord' = [c \in Cells |-> lastWord'[c]]  BY DEF Remember
  <2>3. \A c \in Cells : lastWord'[c] \in [known : {"sure", "raced", "contested"}, val : AnyValue]
    <3> HIDE DEF Same
    <3> DEFINE W == [known : {"sure", "raced", "contested"}, val : AnyValue]
    <3> TAKE c \in Cells
    <3>1. lastWord[c] \in W  BY <1>1 DEF WordTypes
    <3>2. [known |-> Standing(d, c), val |-> new.ledger[c]] \in W  BY <2>1, StandingIs
    <3> HIDE DEF W
    <3>3. lastWord'[c] \in W  BY <1>8, <3>1, <3>2
    <3> QED  BY <3>3 DEF W
  <2> QED  BY <2>2, <2>3 DEF WordTypes
<1>10. ASSUME NEW c \in Tracked, lastWord'[c].known = "sure" PROVE \E v \in Devices : WordOn(v, c)'
  <2>1. c \in Cells  BY TrackedIs
  <2>2. \A q \in InFlight(c)' : q \in InFlight(c) \/ ~Newer(q, new.state[c])  BY <1>1, <1>3, FlightKeeps
  <2>3. ~Newer(book[d].state[c], new.state[c])  BY <1>1, <1>2, <2>1 DEF RegistersAdvance
  <2>4. CASE ~Same(c)
    <3> HIDE DEF Same
    <3>1. lastWord'[c] = [known |-> Standing(d, c), val |-> new.ledger[c]]  BY <1>8, <2>1, <2>4
    <3>2. Standing(d, c) = "sure" /\ lastWord'[c].val = new.ledger[c]  BY <1>10, <3>1
    <3>3. round'[d].pc # "project"  BY <1>2, <3>2, StandingIs
    <3>4. ~(c = Me /\ Adopts(new))  BY <2>4, BookIs, <1>2 DEF Same, Adopts
    <3>5. WordOn(d, c)'  BY <1>1, <1>2, <2>2, <2>3, <3>2, <3>3, <3>4, NewWord
    <3> QED  BY <3>5
  <2>5. CASE Same(c)
    <3>1. lastWord'[c] = lastWord[c]  BY <1>8, <2>1, <2>5
    <3>2. PICK v \in Devices : WordOn(v, c)  BY <1>1, <1>10, <3>1 DEF WordsInv
    <3>3. Off(new, c) <=> Off(book[d], c)  BY <2>5, OffSame
    <3>4. round[d].pc = "project" => /\ Unprojected(d, c)' <=> Unprojected(d, c)
                                     /\ Off(Coming(d), c)' <=> Off(Coming(d), c)
      <4> SUFFICES ASSUME round[d].pc = "project"
                   PROVE  (Unprojected(d, c)' <=> Unprojected(d, c)) /\ (Off(Coming(d), c)' <=> Off(Coming(d), c))
        OBVIOUS
      <4> DEFINE p == Project(book[d], round[d].mem)
                 q == Project(new, round[d].mem)
      <4>1. round[d].mem \in States  BY <1>1 DEF BookTypes
      <4>2. p.ledger[c] = q.ledger[c]  BY <1>2, <2>5, <4>1, ProjectSame
      <4>3. p.state = book[d].state /\ q.state = new.state /\ p.legacy = q.legacy  BY <1>2, <4>1, ProjectIs
      <4>4. Coming(d) = p /\ Coming(d)' = q  BY <1>2 DEF Coming
      <4>5. Unprojected(d, c) <=> p.ledger[c] # book[d].ledger[c]  BY DEF Unprojected
      <4>6. Unprojected(d, c)' <=> q.ledger[c] # new.ledger[c]  BY <1>2 DEF Unprojected
      <4> HIDE DEF p, q
      <4>7. Off(p, c) <=> Off(q, c)  BY <2>5, <4>2, <4>3, OffSame
      <4> QED  BY <2>5, <4>2, <4>4, <4>5, <4>6, <4>7
    <3>5. v = d => /\ new.ledger[c] = lastWord[c].val /\ ~(c = Me /\ Adopts(new))
                   /\ round'[d].pc = "project" => ~Unprojected(d, c)' /\ ~Off(new, c)
      <4> SUFFICES ASSUME v = d PROVE /\ new.ledger[c] = lastWord[c].val /\ ~(c = Me /\ Adopts(new))
                                      /\ round'[d].pc = "project" => ~Unprojected(d, c)' /\ ~Off(new, c)  OBVIOUS
      <4>1. new.ledger[c] = lastWord[c].val  BY <2>5, <3>2 DEF WordOn
      <4>2. ~(c = Me /\ Adopts(new))  BY <2>5, <3>2 DEF WordOn, Adopts
      <4> HIDE DEF Same
      <4>3. round'[d].pc = "project" => ~Unprojected(d, c)' /\ ~Off(new, c)  BY <1>2, <3>2, <3>3, <3>4 DEF WordOn
      <4> QED  BY <4>1, <4>2, <4>3
    <3>6. v # d => ~Newer(new.state[c], book[v].state[c]) /\ ~Off(Coming(d), c)'
      <4> SUFFICES ASSUME v # d PROVE ~Newer(new.state[c], book[v].state[c]) /\ ~Off(Coming(d), c)'  OBVIOUS
      <4>1. ~Newer(book[d].state[c], book[v].state[c])  BY <3>2 DEF WordOn, IsTop
      <4>2. ~Off(Coming(d), c)  BY <3>2 DEF WordOn
      <4>3. CASE round[d].pc = "project"  BY <2>5, <3>4, <4>1, <4>2, <4>3
      <4>4. CASE round[d].pc # "project"
        <5>1. Coming(d) = book[d] /\ Coming(d)' = new  BY <1>2, <4>4 DEF Coming
        <5> QED  BY <2>5, <3>3, <4>1, <4>2, <5>1
      <4> QED  BY <4>3, <4>4
    <3> HIDE DEF Same
    <3>7. WordOn(v, c)'  BY <1>1, <1>2, <2>2, <2>3, <3>1, <3>2, <3>5, <3>6, WordStands
    <3> QED  BY <3>7
  <2> QED  BY <2>4, <2>5
<1>11. WordsInv'  BY <1>10 DEF WordsInv
<1> QED  BY <1>4, <1>5, <1>6, <1>7, <1>9, <1>11 DEF WordInv, Kept

LEMMA EditLedgerWord ==
    ASSUME WordInv, Kept, NEW d \in Devices, NEW L, EditLedger(d, L),
           book[d].state[Me].n > 0 \/ L[Me] = book[d].ledger[Me]
    PROVE  WordInv'
<1> DEFINE new == [book[d] EXCEPT !.ledger = L]
<1>1. book[d] \in Books /\ LiveInv  BY DEF WordInv, BookInv, BookTypes
<1>2. new.ledger = L /\ new.state = book[d].state /\ new.legacy = book[d].legacy  BY <1>1 DEF Books
<1>3. /\ book' = [book EXCEPT ![d] = new] /\ Remember(d, new) /\ UNCHANGED <<payload, member, round, slot>>
  BY DEF EditLedger, EditBook
<1> HIDE DEF new
<1>4. AllLive(new.state)  BY <1>1, <1>2 DEF LiveInv
<1> QED  BY <1>2, <1>3, <1>4, RememberKeeps

\* No edit but set_my_name touches the display name.
Unnamed(L, M) == DOMAIN M = Cells /\ M[Me] = L[Me]

LEMMA UnnamedSet ==
    ASSUME NEW L, NEW M, Unnamed(L, M), NEW k, k # "self", NEW x, NEW v
    PROVE  Unnamed(L, [M EXCEPT ![Cell(k, x)] = v])
<1>1. Cell(k, x) # Me /\ Me \in Cells  BY CellIn DEF Me
<1> QED  BY <1>1 DEF Unnamed

LEMMA UnnamedRows ==
    ASSUME NEW L, NEW M, Unnamed(L, M), NEW k
    PROVE  /\ Unnamed(L, Unmarked(M, k)) /\ Unnamed(L, ForgetNameRow(M, k)) /\ Unnamed(L, VerifiedMark(M, k, On))
           /\ \A r : Unnamed(L, SetRelayRow(M, k, r))
           /\ \A kind \in {"verified", "trusted", "blocked"} : \A v : Unnamed(L, MarkRow(M, kind, k, v))
<1>1. Unnamed(L, Unmarked(M, k))  BY CellIn DEF Unnamed, Unmarked
<1>2. Unnamed(L, ForgetNameRow(M, k)) /\ Unnamed(L, VerifiedMark(M, k, On))
  BY UnnamedSet DEF ForgetNameRow, VerifiedMark
<1>3. \A r : Unnamed(L, SetRelayRow(M, k, r))  BY UnnamedSet DEF SetRelayRow
<1>4. ASSUME NEW kind \in {"verified", "trusted", "blocked"}, NEW v PROVE Unnamed(L, MarkRow(M, kind, k, v))
  <2>1. MarkRow(M, kind, k, v) = [M EXCEPT ![Cell(kind, k)] = v]
    BY DEF MarkRow, VerifiedMark, TrustedMark, BlockedMark
  <2>2. kind # "self"  OBVIOUS
  <2>3. Unnamed(L, [M EXCEPT ![Cell(kind, k)] = v])  BY <2>2, UnnamedSet
  <2> QED  BY <2>1, <2>3
<1> QED  BY <1>1, <1>2, <1>3, <1>4

LEMMA UnnamedAdd ==
    ASSUME NEW L, NEW M, Unnamed(L, M), NEW n, NEW k, NEW r
    PROVE  Unnamed(L, ContactAdd(M, n, k, r))
<1> DEFINE old == M[Cell("contact", n)]
           U == Unmarked(M, old)
           kept == IF old \in {Unset, k} THEN M ELSE SetRelayRow(U, old, Unset)
           bound == [kept EXCEPT ![Cell("contact", n)] = k]
<1>1. ContactAdd(M, n, k, r) = IF r = Unset THEN bound ELSE SetRelayRow(bound, k, r)  BY DEF ContactAdd
<1>2. Unnamed(L, U)  BY UnnamedRows
<1> HIDE DEF U
<1>3. Unnamed(L, SetRelayRow(U, old, Unset))  BY <1>2, UnnamedRows
<1>4. Unnamed(L, kept)  BY <1>3
<1> HIDE DEF kept
<1>5. Unnamed(L, bound)  BY <1>4, UnnamedSet
<1> HIDE DEF bound
<1>6. Unnamed(L, SetRelayRow(bound, k, r))  BY <1>5, UnnamedRows
<1> QED  BY <1>1, <1>5, <1>6

LEMMA UnnamedWord ==
    ASSUME WordInv, Kept, NEW d \in Devices, NEW L, EditLedger(d, L), Unnamed(book[d].ledger, L)
    PROVE  WordInv'
  BY EditLedgerWord DEF Unnamed

LEMMA UnnamedNow ==
    ASSUME WordInv, NEW d \in Devices
    PROVE  Unnamed(book[d].ledger, book[d].ledger)
<1>1. book[d].ledger \in Ledgers  BY LedgerNow DEF WordInv
<1>2. DOMAIN book[d].ledger = Cells  BY <1>1, LedgerIs
<1> QED  BY <1>2 DEF Unnamed

\* An edit: the cells it changed have a new last word, if nobody else knew better.
LEMMA EditWord ==
    ASSUME WordInv, Kept, NEW d \in Devices, Edit(d)
    PROVE  WordInv'
<1> DEFINE B == book[d].ledger
<1>1. Unnamed(B, B) /\ book[d] \in Books  BY UnnamedNow DEF WordInv, BookInv, BookTypes
<1>2. MarkKinds \subseteq {"verified", "trusted", "blocked"}  BY BookAssumption
<1> HIDE DEF B
<1>3. ASSUME NEW n \in Names, NEW k \in Keys, NEW r, NEW rebind, AddContact(d, n, k, r, rebind) PROVE WordInv'
  <2>1. Unnamed(B, ContactAdd(B, n, k, r))  BY <1>1, UnnamedAdd
  <2> QED  BY <1>3, <2>1, UnnamedWord DEF AddContact, B
<1>4. ASSUME NEW n \in Names, NEW k \in Keys, SaveTheOtherSide(d, n, k, Unset) PROVE WordInv'
  <2> DEFINE saved == IF Holders(book[d], k) = {} THEN ContactAdd(B, n, k, Unset) ELSE B
  <2>1. Unnamed(B, saved)  BY <1>1, UnnamedAdd
  <2>2. EditLedger(d, VerifiedMark(saved, k, On))  BY <1>4 DEF SaveTheOtherSide, B
  <2> HIDE DEF saved
  <2>3. Unnamed(B, VerifiedMark(saved, k, On))  BY <2>1, UnnamedRows
  <2> QED  BY <2>2, <2>3, UnnamedWord DEF B
<1>5. ASSUME NEW n \in Names, NEW k \in Keys, NEW flags \in SUBSET MarkKinds, ImportContact(d, n, k, Unset, flags)
      PROVE  WordInv'
  <2> DEFINE added == ContactAdd(B, n, k, Unset)
             M == [c \in Cells |-> IF c.kind \in flags /\ c.key = k THEN On ELSE added[c]]
  <2>1. Unnamed(B, added)  BY <1>1, UnnamedAdd
  <2>2. EditLedger(d, M)  BY <1>5 DEF ImportContact, B
  <2> HIDE DEF added
  <2>3. Me \in Cells /\ Me.kind \notin flags  BY <1>2, CellIn
  <2>4. Unnamed(B, M)  BY <2>1, <2>3 DEF Unnamed
  <2> QED  BY <2>2, <2>4, UnnamedWord DEF B
<1>6. ASSUME NEW n \in Names, RemoveContact(d, n) PROVE WordInv'
  <2> DEFINE k == B[Cell("contact", n)]
             U == Unmarked(B, k)
             b == [book[d] EXCEPT !.ledger = U]
             j == b.ledger[Cell("contact", n)]
             w == [b.ledger EXCEPT ![Cell("contact", n)] = Unset]
             x == ForgetNameRow(w, j)
  <2>1. b.ledger = U  BY <1>1 DEF Books
  <2>2. EditLedger(d, ContactRemove(b, n))  BY <1>6 DEF RemoveContact, B
  <2>3. ContactRemove(b, n) = IF Holders(b, j) = {n} THEN SetRelayRow(x, j, Unset) ELSE w  BY DEF ContactRemove
  <2>4. Unnamed(B, U)  BY <1>1, UnnamedRows
  <2> HIDE DEF U, b
  <2>5. Unnamed(B, w)  BY <2>1, <2>4, UnnamedSet
  <2> HIDE DEF w, j
  <2>6. Unnamed(B, x)  BY <2>5, UnnamedRows
  <2> HIDE DEF x
  <2>7. Unnamed(B, SetRelayRow(x, j, Unset))  BY <2>6, UnnamedRows
  <2>8. Unnamed(B, ContactRemove(b, n))  BY <2>3, <2>5, <2>7
  <2> QED  BY <2>2, <2>8, UnnamedWord DEF B
<1>7. ASSUME NEW n \in Names, NEW new \in Names, ContactRename(d, n, new) PROVE WordInv'
  <2> DEFINE v == B[Cell("contact", n)]
             L1 == [B EXCEPT ![Cell("contact", n)] = Unset]
  <2>1. EditLedger(d, [L1 EXCEPT ![Cell("contact", new)] = v])  BY <1>7 DEF ContactRename, B
  <2>2. Unnamed(B, L1)  BY <1>1, UnnamedSet
  <2> HIDE DEF L1, v
  <2>3. Unnamed(B, [L1 EXCEPT ![Cell("contact", new)] = v])  BY <2>2, UnnamedSet
  <2> QED  BY <2>1, <2>3, UnnamedWord DEF B
<1>8. ASSUME NEW kind \in MarkKinds, NEW k \in Keys, NEW force, Mark(d, kind, k, force) \/ Unmark(d, kind, k) PROVE WordInv'
  <2>1. Unnamed(B, MarkRow(B, kind, k, On)) /\ Unnamed(B, MarkRow(B, kind, k, Unset))  BY <1>1, <1>2, UnnamedRows
  <2> QED  BY <1>8, <2>1, UnnamedWord DEF Mark, Unmark, B
<1>9. ASSUME NEW k \in Keys, NEW r, SetRelay(d, k, r) PROVE WordInv'
  <2>1. Unnamed(B, SetRelayRow(B, k, r))  BY <1>1, UnnamedRows
  <2> QED  BY <1>9, <2>1, UnnamedWord DEF SetRelay, B
<1>10. ASSUME NEW k \in Keys, RecordSeen(d, k) PROVE WordInv'
  <2> DEFINE v == B[Cell("seen", k)] + 1
  <2>1. EditLedger(d, [B EXCEPT ![Cell("seen", k)] = v])  BY <1>10 DEF RecordSeen, B
  <2> HIDE DEF v
  <2>2. Unnamed(B, [B EXCEPT ![Cell("seen", k)] = v])  BY <1>1, UnnamedSet
  <2> QED  BY <2>1, <2>2, UnnamedWord DEF B
<1>11. ASSUME NEW k \in Keys, AcceptName(d, k) PROVE WordInv'
  <2> DEFINE v == NameRow(Pending(B[Cell("name", k)]), Unset)
  <2>1. EditLedger(d, [B EXCEPT ![Cell("name", k)] = v])  BY <1>11 DEF AcceptName, B
  <2> HIDE DEF v
  <2>2. Unnamed(B, [B EXCEPT ![Cell("name", k)] = v])  BY <1>1, UnnamedSet
  <2> QED  BY <2>1, <2>2, UnnamedWord DEF B
<1>12. ASSUME NEW l \in Labels, RenameThisDevice(d, l) PROVE WordInv'
  <2>1. Unnamed(B, [B EXCEPT ![Cell("device", d)] = l])  BY <1>1, UnnamedSet
  <2> QED  BY <1>12, <2>1, UnnamedWord DEF RenameThisDevice, B
<1>13. ASSUME NEW k \in Keys, NEW l \in Labels, ObserveName(d, k, l) PROVE WordInv'
  <2> DEFINE row == B[Cell("name", k)]
             s == NameRow(Pinned(row), IF Pinned(row) = l THEN Unset ELSE l)
             L == [B EXCEPT ![Cell("name", k)] = s]
             f == [book[d].first EXCEPT ![k] = IF book[d].first[k] = Unset THEN l ELSE book[d].first[k]]
             new == [book[d] EXCEPT !.ledger = L, !.first = f]
  <2>1. EditBook(d, new)  BY <1>13 DEF ObserveName, B
  <2> HIDE DEF s, f
  <2>2. Unnamed(B, L)  BY <1>1, UnnamedSet
  <2> HIDE DEF L
  <2>3. new.ledger = L /\ new.state = book[d].state /\ new.legacy = book[d].legacy  BY <1>1 DEF Books
  <2>4. /\ book' = [book EXCEPT ![d] = new] /\ Remember(d, new) /\ UNCHANGED <<payload, member, round, slot>>
    BY <2>1 DEF EditBook
  <2> HIDE DEF new
  <2>5. AllLive(new.state)  BY <2>3 DEF WordInv, LiveInv
  <2>6. new.ledger[Me] = book[d].ledger[Me] /\ new.state[Me] = book[d].state[Me]  BY <2>2, <2>3 DEF Unnamed, B
  <2> QED  BY <2>3, <2>4, <2>5, <2>6, RememberKeeps
<1>14. ASSUME NEW c \in Cells, c = Me \/ c.kind = "device", NEW v, NEW r, r.n > 0, StampBook(d, c, v, r) PROVE WordInv'
  <2> DEFINE L == [B EXCEPT ![c] = v]
             s == [book[d].state EXCEPT ![c] = r]
             l == book[d].lamport + 1
             new == [book[d] EXCEPT !.ledger = L, !.state = s, !.lamport = l]
  <2>1. EditBook(d, new)  BY <1>14 DEF StampBook, B
  <2>2. book[d].state \in [Cells -> AnyRegister]  BY <1>1, BookIs, StateIs
  <2>3. \A x \in Cells : s[x] = IF x = c THEN r ELSE book[d].state[x]  BY <2>2
  <2>4. c # Me => L[Me] = B[Me]  BY <1>1, CellIn DEF Unnamed
  <2> HIDE DEF L, s, l
  <2>5. new.ledger = L /\ new.state = s /\ new.legacy = book[d].legacy  BY <1>1 DEF Books
  <2>6. /\ book' = [book EXCEPT ![d] = new] /\ Remember(d, new) /\ UNCHANGED <<payload, member, round, slot>>
    BY <2>1 DEF EditBook
  <2> HIDE DEF new
  <2>7. AllLive(new.state)
    <3> SUFFICES ASSUME NEW x \in Tracked PROVE Valued(x, s[x])  BY <2>5 DEF AllLive
    <3>1. x \in Cells /\ x.kind # "device" /\ Valued(x, book[d].state[x])  BY TrackedIs DEF WordInv, LiveInv, AllLive
    <3>2. CASE x = c  BY <1>14, <3>1, <3>2 DEF Valued
    <3>3. CASE x # c  BY <2>3, <3>1, <3>3
    <3> QED  BY <3>2, <3>3
  <2>8. \/ new.state[Me].n > 0
        \/ new.ledger[Me] = book[d].ledger[Me] /\ new.state[Me] = book[d].state[Me]
    <3>1. Me \in Cells  BY CellIn
    <3>2. CASE c = Me  BY <1>14, <2>3, <2>5, <3>1, <3>2
    <3>3. CASE c # Me  BY <2>3, <2>4, <2>5, <3>1, <3>3 DEF B
    <3> QED  BY <3>2, <3>3
  <2> QED  BY <2>5, <2>6, <2>7, <2>8, RememberKeeps
<1>15. book[d].lamport \in Nat /\ book[d].lamport + 1 > 0  BY <1>1, BookIs
<1>16. \A w, x : \A del : Reg(w, book[d].lamport + 1, x, del).n > 0  BY <1>15 DEF Reg
<1>17. ASSUME NEW l \in Labels \cup {Blank}, SetMyName(d, l) PROVE WordInv'
  <2>1. CASE book[d].state[Me].n > 0 /\ EditLedger(d, [B EXCEPT ![Me] = l])  BY <2>1, EditLedgerWord
  <2>2. CASE StampBook(d, Me, l, Reg(l, book[d].lamport + 1, d, FALSE))  BY <1>14, <1>16, <2>2, CellIn
  <2> QED  BY <1>17, <2>1, <2>2 DEF SetMyName, B
<1>18. ASSUME NEW e \in Devices, ForgetDevice(d, e) PROVE WordInv'
  <2>1. Cell("device", e) \in Cells /\ Cell("device", e).kind = "device"  BY CellIn
  <2> QED  BY <1>14, <1>16, <1>18, <2>1 DEF ForgetDevice
<1>19. CASE \E n \in Names, k \in Keys, flags \in SUBSET (MarkKinds \ {"blocked"}) : ImportContact(d, n, k, Unset, flags)
  BY <1>5, <1>19
<1>20. CASE \E k \in Keys, r \in Relays : LearnSenderRelay(d, k, r)  BY <1>9, <1>20 DEF LearnSenderRelay
<1> QED  BY <1>3, <1>4, <1>6, <1>7, <1>8, <1>9, <1>10, <1>11, <1>12, <1>13, <1>17, <1>18, <1>19, <1>20 DEF Edit

LEMMA StartSweepWord ==
    ASSUME WordInv, Kept, NEW d \in Devices, StartSweep(d)
    PROVE  WordInv'
<1> DEFINE new == Prune(book[d])
<1>1. book[d] \in Books /\ LiveInv  BY DEF WordInv, BookInv, BookTypes
<1>2. /\ new.state = book[d].state /\ new.legacy = book[d].legacy
      /\ new.ledger[Me] = book[d].ledger[Me]  BY <1>1, CellIn, PruneIs
<1>3. /\ book' = [book EXCEPT ![d] = new] /\ Remember(d, new) /\ UNCHANGED <<payload, member, round, slot>>
  BY DEF StartSweep
<1> HIDE DEF new
<1>4. AllLive(new.state)  BY <1>1, <1>2 DEF LiveInv
<1> QED  BY <1>2, <1>3, <1>4, RememberKeeps

-----------------------------------------------------------------------------
(* The last word: pairing and rounds.                                      *)

\* What the invariant says of the state before a step, and Kept of the one after.
LEMMA WordFacts ==
    ASSUME WordInv, Kept
    PROVE  /\ BookInv /\ BookTypes /\ BookTypes' /\ RegistersAdvance /\ LiveInv /\ RestInv /\ PulledInv /\ RoundInv
           /\ WordTypes /\ WordsInv
           /\ book \in [Devices -> Books] /\ round \in [Devices -> Rounds] /\ slot \in Seq(Notes) /\ slot' \in Seq(Notes)
           /\ \A d \in Devices : book[d] \in SoundBooks /\ Coming(d) \in SoundBooks
<1>1. /\ BookInv /\ BookTypes /\ BookTypes' /\ RegistersAdvance /\ LiveInv /\ RestInv /\ PulledInv /\ RoundInv
      /\ WordTypes /\ WordsInv  BY DEF WordInv, Kept, BookInv
<1>2. book \in [Devices -> Books] /\ round \in [Devices -> Rounds] /\ slot \in Seq(Notes) /\ slot' \in Seq(Notes)
  BY <1>1 DEF BookTypes
<1>3. ASSUME NEW d \in Devices PROVE book[d] \in SoundBooks /\ Coming(d) \in SoundBooks
  <2>1. book[d] \in SoundBooks  BY <1>1, <1>2 DEF SoundBooks, BookInv, CountersInv
  <2>2. Coming(d) \in Books /\ Coming(d).state = book[d].state /\ Coming(d).lamport = book[d].lamport  BY <1>1, ComingIs
  <2>3. Coming(d) \in SoundBooks
    <3> DEFINE p == Coming(d)
    <3>1. p \in Books /\ p.state = book[d].state /\ p.lamport = book[d].lamport  BY <2>2
    <3> HIDE DEF p
    <3>2. p \in SoundBooks  BY <2>1, <3>1 DEF SoundBooks
    <3> QED  BY <3>2 DEF p
  <2> QED  BY <2>1, <2>3
<1> QED  BY <1>1, <1>2, <1>3

\* A fold, with nothing left to project, leaves the word where it is.
LEMMA FoldStands ==
    ASSUME WordInv, Kept, NEW d \in Devices, NEW c \in Tracked, NEW v \in Devices, WordOn(v, c), ~Unprojected(d, c)
    PROVE  LET f == Fold(d, book[d]) IN
           /\ ~Off(f, c)
           /\ v = d => Holds(f, c, lastWord[c].val, InFlight(c))
           /\ (v # d \/ ~Off(book[d], c)) =>
                f.state[c] = book[d].state[c] /\ f.ledger[c] = book[d].ledger[c] /\ (c = Me => f.legacy = book[d].legacy)
<1>1. /\ BookInv /\ BookTypes /\ LiveInv /\ book[d] \in SoundBooks  BY WordFacts
<1>2. book[d] \in Books  BY <1>1 DEF SoundBooks
<1>3. /\ ~Off(Fold(d, book[d]), c)
      /\ ~Off(book[d], c) => /\ Fold(d, book[d]).state[c] = book[d].state[c]
                             /\ Fold(d, book[d]).ledger[c] = book[d].ledger[c]
                             /\ c = Me => Fold(d, book[d]).legacy = book[d].legacy  BY <1>2, FoldCell
<1>4. v = d => Holds(Fold(d, book[d]), c, lastWord[c].val, InFlight(c))
  <2> SUFFICES ASSUME v = d PROVE Holds(Fold(d, book[d]), c, lastWord[c].val, InFlight(c))  OBVIOUS
  <2>1. Holds(book[d], c, lastWord[c].val, InFlight(c))  BY <1>1, HolderHolds
  <2>2. Told(c, InFlight(c))  BY <1>1, FlightTold
  <2> QED  BY <2>1, <2>2, FoldHolds
<1>5. v # d => ~Off(book[d], c)
  <2> SUFFICES ASSUME v # d PROVE ~Off(book[d], c)  OBVIOUS
  <2>1. ~Off(Coming(d), c)  BY DEF WordOn
  <2> QED  BY <1>1, <2>1, ComingOff
<1> QED  BY <1>3, <1>4, <1>5

LEMMA RacedIs ==
    ASSUME WordTypes, NEW d, Raced(d)
    PROVE  /\ WordTypes'
           /\ \A c \in Cells : lastWord'[c].known = "sure" => ~Unprojected(d, c) /\ lastWord'[c] = lastWord[c]
<1> DEFINE W == [known : {"sure", "raced", "contested"}, val : AnyValue]
<1>1. \A c \in Cells : lastWord[c] \in W  BY DEF WordTypes
<1>2. \A c \in Cells : lastWord'[c] = IF Unprojected(d, c) THEN [lastWord[c] EXCEPT !.known = "raced"] ELSE lastWord[c]
  BY DEF Raced
<1>3. \A w \in W : [w EXCEPT !.known = "raced"] \in W /\ [w EXCEPT !.known = "raced"].known = "raced"  OBVIOUS
<1>4. lastWord' = [c \in Cells |-> lastWord'[c]]  BY DEF Raced
<1> HIDE DEF W
<1>5. \A c \in Cells : lastWord'[c] \in W  BY <1>1, <1>2, <1>3
<1>6. lastWord' \in [Cells -> W]  BY <1>4, <1>5
<1>7. \A c \in Cells : Unprojected(d, c) => lastWord'[c].known = "raced"  BY <1>1, <1>2, <1>3
<1> QED  BY <1>2, <1>6, <1>7 DEF WordTypes, W

\* device pair: the fold behind the code; what it stamps inside a merge is no word.
LEMMA PairHostWord ==
    ASSUME WordInv, Kept, NEW d \in Devices, PairHost(d)
    PROVE  WordInv'
<1> DEFINE b == Fold(d, book[d])
<1>1. /\ payload' = ToSnapshot(b) /\ book' = [book EXCEPT ![d] = b] /\ Raced(d)
      /\ member' = member /\ round' = round /\ slot' = slot  BY DEF PairHost, PairPayload
<1>2. /\ BookInv /\ BookTypes /\ BookTypes' /\ RegistersAdvance /\ LiveInv /\ RestInv /\ PulledInv /\ RoundInv
      /\ WordTypes /\ WordsInv /\ book \in [Devices -> Books]  BY WordFacts
<1>3. b \in Books /\ book[d] \in Books /\ book'[d] = b  BY <1>1, <1>2, FoldIs
<1>4. AllLive(b.state)
  <2> SUFFICES ASSUME NEW c \in Tracked PROVE Valued(c, b.state[c])  BY DEF AllLive
  <2>1. Valued(c, book[d].state[c])  BY <1>2 DEF LiveInv, AllLive
  <2> QED  BY <1>3, <2>1, FoldCell
<1>5. ASSUME NEW c \in Tracked, NEW v \in Devices, WordOn(v, c), ~Unprojected(d, c)
      PROVE  /\ ~Off(b, c)
             /\ v = d => Holds(b, c, lastWord[c].val, InFlight(c))
             /\ (v # d \/ ~Off(book[d], c)) =>
                  b.state[c] = book[d].state[c] /\ b.ledger[c] = book[d].ledger[c] /\ (c = Me => b.legacy = book[d].legacy)
  BY <1>5, FoldStands
<1> HIDE DEF b
<1>6. Carried(b)
  <2>1. payload'.state = b.state  BY <1>1 DEF ToSnapshot
  <2> QED  BY <1>1, <2>1 DEF Carried
<1>7. LiveInv'  BY <1>1, <1>2, <1>4, <1>6, LiveKeeps
<1>8. RestInv'  BY <1>1, <1>2, RestKeeps
<1>9. PulledInv'  BY <1>1, <1>2, PulledKeeps
<1>10. RoundInv'  BY <1>1, <1>2 DEF RoundInv
<1>11. WordTypes' /\ \A c \in Cells : lastWord'[c].known = "sure" => ~Unprojected(d, c) /\ lastWord'[c] = lastWord[c]
  BY <1>1, <1>2, RacedIs
<1>12. ASSUME NEW c \in Tracked, lastWord'[c].known = "sure" PROVE \E v \in Devices : WordOn(v, c)'
  <2>1. ~Unprojected(d, c) /\ lastWord'[c] = lastWord[c]  BY <1>11, <1>12, TrackedIs
  <2>2. PICK v \in Devices : WordOn(v, c)  BY <1>2, <1>12, <2>1 DEF WordsInv
  <2>3. /\ ~Off(b, c)
        /\ v = d => Holds(b, c, lastWord[c].val, InFlight(c))
        /\ (v # d \/ ~Off(book[d], c)) =>
             b.state[c] = book[d].state[c] /\ b.ledger[c] = book[d].ledger[c] /\ (c = Me => b.legacy = book[d].legacy)
    BY <1>5, <2>1, <2>2
  <2>4. ASSUME round[d].pc = "project", b.ledger[c] = book[d].ledger[c]
        PROVE  ~Unprojected(d, c)' /\ ~Off(Coming(d), c)'
    <3> DEFINE m == round[d].mem
               q == Project(b, m)
    <3>1. m \in States  BY <1>2, <2>4 DEF BookTypes
    <3>2. Project(book[d], m).ledger[c] = book[d].ledger[c]  BY <2>1, <2>4 DEF Unprojected
    <3>3. q.ledger[c] = Project(book[d], m).ledger[c]  BY <1>3, <2>4, <3>1, ProjectSame
    <3>4. q.ledger[c] = b.ledger[c] /\ q.state = b.state /\ q.legacy = b.legacy  BY <1>3, <2>4, <3>1, <3>2, <3>3, ProjectIs
    <3>5. Coming(d)' = q  BY <1>1, <1>3, <2>4 DEF Coming
    <3>6. Unprojected(d, c)' <=> q.ledger[c] # b.ledger[c]  BY <1>1, <1>3, <2>4 DEF Unprojected
    <3> HIDE DEF q
    <3>7. ~Off(q, c)  BY <2>3, <3>4, OffSame
    <3> QED  BY <3>4, <3>5, <3>6, <3>7
  <2>5. v = d => /\ Holds(b, c, lastWord[c].val, InFlight(c))
                 /\ round'[d].pc = "project" => ~Unprojected(d, c)' /\ ~Off(b, c)
    <3> SUFFICES ASSUME v = d, round'[d].pc = "project" PROVE ~Unprojected(d, c)'  BY <2>3
    <3>1. ~Off(book[d], c)  BY <1>1, <2>2 DEF WordOn
    <3> QED  BY <1>1, <2>3, <2>4, <3>1
  <2>6. v # d => b.state[c] \in InFlight(c) \cup {book[d].state[c]} /\ ~Off(Coming(d), c)'
    <3> SUFFICES ASSUME v # d PROVE b.state[c] = book[d].state[c] /\ ~Off(Coming(d), c)'  OBVIOUS
    <3>1. b.state[c] = book[d].state[c] /\ b.ledger[c] = book[d].ledger[c]  BY <2>3
    <3>2. CASE round[d].pc = "project"  BY <2>4, <3>1, <3>2
    <3>3. CASE round[d].pc # "project"
      <4>1. Coming(d)' = b  BY <1>1, <1>3, <3>3 DEF Coming
      <4> QED  BY <2>3, <3>1, <4>1
    <3> QED  BY <3>1, <3>2, <3>3
  <2>7. WordOn(v, c)'  BY <1>1, <1>2, <1>6, <2>1, <2>2, <2>5, <2>6, StepStands
  <2> QED  BY <2>7
<1>13. WordsInv'  BY <1>12 DEF WordsInv
<1> QED  BY <1>7, <1>8, <1>9, <1>10, <1>11, <1>13 DEF WordInv, Kept

\* device join: the machine merges the payload as a round would.
LEMMA PairJoinWord ==
    ASSUME WordInv, Kept, NEW d \in Devices, PairJoin(d)
    PROVE  WordInv'
<1> DEFINE b == ApplyMerged(d, book[d], payload)
<1>1. /\ payload # Unset /\ d \notin member /\ book' = [book EXCEPT ![d] = b] /\ member' = member \cup {d}
      /\ payload' = Unset /\ round' = round /\ slot' = slot /\ lastWord' = lastWord  BY DEF PairJoin
<1>2. /\ BookInv /\ BookTypes /\ BookTypes' /\ RegistersAdvance /\ LiveInv /\ RestInv /\ PulledInv /\ RoundInv
      /\ WordTypes /\ WordsInv /\ book \in [Devices -> Books] /\ book[d] \in SoundBooks  BY WordFacts
<1>3. payload \in Snapshots /\ AllLive(payload.state)  BY <1>1, <1>2 DEF BookTypes, LiveInv
<1>4. Coming(d) = book[d] /\ round[d].pc # "project"  BY <1>1, <1>2 DEF RoundInv, Coming
<1>5. \A c \in Tracked : Valued(c, book[d].state[c]) /\ Valued(c, Heard(payload, c)) /\ Heard(payload, c) \in RegisterOf(c)
  BY <1>2, <1>3, HeardIs DEF LiveInv, AllLive
<1>6. AllLive(b.state)
  <2> SUFFICES ASSUME NEW c \in Tracked PROVE Valued(c, b.state[c])  BY DEF AllLive
  <2> QED  BY <1>2, <1>3, <1>5, ApplyMergedCell
<1>7. ASSUME NEW c \in Tracked, NEW v \in Devices, WordOn(v, c)
      PROVE  /\ v = d => Holds(b, c, lastWord[c].val, InFlight(c))
             /\ v # d => Quiet(b, c, book[d].state[c], InFlight(c))
  <2>1. Told(c, InFlight(c)) /\ Heard(payload, c) \in InFlight(c)  BY <1>1, <1>2, <1>5, FlightTold DEF InFlight
  <2>2. CASE v = d
    <3>1. Holds(book[d], c, lastWord[c].val, InFlight(c))  BY <1>2, <1>7, <2>2, HolderHolds
    <3> QED  BY <1>3, <2>1, <2>2, <3>1, MergeHolds
  <2>3. CASE v # d
    <3>1. Quiet(book[d], c, book[d].state[c], InFlight(c))  BY <1>2, <1>4, <1>7, <2>3, OtherQuiet
    <3> QED  BY <1>3, <2>1, <2>3, <3>1, MergeQuiet
  <2> QED  BY <2>2, <2>3
<1> HIDE DEF b
<1>8. Carried(b)  BY <1>1 DEF Carried
<1>9. LiveInv'  BY <1>1, <1>2, <1>6, <1>8, LiveKeeps
<1>10. RestInv'  BY <1>1, <1>2, RestKeeps
<1>11. PulledInv'  BY <1>1, <1>2, PulledKeeps
<1>12. RoundInv'  BY <1>1, <1>2 DEF RoundInv
<1>13. WordTypes'  BY <1>1, <1>2 DEF WordTypes
<1>14. book'[d] = b /\ Coming(d)' = b /\ round'[d].pc # "project"  BY <1>1, <1>2, <1>4 DEF Coming
<1>15. ASSUME NEW c \in Tracked, lastWord'[c].known = "sure" PROVE \E v \in Devices : WordOn(v, c)'
  <2>1. PICK v \in Devices : WordOn(v, c)  BY <1>1, <1>2, <1>15 DEF WordsInv
  <2>2. v = d => Holds(b, c, lastWord[c].val, InFlight(c))  BY <1>7, <2>1
  <2>3. v # d => b.state[c] \in InFlight(c) \cup {book[d].state[c]} /\ ~Off(Coming(d), c)'
    BY <1>7, <1>14, <2>1 DEF Quiet
  <2>4. WordOn(v, c)'  BY <1>1, <1>2, <1>8, <1>14, <2>1, <2>2, <2>3, StepStands
  <2> QED  BY <2>4
<1>16. WordsInv'  BY <1>15 DEF WordsInv
<1> QED  BY <1>9, <1>10, <1>11, <1>12, <1>13, <1>16 DEF WordInv, Kept

\* What a round hears from the slot, and from what it has left of it.
LEMMA SlotHeard ==
    ASSUME BookTypes, LiveInv, NEW c \in Tracked
    PROVE  /\ \A i \in 1 .. Len(slot) :
                /\ slot[i].snap \in Snapshots /\ Valued(c, Heard(slot[i].snap, c))
                /\ slot[i].ok => Heard(slot[i].snap, c) \in InFlight(c)
           /\ \A e \in Devices : \A i \in 1 .. Len(round[e].rest) :
                /\ round[e].rest[i].snap \in Snapshots /\ Valued(c, Heard(round[e].rest[i].snap, c))
                /\ round[e].rest[i].ok => Heard(round[e].rest[i].snap, c) \in InFlight(c)
<1>1. ASSUME NEW i \in 1 .. Len(slot)
      PROVE  /\ slot[i].snap \in Snapshots /\ Valued(c, Heard(slot[i].snap, c))
             /\ slot[i].ok => Heard(slot[i].snap, c) \in InFlight(c)
  <2>1. slot \in Seq(Notes) /\ AllLive(slot[i].snap.state)  BY DEF BookTypes, LiveInv
  <2>2. slot[i].snap \in Snapshots  BY <2>1, NoteIs
  <2>3. Heard(slot[i].snap, c) \in RegisterOf(c) /\ Valued(c, Heard(slot[i].snap, c))  BY <2>1, <2>2, HeardIs DEF AllLive
  <2> QED  BY <2>2, <2>3 DEF InFlight
<1>2. ASSUME NEW e \in Devices, NEW i \in 1 .. Len(round[e].rest)
      PROVE  /\ round[e].rest[i].snap \in Snapshots /\ Valued(c, Heard(round[e].rest[i].snap, c))
             /\ round[e].rest[i].ok => Heard(round[e].rest[i].snap, c) \in InFlight(c)
  <2>1. round[e].rest \in Seq(Notes) /\ AllLive(round[e].rest[i].snap.state)  BY DEF BookTypes, Rounds, LiveInv
  <2>2. round[e].rest[i].snap \in Snapshots  BY <2>1, NoteIs
  <2>3. Heard(round[e].rest[i].snap, c) \in RegisterOf(c) /\ Valued(c, Heard(round[e].rest[i].snap, c))
    BY <2>1, <2>2, HeardIs DEF AllLive
  <2> QED  BY <2>2, <2>3 DEF InFlight
<1> QED  BY <1>1, <1>2

\* A round that merges and projects all its notes at once.
LEMMA PullRoundWord ==
    ASSUME WordInv, Kept, NEW d \in Devices, PullRound(d)
    PROVE  WordInv'
<1> DEFINE b == ApplyAll(d, book[d], slot)
           m == \E i \in 1 .. Len(slot) : slot[i].ok
           r == [Idle EXCEPT !.pc = "push", !.merged = m]
<1>1. /\ round' = [round EXCEPT ![d] = r] /\ slot' = Pulled(d) /\ book' = [book EXCEPT ![d] = b]
      /\ payload' = payload /\ member' = member /\ lastWord' = lastWord
      /\ d \in member /\ round[d].pc = "idle"  BY DEF PullRound
<1>2. /\ BookInv /\ BookTypes /\ BookTypes' /\ RegistersAdvance /\ LiveInv /\ RestInv /\ PulledInv /\ RoundInv
      /\ WordTypes /\ WordsInv /\ book \in [Devices -> Books] /\ book[d] \in SoundBooks
      /\ slot \in Seq(Notes) /\ round \in [Devices -> Rounds]  BY WordFacts
<1>3. m \in BOOLEAN  OBVIOUS
<1>4. r.rest = <<>> /\ r.pc = "push"  BY <1>3, IdleFacts
<1>5. Coming(d) = book[d]  BY <1>1 DEF Coming
<1>6. ASSUME NEW c \in Tracked
      PROVE  /\ Valued(c, b.state[c])
             /\ \A i \in 1 .. Len(slot) : slot[i].ok => ~Newer(Heard(slot[i].snap, c), b.state[c])
  <2>1. Valued(c, book[d].state[c])  BY <1>2 DEF LiveInv, AllLive
  <2>2. \A i \in 1 .. Len(slot) : slot[i].ok => Valued(c, Heard(slot[i].snap, c))  BY <1>2, SlotHeard
  <2> QED  BY <1>2, <2>1, <2>2, AllMerged
<1>7. ASSUME NEW c \in Tracked, NEW v \in Devices, WordOn(v, c)
      PROVE  /\ v = d => Holds(b, c, lastWord[c].val, InFlight(c))
             /\ v # d => Quiet(b, c, book[d].state[c], InFlight(c))
  <2>1. /\ Told(c, InFlight(c))
        /\ \A i \in 1 .. Len(slot) : slot[i].ok => Heard(slot[i].snap, c) \in InFlight(c)
    BY <1>2, FlightTold, SlotHeard
  <2>2. CASE v = d
    <3>1. Holds(book[d], c, lastWord[c].val, InFlight(c))  BY <1>2, <1>7, <2>2, HolderHolds
    <3> QED  BY <1>2, <2>1, <2>2, <3>1, AllHold
  <2>3. CASE v # d
    <3>1. Quiet(book[d], c, book[d].state[c], InFlight(c))  BY <1>2, <1>5, <1>7, <2>3, OtherQuiet
    <3> QED  BY <1>2, <2>1, <2>3, <3>1, AllQuiet
  <2> QED  BY <2>2, <2>3
<1> HIDE DEF b, r, m
<1>8. AllLive(b.state)  BY <1>6 DEF AllLive
<1>9. /\ Len(slot') = Len(slot)
      /\ \A i \in 1 .. Len(slot) : /\ slot'[i].snap = slot[i].snap /\ slot'[i].ok = slot[i].ok
                                   /\ slot'[i].by = slot[i].by \cup {d}  BY <1>1, <1>2, PulledIs
<1>10. \A e \in Devices : round'[e] = IF e = d THEN r ELSE round[e]  BY <1>1, <1>2
<1>11. round'[d].rest = <<>> /\ round'[d].pc = "push" /\ \A i : i \notin 1 .. Len(round'[d].rest)
  <2>1. round'[d].rest = <<>> /\ round'[d].pc = "push"  BY <1>4, <1>10
  <2>2. \A i : i \notin 1 .. 0  OBVIOUS
  <2> QED  BY <2>1, <2>2
<1>12. book'[d] = b /\ Coming(d)' = b  BY <1>1, <1>2, <1>11 DEF Coming
<1>13. Carried(b)
  <2>1. \A e \in Devices \ {d} : round'[e].rest = round[e].rest  BY <1>10
  <2> QED  BY <1>1, <1>9, <1>11, <2>1 DEF Carried
<1>14. LiveInv'  BY <1>1, <1>2, <1>8, <1>13, LiveKeeps
<1>15. RestInv'
  <2>1. \A j \in 1 .. Len(slot) : slot[j].ok => \E k \in 1 .. Len(slot') : slot'[k].ok /\ slot'[k].snap = slot[j].snap
    BY <1>9
  <2> QED  BY <1>2, <1>13, <2>1, RestKeeps DEF Carried
<1>16. PulledInv'
  <2> SUFFICES ASSUME NEW e \in Devices, NEW k \in 1 .. Len(slot'), e \in slot'[k].by, slot'[k].ok
               PROVE  \/ /\ round'[e].rest = round[e].rest
                         /\ \E j \in 1 .. Len(slot) : slot[j].snap = slot'[k].snap /\ e \in slot[j].by /\ slot[j].ok
                      \/ \A c \in Tracked : ~Newer(Heard(slot'[k].snap, c), book'[e].state[c])
    BY <1>2, PulledKeeps
  <2>1. CASE e = d  BY <1>6, <1>9, <1>12, <2>1
  <2>2. CASE e # d  BY <1>9, <1>10, <2>2
  <2> QED  BY <2>1, <2>2
<1>17. RoundInv'
  <2>1. \A e \in Devices \ {d} : round'[e] = round[e]  BY <1>10
  <2> QED  BY <1>1, <1>2, <1>11, <2>1 DEF RoundInv
<1>18. WordTypes'  BY <1>1, <1>2 DEF WordTypes
<1>19. ASSUME NEW c \in Tracked, lastWord'[c].known = "sure" PROVE \E v \in Devices : WordOn(v, c)'
  <2>1. PICK v \in Devices : WordOn(v, c)  BY <1>1, <1>2, <1>19 DEF WordsInv
  <2>2. v = d => Holds(b, c, lastWord[c].val, InFlight(c))  BY <1>7, <2>1
  <2>3. v # d => b.state[c] \in InFlight(c) \cup {book[d].state[c]} /\ ~Off(Coming(d), c)'
    BY <1>7, <1>12, <2>1 DEF Quiet
  <2>4. round'[d].pc # "project" /\ \A e \in Devices \ {d} : round'[e] = round[e]  BY <1>10, <1>11
  <2>5. WordOn(v, c)'  BY <1>1, <1>2, <1>13, <2>1, <2>2, <2>3, <2>4, StepStands
  <2> QED  BY <2>5
<1>20. WordsInv'  BY <1>19 DEF WordsInv
<1> QED  BY <1>14, <1>15, <1>16, <1>17, <1>18, <1>20 DEF WordInv, Kept

\* ... and the rest of its notes.
LEMMA ResumeRoundWord ==
    ASSUME WordInv, Kept, NEW d \in Devices, ResumeRound(d)
    PROVE  WordInv'
<1> DEFINE p == Coming(d)
           b == ApplyAll(d, p, round[d].rest)
           r == [round[d] EXCEPT !.pc = "push", !.mem = Unset, !.rest = <<>>]
<1>1. /\ round' = [round EXCEPT ![d] = r] /\ slot' = slot /\ book' = [book EXCEPT ![d] = b]
      /\ payload' = payload /\ member' = member /\ lastWord' = lastWord
      /\ round[d].pc = "project"  BY DEF ResumeRound, Coming
<1>2. /\ BookInv /\ BookTypes /\ BookTypes' /\ RegistersAdvance /\ LiveInv /\ RestInv /\ PulledInv /\ RoundInv
      /\ WordTypes /\ WordsInv /\ book \in [Devices -> Books] /\ p \in SoundBooks
      /\ slot \in Seq(Notes) /\ round \in [Devices -> Rounds]  BY WordFacts
<1>3. round[d].rest \in Seq(Notes) /\ r.rest = <<>> /\ r.pc = "push"  BY <1>2 DEF Rounds
<1>4. p.state = book[d].state  BY <1>2, ComingIs
<1>5. ASSUME NEW c \in Tracked
      PROVE  /\ Valued(c, b.state[c])
             /\ \A i \in 1 .. Len(round[d].rest) : round[d].rest[i].ok => ~Newer(Heard(round[d].rest[i].snap, c), b.state[c])
  <2>1. Valued(c, p.state[c])  BY <1>2, <1>4 DEF LiveInv, AllLive
  <2>2. \A i \in 1 .. Len(round[d].rest) : round[d].rest[i].ok => Valued(c, Heard(round[d].rest[i].snap, c))
    BY <1>2, SlotHeard
  <2> HIDE DEF p
  <2> QED  BY <1>2, <1>3, <2>1, <2>2, AllMerged
<1>6. ASSUME NEW c \in Tracked, NEW v \in Devices, WordOn(v, c)
      PROVE  /\ v = d => Holds(b, c, lastWord[c].val, InFlight(c))
             /\ v # d => Quiet(b, c, book[d].state[c], InFlight(c))
  <2>1. /\ Told(c, InFlight(c))
        /\ \A i \in 1 .. Len(round[d].rest) : round[d].rest[i].ok => Heard(round[d].rest[i].snap, c) \in InFlight(c)
    BY <1>2, FlightTold, SlotHeard
  <2>2. v = d => Holds(p, c, lastWord[c].val, InFlight(c))  BY <1>2, <1>6, HolderHolds
  <2>3. v # d => Quiet(p, c, book[d].state[c], InFlight(c))  BY <1>2, <1>6, OtherQuiet
  <2> HIDE DEF p
  <2>4. CASE v = d  BY <1>3, <2>1, <2>2, <2>4, AllHold
  <2>5. CASE v # d  BY <1>3, <2>1, <2>3, <2>5, AllQuiet
  <2> QED  BY <2>4, <2>5
<1> HIDE DEF b, r, p
<1>7. AllLive(b.state)  BY <1>5 DEF AllLive
<1>8. \A e \in Devices : round'[e] = IF e = d THEN r ELSE round[e]  BY <1>1, <1>2
<1>9. round'[d].rest = <<>> /\ round'[d].pc = "push" /\ \A i : i \notin 1 .. Len(round'[d].rest)
  <2>1. round'[d].rest = <<>> /\ round'[d].pc = "push"  BY <1>3, <1>8
  <2>2. \A i : i \notin 1 .. 0  OBVIOUS
  <2> QED  BY <2>1, <2>2
<1>10. book'[d] = b /\ Coming(d)' = b  BY <1>1, <1>2, <1>9 DEF Coming
<1>11. Carried(b)
  <2>1. \A e \in Devices \ {d} : round'[e].rest = round[e].rest  BY <1>8
  <2> QED  BY <1>1, <1>9, <2>1 DEF Carried
<1>12. LiveInv'  BY <1>1, <1>2, <1>7, <1>11, LiveKeeps
<1>13. RestInv'  BY <1>1, <1>2, <1>11, RestKeeps DEF Carried
<1>14. PulledInv'
  <2> SUFFICES ASSUME NEW e \in Devices, NEW k \in 1 .. Len(slot'), e \in slot'[k].by, slot'[k].ok
               PROVE  \/ /\ round'[e].rest = round[e].rest
                         /\ \E j \in 1 .. Len(slot) : slot[j].snap = slot'[k].snap /\ e \in slot[j].by /\ slot[j].ok
                      \/ \A c \in Tracked : ~Newer(Heard(slot'[k].snap, c), book'[e].state[c])
    BY <1>2, PulledKeeps
  <2>1. CASE e # d  BY <1>1, <1>8, <2>1
  <2>2. CASE e = d
    <3>1. slot[k].snap \in Snapshots  BY <1>1, <1>2, NoteIs
    <3>2. CASE \A c \in Tracked : ~Newer(Heard(slot[k].snap, c), book[d].state[c])
      BY <1>1, <1>2, <2>2, <3>1, <3>2, StillMerged
    <3>3. CASE \E i \in 1 .. Len(round[d].rest) : round[d].rest[i].ok /\ slot[k].snap = round[d].rest[i].snap
      BY <1>1, <1>5, <1>10, <2>2, <3>3
    <3> QED  BY <1>1, <1>2, <2>2, <3>2, <3>3 DEF PulledInv
  <2> QED  BY <2>1, <2>2
<1>15. RoundInv'
  <2>1. \A e \in Devices \ {d} : round'[e] = round[e]  BY <1>8
  <2>2. d \in member  BY <1>1, <1>2 DEF RoundInv
  <2> QED  BY <1>1, <1>2, <1>9, <2>1, <2>2 DEF RoundInv
<1>16. WordTypes'  BY <1>1, <1>2 DEF WordTypes
<1>17. ASSUME NEW c \in Tracked, lastWord'[c].known = "sure" PROVE \E v \in Devices : WordOn(v, c)'
  <2>1. PICK v \in Devices : WordOn(v, c)  BY <1>1, <1>2, <1>17 DEF WordsInv
  <2>2. v = d => Holds(b, c, lastWord[c].val, InFlight(c))  BY <1>6, <2>1
  <2>3. v # d => b.state[c] \in InFlight(c) \cup {book[d].state[c]} /\ ~Off(Coming(d), c)'
    BY <1>6, <1>10, <2>1 DEF Quiet
  <2>4. round'[d].pc # "project" /\ \A e \in Devices \ {d} : round'[e] = round[e]  BY <1>8, <1>9
  <2>5. WordOn(v, c)'  BY <1>1, <1>2, <1>11, <2>1, <2>2, <2>3, <2>4, StepStands
  <2> QED  BY <2>5
<1>18. WordsInv'  BY <1>17 DEF WordsInv
<1> QED  BY <1>12, <1>13, <1>14, <1>15, <1>16, <1>18 DEF WordInv, Kept

\* A round preempted when it has saved a merge and not projected it.
LEMMA PullPreemptedWord ==
    ASSUME WordInv, Kept, NEW d \in Devices, NEW i \in 1 .. Len(slot), PullPreempted(d, i)
    PROVE  WordInv'
<1> DEFINE front == SubSeq(slot, 1, i - 1)
           x == ApplyAll(d, book[d], front)
           snap == slot[i].snap
           b == MergeIn(d, x, snap)
           y == ApplyMerged(d, x, snap)
           rest == SubSeq(LetGo(d, slot), i + 1, Len(slot))
           r == [Idle EXCEPT !.pc = "project", !.mem = b.state, !.rest = rest, !.merged = TRUE]
<1>1. /\ round' = [round EXCEPT ![d] = r] /\ slot' = Pulled(d) /\ book' = [book EXCEPT ![d] = b]
      /\ payload' = payload /\ member' = member /\ lastWord' = lastWord
      /\ d \in member /\ round[d].pc = "idle" /\ slot[i].ok  BY DEF PullPreempted
<1>2. /\ BookInv /\ BookTypes /\ BookTypes' /\ RegistersAdvance /\ LiveInv /\ RestInv /\ PulledInv /\ RoundInv
      /\ WordTypes /\ WordsInv /\ book \in [Devices -> Books] /\ book[d] \in SoundBooks
      /\ slot \in Seq(Notes) /\ round \in [Devices -> Rounds]  BY WordFacts
<1>3. /\ front \in Seq(Notes) /\ Len(front) = i - 1
      /\ \A j \in 1 .. Len(front) : j \in 1 .. Len(slot) /\ front[j] = slot[j]  BY <1>2, SubSeqIs
<1>4. /\ \A j \in 1 .. Len(rest) : \E k \in 1 .. Len(slot) : rest[j].snap = slot[k].snap /\ rest[j].ok = slot[k].ok
      /\ \A k \in 1 .. Len(slot) : k <= i \/ \E j \in 1 .. Len(rest) : rest[j].snap = slot[k].snap /\ rest[j].ok = slot[k].ok
  BY <1>2, RestIs
<1>5. Coming(d) = book[d]  BY <1>1 DEF Coming
<1>6. r.pc = "project" /\ r.rest = rest /\ r.mem = b.state  BY DEF Idle
<1>7. snap \in Snapshots  BY <1>2, NoteIs
<1>8. y = Project(b, b.state)  BY DEF ApplyMerged
<1> HIDE DEF front, rest, r
<1>9. ASSUME NEW c \in Tracked
      PROVE  /\ b \in SoundBooks /\ Valued(c, b.state[c]) /\ ~Off(y, c) /\ y.state = b.state
             /\ \A j \in 1 .. i : slot[j].ok => ~Newer(Heard(slot[j].snap, c), b.state[c])
             /\ ~Off(b, c) => y.ledger[c] = b.ledger[c]
  <2>1. Valued(c, book[d].state[c])  BY <1>2 DEF LiveInv, AllLive
  <2>2. \A j \in 1 .. Len(slot) : Valued(c, Heard(slot[j].snap, c)) /\ slot[j].snap \in Snapshots  BY <1>2, SlotHeard
  <2>3. \A j \in 1 .. Len(front) : front[j].ok => Valued(c, Heard(front[j].snap, c))  BY <1>3, <2>2
  <2>4. /\ x \in SoundBooks /\ Valued(c, x.state[c])
        /\ \A j \in 1 .. Len(front) : front[j].ok => ~Newer(Heard(front[j].snap, c), x.state[c])
    BY <1>2, <1>3, <2>1, <2>3, AllMerged
  <2> HIDE DEF x
  <2>5. Valued(c, Heard(snap, c))  BY <2>2
  <2>6. /\ b \in SoundBooks /\ ~Newer(Heard(snap, c), b.state[c]) /\ ~Newer(x.state[c], b.state[c])
        /\ Valued(c, b.state[c])  BY <1>7, <2>4, <2>5, MergeInCell
  <2>7. ~Off(y, c) /\ y.state = b.state /\ (~Off(b, c) => y.ledger[c] = b.ledger[c])
    BY <1>7, <2>4, <2>5, ApplyMergedCell
  <2> HIDE DEF b, y
  <2>8. ASSUME NEW j \in 1 .. i, slot[j].ok PROVE ~Newer(Heard(slot[j].snap, c), b.state[c])
    <3>1. j \in 1 .. Len(slot) /\ (j = i \/ j \in 1 .. (i - 1))  BY <1>2
    <3>2. CASE j = i  BY <2>6, <3>2
    <3>3. CASE j \in 1 .. (i - 1)
      <4>1. j \in 1 .. Len(front) /\ front[j] = slot[j]  BY <1>3, <3>3
      <4>2. ~Newer(Heard(slot[j].snap, c), x.state[c])  BY <2>4, <2>8, <4>1
      <4>3. Heard(slot[j].snap, c).n \in Nat /\ Heard(slot[j].snap, c).dev \in Nat  BY <2>2, <3>1, HeardIs
      <4>4. c \in Cells /\ x \in Books /\ b \in Books  BY <2>4, <2>6, TrackedIs DEF SoundBooks
      <4>5. x.state[c].n \in Nat /\ x.state[c].dev \in Nat /\ b.state[c].n \in Nat /\ b.state[c].dev \in Nat
        BY <4>4, BookIs
      <4> QED  BY <2>6, <4>2, <4>3, <4>5, NotNewerTrans
    <3> QED  BY <3>1, <3>2, <3>3
  <2> QED  BY <2>6, <2>7, <2>8
<1>10. ASSUME NEW c \in Tracked, NEW v \in Devices, WordOn(v, c)
       PROVE  /\ v = d => Holds(b, c, lastWord[c].val, InFlight(c)) /\ ~Off(b, c)
              /\ v # d => Quiet(y, c, book[d].state[c], InFlight(c))
  <2>1. /\ Told(c, InFlight(c)) /\ Heard(snap, c) \in InFlight(c)
        /\ \A j \in 1 .. Len(slot) : slot[j].ok => Heard(slot[j].snap, c) \in InFlight(c)
    BY <1>1, <1>2, FlightTold, SlotHeard
  <2>2. \A j \in 1 .. Len(front) : front[j].ok => Heard(front[j].snap, c) \in InFlight(c)  BY <1>3, <2>1
  <2>3. CASE v = d
    <3>1. Holds(book[d], c, lastWord[c].val, InFlight(c))  BY <1>2, <1>10, <2>3, HolderHolds
    <3>2. Holds(x, c, lastWord[c].val, InFlight(c))  BY <1>3, <2>1, <2>2, <3>1, AllHold
    <3> HIDE DEF x
    <3> QED  BY <1>7, <2>1, <2>3, <3>2, MergeHolds
  <2>4. CASE v # d
    <3>1. Quiet(book[d], c, book[d].state[c], InFlight(c))  BY <1>2, <1>5, <1>10, <2>4, OtherQuiet
    <3>2. Quiet(x, c, book[d].state[c], InFlight(c))  BY <1>3, <2>1, <2>2, <3>1, AllQuiet
    <3> HIDE DEF x
    <3> QED  BY <1>7, <2>1, <2>4, <3>2, MergeQuiet
  <2> QED  BY <2>3, <2>4
<1> HIDE DEF b, y, x
<1>11. AllLive(b.state)  BY <1>9 DEF AllLive
<1>12. /\ Len(slot') = Len(slot)
       /\ \A j \in 1 .. Len(slot) : /\ slot'[j].snap = slot[j].snap /\ slot'[j].ok = slot[j].ok
                                    /\ slot'[j].by = slot[j].by \cup {d}  BY <1>1, <1>2, PulledIs
<1>13. \A e \in Devices : round'[e] = IF e = d THEN r ELSE round[e]  BY <1>1, <1>2
<1>14. round'[d].pc = "project" /\ round'[d].rest = rest /\ round'[d].mem = b.state  BY <1>6, <1>13
<1>15. book'[d] = b /\ Coming(d)' = y  BY <1>1, <1>2, <1>8, <1>14 DEF Coming
<1>16. Carried(b)
  <2>1. \A e \in Devices \ {d} : round'[e].rest = round[e].rest  BY <1>13
  <2>2. ASSUME NEW e \in Devices, NEW k \in 1 .. Len(round'[e].rest)
        PROVE  LET m == round'[e].rest[k] IN
               \/ \E j \in 1 .. Len(slot) : m.snap = slot[j].snap /\ m.ok = slot[j].ok
               \/ \E j \in 1 .. Len(round[e].rest) : m.snap = round[e].rest[j].snap /\ m.ok = round[e].rest[j].ok
    <3>1. CASE e = d  BY <1>4, <1>14, <2>2, <3>1
    <3>2. CASE e # d
      <4>1. round'[e].rest = round[e].rest /\ k \in 1 .. Len(round[e].rest)  BY <2>1, <2>2, <3>2
      <4> QED  BY <4>1
    <3> QED  BY <3>1, <3>2
  <2>3. \A k \in 1 .. Len(slot') : \E j \in 1 .. Len(slot) : slot'[k].snap = slot[j].snap /\ slot'[k].ok = slot[j].ok
    BY <1>12
  <2> QED  BY <1>1, <2>2, <2>3 DEF Carried
<1>17. LiveInv'  BY <1>1, <1>2, <1>11, <1>16, LiveKeeps
<1>18. RestInv'
  <2>1. \A j \in 1 .. Len(slot) : slot[j].ok => \E k \in 1 .. Len(slot') : slot'[k].ok /\ slot'[k].snap = slot[j].snap
    BY <1>12
  <2> QED  BY <1>2, <1>16, <2>1, RestKeeps DEF Carried
<1>19. PulledInv'
  <2> SUFFICES ASSUME NEW e \in Devices, NEW k \in 1 .. Len(slot'), e \in slot'[k].by, slot'[k].ok
               PROVE  \/ /\ round'[e].rest = round[e].rest
                         /\ \E j \in 1 .. Len(slot) : slot[j].snap = slot'[k].snap /\ e \in slot[j].by /\ slot[j].ok
                      \/ \A c \in Tracked : ~Newer(Heard(slot'[k].snap, c), book'[e].state[c])
                      \/ \E j \in 1 .. Len(round'[e].rest) : round'[e].rest[j].ok /\ slot'[k].snap = round'[e].rest[j].snap
    BY <1>2, PulledKeeps
  <2>1. k \in 1 .. Len(slot) /\ slot[k].ok /\ slot'[k].snap = slot[k].snap  BY <1>12
  <2>2. CASE e # d  BY <1>12, <1>13, <2>1, <2>2
  <2>3. CASE e = d /\ k <= i
    <3>1. k \in 1 .. i  BY <1>2, <2>1, <2>3
    <3>2. \A c \in Tracked : ~Newer(Heard(slot[k].snap, c), b.state[c])  BY <1>9, <2>1, <3>1
    <3> QED  BY <1>15, <2>1, <2>3, <3>2
  <2>4. CASE e = d /\ ~(k <= i)
    <3>1. \E j \in 1 .. Len(rest) : rest[j].snap = slot[k].snap /\ rest[j].ok = slot[k].ok  BY <1>4, <2>1, <2>4
    <3> QED  BY <1>14, <2>1, <2>4, <3>1
  <2> QED  BY <2>2, <2>3, <2>4
<1>20. RoundInv'
  <2>1. \A e \in Devices \ {d} : round'[e] = round[e]  BY <1>13
  <2> QED  BY <1>1, <1>2, <1>14, <2>1 DEF RoundInv
<1>21. WordTypes'  BY <1>1, <1>2 DEF WordTypes
<1>22. ASSUME NEW c \in Tracked, lastWord'[c].known = "sure" PROVE \E v \in Devices : WordOn(v, c)'
  <2>1. PICK v \in Devices : WordOn(v, c)  BY <1>1, <1>2, <1>22 DEF WordsInv
  <2>2. Unprojected(d, c)' <=> y.ledger[c] # b.ledger[c]  BY <1>8, <1>14, <1>15 DEF Unprojected
  <2>3. v = d => Holds(b, c, lastWord[c].val, InFlight(c)) /\ ~Unprojected(d, c)' /\ ~Off(b, c)
    BY <1>9, <1>10, <2>1, <2>2
  <2>4. v # d => b.state[c] \in InFlight(c) \cup {book[d].state[c]} /\ ~Off(Coming(d), c)'
    <3> SUFFICES ASSUME v # d PROVE b.state[c] \in InFlight(c) \cup {book[d].state[c]} /\ ~Off(Coming(d), c)'  OBVIOUS
    <3>1. Quiet(y, c, book[d].state[c], InFlight(c))  BY <1>10, <2>1
    <3>2. y.state = b.state  BY <1>9
    <3> QED  BY <1>15, <3>1, <3>2 DEF Quiet
  <2>5. \A e \in Devices \ {d} : round'[e] = round[e]  BY <1>13
  <2>6. WordOn(v, c)'  BY <1>1, <1>2, <1>16, <2>1, <2>3, <2>4, <2>5, StepStands
  <2> QED  BY <2>6
<1>23. WordsInv'  BY <1>22 DEF WordsInv
<1> QED  BY <1>17, <1>18, <1>19, <1>20, <1>21, <1>23 DEF WordInv, Kept

\* A round cut off by a crash, or whose post failed.
LEMMA EndRoundWord ==
    ASSUME WordInv, Kept, NEW d \in Devices, EndRound(d)
    PROVE  WordInv'
<1>1. /\ round' = [round EXCEPT ![d] = Idle] /\ slot' = LetGo(d, slot) /\ book' = book /\ Raced(d)
      /\ payload' = payload /\ member' = member  BY DEF EndRound
<1>2. /\ BookInv /\ BookTypes /\ BookTypes' /\ RegistersAdvance /\ LiveInv /\ RestInv /\ PulledInv /\ RoundInv
      /\ WordTypes /\ WordsInv /\ book \in [Devices -> Books] /\ slot \in Seq(Notes) /\ round \in [Devices -> Rounds]
  BY WordFacts
<1>3. book' = [book EXCEPT ![d] = book[d]]  BY <1>1, <1>2
<1>4. AllLive(book[d].state)  BY <1>2 DEF LiveInv
<1>5. /\ Len(slot') = Len(slot)
      /\ \A j \in 1 .. Len(slot) : /\ slot'[j].snap = slot[j].snap /\ slot'[j].ok = slot[j].ok
                                   /\ slot'[j].by = slot[j].by \ {d}  BY <1>1, <1>2, LetGoIs
<1>6. \A e \in Devices : round'[e] = IF e = d THEN Idle ELSE round[e]  BY <1>1, <1>2
<1>7. round'[d].rest = <<>> /\ round'[d].pc = "idle" /\ \A k : k \notin 1 .. Len(round'[d].rest)
  <2>1. round'[d].rest = <<>> /\ round'[d].pc = "idle"  BY <1>6, IdleFacts
  <2>2. \A k : k \notin 1 .. 0  OBVIOUS
  <2> QED  BY <2>1, <2>2
<1>8. Coming(d)' = book[d]  BY <1>1, <1>7 DEF Coming
<1>9. Carried(book[d])
  <2>1. \A e \in Devices \ {d} : round'[e].rest = round[e].rest  BY <1>6
  <2> QED  BY <1>1, <1>5, <1>7, <2>1 DEF Carried
<1>10. LiveInv'  BY <1>2, <1>3, <1>4, <1>9, LiveKeeps
<1>11. RestInv'
  <2>1. \A j \in 1 .. Len(slot) : slot[j].ok => \E k \in 1 .. Len(slot') : slot'[k].ok /\ slot'[k].snap = slot[j].snap
    BY <1>5
  <2> QED  BY <1>2, <1>9, <2>1, RestKeeps DEF Carried
<1>12. PulledInv'
  <2> SUFFICES ASSUME NEW e \in Devices, NEW k \in 1 .. Len(slot'), e \in slot'[k].by, slot'[k].ok
               PROVE  /\ round'[e].rest = round[e].rest
                      /\ \E j \in 1 .. Len(slot) : slot[j].snap = slot'[k].snap /\ e \in slot[j].by /\ slot[j].ok
    BY <1>2, PulledKeeps
  <2>1. k \in 1 .. Len(slot) /\ e # d /\ e \in slot[k].by /\ slot[k].ok /\ slot'[k].snap = slot[k].snap  BY <1>5
  <2> QED  BY <1>6, <2>1
<1>13. RoundInv'
  <2>1. \A e \in Devices \ {d} : round'[e] = round[e]  BY <1>6
  <2> QED  BY <1>1, <1>2, <1>7, <2>1 DEF RoundInv
<1>14. WordTypes' /\ \A c \in Cells : lastWord'[c].known = "sure" => ~Unprojected(d, c) /\ lastWord'[c] = lastWord[c]
  BY <1>1, <1>2, RacedIs
<1>15. ASSUME NEW c \in Tracked, lastWord'[c].known = "sure" PROVE \E v \in Devices : WordOn(v, c)'
  <2>1. ~Unprojected(d, c) /\ lastWord'[c] = lastWord[c]  BY <1>14, <1>15, TrackedIs
  <2>2. PICK v \in Devices : WordOn(v, c)  BY <1>2, <1>15, <2>1 DEF WordsInv
  <2>3. v = d => Holds(book[d], c, lastWord[c].val, InFlight(c))  BY <1>2, <2>2, HolderHolds
  <2>4. v # d => ~Off(Coming(d), c)'
    <3> SUFFICES ASSUME v # d PROVE ~Off(book[d], c)  BY <1>8
    <3>1. ~Off(Coming(d), c)  BY <2>2 DEF WordOn
    <3> QED  BY <1>2, <2>1, <3>1, ComingOff
  <2>5. round'[d].pc # "project" /\ \A e \in Devices \ {d} : round'[e] = round[e]  BY <1>6, <1>7
  <2>6. WordOn(v, c)'  BY <1>2, <1>3, <1>9, <2>1, <2>2, <2>3, <2>4, <2>5, StepStands
  <2> QED  BY <2>6
<1>16. WordsInv'  BY <1>15 DEF WordsInv
<1> QED  BY <1>10, <1>11, <1>12, <1>13, <1>14, <1>16 DEF WordInv, Kept

\* The acks of a round leave what it has not pulled.
LEMMA UnpulledStays ==
    ASSUME NEW d, NEW notes \in Seq(Notes), NEW i \in 1 .. Len(notes), d \notin notes[i].by
    PROVE  \E k \in 1 .. Len(Unpulled(d, notes)) : Unpulled(d, notes)[k] = notes[i]
  BY UnpulledIs

\* The post of a round and its acks: what it took from the slot is merged here.
LEMMA PublishRoundWord ==
    ASSUME WordInv, Kept, NEW d \in Devices, NEW acked \in BOOLEAN, PublishRound(d, acked)
    PROVE  WordInv'
<1> DEFINE mine == Fold(d, book[d])
           b == IF round[d].merged THEN Prune(mine) ELSE mine
           note == Note(SealedNote(ToSnapshot(mine)))
           posted == Append(slot, note)
<1>1. /\ round' = [round EXCEPT ![d] = Idle] /\ book' = [book EXCEPT ![d] = b] /\ round[d].pc = "push"
      /\ slot' = IF acked THEN Unpulled(d, posted) ELSE LetGo(d, posted)
      /\ lastWord' = [c \in Cells |-> IF b.ledger[c] = mine.ledger[c] THEN lastWord[c]
                                      ELSE [known |-> Standing(d, c), val |-> b.ledger[c]]]
      /\ payload' = payload /\ member' = member  BY DEF PublishRound
<1>2. /\ BookInv /\ BookTypes /\ BookTypes' /\ RegistersAdvance /\ LiveInv /\ RestInv /\ PulledInv /\ RoundInv
      /\ WordTypes /\ WordsInv /\ book \in [Devices -> Books] /\ slot \in Seq(Notes) /\ round \in [Devices -> Rounds]
  BY WordFacts
<1>3. mine \in Books /\ book[d] \in Books  BY <1>2, FoldIs
<1>4. \A c \in Tracked : Valued(c, mine.state[c])
  <2> TAKE c \in Tracked
  <2>1. Valued(c, book[d].state[c])  BY <1>2 DEF LiveInv, AllLive
  <2> QED  BY <1>3, <2>1, FoldCell
<1>5. ASSUME NEW c \in Tracked, NEW v \in Devices, WordOn(v, c)
      PROVE  /\ ~Off(mine, c)
             /\ v = d => Holds(mine, c, lastWord[c].val, InFlight(c))
             /\ v # d => mine.state[c] = book[d].state[c]
  <2>1. ~Unprojected(d, c)  BY <1>1 DEF Unprojected
  <2> QED  BY <1>5, <2>1, FoldStands
<1> HIDE DEF mine
<1>6. /\ b \in Books /\ b.state = mine.state /\ b.lamport = mine.lamport /\ b.legacy = mine.legacy
      /\ \A c \in Cells : c.kind # "name" => b.ledger[c] = mine.ledger[c]  BY <1>3, PruneIs
<1>7. note \in Notes /\ note.snap.state = b.state /\ note.by = {}
  <2>1. mine.state \in States /\ mine.lamport \in Nat  BY <1>3, BookIs
  <2> QED  BY <1>6, <2>1 DEF Note, SealedNote, ToSnapshot, Notes, Snapshots
<1> HIDE DEF b, note
<1>8. /\ posted \in Seq(Notes) /\ Len(posted) = Len(slot) + 1 /\ Len(slot) \in Nat
      /\ \A j \in 1 .. Len(posted) : posted[j] = IF j = Len(slot) + 1 THEN note ELSE slot[j]  BY <1>2, <1>7
<1>9. /\ \A j \in 1 .. Len(slot) : j \in 1 .. Len(posted) /\ posted[j] = slot[j]
      /\ \A j \in 1 .. Len(posted) : j \in 1 .. Len(slot) \/ posted[j] = note
  <2>1. \A j \in 1 .. Len(slot) : j \in 1 .. Len(slot) + 1 /\ j # Len(slot) + 1  BY <1>8
  <2>2. \A j \in 1 .. Len(slot) + 1 : j \in 1 .. Len(slot) \/ j = Len(slot) + 1  BY <1>8
  <2> QED  BY <1>8, <2>1, <2>2
<1> HIDE DEF posted
<1>10. \A k \in 1 .. Len(slot') : /\ d \notin slot'[k].by
                                  /\ \E j \in 1 .. Len(posted) : /\ slot'[k].snap = posted[j].snap /\ slot'[k].ok = posted[j].ok
                                                               /\ slot'[k].by \subseteq posted[j].by
  <2>1. CASE acked
    <3>1. slot' = Unpulled(d, posted)  BY <1>1, <2>1
    <3>2. \A k \in 1 .. Len(Unpulled(d, posted)) : \E j \in 1 .. Len(posted) :
            Unpulled(d, posted)[k] = posted[j] /\ d \notin posted[j].by  BY <1>8, UnpulledIs
    <3> QED  BY <3>1, <3>2
  <2>2. CASE ~acked
    <3>1. slot' = LetGo(d, posted)  BY <1>1, <2>2
    <3> QED  BY <1>8, <3>1, LetGoIs
  <2> QED  BY <2>1, <2>2
<1>11. \A k \in 1 .. Len(slot') :
         \/ slot'[k].snap.state = b.state /\ slot'[k].by = {}
         \/ \E j \in 1 .. Len(slot) : /\ slot'[k].snap = slot[j].snap /\ slot'[k].ok = slot[j].ok
                                      /\ slot'[k].by \subseteq slot[j].by
  <2> TAKE k \in 1 .. Len(slot')
  <2>1. PICK j \in 1 .. Len(posted) : /\ slot'[k].snap = posted[j].snap /\ slot'[k].ok = posted[j].ok
                                      /\ slot'[k].by \subseteq posted[j].by  BY <1>10
  <2>2. CASE j \in 1 .. Len(slot)
    <3>1. posted[j] = slot[j]  BY <1>9, <2>2
    <3> QED  BY <2>1, <2>2, <3>1
  <2>3. CASE posted[j] = note  BY <1>7, <2>1, <2>3
  <2> QED  BY <1>9, <2>2, <2>3
<1>12. \A e \in Devices : round'[e] = IF e = d THEN Idle ELSE round[e]  BY <1>1, <1>2
<1>13. round'[d].rest = <<>> /\ round'[d].pc = "idle" /\ \A k : k \notin 1 .. Len(round'[d].rest)
  <2>1. round'[d].rest = <<>> /\ round'[d].pc = "idle"  BY <1>12, IdleFacts
  <2>2. \A k : k \notin 1 .. 0  OBVIOUS
  <2> QED  BY <2>1, <2>2
<1>14. book'[d] = b /\ Coming(d)' = b  BY <1>1, <1>2, <1>13 DEF Coming
<1>15. Carried(b)
  <2>1. \A e \in Devices \ {d} : round'[e].rest = round[e].rest  BY <1>12
  <2> QED  BY <1>1, <1>11, <1>13, <2>1 DEF Carried
<1>16. LiveInv'
  <2>1. AllLive(b.state)  BY <1>4, <1>6 DEF AllLive
  <2> QED  BY <1>1, <1>2, <1>15, <2>1, LiveKeeps
<1>17. ASSUME NEW j \in 1 .. Len(slot), slot[j].ok
       PROVE  \/ \E k \in 1 .. Len(slot') : slot'[k].ok /\ slot'[k].snap = slot[j].snap
              \/ \E f \in Devices : \A c \in Tracked : ~Newer(Heard(slot[j].snap, c), book'[f].state[c])
  <2>1. j \in 1 .. Len(posted) /\ posted[j] = slot[j]  BY <1>9
  <2>2. CASE d \in slot[j].by
    <3>1. slot[j].snap \in Snapshots  BY <1>2, NoteIs
    <3>2. round[d].rest = <<>>  BY <1>1, <1>2 DEF RoundInv
    <3>3. \A k : k \notin 1 .. 0  OBVIOUS
    <3>4. \A k : k \notin 1 .. Len(round[d].rest)  BY <3>2, <3>3
    <3>5. \A c \in Tracked : ~Newer(Heard(slot[j].snap, c), book[d].state[c])  BY <1>2, <1>17, <2>2, <3>4 DEF PulledInv
    <3>6. \A c \in Tracked : ~Newer(Heard(slot[j].snap, c), book'[d].state[c])  BY <1>2, <3>1, <3>5, StillMerged
    <3> QED  BY <3>6
  <2>3. CASE d \notin slot[j].by /\ acked
    <3>1. slot' = Unpulled(d, posted)  BY <1>1, <2>3
    <3>2. posted \in Seq(Notes)  BY <1>8
    <3>3. d \notin posted[j].by  BY <2>1, <2>3
    <3>4. \E k \in 1 .. Len(Unpulled(d, posted)) : Unpulled(d, posted)[k] = posted[j]  BY <2>1, <3>2, <3>3, UnpulledStays
    <3> QED  BY <1>17, <2>1, <3>1, <3>4
  <2>4. CASE ~acked
    <3>1. slot' = LetGo(d, posted)  BY <1>1, <2>4
    <3>2. Len(slot') = Len(posted) /\ slot'[j].snap = posted[j].snap /\ slot'[j].ok = posted[j].ok
      BY <1>8, <2>1, <3>1, LetGoIs
    <3> QED  BY <1>17, <2>1, <3>2
  <2> QED  BY <2>2, <2>3, <2>4
<1>18. RestInv'  BY <1>2, <1>15, <1>17, RestKeeps DEF Carried
<1>19. PulledInv'
  <2> SUFFICES ASSUME NEW e \in Devices, NEW k \in 1 .. Len(slot'), e \in slot'[k].by, slot'[k].ok
               PROVE  /\ round'[e].rest = round[e].rest
                      /\ \E j \in 1 .. Len(slot) : slot[j].snap = slot'[k].snap /\ e \in slot[j].by /\ slot[j].ok
    BY <1>2, PulledKeeps
  <2>1. e # d  BY <1>10
  <2>2. round'[e].rest = round[e].rest  BY <1>12, <2>1
  <2>3. PICK j \in 1 .. Len(slot) : /\ slot'[k].snap = slot[j].snap /\ slot'[k].ok = slot[j].ok
                                    /\ slot'[k].by \subseteq slot[j].by  BY <1>11
  <2> QED  BY <2>2, <2>3
<1>20. RoundInv'
  <2>1. \A e \in Devices \ {d} : round'[e] = round[e]  BY <1>12
  <2> QED  BY <1>1, <1>2, <1>13, <2>1 DEF RoundInv
<1>21. \A c \in Cells : lastWord'[c] = IF b.ledger[c] = mine.ledger[c] THEN lastWord[c]
                                        ELSE [known |-> Standing(d, c), val |-> b.ledger[c]]  BY <1>1
<1>22. WordTypes'
  <2> DEFINE W == [known : {"sure", "raced", "contested"}, val : AnyValue]
  <2>1. lastWord' = [c \in Cells |-> lastWord'[c]]  BY <1>1
  <2>2. ASSUME NEW c \in Cells PROVE lastWord'[c] \in W
    <3>1. lastWord[c] \in W  BY <1>2 DEF WordTypes
    <3>2. b.ledger[c] \in AnyValue  BY <1>6, BookIs, ValueIs
    <3>3. [known |-> Standing(d, c), val |-> b.ledger[c]] \in W  BY <3>2, StandingIs
    <3> HIDE DEF W
    <3> QED  BY <1>21, <3>1, <3>3
  <2> HIDE DEF W
  <2>3. lastWord' \in [Cells -> W]  BY <2>1, <2>2
  <2> QED  BY <2>3 DEF WordTypes, W
<1>23. ASSUME NEW c \in Tracked, lastWord'[c].known = "sure" PROVE \E v \in Devices : WordOn(v, c)'
  <2>1. c \in Cells  BY TrackedIs
  <2>2. round'[d].pc # "project" /\ \A e \in Devices \ {d} : round'[e] = round[e]  BY <1>12, <1>13
  <2>3. CASE b.ledger[c] = mine.ledger[c]
    <3>1. lastWord'[c] = lastWord[c]  BY <1>21, <2>1, <2>3
    <3>2. PICK v \in Devices : WordOn(v, c)  BY <1>2, <1>23, <3>1 DEF WordsInv
    <3>3. /\ ~Off(mine, c)
          /\ v = d => Holds(mine, c, lastWord[c].val, InFlight(c))
          /\ v # d => mine.state[c] = book[d].state[c]  BY <1>5, <3>2
    <3>4. ~Off(b, c)  BY <1>6, <2>3, <3>3, OffSame
    <3>5. v = d => Holds(b, c, lastWord[c].val, InFlight(c))
      <4>1. mine \in SoundBooks => b \in SoundBooks  BY <1>6 DEF SoundBooks
      <4>2. ~(c = Me /\ Adopts(b))  BY <3>4, OffAdopts
      <4> QED  BY <1>6, <2>3, <3>3, <4>1, <4>2 DEF Holds
    <3>6. v # d => b.state[c] \in InFlight(c) \cup {book[d].state[c]} /\ ~Off(Coming(d), c)'
      BY <1>6, <1>14, <3>3, <3>4
    <3>7. WordOn(v, c)'  BY <1>1, <1>2, <1>15, <2>2, <3>1, <3>2, <3>5, <3>6, StepStands
    <3> QED  BY <3>7
  <2>4. CASE b.ledger[c] # mine.ledger[c]
    <3>1. lastWord'[c] = [known |-> Standing(d, c), val |-> b.ledger[c]]  BY <1>21, <2>1, <2>4
    <3>2. Standing(d, c) = "sure" /\ lastWord'[c].val = b.ledger[c]  BY <1>23, <3>1
    <3>3. c # Me  BY <1>6, <2>1, <2>4, CellIn
    <3>4. \A q \in InFlight(c)' : q \in InFlight(c) \/ ~Newer(q, b.state[c])  BY <1>1, <1>2, <1>15, FlightKeeps
    <3>5. ~Newer(book[d].state[c], b.state[c])  BY <1>2, <1>14, <2>1 DEF RegistersAdvance
    <3>6. WordOn(d, c)'  BY <1>1, <1>2, <2>2, <3>2, <3>3, <3>4, <3>5, NewWord
    <3> QED  BY <3>6
  <2> QED  BY <2>3, <2>4
<1>24. WordsInv'  BY <1>23 DEF WordsInv
<1> QED  BY <1>16, <1>18, <1>19, <1>20, <1>22, <1>24 DEF WordInv, Kept

-----------------------------------------------------------------------------
(* The last word: the theorems.                                            *)

LEMMA WordNext ==
    ASSUME WordInv, BookNext
    PROVE  WordInv'
<1>1. Kept  BY BookNextKeeps DEF WordInv
<1>2. CASE \E d \in Devices : Edit(d)  BY <1>1, <1>2, EditWord
<1>3. CASE \E d \in Devices : PairHost(d) \/ PairJoin(d)  BY <1>1, <1>3, PairHostWord, PairJoinWord
<1>4. CASE \E d \in Devices : RoundStep(d)
  <2>1. TRUE \in BOOLEAN  OBVIOUS
  <2> QED  BY <1>1, <1>4, <2>1, PullRoundWord, ResumeRoundWord, PublishRoundWord DEF RoundStep
<1>5. CASE \E d \in Devices : Fault(d)
  <2>1. FALSE \in BOOLEAN  OBVIOUS
  <2> QED  BY <1>1, <1>5, <2>1, PullPreemptedWord, EndRoundWord, PublishRoundWord DEF Fault
<1>6. CASE \E d \in Devices : StartSweep(d)  BY <1>1, <1>6, StartSweepWord
<1> QED  BY <1>2, <1>3, <1>4, <1>5, <1>6 DEF BookNext

LEMMA WordStutter ==
    ASSUME WordInv, UNCHANGED bookVars
    PROVE  WordInv'
<1>1. UNCHANGED <<book, payload, member, round, slot, edits, faults, lastWord>>  BY DEF bookVars
<1>2. BookInv'  BY <1>1, BookStutterKeeps DEF WordInv, bookVars
<1>3. \A c : InFlight(c)' = InFlight(c)  BY <1>1 DEF InFlight, Heard
<1>4. \A d, c : (WordOn(d, c)' <=> WordOn(d, c))  BY <1>1, <1>3 DEF WordOn, IsTop, Unprojected, Coming
<1>5. WordTypes' /\ RoundInv' /\ WordsInv'  BY <1>1, <1>4 DEF WordInv, WordTypes, RoundInv, WordsInv
<1>6. LiveInv' /\ RestInv' /\ PulledInv'  BY <1>1 DEF WordInv, LiveInv, RestInv, PulledInv
<1> QED  BY <1>2, <1>5, <1>6 DEF WordInv

LEMMA WordInit ==
    ASSUME BookInit
    PROVE  WordInv
<1>1. /\ book = [d \in Devices |-> Book0(OldName[d])] /\ member = {Host} /\ payload = Unset
      /\ round = [d \in Devices |-> Idle] /\ slot = OldNotes
      /\ lastWord = [c \in Cells |-> [val |-> EmptyLedger[c], known |->
           IF (c = Me /\ \E d \in Devices : book[d].legacy # Blank) \/ \E i \in 1 .. Len(slot) : slot[i].snap.state[c].n > 0
           THEN "contested" ELSE "sure"]]  BY DEF BookInit
<1>2. BookInv /\ BookTypes  BY BookInitInv DEF BookInv
<1>3. ASSUME NEW d \in Devices
      PROVE  book[d].state = EmptyState /\ book[d].ledger = EmptyLedger
  BY <1>1 DEF Book0
<1>4. \A d \in Devices : round[d].pc = "idle" /\ round[d].rest = <<>> /\ \A k : k \notin 1 .. Len(round[d].rest)
  <2>1. \A d \in Devices : round[d].pc = "idle" /\ round[d].rest = <<>>  BY <1>1, IdleFacts
  <2>2. \A k : k \notin 1 .. 0  OBVIOUS
  <2> QED  BY <2>1, <2>2
<1>5. WordTypes
  <2> DEFINE W == [known : {"sure", "raced", "contested"}, val : AnyValue]
  <2>1. \A c \in Cells : EmptyLedger[c] \in AnyValue  BY EmptyIs, LedgerIs
  <2>2. \A c \in Cells : lastWord[c] \in W  BY <1>1, <2>1
  <2>3. lastWord = [c \in Cells |-> lastWord[c]]  BY <1>1
  <2> HIDE DEF W
  <2>4. lastWord \in [Cells -> W]  BY <2>2, <2>3
  <2> QED  BY <2>4 DEF WordTypes, W
<1>6. RoundInv  BY <1>4 DEF RoundInv
<1>7. \A c \in Tracked : EmptyState[c] = Absent  BY TrackedIs DEF EmptyState
<1>8. Absent.n = 0 /\ Absent.dev = 0  BY DEF Absent, Reg
<1>9. LiveInv
  <2>1. AllLive(EmptyState)  BY <1>7, <1>8 DEF AllLive, Valued, Alive
  <2>2. ASSUME NEW i \in 1 .. Len(OldNotes) PROVE AllLive(OldNotes[i].snap.state)
    <3> SUFFICES ASSUME NEW c \in Tracked, c # Me, Alive(OldNotes[i].snap.state[c])
                 PROVE  OldNotes[i].snap.state[c].val # Unset  BY DEF AllLive, Valued
    <3>1. c \in {x \in Cells : x # Me /\ x.kind \notin {"seen", "device"}}  BY TrackedIs
    <3> QED  BY <3>1, OldAssumption
  <2> QED  BY <1>1, <1>3, <1>4, <2>1, <2>2 DEF LiveInv
<1>10. RestInv  BY <1>4 DEF RestInv
<1>11. PulledInv  BY <1>1, OldAssumption DEF PulledInv
<1>12. ASSUME NEW c \in Tracked, lastWord[c].known = "sure" PROVE WordOn(Host, c)
  <2>1. c \in Cells /\ c.kind # "seen"  BY TrackedIs
  <2>2. Host \in Devices  BY BookAssumption
  <2>3. /\ ~(c = Me /\ \E d \in Devices : book[d].legacy # Blank)
        /\ ~(\E i \in 1 .. Len(slot) : slot[i].snap.state[c].n > 0)
        /\ lastWord[c].val = EmptyLedger[c]  BY <1>1, <1>12, <2>1
  <2>4. \A d \in Devices : book[d].state[c] = Absent /\ book[d].ledger[c] = EmptyLedger[c]  BY <1>3, <1>7
  <2>5. EmptyLedger[c] = IF c = Me THEN Blank ELSE Unset  BY <2>1 DEF EmptyLedger
  <2>6. ~Newer(Absent, Absent)  BY <1>8 DEF Newer
  <2>7. ASSUME NEW q \in InFlight(c) PROVE ~Newer(q, Absent)
    <3>1. PICK i \in 1 .. Len(slot) : q = Heard(slot[i].snap, c)  BY <1>1, <1>4 DEF InFlight
    <3>2. slot \in Seq(Notes)  BY <1>2 DEF BookTypes
    <3>3. slot[i].snap \in Snapshots  BY <3>2, NoteIs
    <3>4. slot[i].snap.state[c] \in RegisterOf(c)  BY <2>1, <3>3, StateIs DEF Snapshots
    <3>5. slot[i].snap.state[c].n \in Nat  BY <2>1, <3>4, RegIs
    <3>6. slot[i].snap.state[c].n = 0  BY <2>3, <3>5
    <3>7. slot[i].snap.state[c] = Absent  BY <2>1, <3>4, <3>6, RegIs
    <3> QED  BY <1>8, <2>6, <3>1, <3>3, <3>7, HeardIs
  <2>8. IsTop(c, book[Host].state[c])  BY <2>2, <2>4, <2>6, <2>7 DEF IsTop
  <2>9. c = Me => \A d \in Devices : ~Adopts(book[d])  BY <2>3 DEF Adopts
  <2>10. ASSUME NEW d \in Devices PROVE ~Off(book[d], c)
    <3>1. ~Alive(Absent) /\ ~(Absent.n > 0)  BY <1>8 DEF Alive
    <3>2. CASE c = Me
      <4>1. MyName(book[d]) = Blank  BY <2>4, <2>5, <2>9, <3>2 DEF MyName
      <4> QED  BY <2>4, <3>1, <3>2, <4>1 DEF Off, MustStampMe
    <3>3. CASE c # Me  BY <2>4, <2>5, <3>1, <3>3 DEF Off
    <3> QED  BY <3>2, <3>3
  <2>11. \A d \in Devices : Coming(d) = book[d]  BY <1>4 DEF Coming
  <2>12. round[Host].pc # "project"  BY <1>4, <2>2
  <2> QED  BY <2>2, <2>3, <2>4, <2>8, <2>9, <2>10, <2>11, <2>12 DEF WordOn
<1>13. WordsInv
  <2>1. Host \in Devices  BY BookAssumption
  <2> QED  BY <1>12, <2>1 DEF WordsInv
<1> QED  BY <1>2, <1>5, <1>6, <1>9, <1>10, <1>11, <1>13 DEF WordInv

\* Two books whose registers agree with their ledgers, and with each other, say
\* the same.
LEMMA SaySame ==
    ASSUME NEW b \in Books, NEW x \in Books, NEW c \in Tracked, ~Off(b, c), ~Off(x, c), b.state[c] = x.state[c]
    PROVE  b.ledger[c] = x.ledger[c]
<1>1. CASE c # Me  BY <1>1 DEF Off
<1>2. CASE c = Me
  <2>1. ASSUME NEW y \in Books, ~Off(y, Me), ~(y.state[Me].n > 0) PROVE y.ledger[Me] = Blank
    <3>1. ~Adopts(y) /\ MyName(y) = Blank  BY <2>1, OffAdopts DEF Off, MustStampMe
    <3> QED  BY <3>1 DEF MyName
  <2>2. \A y \in Books : ~Off(y, Me) /\ y.state[Me].n > 0 => y.ledger[Me] = y.state[Me].val  BY DEF Off, MustStampMe
  <2>3. CASE b.state[Me].n > 0  BY <1>2, <2>2, <2>3
  <2>4. CASE ~(b.state[Me].n > 0)  BY <1>2, <2>1, <2>4
  <2> QED  BY <2>3, <2>4
<1> QED  BY <1>1, <1>2

\* When all agree, the newest register, and so the last word, is everywhere.
LEMMA WordsWin ==
    ASSUME WordInv
    PROVE  LastWordWins
<1> SUFFICES ASSUME Settled, NEW c \in Tracked, lastWord[c].known = "sure", NEW d \in Devices
             PROVE  book[d].ledger[c] = lastWord[c].val
  BY DEF LastWordWins, Says
<1>1. PICK v \in Devices : WordOn(v, c)  BY DEF WordInv, WordsInv
<1>2. book[v].ledger[c] = lastWord[c].val  BY <1>1 DEF WordOn
<1>3. ~Off(book[d], c) /\ ~Off(book[v], c)  BY OffIs DEF Settled
<1>4. book[d].state = book[v].state  BY DEF Settled
<1>5. book[d] \in Books /\ book[v] \in Books  BY DEF WordInv, BookInv, BookTypes
<1> QED  BY <1>2, <1>3, <1>4, <1>5, SaySame

\* What was said last of a cell, by somebody who knew all there was to know, is held
\* under the newest clock by some machine, and every other will take it as it is told:
\* through folds, merges, acks of the slot and pairing.
THEOREM WordsAreKept == BookSpec => []WordInv
<1>1. BookInit => WordInv  BY WordInit
<1>2. WordInv /\ [BookNext]_bookVars => WordInv'  BY WordNext, WordStutter
<1> QED  BY <1>1, <1>2, PTL DEF BookSpec

\* Once the machines agree and nothing is left to fold, every ledger says what was said
\* last of each cell; what it takes is that the last edit was made with all others
\* merged, and not between save_meta and project_to_ledgers of a merge.
THEOREM LastWordsWin == BookSpec => []LastWordWins
<1>1. WordInv => LastWordWins  BY WordsWin
<1> QED  BY <1>1, WordsAreKept, PTL
=============================================================================
