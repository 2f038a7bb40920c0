------------------------------ MODULE MCDaemon ------------------------------
(* The daemon around the engine: the intake of offers, and the receipts of *)
(* deposits and links.  The two are arms of one task and share no state,   *)
(* so a behaviour plays one of them and leaves the other where it begins,  *)
(* where nothing that is fair is enabled.                                  *)
EXTENDS Intake, Receipts, TLC

CONSTANTS q1, q2, q3, q4, pp

VARIABLE scene

\* A file posted live and then as a mailbox deposit with a password, a second
\* file of the same sender, and one of another device of our own.
MCSender == q1 :> pp @@ q2 :> pp @@ q3 :> Me @@ q4 :> pp
MCFile   == q1 :> "f" @@ q2 :> "f" @@ q3 :> "g" @@ q4 :> "g"

\* Bound: the offers of one behaviour are the two posts of a file, or two files
\* of a sender, or the one of our own device.
Script == {o \in Offered : slot[o] # "unsent"} \in
              UNION {SUBSET s : s \in {{q1, q2}, {q1, q4}, {q3}}}

DaemonInit ==
    scene \in {"intake", "receipts"} /\ IntakeInit /\ ReceiptsInit

DaemonNext ==
    \/ scene = "intake" /\ IntakeNext /\ Script' /\ UNCHANGED <<scene, receiptVars>>
    \/ scene = "receipts" /\ ReceiptsNext /\ UNCHANGED <<scene, intakeVars>>

DaemonSpec ==
    /\ DaemonInit /\ [][DaemonNext]_<<scene, intakeVars, receiptVars>>
    /\ IntakeFair /\ ReceiptsFair

\* Nothing is left waiting: an offer is put to the person, a deposit is filed,
\* and the end of a transfer is heard by whoever asked for it.
NothingLeftWaiting == OfferIsPut /\ DepositIsFiled /\ EndIsHeard
=============================================================================
