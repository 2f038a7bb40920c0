----------------------------- MODULE MCMailbox -----------------------------
(* Finite instances of Mailbox for TLC.                                    *)
EXTENDS Mailbox, TLC

Symmetry == Permutations(Claim) \cup Permutations(Request)
            \cup Permutations(Upload)
=============================================================================
