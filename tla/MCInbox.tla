------------------------------ MODULE MCInbox ------------------------------
(* The inbox on small instances: offers, devices and Notify objects are    *)
(* interchangeable.                                                        *)
EXTENDS Inbox, TLC

Symmetry == Permutations(Offer) \cup Permutations(Device)
                \cup Permutations(Notify)
=============================================================================
