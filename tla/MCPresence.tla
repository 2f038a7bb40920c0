----------------------------- MODULE MCPresence -----------------------------
(* A held send and what it stands on at the relay: the slot that its offer *)
(* is in, and whether the contact is online.  Delivery takes both as given *)
(* and shares no state with them, so a behaviour plays one of the three    *)
(* and leaves the others where they begin.                                 *)
EXTENDS MCDelivery, Slots, Beacons

VARIABLE scene

PresenceInit ==
    /\ scene \in {"delivery", "slots", "beacons"}
    /\ Init /\ SlotInit /\ BeaconInit
    /\ scene # "beacons" => skew = 0

PresenceNext ==
    \/ scene = "delivery" /\ Next /\ UNCHANGED <<scene, slotVars, beaconVars>>
    \/ scene = "slots" /\ SlotNext /\ UNCHANGED <<scene, vars, beaconVars>>
    \/ scene = "beacons" /\ BeaconNext /\ UNCHANGED <<scene, vars, slotVars>>

PresenceSpec ==
    PresenceInit /\ [][PresenceNext]_<<scene, vars, slotVars, beaconVars>>
=============================================================================
