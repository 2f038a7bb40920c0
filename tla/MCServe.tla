------------------------------ MODULE MCServe ------------------------------
(* Two pieces, two receivers, one of which does not swarm.                  *)
EXTENDS Serve
=============================================================================
