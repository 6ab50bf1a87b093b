------------------------------ MODULE MCGcGate ------------------------------
(* GcGate with the constants the .cfg files give it. *)
EXTENDS GcGate
=============================================================================
