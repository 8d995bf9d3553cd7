------------------------------ MODULE MCBridge ------------------------------
(* Instances of Bridge. *)
EXTENDS Bridge

(* Fast enough for an upgrade, and beyond the preferred range. *)
SomeIntervals == {24, 200}
=============================================================================
