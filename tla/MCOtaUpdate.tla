----------------------------- MODULE MCOtaUpdate -----------------------------
(* Instances of OtaUpdate. *)
EXTENDS OtaUpdate
=============================================================================
