------------------------------- MODULE TwoStage -------------------------------
(***************************************************************************)
(* What an upgrade in two stages promises whoever owns the device: the     *)
(* image in flash is either the old or the new one, the new one is first   *)
(* run on trial, and it becomes the committed one only while it runs.      *)
(***************************************************************************)
VARIABLES running, committed

Images == {"old", "new"}

Init == running = "old" /\ committed = "old"

(* A restart into the new image, on trial. *)
Try == committed = "old" /\ running' = "new" /\ UNCHANGED committed

Commit == running = "new" /\ committed' = "new" /\ UNCHANGED running

(* Any other restart runs the committed image. *)
Restart == running' = committed /\ UNCHANGED committed

Next == Try \/ Commit \/ Restart

Spec == Init /\ [][Next]_<<running, committed>>
=============================================================================
