--------------------------- MODULE MCHarnessLanes ---------------------------
(* HarnessLanes, with SessionLine under it, for TLC.                       *)
EXTENDS HarnessLanes

=============================================================================
