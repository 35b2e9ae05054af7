---------------------------- MODULE MCEventBus ----------------------------
(* EventBus for TLC, bounded by its own constants.                         *)
EXTENDS EventBus

=============================================================================
