-------------------------- MODULE MCDriveOwnership --------------------------
(* DriveOwnership for TLC.  No symmetry is declared: the runs check        *)
(* liveness.                                                               *)
EXTENDS DriveOwnership

=============================================================================
