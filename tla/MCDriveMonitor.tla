--------------------------- MODULE MCDriveMonitor ---------------------------
(***************************************************************************)
(* Values of DriveMonitor's constants for TLC.                             *)
(***************************************************************************)
EXTENDS DriveMonitor

Slow == {0, 1}
Fast == {0, 3}
=============================================================================
