---------------------------- MODULE MCRunRecord ----------------------------
(***************************************************************************)
(* RunRecord for TLC.                                                      *)
(***************************************************************************)
EXTENDS RunRecord
=============================================================================
