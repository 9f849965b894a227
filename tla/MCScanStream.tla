---------------------------- MODULE MCScanStream ----------------------------
(***************************************************************************)
(* An instance of ScanStream for TLC.                                      *)
(***************************************************************************)
EXTENDS ScanStream
=============================================================================
