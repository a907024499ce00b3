---------------------------- MODULE MCProcesses -----------------------------
(***************************************************************************)
(* The instance of Processes for TLC.                                      *)
(***************************************************************************)
EXTENDS Processes
=============================================================================
