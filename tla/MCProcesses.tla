---------------------------- MODULE MCProcesses ----------------------------
(* Model-checking instances of Processes.                                     *)
EXTENDS Processes
=============================================================================
