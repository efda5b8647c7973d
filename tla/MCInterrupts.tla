---------------------------- MODULE MCInterrupts ----------------------------
(* Model-checking instance of Interrupts.                                     *)
EXTENDS Interrupts
=============================================================================
