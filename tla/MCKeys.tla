------------------------------ MODULE MCKeys ------------------------------
(* Model-checking instance of Keys.                                           *)
EXTENDS Keys
=============================================================================
