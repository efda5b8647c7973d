------------------------------ MODULE MCScreen ------------------------------
(* Model-checking instance of Screen.                                         *)
EXTENDS Screen

MCCompletions == { <<"a">> }
MCMessages == { <<NL, "a">> }
=============================================================================
