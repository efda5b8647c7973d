----------------------------- MODULE MCTerminal -----------------------------
(* Model-checking instance of Terminal: two file names, and an output with a   *)
(* line break.                                                                *)
EXTENDS Terminal

MCNames == << <<"a", "b">>, <<"b", "a">> >>
MCOutputs == { <<"p", "\n">> }
=============================================================================
