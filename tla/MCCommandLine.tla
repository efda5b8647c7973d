--------------------------- MODULE MCCommandLine ---------------------------
(* Model-checking instance of CommandLine: every command of up to two         *)
(* characters, a letter, a blank or a newline, and longer ones that fill a    *)
(* buffer or pass its end, or have several blanks or newlines.                *)
EXTENDS CommandLine

MCRunnable == { <<"a">>, <<"a", "a">> }
MCShell == <<"a">>
MCClear == <<"b">>
MCCommands ==
    SeqOf({"a", BLANK, NEWLINE}, 2) \cup
    { <<"b", "a", BLANK, "a">>, <<"a", "b">>,
      <<"a", BLANK, "a">>, <<"a", BLANK, BLANK, "b">>, <<"a", BLANK, "b", BLANK>>,
      <<"a", "a", BLANK, "a", "b">>, <<"a", NEWLINE, BLANK, "a">>,
      <<"a", NEWLINE, "a", "a">>, <<"a", "a", "a">>, <<"a", "a", "a", "a">>,
      <<"a", "a", "a", BLANK, "b">>, <<"a", BLANK, "a", "b", "b">>,
      <<BLANK, "a", BLANK, "a">> }
MCLeftovers == { [k \in Fits |-> NUL], [k \in Fits |-> "b"] }
=============================================================================
