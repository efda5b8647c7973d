---------------------------- MODULE TerminalJobs ----------------------------
(* What the three terminals promise their user, with no slots, pages or       *)
(* pointers: each one is a stack of programs.  The first program is a shell   *)
(* and never leaves; the program on top can start another or finish; nothing  *)
(* a program does on one terminal changes the programs of another.            *)
EXTENDS Naturals, Sequences

CONSTANTS Terms, Programs
VARIABLE stacks

Init == stacks = [t \in Terms |-> <<>>]

Start(t, p) ==
    /\ stacks[t] = <<>> => p = "shell"
    /\ stacks' = [stacks EXCEPT ![t] = Append(@, p)]

Finish(t) ==
    /\ Len(stacks[t]) > 1
    /\ stacks' = [stacks EXCEPT ![t] = SubSeq(@, 1, Len(@) - 1)]

Next == \E t \in Terms :
    \/ \E p \in Programs : Start(t, p)
    \/ Finish(t)

Spec == Init /\ [][Next]_stacks
=============================================================================
