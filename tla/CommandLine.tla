---------------------------- MODULE CommandLine ----------------------------
(* How execute (kernel/syscall.c) takes a command apart, with strtok,         *)
(* strncmp and strcpy of lib/lib.c, and what getargs gives the program later. *)
(* The arguments wait in the PCB while programs are started on top of it and  *)
(* the user goes to other terminals.                                          *)
(*                                                                            *)
(* execute works with a name buffer of strtok's and a buffer for the          *)
(* arguments on its stack; nobody else comes in between, it runs with         *)
(* interrupts off.  A write outside a buffer is undefined, and the model ends *)
(* with it.  How processes are started and ended is the subject of module     *)
(* Processes; every terminal has its base shell here.                         *)
EXTENDS Integers, Sequences, FiniteSets, SequencesExt

CONSTANTS
    Terms,
    MAX_PROG_NUM,
    NAME_SIZE,          \* of file_array's file_name, 32
    ARGS_SIZE,          \* of temp_arg and of args in the PCB, 64
    BLANK, NEWLINE, NUL,
    SHELL, CLEAR,       \* the names "shell" and "clear"
    Runnable,           \* names of the programs in the file system
    Commands,           \* bound: what programs pass to execute
    Leftovers,          \* bound: what temp_arg may hold before it is set
    UnsetLengths,       \* bound: the same for cmd_len, 0 .. 255
    MAX_NBYTES          \* bound: of getargs

Slots == 0 .. MAX_PROG_NUM - 1
Fits == 0 .. ARGS_SIZE - 1

ASSUME CommandLineAssumption ==
    /\ Terms # {} /\ Terms \subseteq Slots
    /\ MAX_PROG_NUM \in Nat /\ NAME_SIZE \in Nat \ {0}
    /\ ARGS_SIZE \in Nat \ {0} /\ MAX_NBYTES \in Nat
    /\ SHELL \in Runnable
    /\ \A w \in Runnable :
          /\ w \in Seq(ToSet(w)) \ {<<>>}
          /\ {BLANK, NEWLINE, NUL} \cap ToSet(w) = {}
    /\ \A c \in Commands : c \in Seq(ToSet(c)) /\ NUL \notin ToSet(c)
    /\ \A old \in Leftovers : DOMAIN old = Fits
    /\ UnsetLengths \subseteq 0 .. 255

VARIABLES
    jobs,           \* [Terms -> sequences of slots]: curr_proc[t] is the last
    active,         \* curr_active_term
    program,        \* [Slots -> names]: what was loaded last into a slot
    args,           \* [Slots -> strings]: args of the PCB, up to its NUL
    result,         \* what the last call came to
    command         \* history, [Slots -> Commands]: what the slot was started
                    \* with

vars == <<jobs, active, program, args, result, command>>

Used == UNION {ToSet(jobs[t]) : t \in Terms}
Current == Last(jobs[active])

Nothing == [call |-> "none"]
Refused(c) == [call |-> "refused", command |-> c]
Cleared(c) == [call |-> "cleared", command |-> c]
Killed(c) == [call |-> "killed", command |-> c]
Overrun(c) == [call |-> "overrun", command |-> c]

(* Every terminal was opened, which executes "shell".                         *)
Init ==
    /\ jobs = [t \in Terms |-> <<t>>]
    /\ active \in Terms
    /\ program = [s \in Slots |-> SHELL]
    /\ args = [s \in Slots |-> <<>>]
    /\ result = Nothing
    /\ command = [s \in Slots |-> SHELL]

-----------------------------------------------------------------------------
(* The loop of execute over its command.                                      *)

Unparsed == [i |-> 0, space_flag |-> FALSE, cmd_len |-> 0, arg |-> <<>>, refused |-> FALSE]

(* Mutation: a name of any length goes on to strtok.                          *)
NameTooLong_Never(i) == FALSE

NameTooLong(i) == i >= NAME_SIZE

(* Mutation: every blank ends the name anew.                                  *)
EndsName_Any(p, c) == c = BLANK

EndsName(p, c) == c = BLANK /\ ~ p.space_flag

(* One turn; the loop is left for good when the command is refused.           *)
Turn(p, c) ==
    IF p.refused THEN p
    ELSE IF EndsName(p, c)
    THEN [p EXCEPT !.i = @ + 1, !.space_flag = TRUE, !.cmd_len = p.i]
    ELSE IF p.space_flag
    THEN [p EXCEPT !.i = @ + 1, !.arg = Append(@, c)]
    ELSE [p EXCEPT !.i = @ + 1, !.refused = NameTooLong(p.i)]

(* What the turns have come to after each character of c.                     *)
Turns(c) ==
    LET after[k \in 0 .. Len(c)] == IF k = 0 THEN Unparsed ELSE Turn(after[k - 1], c[k])
    IN  after

(* After the last one, for all commands and evaluated once.                   *)
Parsed == [c \in Commands |-> Turns(c)[Len(c)]]

(* temp_arg after the loop over an older content, and its terminator.         *)
Stored(p, old) == [k \in Fits |-> IF k < Len(p.arg) THEN p.arg[k + 1] ELSE old[k]]
Terminated(a, k) == [a EXCEPT ![k] = NUL]

(* A C string in an array, when it ends there.                                *)
Ends(a) == \E k \in Fits : a[k] = NUL
String(a) ==
    LET len == Min({k \in Fits : a[k] = NUL}) IN [k \in 1 .. len |-> a[k - 1]]

(* The characters of a command that strtok copies: up to its end, a blank or  *)
(* a newline.                                                                 *)
WordEnds(c) == {k \in 1 .. Len(c) : c[k] \in {BLANK, NEWLINE}} \cup {Len(c) + 1}

(* Mutation: the loop ends one character early.                               *)
WordLength_OneShort(c) == IF Min(WordEnds(c)) = 2 THEN 1 ELSE Min(WordEnds(c)) - 2

WordLength(c) == Min(WordEnds(c)) - 1

(* NULL is no string.                                                         *)
NULL == <<NUL>>
strtok(c) == IF c[1] = BLANK THEN NULL ELSE SubSeq(c, 1, WordLength(c))

(* strncmp over the length of "clear": whatever begins with it.               *)
IsClear(name) == IsPrefix(CLEAR, name)

-----------------------------------------------------------------------------
(* execute                                                                    *)

Same == UNCHANGED <<jobs, program, args, command>>

(* Mutation: a base shell is ended like any program.                          *)
Popped_BaseToo == [jobs EXCEPT ![active] = Front(@)]

(* halt of the current process; a base shell starts again in its PCB as it is.*)
Popped == [jobs EXCEPT ![active] = IF Len(@) = 1 THEN @ ELSE Front(@)]

(* The caller goes on: with -1, with 0 after "clear", or nobody knows how.    *)
ComesTo(r) == result' = r /\ Same

(* strncmp reads through NULL, page 0 is not present, and page_fault_except   *)
(* halts the current process: the caller.                                     *)
PageFault(c) ==
    /\ jobs' = Popped
    /\ result' = Killed(c)
    /\ UNCHANGED <<program, args, command>>

(* Mutation: the last slot is never given out.                                *)
OpenSpot_OneShort == Slots \ (Used \cup {MAX_PROG_NUM - 1})

OpenSpot == Slots \ Used

(* Mutation: the arguments go to the PCB of the caller.                       *)
ArgsOwner_Caller(s) == Current

ArgsOwner(s) == s

Start(c, name, a) ==
    LET s == Min(OpenSpot)
    IN  /\ program' = [program EXCEPT ![s] = name]
        /\ args' = [args EXCEPT ![ArgsOwner(s)] = String(a)]
        /\ jobs' = [jobs EXCEPT ![active] = Append(@, s)]
        /\ command' = [command EXCEPT ![s] = c]
        /\ result' = Nothing

(* After the command was taken apart: temp_arg is a.                          *)
RunCommand(c, a) ==
    LET name == strtok(c)
    IN  IF name = NULL THEN PageFault(c)
        ELSE IF IsClear(name) THEN ComesTo(Cleared(c))
        ELSE IF Len(name) >= NAME_SIZE THEN ComesTo(Overrun(c))
        ELSE IF name \notin Runnable \/ OpenSpot = {} THEN ComesTo(Refused(c))
        ELSE IF ~ Ends(a) THEN ComesTo(Overrun(c))
        ELSE Start(c, name, a)

(* Without a blank cmd_len is not set, nor is temp_arg.                       *)
Execute(c) ==
    LET p == Parsed[c]
        Goes(old, len) ==
            LET end == p.i - len - 1
            IN  IF end \notin Fits THEN ComesTo(Overrun(c))
                ELSE RunCommand(c, Terminated(Stored(p, old), end))
    IN  /\ \/ /\ c = <<>> \/ p.refused
              /\ ComesTo(Refused(c))
           \/ /\ c # <<>> /\ ~ p.refused
              /\ \E old \in Leftovers :
                    \E len \in IF p.space_flag THEN {p.cmd_len} ELSE UnsetLengths :
                        Goes(old, len)
        /\ UNCHANGED active

-----------------------------------------------------------------------------
(* getargs, called with a buffer of nbytes; a negative count is refused.      *)
GetArgs(nbytes) ==
    LET a == args[Current]
    IN  /\ result' = IF nbytes < 0 THEN [call |-> "getargs", ret |-> -1, buf |-> <<>>]
                     ELSE [call |-> "getargs", ret |-> 0,
                           buf |-> [k \in 1 .. nbytes |->
                              IF k <= Len(a) THEN a[k] ELSE NUL]]
        /\ UNCHANGED <<jobs, active, program, args, command>>

(* halt: the program above the base shell ends; a base shell starts again.    *)
Halt ==
    /\ jobs' = Popped
    /\ result' = Nothing
    /\ UNCHANGED <<active, program, args, command>>

(* An F-key, or the timer.                                                    *)
SwitchTerminal(t) ==
    /\ active' = t
    /\ result' = Nothing
    /\ UNCHANGED <<jobs, program, args, command>>

Next ==
    /\ result.call # "overrun"
    /\ \/ \E c \in Commands : Execute(c)
       \/ \E nbytes \in -1 .. MAX_NBYTES : GetArgs(nbytes)
       \/ Halt
       \/ \E t \in Terms : SwitchTerminal(t)

Spec == Init /\ [][Next]_vars

-----------------------------------------------------------------------------
(* What a command is: a word, which ends with the command, a blank or a       *)
(* newline, and what stands behind the first blank.                           *)

IsWord(w, c) ==
    /\ IsPrefix(w, c)
    /\ {BLANK, NEWLINE} \cap ToSet(w) = {}
    /\ Len(w) < Len(c) => c[Len(w) + 1] \in {BLANK, NEWLINE}

HasArguments(c) == BLANK \in ToSet(c)

AreArguments(a, c) == \E before \in {SubSeq(c, 1, k) : k \in 0 .. Len(c)} :
    BLANK \notin ToSet(before) /\ c = before \o <<BLANK>> \o a

(* Properties.                                                                *)

(* Every variable has its type: an argument string leaves room for its NUL.   *)
TypeOK ==
    /\ jobs \in [Terms -> Seq(Slots) \ {<<>>}]
    /\ active \in Terms
    /\ program \in [Slots -> Runnable]
    /\ \A s \in Slots : Len(args[s]) < ARGS_SIZE
    /\ command \in [Slots -> Commands \cup {SHELL}]
    /\ result.call \in {"none", "getargs", "refused", "cleared", "killed", "overrun"}

(* Every process runs the word its own command begins with, and no two        *)
(* processes one slot: execute reads the file under a copy of the name, and   *)
(* loads it under the name in strtok's buffer.                                *)
RunsFirstWord ==
    /\ \A s \in Used : IsWord(program[s], command[s])
    /\ \A t, u \in Terms : \A i \in DOMAIN jobs[t], j \in DOMAIN jobs[u] :
          jobs[t][i] = jobs[u][j] => t = u /\ i = j

(* A process whose command has a blank gets what stands behind the first one, *)
(* as many bytes as it asks for and NULs after the end, however many programs *)
(* were started and halted since, on its own and on other terminals.          *)
GetsItsArguments ==
    result.call = "getargs" /\ result.ret = 0 /\ HasArguments(command[Current]) =>
        \E w \in {SubSeq(result.buf, 1, k) : k \in 0 .. Len(result.buf)} :
            \/ /\ AreArguments(w, command[Current])
               /\ \A k \in Len(w) + 1 .. Len(result.buf) : result.buf[k] = NUL
            \/ /\ w = result.buf
               /\ \E k \in 0 .. Len(command[Current]) :
                     AreArguments(w \o SubSeq(command[Current],
                        Len(command[Current]) - k + 1, Len(command[Current])),
                        command[Current])

(* execute refuses only what cannot run: the first word is not a program, or  *)
(* every slot is taken, or no blank is among the first characters, a newline  *)
(* counting for none there.  It ends its caller only for a command that       *)
(* begins with a blank, and then every other process is as before.            *)
OutcomeFitsCommand == [][
    LET c == result'.command
    IN  /\ result'.call = "refused" =>
              \/ \A w \in Runnable : ~ IsWord(w, c)
              \/ Used = Slots
              \/ \E k \in NAME_SIZE .. Len(c) : BLANK \notin ToSet(SubSeq(c, 1, k))
        /\ result'.call = "killed" =>
              /\ c[1] = BLANK
              /\ Used \ Used' \subseteq {Current}
    ]_vars

(* execute stays inside its buffers, strtok's and getargs's too, unless a     *)
(* name as long as file_name is given, or arguments as long as temp_arg, or   *)
(* none: then the terminator and the string in temp_arg are undefined.        *)
OverrunOnlyWhenFull == result.call = "overrun" =>
    LET c == result.command
    IN  \/ ~ HasArguments(c) /\ Len(c) <= NAME_SIZE
        \/ IsWord(SubSeq(c, 1, NAME_SIZE), c)
        \/ \E k \in ARGS_SIZE .. Len(c) : AreArguments(SubSeq(c, Len(c) - k + 1, Len(c)), c)
=============================================================================
