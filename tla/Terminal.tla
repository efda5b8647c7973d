----------------------------- MODULE Terminal -----------------------------
(* The line discipline of gyaradOS (drivers/keyboard.c): the keyboard         *)
(* interrupt edits the line of the terminal on the screen, the running        *)
(* program reads it with terminal_read and prints with terminal_write, which  *)
(* goes through the same buffer.  Both run with interrupts on, so a key can   *)
(* arrive between any two of their memory accesses (the build does not        *)
(* optimise: num_chars_in_buf[term]++ is a load, an add and a store).         *)
(*                                                                            *)
(* One program runs on each terminal, and without the scheduler it runs only  *)
(* while its terminal is on the screen (RunsForeground of module Processes),  *)
(* so curr_active_term and active_terminal are one variable here.             *)
EXTENDS Naturals, Sequences

CONSTANTS
    NUM_TERMINALS,
    MAX_CHARS_IN_BUF,
    Chars,        \* what the keys produce
    Names,        \* sequence of the file names, in directory order
    Outputs,      \* what programs write
    ReadSizes,    \* the nbytes programs read with
    BEHIND,       \* how many cells behind keyboard_buf are followed
    NUL

Terms == 0 .. NUM_TERMINALS - 1

(* keyboard_buf is one block of memory: cell t * MAX_CHARS_IN_BUF + i is      *)
(* keyboard_buf[t][i], and the last BEHIND cells are what the linker put      *)
(* behind it: zero at the start, and written by their owners in ways that     *)
(* are not followed.                                                          *)
Cell(t, i) == t * MAX_CHARS_IN_BUF + i
Cells == 0 .. NUM_TERMINALS * MAX_CHARS_IN_BUF + BEHIND - 1

OutChars == UNION {{w[i] : i \in 1 .. Len(w)} : w \in Outputs}
AllChars == Chars \cup OutChars \cup
                UNION {{Names[i][j] : j \in 1 .. Len(Names[i])} : i \in 1 .. Len(Names)}

(* terminal_read does not bound nbytes by the length of a row: BEHIND is to   *)
(* be so large that the longest read of the last terminal stays in Cells.     *)
ASSUME TerminalAssumption ==
    /\ NUM_TERMINALS \in Nat \ {0}
    /\ MAX_CHARS_IN_BUF \in Nat \ {0}
    /\ BEHIND \in Nat \ {0}
    /\ ReadSizes \subseteq Nat
    /\ \A n \in ReadSizes : n < MAX_CHARS_IN_BUF + BEHIND
    /\ \A w \in Outputs : w \in Seq(OutChars)
    /\ \A i \in 1 .. Len(Names) : Names[i] \in Seq(AllChars)
    /\ NUL \notin AllChars

VARIABLES
    active_terminal,
    keyboard_buf,       \* [Cells -> AllChars \cup {NUL}]
    num_chars_in_buf,   \* [Terms -> Nat]
    read_buf_ready,     \* [Terms -> BOOLEAN]
    pc,                 \* where each terminal's program is in a system call
    out,                \* terminal_write: what is left to print
    loaded,             \* terminal_write: the register of the increment
    nbytes,             \* terminal_read: its argument
    got,                \* terminal_read: what has been copied to the caller
    line,               \* history: the line the user sees being edited, while
    clean               \* history: nothing but the user's keys before Enter
                        \* touched it

bufVars == <<keyboard_buf, num_chars_in_buf, read_buf_ready>>
progVars == <<pc, out, loaded, nbytes, got>>
histVars == <<line, clean>>
vars == <<active_terminal, bufVars, progVars, histVars>>

Labels == {"user", "wait", "copy", "zero_r", "ready_r",
           "check", "store", "load", "incr", "zero_w", "ready_w"}

Init ==
    /\ active_terminal = 0
    /\ keyboard_buf = [c \in Cells |-> NUL]
    /\ num_chars_in_buf = [t \in Terms |-> 0]
    /\ read_buf_ready = [t \in Terms |-> FALSE]
    /\ pc = [t \in Terms |-> "user"]
    /\ out = [t \in Terms |-> <<>>]
    /\ loaded = [t \in Terms |-> 0]
    /\ nbytes = [t \in Terms |-> 0]
    /\ got = [t \in Terms |-> <<>>]
    /\ line = [t \in Terms |-> <<>>]
    /\ clean = [t \in Terms |-> TRUE]

(* History: terminal t's line becomes l.  It is no longer followed when it is *)
(* edited after Enter, nor are the lines behind it that the step wrote to,    *)
(* lastCell being the last cell it wrote.                                     *)
Follow(t, l, lastCell, late) ==
    /\ clean' = [u \in Terms |->
           /\ clean[u]
           /\ u = t => ~ late
           /\ u > t => lastCell < Cell(u, 0)]
    /\ line' = [u \in Terms |->
           IF ~ clean'[u] THEN <<>> ELSE IF u = t THEN l ELSE line[u]]

-----------------------------------------------------------------------------
(* The keyboard interrupt.  It is masked while it runs: one action per key.   *)

(* Mutation: the comparison lets one character too many in.                   *)
HasRoom_AtMost(t) == num_chars_in_buf[t] <= MAX_CHARS_IN_BUF
HasRoom(t) == num_chars_in_buf[t] < MAX_CHARS_IN_BUF

(* add_char_to_buffer from the interrupt: a full buffer ignores the key.      *)
KeyChar(c) ==
    LET t == active_terminal
        n == num_chars_in_buf[t]
    IN  /\ HasRoom(t)
        /\ keyboard_buf' = [keyboard_buf EXCEPT ![Cell(t, n)] = c]
        /\ num_chars_in_buf' = [num_chars_in_buf EXCEPT ![t] = n + 1]
        /\ Follow(t, Append(line[t], c), Cell(t, n), read_buf_ready[t])
        /\ UNCHANGED <<active_terminal, read_buf_ready, progVars>>

(* Mutation: what is behind the line is left as it was.                       *)
Terminated_Not(t) == keyboard_buf

(* keyboard_buf after handle_enter's loop, `i <= MAX_CHARS_IN_BUF` included.  *)
Terminated(t) ==
    [c \in Cells |->
        IF Cell(t, num_chars_in_buf[t]) <= c /\ c <= Cell(t, MAX_CHARS_IN_BUF)
        THEN NUL ELSE keyboard_buf[c]]

Enter ==
    LET t == active_terminal
    IN  /\ keyboard_buf' = Terminated(t)
        /\ read_buf_ready' = [read_buf_ready EXCEPT ![t] = TRUE]
        /\ Follow(t, line[t], Cell(t, MAX_CHARS_IN_BUF), FALSE)
        /\ UNCHANGED <<active_terminal, num_chars_in_buf, progVars>>

(* history: the line without its last character                               *)
Shortened(s) == IF s = <<>> THEN s ELSE SubSeq(s, 1, Len(s) - 1)

(* Mutation: the character is taken off the screen but stays in the count.    *)
CountAfterBackspace_Same(t) == num_chars_in_buf[t]
CountAfterBackspace(t) == num_chars_in_buf[t] - 1

Backspace ==
    LET t == active_terminal
        n == CountAfterBackspace(t)
    IN  /\ num_chars_in_buf[t] > 0
        /\ num_chars_in_buf' = [num_chars_in_buf EXCEPT ![t] = n]
        /\ keyboard_buf' = [keyboard_buf EXCEPT ![Cell(t, n)] = NUL]
        /\ Follow(t, Shortened(line[t]), Cell(t, n), read_buf_ready[t])
        /\ UNCHANGED <<active_terminal, read_buf_ready, progVars>>

(* Ctrl+L, reset_term                                                         *)
CtrlL ==
    LET t == active_terminal
    IN  /\ keyboard_buf' = [c \in Cells |->
               IF Cell(t, 0) <= c /\ c < Cell(t, MAX_CHARS_IN_BUF)
               THEN NUL ELSE keyboard_buf[c]]
        /\ num_chars_in_buf' = [num_chars_in_buf EXCEPT ![t] = 0]
        /\ line' = [line EXCEPT ![t] = <<>>]
        /\ clean' = [clean EXCEPT ![t] = ~ read_buf_ready[t]]
        /\ UNCHANGED <<active_terminal, read_buf_ready, progVars>>

(* autocomplete_command gets the buffer, an array of 32-bit words, as a       *)
(* char *: what strlen and strncmp see of the line is its first character.    *)
Completes(name, t) ==
    LET first == keyboard_buf[Cell(t, 0)]
    IN  first # NUL => Len(name) > 0 /\ name[1] = first

(* handle_tab: the line is deleted and the first name that fits typed in.     *)
Tab ==
    LET t == active_terminal
        deleted == [c \in Cells |->
            IF Cell(t, 0) <= c /\ c < Cell(t, num_chars_in_buf[t])
            THEN NUL ELSE keyboard_buf[c]]
    IN  \E k \in 1 .. Len(Names) :
          /\ Completes(Names[k], t)
          /\ \A j \in 1 .. k - 1 : ~ Completes(Names[j], t)
          /\ \E n \in 0 .. MAX_CHARS_IN_BUF :
                /\ n = IF Len(Names[k]) < MAX_CHARS_IN_BUF
                       THEN Len(Names[k]) ELSE MAX_CHARS_IN_BUF
                /\ keyboard_buf' = [c \in Cells |->
                       IF Cell(t, 0) <= c /\ c < Cell(t, n)
                       THEN Names[k][c - Cell(t, 0) + 1] ELSE deleted[c]]
                /\ num_chars_in_buf' = [num_chars_in_buf EXCEPT ![t] = n]
                /\ Follow(t, SubSeq(Names[k], 1, n),
                          Cell(t, num_chars_in_buf[t]) - 1, read_buf_ready[t])
          /\ UNCHANGED <<active_terminal, read_buf_ready, progVars>>

(* Ctrl+C: whatever the program was doing in the kernel is abandoned, and     *)
(* another program goes on; the buffer stays as it is.                        *)
CtrlC ==
    LET t == active_terminal
    IN  /\ pc' = [pc EXCEPT ![t] = "user"]
        /\ out' = [out EXCEPT ![t] = <<>>]
        /\ loaded' = [loaded EXCEPT ![t] = 0]
        /\ nbytes' = [nbytes EXCEPT ![t] = 0]
        /\ got' = [got EXCEPT ![t] = <<>>]
        /\ Follow(t, line[t], Cell(t, 0), pc[t] \notin {"user", "wait"})
        /\ UNCHANGED <<active_terminal, bufVars>>

(* F1, F2, F3                                                                 *)
FunctionKey(t) ==
    /\ active_terminal' = t
    /\ UNCHANGED <<bufVars, progVars, histVars>>

Key ==
    \/ \E c \in Chars : KeyChar(c)
    \/ Enter \/ Backspace \/ CtrlL \/ Tab \/ CtrlC
    \/ \E t \in Terms : FunctionKey(t)

-----------------------------------------------------------------------------
(* terminal_read                                                              *)

ReadCall(t, n) ==
    /\ pc[t] = "user"
    /\ pc' = [pc EXCEPT ![t] = "wait"]
    /\ nbytes' = [nbytes EXCEPT ![t] = n]
    /\ UNCHANGED <<bufVars, out, loaded, got, histVars>>

(* Mutation: the flag that is polled is the first terminal's.                 *)
ReadWoken_First(t) == read_buf_ready[0]
ReadWoken(t) == read_buf_ready[t]

(* The busy-wait on read_buf_ready ends.                                      *)
ReadWake(t) ==
    /\ pc[t] = "wait"
    /\ ReadWoken(t)
    /\ pc' = [pc EXCEPT ![t] = "copy"]
    /\ UNCHANGED <<bufVars, out, loaded, nbytes, got, histVars>>

(* One turn of `for(i = 0; i <= nbytes; i++)`.                                *)
ReadCopy(t) ==
    LET i == Len(got[t])
    IN  /\ pc[t] = "copy"
        /\ i <= nbytes[t]
        /\ got' = [got EXCEPT ![t] = Append(@, keyboard_buf[Cell(t, i)])]
        /\ keyboard_buf' = [keyboard_buf EXCEPT ![Cell(t, i)] = NUL]
        /\ Follow(t, line[t], Cell(t, i), FALSE)
        /\ pc' = [pc EXCEPT ![t] = IF i = nbytes[t] THEN "zero_r" ELSE "copy"]
        /\ UNCHANGED <<num_chars_in_buf, read_buf_ready, out, loaded, nbytes>>

(* num_chars_in_buf = 0, at the end of terminal_read or terminal_write: what  *)
(* was typed is not part of a line any more.                                  *)
ZeroCount(t, from, to) ==
    /\ pc[t] = from
    /\ pc' = [pc EXCEPT ![t] = to]
    /\ num_chars_in_buf' = [num_chars_in_buf EXCEPT ![t] = 0]
    /\ line' = [line EXCEPT ![t] = <<>>]
    /\ clean' = [clean EXCEPT ![t] = TRUE]
    /\ UNCHANGED <<keyboard_buf, read_buf_ready, out, loaded, nbytes, got>>

(* read_buf_ready = 0, and back to the program.                               *)
ZeroReady(t, from) ==
    /\ pc[t] = from
    /\ pc' = [pc EXCEPT ![t] = "user"]
    /\ read_buf_ready' = [read_buf_ready EXCEPT ![t] = FALSE]
    /\ nbytes' = [nbytes EXCEPT ![t] = 0]
    /\ got' = [got EXCEPT ![t] = <<>>]
    /\ UNCHANGED <<keyboard_buf, num_chars_in_buf, out, loaded, histVars>>

-----------------------------------------------------------------------------
(* terminal_write                                                             *)

WriteCall(t, w) ==
    /\ pc[t] = "user"
    /\ pc' = [pc EXCEPT ![t] = "check"]
    /\ out' = [out EXCEPT ![t] = w]
    /\ UNCHANGED <<bufVars, loaded, nbytes, got, histVars>>

(* The test of add_char_to_buffer.  A full buffer drops the character, a      *)
(* newline or NUL does not enter the buffer.                                  *)
WriteCheck(t) ==
    /\ pc[t] = "check"
    /\ \/ /\ out[t] = <<>>
          /\ pc' = [pc EXCEPT ![t] = "zero_w"]
          /\ UNCHANGED out
       \/ /\ out[t] # <<>>
          /\ HasRoom(t)
          /\ Head(out[t]) \notin {"\n", NUL}
          /\ pc' = [pc EXCEPT ![t] = "store"]
          /\ UNCHANGED out
       \/ /\ out[t] # <<>>
          /\ \/ ~ HasRoom(t)
             \/ Head(out[t]) \in {"\n", NUL}
          /\ out' = [out EXCEPT ![t] = Tail(@)]
          /\ UNCHANGED pc
    /\ UNCHANGED <<bufVars, loaded, nbytes, got, histVars>>

WriteStore(t) ==
    /\ pc[t] = "store"
    /\ pc' = [pc EXCEPT ![t] = "load"]
    /\ keyboard_buf' =
          [keyboard_buf EXCEPT ![Cell(t, num_chars_in_buf[t])] = Head(out[t])]
    /\ Follow(t, <<>>, Cell(t, num_chars_in_buf[t]), TRUE)
    /\ UNCHANGED <<num_chars_in_buf, read_buf_ready, out, loaded, nbytes, got>>

WriteLoad(t) ==
    /\ pc[t] = "load"
    /\ pc' = [pc EXCEPT ![t] = "incr"]
    /\ loaded' = [loaded EXCEPT ![t] = num_chars_in_buf[t]]
    /\ UNCHANGED <<bufVars, out, nbytes, got, histVars>>

WriteIncrement(t) ==
    /\ pc[t] = "incr"
    /\ pc' = [pc EXCEPT ![t] = "check"]
    /\ num_chars_in_buf' = [num_chars_in_buf EXCEPT ![t] = loaded[t] + 1]
    /\ out' = [out EXCEPT ![t] = Tail(@)]
    /\ loaded' = [loaded EXCEPT ![t] = 0]
    /\ UNCHANGED <<keyboard_buf, read_buf_ready, nbytes, got, histVars>>

-----------------------------------------------------------------------------
Program(t) ==
    /\ active_terminal = t
    /\ UNCHANGED active_terminal
    /\ \/ \E n \in ReadSizes : ReadCall(t, n)
       \/ ReadWake(t)
       \/ ReadCopy(t)
       \/ ZeroCount(t, "zero_r", "ready_r")
       \/ ZeroReady(t, "ready_r")
       \/ \E w \in Outputs : WriteCall(t, w)
       \/ WriteCheck(t)
       \/ WriteStore(t)
       \/ WriteLoad(t)
       \/ WriteIncrement(t)
       \/ ZeroCount(t, "zero_w", "ready_w")
       \/ ZeroReady(t, "ready_w")

Next == Key \/ \E t \in Terms : Program(t)

Spec == Init /\ [][Next]_vars

(* The program on the screen runs.  A program whose terminal the user comes   *)
(* back to again and again gets on with its system call.                      *)
FairSpec == Spec /\ \A t \in Terms : SF_vars(Program(t) /\ pc[t] # "user")

-----------------------------------------------------------------------------
(* Properties.                                                                *)

(* Every variable has its type; num_chars_in_buf may pass MAX_CHARS_IN_BUF by *)
(* one: WriteCheck tests it, and a key may fill the buffer before the         *)
(* increment.  The write behind the row it then makes stays inside Cells.     *)
TypeOK ==
    /\ active_terminal \in Terms
    /\ keyboard_buf \in [Cells -> AllChars \cup {NUL}]
    /\ num_chars_in_buf \in [Terms -> 0 .. MAX_CHARS_IN_BUF + 1]
    /\ read_buf_ready \in [Terms -> BOOLEAN]
    /\ pc \in [Terms -> Labels]
    /\ loaded \in [Terms -> 0 .. MAX_CHARS_IN_BUF + 1]
    /\ nbytes \in [Terms -> ReadSizes \cup {0}]
    /\ \A t \in Terms : Len(got[t]) <= nbytes[t] + 1

(* While a program computes or waits for input, the buffer is the line on the *)
(* screen: backspace deletes what the user typed and no more, and tab and     *)
(* enter work on what the user sees.                                          *)
BufferHoldsLine == \A t \in Terms :
    clean[t] /\ pc[t] \in {"user", "wait"} =>
        /\ num_chars_in_buf[t] = Len(line[t])
        /\ \A i \in 1 .. Len(line[t]) :
              keyboard_buf[Cell(t, i - 1)] = line[t][i]

(* A read copies nbytes + 1 bytes, and as many of them as lie in the          *)
(* terminal's own row are the line that was entered with NULs behind it, when *)
(* no key was pressed on the terminal between Enter and the end of the read   *)
(* and no other terminal's read ran into its row.  The bytes after the row    *)
(* are what the next terminal's row holds.                                    *)
ReadReturnsLine ==
    [][\A t \in Terms :
          pc[t] = "zero_r" /\ pc'[t] = "ready_r" /\ clean[t] =>
              /\ Len(got[t]) = nbytes[t] + 1
              /\ \A i \in 1 .. nbytes[t] + 1 :
                    i <= MAX_CHARS_IN_BUF =>
                        got[t][i] =
                            IF i <= Len(line[t]) THEN line[t][i] ELSE NUL]_vars

(* A reader whose line has been entered returns to its program, if the user   *)
(* does not leave its terminal for good.                                      *)
ReaderReturns == \A t \in Terms :
    pc[t] = "wait" /\ read_buf_ready[t]
        ~> (pc[t] = "user" \/ [](active_terminal # t))
=============================================================================
