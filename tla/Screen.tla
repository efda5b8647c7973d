------------------------------- MODULE Screen -------------------------------
(* The text screen of gyaradOS: putc, new_line, del_last_char, clear_screen   *)
(* and update_screen of lib/lib.c, the keys of drivers/keyboard.c that call   *)
(* them, the pointer of drivers/mouse.c, and the programs that print.         *)
(*                                                                            *)
(* There is one visible page.  A key edits it from an interrupt handler, with *)
(* interrupts off; a program that prints does it with interrupts on, and a    *)
(* key can arrive between any two statements of putc and new_line, one step   *)
(* here per C statement (a loop of new_line is one step: whatever a key does  *)
(* inside it, the terminal is torn).  lib.c finds the position to write at    *)
(* through a variable of its own, which the last putc set.                    *)
(*                                                                            *)
(* The build is the one without the scheduler: the program of the terminal on *)
(* the screen runs.  Colours and the blinking cursor of the VGA are left out, *)
(* and so are vidmap's programs, which write to the page as they please.      *)
EXTENDS Integers, Sequences, SequencesExt

CONSTANTS
    NUM_TERMINALS,
    NUM_ROWS,
    NUM_COLS,
    PAGE_CELLS,         \* characters in the 4 KB page, 2048
    MAX_CHARS_IN_BUF,
    Chars,              \* what is typed and printed
    Completions,        \* what Tab may put in place of the line
    Messages,           \* what the kernel prints
    PointerCells,       \* bound: where the pointer may go
    Printers,           \* bound: terminals whose program prints
    FOLLOW_TORN,        \* bound: FALSE when the model ends with a first torn
                        \* terminal
    NL, BLANK, BLOCK    \* newline, space and the pointer, character 219

Terms == 0 .. NUM_TERMINALS - 1
Cells == 0 .. PAGE_CELLS - 1
ScreenCells == 0 .. NUM_ROWS * NUM_COLS - 1

(* A line is shorter than the screen: 1023 characters, and one that a race     *)
(* may let in, on 24 rows of 80 and a last one.                               *)
ASSUME ScreenAssumption ==
    /\ NUM_TERMINALS \in Nat \ {0} /\ NUM_ROWS \in Nat \ {0, 1}
    /\ NUM_COLS \in Nat \ {0, 1} /\ MAX_CHARS_IN_BUF \in Nat \ {0}
    /\ PAGE_CELLS \in Nat /\ NUM_ROWS * NUM_COLS <= PAGE_CELLS
    /\ MAX_CHARS_IN_BUF < (NUM_ROWS - 1) * NUM_COLS
    /\ {NL, BLANK, BLOCK} \cap Chars = {} /\ BLANK # BLOCK
    /\ Completions \subseteq Seq(Chars) \ {<<>>}
    /\ Messages \subseteq Seq(Chars \cup {NL})
    /\ PointerCells \subseteq ScreenCells /\ PointerCells # {}
    /\ Printers \subseteq Terms

VARIABLES
    active_terminal,    \* keyboard.c: the terminal on the screen
    lib_active,         \* active_terminal of lib.c
    screen_x, screen_y, \* [Terms -> Int]
    video_mem,          \* the visible page, [Cells -> characters]
    term_vid_mem,       \* [Terms -> pages]: where the others' pages are kept
    num_chars_in_buf,   \* what Backspace may take back on each terminal
    mouse_at,           \* the cell of mouse_x, mouse_y
    prev_char,          \* the character the pointer hides
    prog,               \* [Terms -> where the program is in its system call]
    faulted,            \* the kernel wrote outside the page
    text,               \* history: the rows of each terminal, see Typed
    torn,               \* history: terminals whose text is no longer followed,
                        \* see TornBy, Misled, clear_screen and the mouse
    miscounted,         \* history: terminals whose num_chars_in_buf a program
                        \* has set too high, see WriteIncrement
    raw,                \* history: terminals that show what was in the memory
    drawn               \* history: the pointer is where it was last drawn

posVars == <<lib_active, screen_x, screen_y>>
mouseVars == <<mouse_at, prev_char>>
countVars == <<num_chars_in_buf, miscounted>>
histVars == <<text, torn, raw, drawn>>
vars == <<active_terminal, posVars, video_mem, term_vid_mem, countVars,
          mouseVars, prog, faulted, histVars>>

Labels == {"user", "load", "incr", "next", "begin", "store", "advance", "wrap",
           "last_row", "scroll", "bottom", "down", "home", "mod_x", "mod_y"}

(* loaded is the register of terminal_write's increment.                      *)
Place(pc, call, c, n) == [pc |-> pc, call |-> call, char |-> c, loaded |-> n]
Idle == Place("user", "none", NL, 0)
Empty == << <<>> >>
Filled(c) == [i \in Cells |-> c]

(* The kept page of a terminal nobody went to yet is what the memory holds.   *)
Init ==
    /\ active_terminal = 0 /\ lib_active = 0
    /\ screen_x = [t \in Terms |-> 0] /\ screen_y = [t \in Terms |-> 0]
    /\ video_mem = Filled(BLANK)
    /\ \E old \in Chars \cup {BLANK} :
          /\ term_vid_mem = [t \in Terms |-> Filled(IF t = 0 THEN BLANK ELSE old)]
          /\ raw = IF old = BLANK THEN {} ELSE Terms \ {0}
    /\ num_chars_in_buf = [t \in Terms |-> 0]
    /\ mouse_at \in PointerCells /\ prev_char = BLANK
    /\ prog = [t \in Terms |-> Idle]
    /\ faulted = FALSE
    /\ text = [t \in Terms |-> Empty]
    /\ torn = {} /\ miscounted = {} /\ drawn = FALSE

-----------------------------------------------------------------------------
(* The functions of lib.c, as called with interrupts off: what they make of   *)
(* the page and the position of the terminal on the screen.                   *)

Page(s, i, c) ==
    IF i \in Cells THEN [s EXCEPT !.page[i] = c] ELSE [s EXCEPT !.fault = TRUE]

At(x, y) == NUM_COLS * y + x

(* Mutation: the last row stays as it was.                                    *)
Scrolled_LastKept(page) ==
    [i \in Cells |-> IF i + NUM_COLS \in ScreenCells THEN page[i + NUM_COLS]
                     ELSE page[i]]

Scrolled(page) ==
    [i \in Cells |-> IF i + NUM_COLS \in ScreenCells THEN page[i + NUM_COLS]
                     ELSE IF i \in ScreenCells THEN BLANK ELSE page[i]]

new_line(s) ==
    IF s.y = NUM_ROWS - 1
    THEN [s EXCEPT !.page = Scrolled(@), !.x = 0]
    ELSE [s EXCEPT !.y = @ + 1, !.x = 0]

putc(s, c) ==
    LET stored == [Page(s, At(s.x, s.y), c) EXCEPT !.x = @ + 1]
        wrapped == IF stored.x = NUM_COLS THEN new_line(stored) ELSE stored
    IN  IF c = NL THEN new_line(s)
        ELSE [wrapped EXCEPT !.x = @ % NUM_COLS, !.y = @ % NUM_ROWS]

(* Mutation: from the first column the cursor stays in its row.               *)
Back_SameRow(s) ==
    IF s.x = 0 THEN [s EXCEPT !.x = NUM_COLS - 1] ELSE [s EXCEPT !.x = @ - 1]

Back(s) ==
    IF s.x = 0 THEN [s EXCEPT !.x = NUM_COLS - 1, !.y = @ - 1]
    ELSE [s EXCEPT !.x = @ - 1]

del_last_char(s) == LET b == Back(s) IN Page(b, At(b.x, b.y), BLANK)

Visible == [page |-> video_mem, fault |-> FALSE,
            x |-> screen_x[active_terminal], y |-> screen_y[active_terminal]]

-----------------------------------------------------------------------------
(* History: what the user should see.  A terminal's text is a sequence of at  *)
(* most NUM_ROWS rows; the cursor is at the end of the last one.              *)

LastRow(rows) == rows[Len(rows)]

Broken(rows) ==
    IF Len(rows) = NUM_ROWS THEN Append(Tail(rows), <<>>) ELSE Append(rows, <<>>)

Typed(rows, c) ==
    LET longer == [rows EXCEPT ![Len(rows)] = Append(@, c)]
    IN  IF c = NL THEN Broken(rows)
        ELSE IF Len(LastRow(longer)) = NUM_COLS THEN Broken(longer) ELSE longer

(* Before the start of a row comes the last column of the row above.          *)
Cut(row) == [k \in 1 .. NUM_COLS - 1 |-> IF k <= Len(row) THEN row[k] ELSE BLANK]

Erased(rows) ==
    IF LastRow(rows) # <<>> THEN [rows EXCEPT ![Len(rows)] = Front(@)]
    ELSE IF Len(rows) = 1 THEN rows
    ELSE LET above == Front(rows) IN [above EXCEPT ![Len(above)] = Cut(@)]

Shown(rows, i) ==
    LET r == (i \div NUM_COLS) + 1
        k == (i % NUM_COLS) + 1
    IN  IF r <= Len(rows) /\ k <= Len(rows[r]) THEN rows[r][k] ELSE BLANK

(* What the functions make of the screen, with its text beside it.            *)
Both == [screen |-> Visible, rows |-> text[active_terminal]]
Put(b, c) == [screen |-> putc(b.screen, c), rows |-> Typed(b.rows, c)]
Erase(b) == [screen |-> del_last_char(b.screen), rows |-> Erased(b.rows)]

puts(b, w) ==
    LET after[k \in 0 .. Len(w)] == IF k = 0 THEN b ELSE Put(after[k - 1], w[k])
    IN  after[Len(w)]

reset_curr_command(b, n) ==
    LET after[k \in 0 .. n] == IF k = 0 THEN b ELSE Erase(after[k - 1])
    IN  after[n]

(* The program of t has begun to print a character and has not finished.      *)
Inside(t) ==
    /\ prog[t].pc \notin {"user", "load", "incr", "next"}
    /\ ~ (prog[t].pc = "begin" /\ prog[t].char = NL)

(* Who is torn when t's screen is edited, or lib.c set on it, while one of    *)
(* the programs of us is inside: those programs go on with another position   *)
(* than they began with, and perhaps on t's screen.                           *)
TornBy(t, us) ==
    IF \E u \in us : Inside(u) THEN {t} \cup {u \in us : Inside(u)} ELSE {}

(* The block of the pointer was carried away from where the mouse is.         *)
Ghost == \E i \in ScreenCells \ {mouse_at} : video_mem'[i] = BLOCK

(* A step on the screen of t leaves the text rows and tears the terminals ts. *)
Follow(t, rows, ts) ==
    /\ torn' = torn \cup ts \cup (IF Ghost THEN {t} ELSE {})
    /\ text' = [u \in Terms |-> IF u \in torn' THEN Empty
                                ELSE IF u = t THEN rows ELSE text[u]]
    /\ drawn' = (drawn /\ video_mem'[mouse_at] = BLOCK /\ ~ Ghost)

-----------------------------------------------------------------------------
(* Keys and the kernel's own messages: handlers that run with interrupts off  *)
(* and go through putc, new_line or del_last_char on the active terminal.     *)

(* The handler leaves screen and text as they are in b, and tears ts.         *)
Edits(b, ts) ==
    LET t == active_terminal
        s == b.screen
    IN  /\ video_mem' = s.page /\ faulted' = s.fault
        /\ screen_x' = [screen_x EXCEPT ![t] = s.x]
        /\ screen_y' = [screen_y EXCEPT ![t] = s.y]
        /\ lib_active' = t
        /\ Follow(t, b.rows, TornBy(t, Terms) \cup ts)
        /\ UNCHANGED <<active_terminal, term_vid_mem, mouseVars, raw>>

(* Mutation: one character too many.                                          *)
HasRoom_AtMost(t) == num_chars_in_buf[t] <= MAX_CHARS_IN_BUF
HasRoom(t) == num_chars_in_buf[t] < MAX_CHARS_IN_BUF

(* add_char_to_buffer from the interrupt                                      *)
KeyChar(c) ==
    LET t == active_terminal
    IN  /\ HasRoom(t)
        /\ num_chars_in_buf' = [num_chars_in_buf EXCEPT ![t] = @ + 1]
        /\ Edits(Put(Both, c), {})
        /\ UNCHANGED <<prog, miscounted>>

(* A key that erases as many characters as are counted tears its terminal     *)
(* when that is too many.                                                     *)
Misled == {active_terminal} \cap miscounted

(* Mutation: Backspace does not ask.                                          *)
MayErase_Always(t) == TRUE
MayErase(t) == num_chars_in_buf[t] > 0

Backspace ==
    LET t == active_terminal
    IN  /\ MayErase(t)
        /\ num_chars_in_buf' = [num_chars_in_buf EXCEPT
               ![t] = IF @ > 0 THEN @ - 1 ELSE @]
        /\ Edits(Erase(Both), Misled)
        /\ UNCHANGED <<prog, miscounted>>

(* handle_tab: the line is erased and a name typed in its place.              *)
Tab == \E w \in Completions :
    LET t == active_terminal
        n == num_chars_in_buf[t]
        name == SubSeq(w, 1, IF Len(w) < MAX_CHARS_IN_BUF THEN Len(w)
                             ELSE MAX_CHARS_IN_BUF)
    IN  /\ Edits(puts(reset_curr_command(Both, n), name), Misled)
        /\ num_chars_in_buf' = [num_chars_in_buf EXCEPT ![t] = Len(name)]
        /\ UNCHANGED <<prog, miscounted>>

(* An exception's message, or execute's: printf with interrupts off.  After   *)
(* an exception another program goes on.                                      *)
KernelPrints == \E m \in Messages :
    /\ prog[active_terminal].pc = "user"
    /\ Edits(puts(Both, m), {})
    /\ UNCHANGED <<countVars, prog>>

(* Ctrl+C: what the program was printing stays as far as it got.              *)
CtrlC ==
    LET t == active_terminal
    IN  /\ prog' = [prog EXCEPT ![t] = Idle]
        /\ UNCHANGED <<active_terminal, posVars, video_mem, term_vid_mem, faulted,
                       countVars, mouseVars, raw>>
        /\ Follow(t, text[t], IF Inside(t) THEN {t} ELSE {})

(* clear_screen: the page is the visible one, the position lib.c's.  The      *)
(* terminal is as new only if the two belong together, no program is inside   *)
(* putc, and nothing is left on the line that Backspace could erase.          *)
clear_screen ==
    LET t == active_terminal
        inside == {u \in Terms : Inside(u)}
    IN  /\ video_mem' = [i \in Cells |-> IF i \in ScreenCells THEN BLANK ELSE video_mem[i]]
        /\ screen_x' = [screen_x EXCEPT ![lib_active] = 0]
        /\ screen_y' = [screen_y EXCEPT ![lib_active] = 0]
        /\ IF lib_active = t /\ inside = {} /\ num_chars_in_buf'[t] = 0
           THEN /\ torn' = torn \ {t} /\ miscounted' = miscounted \ {t}
                /\ raw' = raw \ {t} /\ drawn' = FALSE
                /\ text' = [text EXCEPT ![t] = Empty]
           ELSE /\ Follow(t, Empty, {t, lib_active} \cup inside)
                /\ UNCHANGED <<miscounted, raw>>
        /\ UNCHANGED <<active_terminal, lib_active, term_vid_mem, mouseVars, prog, faulted>>

(* Ctrl+L, reset_term                                                         *)
CtrlL ==
    /\ num_chars_in_buf' = [num_chars_in_buf EXCEPT ![active_terminal] = 0]
    /\ clear_screen

(* The command "clear": execute with interrupts off.                          *)
ClearCommand ==
    /\ prog[active_terminal].pc = "user"
    /\ UNCHANGED num_chars_in_buf
    /\ clear_screen

(* F1, F2, F3: update_screen keeps the page and shows t's.  The copy left of  *)
(* the page that is shown is not read again, and blank here.                  *)
update_screen(t) ==
    LET kept == [term_vid_mem EXCEPT ![active_terminal] = video_mem]
    IN  /\ video_mem' = kept[t]
        /\ term_vid_mem' = [kept EXCEPT ![t] = Filled(BLANK)]

FunctionKey(t) ==
    /\ update_screen(t)
    /\ active_terminal' = t
    /\ Follow(active_terminal, text[active_terminal],
              IF drawn /\ t # active_terminal THEN {active_terminal} ELSE {})
    /\ UNCHANGED <<posVars, countVars, mouseVars, prog, faulted, raw>>

-----------------------------------------------------------------------------
(* The mouse: the hidden character is put back and the one below the new      *)
(* place hidden.  When the page was scrolled, written to or exchanged under   *)
(* the pointer, that is a character the terminal did not have.                *)

(* Mutation: the character is read before the old one is put back.            *)
Hidden_Before(page, to) == video_mem[to]
Hidden(page, to) == page[to]

MouseMove(to) ==
    LET page == [video_mem EXCEPT ![mouse_at] = prev_char]
    IN  /\ prev_char' = Hidden(page, to)
        /\ video_mem' = [page EXCEPT ![to] = BLOCK]
        /\ mouse_at' = to
        /\ drawn' = TRUE
        /\ torn' = IF drawn \/ video_mem[mouse_at] = prev_char THEN torn
                   ELSE torn \cup {active_terminal}
        /\ text' = [t \in Terms |-> IF t \in torn' THEN Empty ELSE text[t]]
        /\ UNCHANGED <<active_terminal, posVars, term_vid_mem, countVars,
                       prog, faulted, raw>>

-----------------------------------------------------------------------------
(* The program of terminal t prints.                                          *)

Goes(t, p) == prog' = [prog EXCEPT ![t] = p]
Goto(t, label) == prog' = [prog EXCEPT ![t].pc = label]

StaysAt(t, from) == prog[t].pc = from /\ UNCHANGED
    <<active_terminal, term_vid_mem, mouseVars>>

NoHistory == UNCHANGED histVars

(* The test of add_char_to_buffer, in terminal_write with a first or a        *)
(* further character.  A newline does not enter the buffer; nothing is        *)
(* printed when it is full, of a NUL, or when there is nothing to write.      *)
WriteTest(t) ==
    /\ \/ StaysAt(t, "user")
       \/ StaysAt(t, "next") /\ prog[t].call = "write"
    /\ \/ \E c \in Chars : HasRoom(t) /\ Goes(t, Place("load", "write", c, 0))
       \/ HasRoom(t) /\ Goes(t, Place("begin", "write", NL, 0))
       \/ Goes(t, Place("next", "write", NL, 0))
    /\ UNCHANGED <<posVars, video_mem, faulted, countVars>> /\ NoHistory

(* num_chars_in_buf[term]++: the old value is loaded, and the new one stored. *)
WriteLoad(t) ==
    /\ StaysAt(t, "load")
    /\ Goes(t, Place("incr", "write", prog[t].char, num_chars_in_buf[t]))
    /\ UNCHANGED <<posVars, video_mem, faulted, countVars>> /\ NoHistory

(* What a key erased in between is counted again.                             *)
WriteIncrement(t) ==
    LET n == prog[t].loaded
    IN  /\ StaysAt(t, "incr")
        /\ num_chars_in_buf' = [num_chars_in_buf EXCEPT ![t] = n + 1]
        /\ miscounted' = miscounted \cup (IF num_chars_in_buf[t] < n THEN {t} ELSE {})
        /\ Goes(t, Place("begin", "write", prog[t].char, 0))
        /\ UNCHANGED <<posVars, video_mem, faulted>> /\ NoHistory

(* terminal_read has its line and calls new_line (the wait for the line is    *)
(* module Terminal's).                                                        *)
ReadReturns(t) ==
    /\ StaysAt(t, "user")
    /\ Goes(t, Place("begin", "read", NL, 0))
    /\ UNCHANGED <<posVars, video_mem, faulted, countVars>> /\ NoHistory

(* num_chars_in_buf = 0 at the end of either call: a count that was too high  *)
(* is right again.                                                            *)
CallReturns(t) ==
    /\ StaysAt(t, "next")
    /\ num_chars_in_buf' = [num_chars_in_buf EXCEPT ![t] = 0]
    /\ miscounted' = miscounted \ {t}
    /\ Goes(t, Idle)
    /\ UNCHANGED <<posVars, video_mem, faulted>> /\ NoHistory

(* active_terminal = get_active_terminal(), in putc, and in new_line, which   *)
(* putc calls behind the last column.                                         *)
SetTerminal(t) ==
    /\ \/ StaysAt(t, "begin") /\ Goto(t, IF prog[t].char = NL THEN "last_row" ELSE "store")
       \/ /\ StaysAt(t, "wrap") /\ screen_x[lib_active] = NUM_COLS
          /\ Goto(t, "last_row")
    /\ lib_active' = active_terminal
    /\ UNCHANGED <<screen_x, screen_y, video_mem, faulted, countVars, raw>>
    /\ Follow(t, text[t], TornBy(t, Terms \ {t}))

Store(t) ==
    LET s == Page(Visible, At(screen_x[lib_active], screen_y[lib_active]), prog[t].char)
    IN  /\ StaysAt(t, "store") /\ Goto(t, "advance")
        /\ video_mem' = s.page /\ faulted' = s.fault
        /\ Follow(t, text[t], {})
        /\ UNCHANGED <<posVars, countVars, raw>>

(* The end of putc or new_line: the character is on the screen.               *)
Done(t) ==
    /\ Goto(t, "next")
    /\ Follow(t, Typed(text[t], prog[t].char), {})
    /\ UNCHANGED raw

(* A statement that sets the position of lib.c's terminal.                    *)
Moves(t, from, x, y) ==
    /\ StaysAt(t, from)
    /\ screen_x' = [screen_x EXCEPT ![lib_active] = x]
    /\ screen_y' = [screen_y EXCEPT ![lib_active] = y]
    /\ UNCHANGED <<lib_active, video_mem, faulted, countVars>>

(* A condition is evaluated.                                                  *)
Tests(t, from, label) ==
    /\ StaysAt(t, from) /\ Goto(t, label)
    /\ UNCHANGED <<posVars, video_mem, faulted, countVars>> /\ NoHistory

Scroll(t) ==
    /\ StaysAt(t, "scroll") /\ Goto(t, "bottom")
    /\ video_mem' = Scrolled(video_mem)
    /\ Follow(t, text[t], {})
    /\ UNCHANGED <<posVars, faulted, countVars, raw>>

Prints(t) ==
    LET x == screen_x[lib_active]
        y == screen_y[lib_active]
    IN  \/ SetTerminal(t)
        \/ Store(t)
        \/ Moves(t, "advance", x + 1, y) /\ Goto(t, "wrap") /\ NoHistory
        \/ x # NUM_COLS /\ Tests(t, "wrap", "mod_x")
        \/ Tests(t, "last_row", IF y = NUM_ROWS - 1 THEN "scroll" ELSE "down")
        \/ Scroll(t)
        \/ Moves(t, "bottom", x, NUM_ROWS - 1) /\ Goto(t, "home") /\ NoHistory
        \/ Moves(t, "down", x, y + 1) /\ Goto(t, "home") /\ NoHistory
        \/ Moves(t, "home", 0, y) /\ prog[t].char = NL /\ Done(t)
        \/ Moves(t, "home", 0, y) /\ prog[t].char # NL
              /\ Goto(t, "mod_x") /\ NoHistory
        \/ Moves(t, "mod_x", x % NUM_COLS, y) /\ Goto(t, "mod_y") /\ NoHistory
        \/ Moves(t, "mod_y", x, (y + (x \div NUM_COLS)) % NUM_ROWS) /\ Done(t)

Program(t) ==
    /\ active_terminal = t
    /\ \/ WriteTest(t) \/ WriteLoad(t) \/ WriteIncrement(t)
       \/ ReadReturns(t)
       \/ Prints(t)
       \/ CallReturns(t)

Key ==
    \/ \E c \in Chars : KeyChar(c)
    \/ Backspace \/ Tab \/ CtrlC \/ CtrlL
    \/ \E t \in Terms : FunctionKey(t)

(* After the fault nothing is followed: see Panic of module Processes.        *)
Next ==
    /\ ~ faulted
    /\ torn # {} => FOLLOW_TORN
    /\ \/ Key
       \/ KernelPrints \/ ClearCommand
       \/ \E to \in PointerCells : MouseMove(to)
       \/ \E t \in Printers : Program(t)

Spec == Init /\ [][Next]_vars

-----------------------------------------------------------------------------
(* Properties.                                                                *)

(* Every variable has its type.  A position is on the screen, or one column   *)
(* behind it inside putc, unless the terminal is torn; num_chars_in_buf may   *)
(* pass MAX_CHARS_IN_BUF by one, when a key comes between terminal_write's    *)
(* test and its increment, and no more.                                       *)
TypeOK ==
    /\ {active_terminal, lib_active} \subseteq Terms
    /\ screen_x \in [Terms -> Nat] /\ screen_y \in [Terms -> Int]
    /\ \A t \in Terms \ torn :
          screen_x[t] \in 0 .. NUM_COLS /\ screen_y[t] \in 0 .. NUM_ROWS - 1
    /\ video_mem \in [Cells -> Chars \cup {BLANK, BLOCK}]
    /\ term_vid_mem \in [Terms -> [Cells -> Chars \cup {BLANK, BLOCK}]]
    /\ num_chars_in_buf \in [Terms -> 0 .. MAX_CHARS_IN_BUF + 1]
    /\ mouse_at \in PointerCells /\ prev_char \in Chars \cup {BLANK, BLOCK}
    /\ prog \in [Terms -> [pc : Labels, call : {"none", "read", "write"},
                           char : Chars \cup {NL}, loaded : 0 .. MAX_CHARS_IN_BUF]]
    /\ {torn, miscounted, raw} \subseteq SUBSET Terms
    /\ \A t \in Terms : Len(text[t]) \in 1 .. NUM_ROWS

(* A terminal shows its text, on the screen or kept for the user's return,    *)
(* whatever keys, programs of other terminals and F-keys came between the     *)
(* steps of its program, as long as it is neither torn nor raw: rows are      *)
(* filled, broken and scrolled, nothing is lost and nothing left over, and    *)
(* the pointer puts back what it has hidden.                                  *)
TextShown == \A t \in Terms \ (torn \cup raw) :
    ~ Inside(t) => \A i \in ScreenCells :
        IF t # active_terminal THEN term_vid_mem[t][i] = Shown(text[t], i)
        ELSE video_mem[i] = IF drawn /\ i = mouse_at THEN BLOCK
                            ELSE Shown(text[t], i)

(* The next character goes behind the text.                                   *)
CursorAtEnd == \A t \in Terms \ torn :
    ~ Inside(t) => /\ screen_x[t] = Len(LastRow(text[t]))
                   /\ screen_y[t] = Len(text[t]) - 1

(* The kernel never writes outside the page before a terminal is torn: as     *)
(* long as no key edited a screen while a program was inside putc or new_line *)
(* and no Backspace or Tab erased by a count that WriteIncrement had set too  *)
(* high, what may be erased is on the screen.                                 *)
FaultOnlyWhenTorn == faulted => torn # {}
=============================================================================
