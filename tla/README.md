# gyaradOS in TLA+

TLA+ models of gyaradOS, a small Unix-like kernel for one x86 CPU (three text
terminals, up to seven processes, a read-only file system in memory, a clock),
with the TLC configurations that check them and proofs checked by TLAPS.
Every definition is translated from the source; `PROJECT.json` gives the lines
each one stands for (`map`), the runs, the mutants that show that every property
can fail, and the hazards the properties are for.

## 1. The system

| Component | State | Operations | Interacts through |
|---|---|---|---|
| Processes and terminals (`kernel/syscall.c`, `drivers/pit.c`, parts of `drivers/keyboard.c`) | `curr_proc`, `prev_proc`, `curr_proc_id_mask`, `curr_active_term`, `active_terminal`, the two `*_term_start` flags, `first_program_run`, `g_status`, the PCBs, page directory, TSS, mode and place of the CPU | `execute`, `halt`, `context_switch`, the timer interrupt, F1-F3, Ctrl+C, the exception handlers, the start-up sequence | globals shared by interrupt handlers and system calls |
| Terminal line discipline (`drivers/keyboard.c`) | `keyboard_buf`, `num_chars_in_buf`, `read_buf_ready` | one branch of `handle_keypress` per key; `terminal_read`, `terminal_write` | the buffer, written by the interrupt and by the program |
| Scan codes (`drivers/keyboard.c`) | the modifier flags, `caps_on`, `special_key_enabled` | make, break and extended codes, the caps lock light | selects the branches above |
| File system (`fs/files.c`) | none after `fs_init`: the image is read-only | `read_dentry_by_name`, `read_data`, `copy_file_to_addr`, `dir_read` | called by descriptors and `execute` |
| File descriptors (`kernel/syscall.c`) | `fds` of each PCB | `open`, `close`, `read`, `write`; `execute` and `halt` set them up and clear them | operation tables of files, directory, clock, terminal |
| Real-time clock (`drivers/rtc.c`) | `intr_occ`, `rtc_frequency` | interrupt, `rtc_open`, `rtc_close`, `rtc_read`, `rtc_write` | one clock and one flag for all programs |
| Paging (`mm/paging.c`) | which 4MB page is at 128MB | `init_new_process`, `switch_pd`, `get_new_pd` | `execute`, `halt`, `context_switch` |
| Interrupts (`kernel/idt.c`, `kernel/irq.S`, `drivers/i8259.c`) | masks, requests and services of the two 8259s, the interrupt flag, the flags saved on each stack | gates and stubs, `enable_irq`, `send_eoi`, `general_interrupt` | every handler, every system call |
| Screen (`lib/lib.c`) | cursor and video page of each terminal, lib.c's own `active_terminal` | `putc`, `new_line`, `del_last_char`, `clear_screen`, `update_screen` | the keyboard handler, `terminal_read`, `terminal_write`, `execute`, exceptions |
| Mouse (`drivers/mouse.c`) | place of the pointer, the character it hides | interrupt | the visible page |
| Sound card, DMA, speaker | card state | `open`, `write`, interrupt | the sound interrupt calls `read` |
| Command line (`kernel/syscall.c`, `lib/lib.c`) | `args` of the PCB, strtok's buffer | splitting in `execute`, `strtok`, `getargs` | `execute`, a page fault |
| Start-up (`boot/`) | none | descriptor tables, `kernel_main` | enables interrupts before the kernel is complete |

What makes the behaviour hard:

* system calls run with interrupts on or off depending on the path: a key, a
  timer tick or a clock tick can fall between any two steps of
  `terminal_read`, `terminal_write`, `rtc_read`, the end of `execute` and the
  end of `close`;
* the screen has one page and one set of functions, which programs use with
  interrupts on and handlers between any two of their statements;
* `execute`, `halt` and `context_switch` exchange stack, page directory, kernel
  stack and foreground process, and each is described in several places;
* a fixed number of slots, of descriptors and of characters, with failures that
  callers do not look at;
* global variables (`g_status`, `intr_occ`, `rtc_frequency`,
  `special_key_enabled`, lib.c's `active_terminal`, the mouse's `prev_char`) that
  serve all programs or outlive what they were for;
* loops with `<=` at the ends of buffers and files, buffers of different sizes
  for the same string.

## 2. The modules

| Module | What it is |
|---|---|
| `Processes` | the process core, one action per system call, interrupt or exception |
| `TerminalJobs` | abstract specification: each terminal is a stack of programs on a shell |
| `ProcessesProofs` | theorems about `Processes`: the process table and memory |
| `ContextProofs` | theorems about `Processes`: the running context, saved stacks, the refinement of `TerminalJobs` |
| `Terminal` | line editing, `terminal_read`, `terminal_write`, step by step |
| `TerminalProofs` | theorems about `Terminal` |
| `Keys` | modifier flags and the meaning of a key |
| `KeysProofs` | theorems about `Keys` |
| `FileSystem` | the functions of `fs/files.c` as operators |
| `Descriptors` | descriptors of several programs over `FileSystem` and the clock |
| `DescriptorsProofs` | theorems about `Descriptors` and `FileSystem` |
| `Interrupts` | the 8259s, the handlers and the interrupt flag |
| `InterruptsProofs` | theorems about `Interrupts` |
| `Screen` | the visible page, the cursors, printing step by step, keys and the mouse |
| `ScreenProofs` | theorems about `Screen` |
| `CommandLine` | how `execute` takes a command apart, and what `getargs` gives |
| `CommandLineProofs` | theorems about `CommandLine` |
| `MCProcesses`, `MCTerminal`, `MCKeys`, `MCDescriptors`, `MCInterrupts`, `MCScreen`, `MCCommandLine` | instances for TLC |

### Processes

A process is its slot: PCB, kernel stack and page of a slot belong together. A
saved `esp`/`ebp` pair is the slot whose suspended context it points to, or NULL
when there is no frame to resume (never saved, or popped since). `Enter(s, r,
table)` is the end of `halt` and `context_switch`: the page and kernel stack of
`s`, the context of `r`. When `r # s` the machine has left what a model can
follow; it is kept as the final state `"lost"`. A NULL PCB dereferenced with
paging on is the final state `"panic"`.

The kernel code between `cli` and a stack switch is one action, because nothing
can come in between. `StartProcess` goes on to the first instruction in user
mode: `execute` restores the flags (`syscall.c:259`) and `jmp_usr_exec` sets the
interrupt flag (`user.S:39`) a few instructions before its `iret`, still on the
kernel stack of the caller. A key or a tick there saves that stack as the
program's, and comes back to the same instructions; the model has it a moment
later, in user mode, with the same slot and the same saved stack. Interleaved are: system calls and exceptions of the process
that runs, function keys, Ctrl+C, timer ticks and the steps of the start-up.
`restore_flags` at the end of `halt` takes its flags from the frame `ebp` points
to by then, that of `execute`: an undefined value, so the epilogue of `execute`
runs with interrupts on or off (`mode` "exit" or "exit_cli", a free choice).
`jobs` and `owed` are history variables: the processes of each terminal in
order of their start, and the status a process's own child ended with.

`SCHED_ENABLED` selects the build. The repository sets it to 0: the timer does
nothing and F1-F3 switch processes. With 1, the timer switches and F1-F3
only switch the screen. Both are modelled.

`execute` copies a program to 128MB, that is into the page `pd` maps there
(`Loaded`): into the new slot's own page because `init_new_process` has just
mapped it. `executed` is history: what each slot was executed with.

Before paging is on, a store through NULL goes to memory that exists; after,
it faults. `BootStep` keeps the three stages because `kernel_main` enables
interrupts before paging, the file system and the first shell are there.
`early_key` and `refused` are history: F2, F3 or Ctrl+C came before the first
shell, and a terminal was opened while no slot was free.

### TerminalJobs

`stacks[t]` is the sequence of programs of terminal `t`. A program starts on
top, the top one finishes, the bottom one is a shell and stays. `Processes`
implements it (`ImplementsTerminalJobs`) with each stack read out of the
memory of the processes in `jobs`. A halted base shell starts again: a
stuttering step.

### Terminal

`keyboard_buf` is one array of memory, so that a write behind a row goes where
it goes in the kernel: into the next terminal's row, and behind the last one
into other memory, of which `BEHIND` cells are kept. Nothing bounds the `nbytes` of a
read; the model asks only that it ends inside that memory. Characters typed with
interrupts masked are one action per key; `terminal_read` and `terminal_write`
are one action per memory access, `num_chars_in_buf[t]++` being a load and a
store. `line` and `clean` are history: the line the user edits on the screen
and whether anything else has touched it. `clean` becomes FALSE when a key
edits the line after Enter, when a program's output or a neighbour's `<=` loop
writes to it, and when Ctrl+C leaves a system call half done; it becomes TRUE
when the count is set to 0.

### Keys

The user presses and releases keys in any order. An extended key's second
code is fetched by the handler that saw 0xE0. Whether the interrupt of that
second code is delivered in addition depends on the controller: `ComesAgain`,
the one definition that stands for hardware. `KbdLedHandling` is the wait for the
acknowledgement after caps lock: `kbd_ack` throws away what it reads before, so
one press or release may pass unseen while the user's hands go on. `missed` and
`lost` are history: the modifiers whose release was thrown away, and the presses
ignored since the last 0xE0. The press of an extended key and its release send
one each, and a repeat another: each can cost a plain key.

### FileSystem and Descriptors

A byte of the disk is named by the block it is in and its place there, so
that a read of the wrong block is visible. `ReadData` gives the result of
`read_data`'s loop in closed form: the number of bytes after which one of its
two tests ends it, the return value and what is in the buffer by then.
`Descriptors` composes it with the descriptors of several programs and with the
clock. `SwitchTerminal` and `Halt` stand for the process core, with the
foreground rule that `RunsForeground` checks in `Processes`.

`rtc_read` waits with interrupts on, and `close` turns them on before it calls
the driver's close: for the clock that is a second action (`RtcClose`), for files
and directories there is nothing left to do. Keys also come in while `read` and
`write` are in the driver, but `fs_read`, `dir_read` and `rtc_write` change state
in one place, so that an F-key or Ctrl+C comes before or after it; `open` and
`halt` run with interrupts off. `cut_off` is history: Ctrl+C ended a close of the
clock before its `rtc_close`.

### Interrupts

The two 8259s as the kernel programs them: `imr`, `irr` and `isr`, fixed
priority, the slave behind line 2, and one specific EOI per `send_eoi`. Each
stack is a sequence of frames: the flags that a gate or `cli_and_save` saved and
the place in the code they belong to; `iret` and `restore_flags` go back by one,
the `return` of an error path that forgets `restore_flags` by two. A handler runs
with interrupts off from its gate on: until it leaves, only devices move, so
`Deliver` enters it and one action (`ServeTimer`, `ServeKey`, ...) stands for the
rest, in which the order of acknowledgement, `halt` and `context_switch` is what
the action computes. A handler that was switched away from keeps its frame and
is `key_tail` or `pit_tail` until a switch comes back to it.

External are the devices (`Raise`), the controller's choice (`Delivered`) and the
request that is gone when the CPU asks for it (`Withdrawn`: the controller then
answers with line 7 or 15, which `init_idt` sends to `general_interrupt`). `burst`
keeps a device from raising again while requests older than its first still
wait: with fixed priority a device faster than the CPU would starve the others,
and no device here is. Which processes there are is left to `Processes`; a full
table, and keys before the first shell, are checked there.

The boot needs a Sound Blaster (`sound_blaster_reset` waits for its answer), so it
is one of the devices. Its handler calls `read` on descriptor `file`, which is
0: before a line was entered it waits in `terminal_read` with interrupts off
(`sound_wait`); with a line it clears 32769 bytes behind `keyboard_buf`, and
before the first shell it follows a NULL pointer: both are the end (`machine`
"stopped") here.

### Screen

A handler edits the screen with interrupts off: `putc`, `new_line` and
`del_last_char` are functions there, from the page and a position to the page and
a position, and `puts` and `reset_curr_command` repeat them; each carries the
text beside the page (`Put`, `Erase`). A program's `putc` and `new_line` are one step per C statement
(`Prints`), each with lib.c's `active_terminal` as it is by then, and the
program stops where it is when an F-key takes its terminal off the screen. The
loops of the scroll are one step. Before it prints, `terminal_write` tests
`num_chars_in_buf` and increments it by a load and a store (`WriteTest`,
`WriteLoad`, `WriteIncrement`), as in `Terminal`, and keys come in between: the
count may pass `MAX_CHARS_IN_BUF` by one, and what a key erases between load and
store is counted again (`miscounted`, history).

`text` is history: the rows each terminal should show, as typed, printed, erased
and scrolled. It is not followed any further (`torn`) when something happens that
makes the code lose it. `torn` is the list of those events, and so part of what
the properties say:

* a key edits the screen, or lib.c's terminal is set again, while a program is
  between the first and the last statement of `putc` or `new_line`;
* Ctrl+C ends a program there;
* Backspace or Tab erases by a count that such an increment has left too high;
* `clear_screen` is called while lib.c's terminal is another one than the one on
  the screen, or with characters left on the line that Backspace may erase;
* the pointer is on the page when an F-key keeps it, or its cell was scrolled or
  written to before it moves on.

`raw` are the terminals nobody has gone to: their pages (0xDC000, 0xEC000) are
copied to the screen without ever having been cleared. The model ends with
the first torn terminal (`FOLLOW_TORN` FALSE); the theorems hold either way.
`TypeOK` bounds the position of terminals that are not torn: a torn one can be
anywhere.

### CommandLine

A command is a sequence of characters. `Parsed` is the loop of `execute` for
every command, `Turns(c)[k]` what it has after `k` characters, one `Turn` each; `strtok` and `IsClear` are the calls
behind it. `temp_arg` is an array whose older content is any of `Leftovers`;
without a blank `cmd_len` is any of `UnsetLengths`, and so is the cell the
terminator goes to. A write outside an array is the final result "overrun".
`IsWord` and `AreArguments` are the reference: they say of a word and of an
argument string that they are those of a command, without a loop. Slots and
stacks of processes are as in `Processes`, reduced to what decides which PCB
`getargs` reads.

## 3. The runs

| Run | Instance | What it shows |
|---|---|---|
| `Processes` | shipped build, 4 slots, programs `shell` and `cat` | type, table, pages, stacks, programs in memory, what may stop the machine, refinement of `TerminalJobs` |
| `Scheduler` | `SCHED_ENABLED`, `FairSpec`, otherwise the same | with a timer tick between any two steps, every stack that will be loaded is good; every terminal's process gets the CPU again and again |
| `Terminal` | one terminal, 3 characters, `a` and `b`, reads of 1 and 3 | the buffer is the line; a read returns `nbytes` + 1 bytes, those of the row being the line |
| `TerminalsLive` | two terminals, 1 character, reads of 1, `FairSpec` | the same with a neighbour whose first character each read takes; a reader whose line was entered returns |
| `Keys` | `c`, `l`, one arrow, up to 3 keys down | a modifier is stuck only when its release was thrown away; each 0xE0 costs one plain key at most |
| `Screen` | two terminals, 2 rows of 2, a page of 5 cells, `a`, lines of 1, a program on terminal 0 | a terminal shows its text and its cursor is behind it, until it is torn; no write outside the page before |
| `CommandLine` | two terminals, four slots, names and arguments of up to 2 characters in arrays of 3 | the first word runs; each program gets its own arguments; what is refused, ends its caller or passes a buffer |
| `Descriptors` | shell and one program, 4 descriptors, files of 5 and 2 bytes in blocks of 2, the directory, the clock | reads deliver the file, listings the directory, standard streams stay, the clock's rate goes back, but for a close that is interrupted |
| `Interrupts` | both builds, two terminals, one program on a shell | every handler that is left has acknowledged; no frame is left behind; user code can be interrupted |
| `InterruptsLive` | shipped build, two terminals, shells only, `FairSpec` | every request is served; `rtc_read` returns |
| `ReturnsChildStatus` | as `Processes` | violated, see section 6 |
| `ExitsCleanly` | as `InterruptsLive`, one terminal | violated |

The bounds, and why the interesting cases are inside them:

* `MAX_PROG_NUM` 4 for 7. Three shells and one program, one terminal with a
  stack of four, and a full table with a terminal still to be opened all fit in
  four slots. The theorems of section 5 hold for every number.
* Two programs: the properties tell a shell from a program, not programs from
  each other.
* `Statuses` {1}: 254 (Ctrl+C, exceptions) is there too, so that two halts
  can differ.
* `MAX_CHARS_IN_BUF` 3 (and 1 with two terminals) for 1023: an empty, a
  partly filled and a full row. `ReadSizes`: reads that end inside the row, and
  reads of all of it, whose last byte lies behind it: in the neighbour's row
  or, for the last terminal, in the one cell of `BEHIND`. Longer reads do the
  same to more cells; the theorems have them.
* `MAX_HELD` 3: both keys of a pair and a third one; `MAX_MISSED` 1: one release
  thrown away, and the key's next press and release. `MAX_LOST` 2 tells one
  ignored key from more.
* 2 rows of 2 columns for 25 of 80: a wrap, a scroll, a Backspace across rows.
  `MAX_CHARS_IN_BUF` 1: with the one that the increment may let in, a line
  fills all rows but the last. 1023, and one more, are fewer than the 1920
  cells of 24 rows; beyond that, typing alone would scroll what Backspace may
  still erase off the screen. `PAGE_CELLS` 5: one cell of
  the 4 KB page that is not on the screen. `PointerCells` {1, 2}: the end of
  the first row and the start of the second. `Printers` {0}: one terminal's
  program prints, the other's screen is edited by keys. One character besides
  blank and pointer is enough to tell a cell that was written from one that was
  not.
* `Commands`: every command of up to two characters and longer ones that fill a
  buffer, pass its end, or have several blanks or newlines, with names and
  arguments in arrays of 3 for 32 and 64. `UnsetLengths` {0, 1, 255}: a cell
  of `temp_arg`, a cell in front of it, one far away. `MAX_NBYTES` 3: an argument
  cut, exact, and with a NUL behind it.
* Blocks of 2 bytes, a file of 5 that ends inside a block and one of 2 that ends
  with one, reads of 3 and 4 bytes: from the start of a block and from inside
  it, across one boundary and two, to the end and over it. What follows the last block of a file in the image is 0.
* `MAX_FILES` 4 for 8: two standard streams and two descriptors, so that
  descriptors are exhausted and reused in either order.
* `WORD` 16 for 2^32: positions stay below it; it is there because the
  position is unsigned and a failed read adds -1.
* `Terms` {0, 1} for three terminals in `Interrupts`: one stack that runs and one
  that waits in a handler's tail. `MAX_PROGRAMS` 1: a base shell and a program
  whose `execute` is still open below it; `InterruptsLive` has shells only, since
  the depth of the stack does not matter to what is served.
* `RTC_DEFAULT_HZ` 2, `Frequencies` 32 (good) and 33 (refused).

`CHECK_DEADLOCK FALSE` is given where the machine really may stop: for the runs of
`Processes`, which can end in "panic" or "lost", for those of `Interrupts`,
which can end in a fault or in the handler of the sound card, for `Screen`, which
ends with a torn terminal or a fault, and for `CommandLine`, which ends with an
overrun.

Conditions inside properties. `RunsForeground`, `ContextsIntact` and
`RoundRobin` say what they say while every opened terminal has a process
(`TerminalsLive`). That this can be lost is a fault of the code (section 6);
`LostOnlyWhenFull` says that, once the machine is up, it is lost in one way only.
Before that an early key can lose it too, and `StopsOnlyAfterLoss` names both
causes: the machine stops only after a terminal was opened with the table full
(`refused`) or after a key during the start-up (`early_key`). `BufferHoldsLine` and
`ReadReturnsLine` speak of `clean` lines, `DefaultWhenClosed` of a clock that no
close has left half closed (`HalfClosed`). `TextShown` and `CursorAtEnd` speak of
terminals that are not `torn`, and `GetsItsArguments` of commands with a blank:
without one the arguments are whatever was in `temp_arg`.

## 4. Fairness

* `Processes`: weak fairness of the start-up and of the epilogue of `execute`
  (the CPU executes what is ready) and strong fairness of the timer: the 8259
  keeps a tick that comes while interrupts are masked, and they are unmasked
  again and again. No fairness of programs, keys or halts.
* `Terminal`: strong fairness of each program in a system call. It runs only
  while its terminal is on the screen, so a weak condition would give
  nothing as soon as the user switches back and forth; a user who never comes
  back is an alternative in `ReaderReturns`.
* `Interrupts`: the CPU takes a request again and again if it may again and again
  (strong fairness: programs turn interrupts off and on in between), goes on with a
  handler and with code that has them off (weak), and with the start-up and the
  busy-wait of `rtc_read` in between interrupts (strong); the clock ticks (weak).
  No other device needs to raise anything, no key to be pressed, and no
  program to make or finish a call with interrupts on.

## 5. Proofs

The theorems hold for every value of the constants that the named assumptions of
the modules allow: any number of slots, any programs and statuses (`Processes`),
any number of terminals and of programs on a shell (`Interrupts`), any keyboard
and any number of keys held together (`Keys`), lines of any length on any number
of terminals (`Terminal`), any image (`Descriptors`), any commands and buffers
(`CommandLine`), a screen of any size with a pointer that goes anywhere
(`Screen`), and either build.

| Module | Theorem | Property |
|---|---|---|
| `ProcessesProofs` | `TypeCorrect`, `ParentLinksCorrect`, `SlotAccountingCorrect`, `MemoryIntactCorrect`, `AddressSpaceMatchesCorrect` | the table, memory and the page of the process that runs |
| `ContextProofs` | `RunsForegroundCorrect`, `ContextsIntactCorrect`, `StopsOnlyAfterLossCorrect`, `LostOnlyWhenFullCorrect` | who runs, where saved stack pointers lead, what stops the machine |
| `ContextProofs` | `ImplementsTerminalJobsCorrect` | the refinement |
| `KeysProofs` | `TypeCorrect`, `NoStuckModifierCorrect`, `OneLostPerCodeCorrect` | every property of the run `Keys` |
| `InterruptsProofs` | `TypeCorrect`, `AllAcknowledgedCorrect`, `InterruptibleCorrect` | every property of the run `Interrupts` |
| `TerminalProofs` | `TypeCorrect`, `BufferHoldsLineCorrect`, `ReadReturnsLineCorrect` | every property of the run `Terminal` |
| `DescriptorsProofs` | `TypeCorrect`, `StandardStreamsCorrect`, `DefaultWhenClosedCorrect`, `ImageIsWholeCorrect`, `ContentsInOrderCorrect`, `ListingCompleteCorrect` | every property of the run `Descriptors` |
| `CommandLineProofs` | `TypeCorrect`, `RunsFirstWordCorrect`, `GetsItsArgumentsCorrect`, `OverrunOnlyWhenFullCorrect`, `OutcomeFitsCommandCorrect` | every property of the run `CommandLine` |
| `ScreenProofs` | `TypeCorrect`, `TextShownCorrect`, `CursorAtEndCorrect`, `FaultOnlyWhenTornCorrect` | every property of the run `Screen` |

With them every safety property of every run that passes is proved.

What the assumptions ask of the constants, and where the code meets it:
`ImageAssumption` says that the directory's entries name inodes and an inode
names data blocks of the image, up to the block its size ends in; it was
compared with `src/filesys_img`. `RTC_DEFAULT_HZ` is a power of two
(`rtc.h`); a directory has fewer entries than a word counts; a program's name is
not empty and has no blank; blank and pointer are different characters; a line
of `MAX_CHARS_IN_BUF` and one more character fits on the screen without its last
row, as 1024 does.

**The table.** None of `TypeOK`, `ParentLinks` and `SlotAccounting` is
inductive alone. `halt` reads `prev_proc`, the PCB's `prev` and the mask, and
leaves them consistent only if all of them described one stack before:
`FreedMask` is an XOR, which clears the bit only because the slot is known to be
in use; `prev` of the new foreground process is right only because no other
terminal holds the same slot. The inductive invariant is their conjunction
(`TableInv`). The module proves once what `StartProcess` and `PopProcess` do to
`jobs` (an element appended, the last one removed), and that every other step
keeps the table or changes only saved stack pointers; each action of `Next` then
is a case that cites one of these lemmas.

**Memory.** `MemoryIntact` speaks of the page a live process has in its PCB
(`base`), of the page mapped at 128MB, and of the program that was executed. Only
`StartProcess` writes, through the mapping; that no other process has that page
rests on what is mapped when the copy is made, on `base` being a slot's own page
(`SpaceInvariant`), and on the slot being free in the mask (`TableInv`). That the
process that runs sees its own program rests on what `halt` and `context_switch` map
(`AddressSpaceMatches`).

**The page at 128MB.** `AddressSpaceMatches` speaks of what is mapped; it needs in
addition that every slot's page directory maps that slot (`OwnPages`), because
`halt` and `context_switch` load a directory that was built long before.

**The context.** `RunsForeground` and `ContextsIntact` hold only while no opened
terminal is without a process, so a step could make them true again from a state
about which they say nothing. `UpInv` excludes it: if the terminal that is supposed
to run has no process, no slot is free, and none can become free on a terminal
without one; a terminal that is lost stays lost. `BootInv` is what F-keys during
the start-up leave behind. `ContextInv` is the conjunction of the four, over
`TableInv`. That `execute` fails only with a full table needs the least free slot,
which comes from well-founded induction on the naturals (`WFMin`). `LostOnlyWhenFull`
follows from `ContextInv`, action by action. `StopsOnlyAfterLoss` needs
more: `LossInv` adds that, without a refused start and without an early key, the
start-up opens no other terminal than the first (`BootLoss`), and that from then on
every open terminal has its process, so that no NULL and no foreign stack is there
to be loaded.

**The refinement.** `stacks[t]` of `TerminalJobs` is `jobs[t]` seen through the
image of each slot (`Images`). An append or a removal commutes with it because
the slot that is taken is in no stack yet (`SlotAccounting`), so that the program
copied to it is no other's. Every other action maps to a stutter.

**Keys.** The second code of the right Ctrl key is that of the left one, which is
not down: no flag is set by it only because the mark `special_key_enabled` is
still there. `MarkInv` says that it is, and that no key was ignored while it
stands; without it neither `NoStuckModifier` nor `OneLostPerCode` is inductive.

**Interrupts.** `Interruptible` depends on a flag that was saved long ago on a stack
that may have been left and come back to. `Shaped` is the grammar of a stack:
which place may be directly above which (`Under`), what is at the bottom
(`Ground`), how high a place can be (`Height`), and that a frame which leads back
to user code, a system call or the wait of `rtc_read` holds a set flag. Each way to
change a stack is one lemma (`PushFrame`, `PopFrames`, `ReplaceTop`; then
`SaveKeeps`, `RestoreKeeps`, `HaltKeeps`, `SwitchKeeps`). `CpuInv` gives the flag
for each place the CPU is in. `AckInv` says that what is in service belongs to
the handler that runs; it needs the other two, because an interrupt is taken only
where the flag is set, hence never inside another handler.

**Terminal.** `BufferHoldsLine` compares a row with a line only between keys. The
inductive invariant says of each place in a call what the row holds there
(`LineInv`): between keys the line, after Enter with nothing behind it, and while
`terminal_read` copies, what it has taken and what is still in the row are together
the line, also when it has gone on into the rows behind. `CallInv` gives the counts in hand at each place their bounds, without
which a store leaves the row. Because the rows are one array, every write is
shown to stay in its own row or to make the line of the row it reaches unclean.

**Descriptors.** `FileInv` says that what a descriptor has delivered is the file up
to its position, `DirInv` the same of the directory. That `read_data` delivers the
next bytes, over any number of blocks, is a lemma about its closed form: the first
place where one of its two tests ends it is a least number, taken by well-founded
induction on the naturals (`WFMin`), and before it every byte is the file's.
Joining what two reads delivered (`ReadsJoin`) carries it from one call to the
next. `DefaultWhenClosed` is inductive with `StandardStreams`; a step that resets no
rate must keep `HalfClosed` (`HalfClosedStays`), and Ctrl+C turns a close that waits
into one that is cut off.

**CommandLine.** `Turns` is recursive, and what it computes is proved from a closed
form (`After`): what the loop has when it is behind the first blank, before it, or
has refused the name. If the loop disagreed with it anywhere there would be a first
character after which it does, and none can be: the turn before it agreed.
`GetsItsArguments` then needs that slots of different processes are apart
(`Apart`) and that each one's PCB holds the arguments of its own command
(`SlotInv`), through starts and halts of others.

**Screen.** The text changes when a character is complete, the page and the
cursor before that, one after the other. `Printed` says for each place in
`putc` and `new_line` which text the page shows there (the one before, the one with
the character at the end of its row, the one after the break), `Placed` where
the cursor is, `Inner` and `OwnCursor` that lib.c's `active_terminal` is that of the
program that is inside, or both are torn. `Erasable` is what keeps `del_last_char`
on the page: the characters Backspace may take back, less the one that is not
printed yet, are not more than those before the cursor; of a terminal that is
`miscounted` it says nothing, since the first key that relies on the count tears it. A scroll
can drop them from the text only because a line is shorter than the screen, so
its proof counts (`Pos`). The pointer's block is part of the page: `Shows` lets one
cell hold it and says that `prev_char` is the text's character below;
`Traces` is the same while an edit may have moved it, and `Ghost` decides
afterwards whether it did. What `puts` and `reset_curr_command` do for any number of
characters is proved like the loop of `CommandLine`, by a first
character at which it would fail.

Only model-checked: liveness (`RoundRobin`, `ReaderReturns`, `Served`,
`RtcReadReturns`), which with its fairness and `ENABLED` is outside the prover's
reach.

## 6. Where the code and its documentation differ

Shown by a run each:

* `g_status` (`ReturnsChildStatus`). The status of a halted program waits in
  a global until the epilogue of `execute` reads it; another terminal's halt in
  between replaces it.
* The sound card (`ExitsCleanly`). Its handler waits for a line of the
  keyboard with interrupts off; the stub is documented to leave "cleanly using
  iret" (`irq.S:619`).

Seen while modelling, in the models as the code has it, without a run of
their own: with the shipped `SCHED_ENABLED` 0 there is no round robin, though the
README names it; a terminal opened when the table is full is marked as started
without a process, and later switches store one process's stack into another's
PCB (`pit.c:97`, `LostOnlyWhenFull`, `StopsOnlyAfterLoss`); interrupts go on
before the first shell, and F2 before paging sends that shell to the second
terminal, so that a later F3 stores through a NULL `curr_proc` with slots to spare
(`kernel.c:205`, `StopsOnlyAfterLoss`); a key between the test and
the increment of `terminal_write` takes `num_chars_in_buf` past
`MAX_CHARS_IN_BUF` (`keyboard.c:206`, `TypeOK` of `Terminal` and `Screen`); a
Backspace between the load and the store of that increment is counted again,
and further ones then take the cursor off the screen and write in front of the
video memory (`keyboard.c:216`, `miscounted` of `Screen`); Enter clears the first character of the next terminal's line
(`keyboard.c:235`); `terminal_read` copies `nbytes + 1` bytes where `nbytes` are
promised (`keyboard.c:128`), with no bound on `nbytes`, and clears them: from 1023
on those of the rows behind;
Tab hands 32-bit words to a function of `char *`, so that one character decides
(`keyboard.c:293`); a plain key after the
press, a repeat or the release of an arrow key is swallowed, one for each 0xE0
(`keyboard.c:325`, `keyboard.c:433`); the wait for the keyboard's acknowledgement can swallow the
release of a modifier, which then sticks (`keyboard.c:259`); a key echoed while a
program is inside `new_line` can take the cursor below the last row, where
nothing scrolls any more (`lib.c:268`); Ctrl+L after an F-key resets the cursor of
another terminal (`lib.c:298`); after the command `clear` with characters typed
ahead, Backspace writes in front of the video memory and the kernel faults
(`syscall.c:155`); the pointer of the mouse leaves a copy of itself, or an old
character, when the page was scrolled or exchanged below it (`mouse.c:83`); a
screen nobody went to shows what was in the memory (`lib.c:19`); a command that
begins with a blank ends the program that passed it to `execute`, where "-1 if failed" is promised (`syscall.c:111`);
without an argument `getargs` returns what was on the stack, and the terminator
goes to an undefined place (`syscall.c:148`); every command whose first word begins
with "clear" clears the screen (`syscall.c:154`); 64 characters of arguments or a
name of 32 pass the end of their buffers (`syscall.c:140`); further blanks belong
to the argument; `read_data` tests for the end of a file after it has copied,
with `>`, and delivers a byte behind it (`files.c:149`); it returns -1 for bytes it delivered when a block
ends and the next entry is not a block number (`files.c:159`); `rtc_read`
returns at once when the clock ticked before the call (`rtc.c:152`); Ctrl+C in
`close` between the flag and `rtc_close` leaves the clock at the program's rate,
because `halt` finds no descriptor of it open (`syscall.c:385`, `cut_off` of
`Descriptors`); a restarted
base shell keeps its open descriptors (`syscall.c:38`); `general_interrupt`
acknowledges the timer and not the cascade (`idt.c:446`): after a spurious
interrupt of the slave, `withdrawn` in `Interrupts`, all lines but timer and
keyboard stay silent; the error paths of several system calls return with
interrupts off (`syscall.c:280`), which the `iret` to user mode makes good
(`Interruptible`).

## 7. Not modelled, and why

* `terminal_open` and `terminal_close`: in no operation table that `open` uses.
  `get_inode`'s result and `read_dentry_by_index` are used nowhere.
* `printf`'s formats, `itoa`, the memory functions and floating-point helpers, the
  speaker, descriptor tables, multiboot information: port writes or calculation
  without a state that any property would speak of. `splash_screen` prints once,
  before the keyboard matters.
* Colours and the cursor of the VGA; `vidmap`, whose programs write to the visible
  page as they please; the screen in the build with the scheduler, where a program
  prints on whatever terminal is shown.
* What happens after a terminal is torn, or after a write outside a buffer.
* Names of 32 characters in the directory: `strlen` runs on into the type behind
  them (`files.c:84`); the image has none.
* The sound card's interrupt outside `Interrupts`: the other modules describe
  what happens until it comes. Its DSP and DMA registers are port writes.
* `disable_irq`: called nowhere.

## 8. Plan

In the order of their weight:

1. `vidmap` over `Screen`, and the scheduler's build of it.
2. `BufferHoldsLine` for the composition of `Terminal` with the echo of `Screen`:
   the line in the buffer is the end of the text on the screen.
