----------------------------- MODULE Interrupts -----------------------------
(* How interrupts are taken, acknowledged and left in gyaradOS: the two 8259s *)
(* (drivers/i8259.c: fixed priority, a specific EOI for each interrupt), the  *)
(* gates and stubs (kernel/idt.c, kernel/irq.S), the acknowledgement in each  *)
(* driver's handler, and the interrupt flag along system calls, execute, halt *)
(* and the switch between terminals.                                          *)
(*                                                                            *)
(* A handler runs with the interrupt flag cleared by its gate: from its first *)
(* instruction to its iret, or to where it has given the CPU away, only       *)
(* devices move, and so it is one action.  Which processes there are is the   *)
(* subject of module Processes, an F-key or Ctrl+C before the first shell and *)
(* a full process table included; here a new shell always finds a slot.       *)
EXTENDS Naturals, Sequences

CONSTANTS
    Terms,
    Builds,         \* the settings of SCHED_ENABLED
    MAX_PROGRAMS    \* bound: programs on top of a terminal's shell

Timer == 0
Keyboard == 1
Cascade == 2
Sound == 5
Rtc == 8
Mouse == 12
Devices == {Timer, Keyboard, Sound, Rtc, Mouse}
Lines == 0 .. 15
NoLine == 16

ASSUME InterruptsAssumption ==
    /\ Terms \subseteq Nat /\ 0 \in Terms
    /\ Builds \subseteq BOOLEAN
    /\ MAX_PROGRAMS \in Nat

VARIABLES
    sched,          \* SCHED_ENABLED, fixed
    imr, irr, isr,  \* of both 8259s: masked, requested, in service
    burst,          \* the devices that have raised a request since there was
                    \* none
    reg_c,          \* the clock's register C has not been read since its last
                    \* request, and holds back the next
    booted,         \* how far kernel_main is
    int_flag,       \* the processor's interrupt flag
    running,        \* the terminal whose stack the CPU is on
    place,          \* [Terms -> what the code on each stack is doing]
    stack,          \* [Terms -> saved flags and the places they belong to]
    serving,        \* the line whose handler has been entered, or NoLine
    intr_occ,
    withdrawn,      \* history: a request of the slave was withdrawn too late
    machine         \* "up", or "stopped" in a fault

pic == <<imr, irr, isr, burst, reg_c>>
vars == <<sched, pic, booted, int_flag, running, place, stack, serving,
          intr_occ, withdrawn, machine>>

Places == {"closed", "boot", "user", "sys", "cli", "rtc_wait",
           "exec", "epilogue", "irq", "key_tail", "pit_tail", "sound_wait"}

Init ==
    /\ sched \in Builds
    /\ imr = Lines /\ irr = {} /\ isr = {} /\ burst = {} /\ reg_c = FALSE
    /\ booted = 0 /\ int_flag = FALSE /\ running = 0
    /\ place = [t \in Terms |-> IF t = 0 THEN "boot" ELSE "closed"]
    /\ stack = [t \in Terms |-> <<>>]
    /\ serving = NoLine
    /\ intr_occ = FALSE
    /\ withdrawn = FALSE /\ machine = "up"

-----------------------------------------------------------------------------
(* Frames.                                                                    *)

On == machine = "up" /\ UNCHANGED sched

Top(t) == stack[t][Len(stack[t])]

(* Mutation: a word is left on the stack before iret.                         *)
Popped_OneShort(t, n) == SubSeq(stack[t], 1, Len(stack[t]) - n + 1)
Popped(t, n) == SubSeq(stack[t], 1, Len(stack[t]) - n)

(* Save the flags and what is being done: a gate, or cli_and_save.            *)
Save(t, to, flag) ==
    /\ stack' = [stack EXCEPT ![t] =
           Append(@, [place |-> place[t], flag |-> int_flag])]
    /\ place' = [place EXCEPT ![t] = to]
    /\ int_flag' = flag

(* Go back through n of them: restore_flags is one, iret with the local flags *)
(* of the C function forgotten is two.                                        *)
Restore(t, n) ==
    LET frame == stack[t][Len(stack[t]) - n + 1]
    IN  /\ stack' = [stack EXCEPT ![t] = Popped(t, n)]
        /\ place' = [place EXCEPT ![t] = frame.place]
        /\ int_flag' = frame.flag

(* Mutation: the flags for iret are pushed with the flag still cleared.       *)
UserFlag_Cli == FALSE

(* jmp_usr_exec: sti, and these flags are what iret loads.                    *)
UserFlag == TRUE

-----------------------------------------------------------------------------
(* The 8259s, and the devices behind them.                                    *)

(* Mutation: the master is not told.                                          *)
SendEoi_SlaveOnly(inService, line) == inService \ {line}

(* send_eoi                                                                   *)
SendEoi(inService, line) ==
    inService \ (IF line >= 8 THEN {line, Cascade} ELSE {line})

Level(line) == IF line >= 8 THEN Cascade ELSE line

(* The request the CPU is interrupted with.                                   *)
Delivered(line) ==
    LET requests == irr \ (imr \cup IF Cascade \in imr THEN 8 .. 15 ELSE {})
    IN  /\ line \in requests
        /\ \A other \in requests :
              \/ Level(line) < Level(other)
              \/ Level(line) = Level(other) /\ line <= other
        /\ \A busy \in isr : IF busy >= 8 /\ line >= 8 THEN line < busy
                             ELSE Level(line) < Level(busy)

(* A device is slow: it does not raise a second request while others have     *)
(* been waiting since before its first.                                       *)
Raise(line) ==
    /\ On
    /\ line \in Devices \ burst
    /\ irr' = irr \cup {line}
    /\ burst' = burst \cup {line}
    /\ line = Rtc => ~ reg_c
    /\ reg_c' = (reg_c \/ line = Rtc)
    /\ UNCHANGED <<imr, isr, booted, int_flag, running, place, stack, serving,
                   intr_occ, withdrawn, machine>>

Taken(line) ==
    /\ On
    /\ int_flag
    /\ Delivered(line)
    /\ irr' = irr \ {line}
    /\ burst' = IF irr' = {} THEN {} ELSE burst
    /\ Save(running, "irq", FALSE)
    /\ UNCHANGED <<imr, booted, running, intr_occ, machine>>

Deliver(line) ==
    /\ Taken(line)
    /\ serving' = line
    /\ isr' = isr \cup {line, Level(line)}
    /\ UNCHANGED <<reg_c, withdrawn>>

(* The request is gone when the CPU asks for it, as when the data port that   *)
(* keyboard and mouse share is read: the controller answers with its line 7.  *)
Withdrawn(line) ==
    /\ line \in {Keyboard, Mouse}
    /\ Taken(line)
    /\ serving' = IF line = Mouse THEN 15 ELSE 7
    /\ isr' = IF line = Mouse THEN isr \cup {Cascade} ELSE isr
    /\ withdrawn' = (withdrawn \/ line = Mouse)
    /\ UNCHANGED reg_c

-----------------------------------------------------------------------------
(* Processes.                                                                 *)

(* halt on terminal t: a program's execute goes on in its epilogue, with the  *)
(* flags undefined; a base shell starts again.                                *)
Halt(t) ==
    \/ \E k \in 1 .. Len(stack[t]) :
          /\ stack[t][k].place = "exec"
          /\ \A j \in k + 1 .. Len(stack[t]) : stack[t][j].place # "exec"
          /\ stack' = [stack EXCEPT ![t] = SubSeq(@, 1, k - 1)]
          /\ place' = [place EXCEPT ![t] = "epilogue"]
          /\ int_flag' \in BOOLEAN
    \/ /\ \A k \in 1 .. Len(stack[t]) : stack[t][k].place # "exec"
       /\ stack' = [stack EXCEPT ![t] = <<>>]
       /\ place' = [place EXCEPT ![t] = "user"]
       /\ int_flag' = UserFlag

(* The handler on the running stack stops at `tail`, terminal t goes on: with *)
(* a new shell, or from its own tail to the place that was interrupted.       *)
Switch(t, tail) ==
    LET left == [place EXCEPT ![running] = tail]
    IN  /\ running' = t
        /\ \/ /\ left[t] = "closed"
              /\ place' = [left EXCEPT ![t] = "user"]
              /\ int_flag' = UserFlag
              /\ UNCHANGED stack
           \/ /\ left[t] \in {"key_tail", "pit_tail"}
              /\ place' = [left EXCEPT ![t] = Top(t).place]
              /\ int_flag' = Top(t).flag
              /\ stack' = [stack EXCEPT ![t] = Popped(t, 1)]

-----------------------------------------------------------------------------
(* The handlers, each from the stub in irq.S to its iret.                     *)

Serve(line) ==
    /\ On
    /\ place[running] = "irq" /\ serving = line
    /\ serving' = NoLine
    /\ UNCHANGED <<imr, irr, burst, booted, withdrawn, machine>>

InBoot == Top(running).place = "boot"

(* pit_handle_interrupt: acknowledges first; Terms is 0 .. 2 in the code, the *)
(* next terminal is any other here.                                           *)
ServeTimer ==
    /\ Serve(Timer)
    /\ isr' = SendEoi(isr, Timer)
    /\ \/ /\ ~ sched \/ InBoot
          /\ Restore(running, 1)
          /\ UNCHANGED running
       \/ /\ sched /\ ~ InBoot
          /\ \E t \in Terms \ {running} : Switch(t, "pit_tail")
    /\ UNCHANGED <<reg_c, intr_occ>>

(* handle_keypress for most keys                                              *)
ServeKey ==
    /\ Serve(Keyboard)
    /\ isr' = SendEoi(isr, Keyboard)
    /\ Restore(running, 1)
    /\ UNCHANGED <<reg_c, running, intr_occ>>

(* Mutation: halt is called before the key is acknowledged.                   *)
AfterCtrlC_Late == isr
AfterCtrlC == SendEoi(isr, Keyboard)

(* Ctrl+C: acknowledged, then halt, which does not come back.                 *)
ServeCtrlC ==
    /\ Serve(Keyboard)
    /\ ~ InBoot
    /\ isr' = AfterCtrlC
    /\ Halt(running)
    /\ UNCHANGED <<reg_c, running, intr_occ>>

(* F1 to F3: acknowledged, then context_switch; whoever goes on in the tail   *)
(* of this handler acknowledges once more.                                    *)
ServeFunctionKey ==
    /\ Serve(Keyboard)
    /\ ~ InBoot
    /\ isr' = SendEoi(SendEoi(isr, Keyboard), Keyboard)
    /\ \/ /\ sched
          /\ Restore(running, 1)
          /\ UNCHANGED running
       \/ /\ ~ sched
          /\ \E t \in Terms : Switch(t, "key_tail")
    /\ UNCHANGED <<reg_c, intr_occ>>

(* Mutation: register C is not read.                                          *)
AfterRtc_NoSpecialEoi == reg_c
AfterRtc == FALSE

(* rtc_handle_interrupt, rtc_special_eoi included.                            *)
ServeRtc ==
    /\ Serve(Rtc)
    /\ intr_occ' = TRUE
    /\ isr' = SendEoi(isr, Rtc)
    /\ reg_c' = AfterRtc
    /\ Restore(running, 1)
    /\ UNCHANGED running

(* mouse_handle_interrupt                                                     *)
ServeMouse ==
    /\ Serve(Mouse)
    /\ isr' = SendEoi(isr, Mouse)
    /\ Restore(running, 1)
    /\ UNCHANGED <<reg_c, running, intr_occ>>

(* general_interrupt, for every other line: it acknowledges the timer.        *)
ServeGeneral ==
    /\ Serve(7) \/ Serve(15)
    /\ isr' = SendEoi(isr, Timer)
    /\ Restore(running, 1)
    /\ UNCHANGED <<reg_c, running, intr_occ>>

(* sound_balster_irq_handler: before it acknowledges, it reads descriptor 0   *)
(* of the running process: standard input.  terminal_read waits for a line    *)
(* that no key can enter now; or one has been entered before, and it stores   *)
(* 32769 NULs, over whatever is behind keyboard_buf.  Before the first shell  *)
(* there is no process, and the look-up faults.                               *)
ServeSound ==
    /\ On
    /\ place[running] = "irq" /\ serving = Sound
    /\ \/ /\ ~ InBoot
          /\ place' = [place EXCEPT ![running] = "sound_wait"]
          /\ UNCHANGED machine
       \/ machine' = "stopped" /\ UNCHANGED place
    /\ UNCHANGED <<pic, booted, int_flag, running, stack, serving, intr_occ,
                   withdrawn>>

-----------------------------------------------------------------------------
(* What runs between the handlers.                                            *)

(* enable_irq                                                                 *)
EnableIrq(irq_num) == imr' = imr \ {irq_num}

UnmaskOrder == <<Cascade, Keyboard, Mouse, Rtc, Timer>>

(* kernel_main: the lines are enabled, then interrupts, then the sound card,  *)
(* then the first shell is executed.                                          *)
BootStep ==
    /\ On
    /\ place[running] = "boot"
    /\ booted' = booted + 1
    /\ \/ /\ booted < 5
          /\ EnableIrq(UnmaskOrder[booted + 1])
          /\ UNCHANGED <<int_flag, place>>
       \/ booted = 5 /\ int_flag' = TRUE /\ UNCHANGED <<imr, place>>
       \/ booted = 6 /\ EnableIrq(Sound) /\ UNCHANGED <<int_flag, place>>
       \/ /\ booted = 7
          /\ place' = [place EXCEPT ![running] = "user"]
          /\ int_flag' = UserFlag
          /\ UNCHANGED imr
    /\ UNCHANGED <<irr, isr, burst, reg_c, running, stack, serving, intr_occ,
                   withdrawn, machine>>

Step(from) ==
    /\ On
    /\ place[running] = from
    /\ UNCHANGED <<pic, booted, running, serving, withdrawn, machine>>

(* int 0x80, whose gate clears the flag and whose stub sets it again.         *)
SysCall == Step("user") /\ Save(running, "sys", TRUE) /\ UNCHANGED intr_occ

(* iret, with the flags of the caller                                         *)
SysReturn == Step("sys") /\ Restore(running, 1) /\ UNCHANGED intr_occ

(* cli_and_save and restore_flags around most of a system call; some of the   *)
(* error paths return without the second.                                     *)
CliSave == Step("sys") /\ Save(running, "cli", FALSE) /\ UNCHANGED intr_occ
CliRestore == Step("cli") /\ Restore(running, 1) /\ UNCHANGED intr_occ
ErrorReturn == Step("cli") /\ Restore(running, 2) /\ UNCHANGED intr_occ

(* execute, which leaves for user code inside its cli_and_save.               *)
Execute ==
    /\ Step("cli")
    /\ Len(stack[running]) < 3 * MAX_PROGRAMS
    /\ stack' = [stack EXCEPT ![running] =
           Append(@, [place |-> "exec", flag |-> int_flag])]
    /\ place' = [place EXCEPT ![running] = "user"]
    /\ int_flag' = UserFlag
    /\ UNCHANGED intr_occ

(* the end of execute: to the iret of the system call that started it.        *)
ExecuteReturn == Step("epilogue") /\ Restore(running, 2) /\ UNCHANGED intr_occ

(* halt, the system call                                                      *)
SysHalt == Step("sys") /\ Halt(running) /\ UNCHANGED intr_occ

(* An exception of the program, whose handler calls halt: the iret of its     *)
(* stub is never reached.                                                     *)
Exception == Step("user") /\ Halt(running) /\ UNCHANGED intr_occ

(* The busy-wait of rtc_read.                                                 *)
RtcWait ==
    /\ Step("sys")
    /\ place' = [place EXCEPT ![running] = "rtc_wait"]
    /\ UNCHANGED <<int_flag, stack, intr_occ>>

RtcWake ==
    /\ Step("rtc_wait")
    /\ intr_occ
    /\ intr_occ' = FALSE
    /\ place' = [place EXCEPT ![running] = "sys"]
    /\ UNCHANGED <<int_flag, stack>>

Handler ==
    \/ ServeTimer \/ ServeKey \/ ServeCtrlC \/ ServeFunctionKey
    \/ ServeRtc \/ ServeMouse \/ ServeGeneral \/ ServeSound

Code ==
    \/ BootStep
    \/ SysCall \/ SysReturn \/ CliSave \/ CliRestore \/ ErrorReturn
    \/ Execute \/ ExecuteReturn \/ SysHalt \/ Exception
    \/ RtcWait \/ RtcWake

Interrupt == \E line \in Devices : Deliver(line) \/ Withdrawn(line)

Next ==
    \/ \E line \in Devices : Raise(line)
    \/ Interrupt
    \/ Handler
    \/ Code

Spec == Init /\ [][Next]_vars

(* The CPU takes a request when it may, gets on with a handler, with code     *)
(* that has interrupts off and with what it finds ready between interrupts;   *)
(* the clock ticks.                                                           *)
FairSpec ==
    /\ Spec
    /\ WF_vars(Raise(Rtc))
    /\ SF_vars(Interrupt)
    /\ WF_vars(Handler)
    /\ SF_vars(BootStep)
    /\ WF_vars(~ int_flag /\ Code)
    /\ SF_vars(RtcWake)

-----------------------------------------------------------------------------
(* Properties.                                                                *)

TypeOK ==
    /\ sched \in Builds
    /\ imr \subseteq Lines /\ irr \subseteq Devices /\ isr \subseteq Lines
    /\ burst \subseteq Devices /\ irr \subseteq burst
    /\ reg_c \in BOOLEAN
    /\ booted \in 0 .. 8
    /\ int_flag \in BOOLEAN
    /\ running \in Terms
    /\ place \in [Terms -> Places]
    /\ \A t \in Terms : \A k \in 1 .. Len(stack[t]) :
          stack[t][k] \in [place : Places, flag : BOOLEAN]
    /\ \A t \in Terms : Len(stack[t]) <= 3 * MAX_PROGRAMS + 2
    /\ serving \in Lines \cup {NoLine}
    /\ intr_occ \in BOOLEAN

(* Whoever has left a handler, by iret, by a switch or by halt, has            *)
(* acknowledged its interrupt, at both controllers: no line is in service     *)
(* while other code runs, but for the cascade after a withdrawn request.      *)
AllAcknowledged ==
    serving = NoLine => isr \subseteq (IF withdrawn THEN {Cascade} ELSE {})

(* User code and the busy-wait of rtc_read run with interrupts on,            *)
(* whatever path through errors, halt and switches led there.                 *)
Interruptible ==
    place[running] \in {"user", "rtc_wait"} => int_flag

Stuck == withdrawn \/ machine = "stopped" \/ place[running] = "sound_wait"

(* Every request is served, unless the machine waits inside the handler of    *)
(* the sound card or the cascade is still in service.                         *)
Served == \A line \in Devices : line \in irr ~> (line \notin irr \/ Stuck)

Waiting(t) ==
    \/ place[t] = "rtc_wait"
    \/ place[t] \in {"irq", "key_tail", "pit_tail"} /\ Top(t).place = "rtc_wait"

(* A program in rtc_read goes on while its terminal keeps the CPU.            *)
RtcReadReturns == \A t \in Terms :
    Waiting(t) ~> (~ Waiting(t) \/ running # t \/ Stuck)

(* irq.S: the stub of the sound card "exits the interrupt cleanly using iret".*)
ExitsCleanly == serving = Sound ~> (serving # Sound \/ machine = "stopped")
=============================================================================
