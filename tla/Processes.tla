----------------------------- MODULE Processes -----------------------------
(* The process core of gyaradOS: execute and halt (kernel/syscall.c), the     *)
(* terminal switch and the scheduler (drivers/pit.c), the F1-F3 and Ctrl+C    *)
(* branches of the keyboard handler (drivers/keyboard.c), the program page    *)
(* (mm/paging.c) and the start of the machine (boot/kernel.c).                *)
(*                                                                            *)
(* There is one CPU.  execute, halt, context_switch and the PIT handler run   *)
(* with interrupts masked from entry to their stack switch, so each of them   *)
(* is one action; what interleaves is system calls, exceptions, key presses   *)
(* and timer ticks.  A process is identified with its slot: the PCB, the      *)
(* kernel stack and the 4MB page of slot s belong to it.  A saved esp/ebp     *)
(* pair is modelled by the slot whose suspended context it points to, or by   *)
(* NULL when no resumable context is there (never saved, or the frame it      *)
(* pointed to has been popped).                                               *)
EXTENDS Naturals, Sequences, FiniteSets

CONSTANTS
    MAX_PROG_NUM,    \* syscall.h: the number of process slots
    SCHED_ENABLED,   \* lib.h: does the timer schedule, or only the F-keys?
    Programs,        \* names of runnable files; "shell" is one of them
    Statuses,        \* the values programs pass to halt
    NULL

Slots == 0 .. MAX_PROG_NUM - 1
Terms == 0 .. 2
SlotOrNull == Slots \cup {NULL}
KILLED == 254        \* (uint8_t) -2, the status of Ctrl+C and of exceptions

ASSUME MaxProgNumAssumption == MAX_PROG_NUM \in Nat \ {0}
ASSUME SchedEnabledAssumption == SCHED_ENABLED \in BOOLEAN
ASSUME ProgramsAssumption == "shell" \in Programs
ASSUME StatusesAssumption == Statuses \subseteq 0 .. 255
ASSUME NullAssumption == NULL \notin Slots

VARIABLES
    curr_proc,          \* [Terms -> SlotOrNull], the foreground process
    prev_proc,          \* [Terms -> SlotOrNull], the one below it
    curr_proc_id_mask,  \* the slots in use
    curr_active_term,   \* the terminal whose process runs
    active_terminal,    \* the terminal on the screen
    term_started,       \* second_term_start and third_term_start
    first_program_run,
    pcb,                \* [Slots -> prev, base, p_ksp, p_sched_ksp]
    g_status,
    pd,                 \* the slot whose 4MB page is mapped at 128MB
    esp0,               \* the slot whose kernel stack the TSS names
    image,              \* the program in each slot's page
    executed,           \* history: the program each slot's process was given
    running,            \* the process whose context executes, NULL in boot
    mode,               \* "user", or in the epilogue of execute
    machine,            \* boot stage, "up", or how the machine stopped
    owed,               \* history: the status the child of s halted with
    jobs,               \* history: each terminal's processes, root first
    early_key,          \* history: F2, F3 or Ctrl+C came before the first shell
    refused             \* history: a terminal was opened with no slot free

tableVars == <<curr_proc, prev_proc, curr_proc_id_mask, pcb, jobs>>
screenVars == <<active_terminal, term_started>>
memoryVars == <<image, executed>>
cpuVars == <<pd, esp0, memoryVars, running, mode, owed>>
vars == <<tableVars, screenVars, cpuVars, curr_active_term,
          first_program_run, g_status, machine, early_key, refused>>

Booting == {"unpaged", "paged", "mounted"}

(* Where execution stands in a live process: user code, or the epilogue of    *)
(* execute after its child halted.  restore_flags at the end of halt reads    *)
(* its `flags` from execute's frame (ebp was switched two statements before), *)
(* an undefined value: the epilogue runs with interrupts on ("exit") or off   *)
(* ("exit_cli").                                                              *)
Modes == {"user", "exit", "exit_cli"}

EmptyPcb == [prev |-> NULL, base |-> NULL, p_ksp |-> NULL, p_sched_ksp |-> NULL]

PcbType == [prev : SlotOrNull, base : SlotOrNull,
            p_ksp : SlotOrNull, p_sched_ksp : SlotOrNull]

-----------------------------------------------------------------------------
(* The page at 128MB.                                                         *)

(* init_paging                                                                *)
Unmapped == NULL

(* init_new_process and switch_pd: by slot number, and by what the PCB keeps  *)
(* of the directory entry.                                                    *)
InitNewProcess(process_num) == pd' = process_num
SwitchPd(base) == pd' = base

-----------------------------------------------------------------------------
Init ==
    /\ curr_proc = [t \in Terms |-> NULL]
    /\ prev_proc = [t \in Terms |-> NULL]
    /\ curr_proc_id_mask = {}
    /\ curr_active_term = 0
    /\ active_terminal = 0
    /\ term_started = {}
    /\ first_program_run = FALSE
    /\ pcb = [s \in Slots |-> EmptyPcb]
    /\ g_status = 0
    /\ pd = Unmapped /\ esp0 = NULL /\ running = NULL
    /\ image = [s \in Slots |-> NULL]
    /\ executed = [s \in Slots |-> NULL]
    /\ mode = [s \in Slots |-> "user"]
    /\ machine = "unpaged"
    /\ owed = [s \in Slots |-> NULL]
    /\ jobs = [t \in Terms |-> <<>>]
    /\ early_key = FALSE /\ refused = FALSE

(* Can an IRQ be delivered?                                                   *)
InterruptsOn ==
    \/ machine \in Booting
    \/ machine = "up" /\ mode[running] # "exit_cli"

-----------------------------------------------------------------------------
(* Saved contexts.                                                            *)

(* table, once context r runs again: what pointed to it is stale.             *)
Resumed(table, r) ==
    [s \in Slots |->
        [table[s] EXCEPT
            !.p_ksp = IF @ = r THEN NULL ELSE @,
            !.p_sched_ksp = IF @ = r THEN NULL ELSE @]]

(* Wrong saves, for the mutation runs: none, and into the other pair.         *)
Suspended_NotSaved(s) == pcb
Suspended_WrongField(s) == [pcb EXCEPT ![s].p_ksp = running]

(* pcb, after esp and ebp are stored in the PCB of process s: they are the    *)
(* registers of whoever runs.                                                 *)
Suspended(s) == [pcb EXCEPT ![s].p_sched_ksp = running]

(* Mutation: the stack is switched but the page is not.                       *)
Enter_KeepPage(s, r, table) ==
    /\ pd' = pd
    /\ esp0' = s
    /\ running' = r
    /\ machine' = IF r = s THEN machine ELSE "lost"
    /\ pcb' = Resumed(table, r)

(* The CPU continues in context r with the page and kernel stack of s.  The   *)
(* model follows the machine only into a process's own, intact context; any   *)
(* other is kept as the final state "lost".                                   *)
Enter(s, r, table) ==
    /\ SwitchPd(table[s].base)
    /\ esp0' = s
    /\ running' = r
    /\ machine' = IF r = s THEN machine ELSE "lost"
    /\ pcb' = Resumed(table, r)

(* History: a key came while kernel_main was not yet done.                    *)
EarlyKey(important) ==
    early_key' = (early_key \/ (machine \in Booting /\ important))

(* A NULL PCB is dereferenced with paging on: page 0 is not present, the page *)
(* fault handler calls halt, halt dereferences the same pointer.              *)
Panic ==
    /\ machine' = "panic"
    /\ UNCHANGED <<tableVars, screenVars, cpuVars, curr_active_term,
                   first_program_run, g_status, refused>>

-----------------------------------------------------------------------------
(* execute.                                                                   *)

(* Mutation: the scan stops one slot early.                                   *)
FreeSlot_OneShort(s) ==
    /\ s \notin curr_proc_id_mask
    /\ s # MAX_PROG_NUM - 1
    /\ \A r \in Slots : r < s => r \in curr_proc_id_mask

(* The slot the scan from PROGRAM_LOCATION_MASK downwards stops at.           *)
FreeSlot(s) ==
    /\ s \notin curr_proc_id_mask
    /\ \A r \in Slots : r < s => r \in curr_proc_id_mask

NoSlot == \A s \in Slots : ~ FreeSlot(s)

(* Mutation: the file is copied before the new page is mapped.                *)
Loaded_OldMapping(page, program) ==
    [image EXCEPT ![IF pd = Unmapped THEN page ELSE pd] = program]

(* image, after copy_file_to_addr wrote to 128MB with that page mapped there. *)
Loaded(page, program) == [image EXCEPT ![page] = program]

(* The successful path of execute on terminal t, with the context of caller   *)
(* left in p_ksp and p_sched_ksp; table is pcb with the caller's saved state. *)
(* restore_flags and the sti of jmp_usr_exec let an interrupt in before the   *)
(* iret: it comes on the caller's kernel stack, below the frame that was      *)
(* saved, with everything here already done, and is not told apart from one   *)
(* that comes at the first instruction of the program.                        *)
StartProcess(t, table, program, caller) == \E s \in Slots :
    /\ FreeSlot(s)
    /\ curr_proc_id_mask' = curr_proc_id_mask \cup {s}
    /\ InitNewProcess(s)
    /\ image' = Loaded(pd', program)
    /\ executed' = [executed EXCEPT ![s] = program]
    /\ pcb' = [table EXCEPT ![s] =
                  [prev |-> curr_proc[t], base |-> pd',
                   p_ksp |-> caller, p_sched_ksp |-> caller]]
    /\ esp0' = s
    /\ prev_proc' = [prev_proc EXCEPT ![t] = curr_proc[t]]
    /\ curr_proc' = [curr_proc EXCEPT ![t] = s]
    /\ first_program_run' = TRUE
    /\ running' = s
    /\ mode' = [mode EXCEPT ![s] = "user"]
    /\ owed' = [owed EXCEPT ![s] = NULL]
    /\ jobs' = [jobs EXCEPT ![t] = Append(@, s)]
    /\ machine' = "up"
    /\ UNCHANGED <<g_status, refused>>

(* kernel_main after sti: init_paging, then the drivers and fs_init, then the *)
(* first shell, on whatever terminal an early F-key has selected.             *)
BootStep ==
    \/ /\ machine = "unpaged" /\ machine' = "paged"
       /\ UNCHANGED <<tableVars, screenVars, cpuVars, curr_active_term,
                      first_program_run, g_status, early_key, refused>>
    \/ /\ machine = "paged" /\ machine' = "mounted"
       /\ UNCHANGED <<tableVars, screenVars, cpuVars, curr_active_term,
                      first_program_run, g_status, early_key, refused>>
    \/ /\ machine = "mounted"
       /\ StartProcess(curr_active_term, pcb, "shell", NULL)
       /\ UNCHANGED <<screenVars, curr_active_term, early_key>>

-----------------------------------------------------------------------------
(* halt.                                                                      *)

(* Mutations: the bit stays, the parent's bit goes; the new prev_proc is read *)
(* from the halted process.                                                   *)
FreedMask_Kept(p) == curr_proc_id_mask
FreedMask_Parent(p) == curr_proc_id_mask \ {pcb[p].prev}
PrevAfterHalt_OfChild(t) == pcb[curr_proc[t]].prev

(* curr_proc_id_mask, after XOR with the bit of p.                            *)
FreedMask(p) == (curr_proc_id_mask \cup {p}) \ (curr_proc_id_mask \cap {p})

(* prev_proc of terminal t after a halt: the parent of the parent.            *)
PrevAfterHalt(t) == pcb[prev_proc[t]].prev

(* The process below the halting one on terminal t gets the CPU back, in the  *)
(* epilogue of its execute.                                                   *)
PopProcess(t, status) ==
    LET p == curr_proc[t]
        q == prev_proc[t]
    IN  /\ g_status' = status
        /\ curr_proc_id_mask' = FreedMask(p)
        /\ Enter(q, pcb[p].p_ksp, Resumed(pcb, p))
        /\ curr_proc' = [curr_proc EXCEPT ![t] = q]
        /\ prev_proc' = [prev_proc EXCEPT ![t] = PrevAfterHalt(t)]
        /\ \E m \in {"exit", "exit_cli"} : mode' = [mode EXCEPT ![q] = m]
        /\ owed' = [owed EXCEPT ![q] = status]
        /\ jobs' = [jobs EXCEPT ![t] = SubSeq(@, 1, Len(@) - 1)]
        /\ UNCHANGED <<screenVars, memoryVars, curr_active_term,
                       first_program_run, refused>>

(* The first process of a terminal is not freed: its program, in the page     *)
(* mapped now, is entered again, and halt's caller is forgotten.              *)
RestartProcess(t) ==
    /\ mode' = [mode EXCEPT ![running] = "user"]
    /\ owed' = [owed EXCEPT ![running] = NULL]
    /\ UNCHANGED <<tableVars, screenVars, pd, esp0, memoryVars, running,
                   curr_active_term, first_program_run, g_status, machine,
                   refused>>

Halt(status) ==
    LET t == curr_active_term
    IN  \/ /\ machine = "up" /\ curr_proc[t] # NULL /\ prev_proc[t] # NULL
           /\ PopProcess(t, status)
        \/ /\ machine = "up" /\ curr_proc[t] # NULL /\ prev_proc[t] = NULL
           /\ RestartProcess(t)
        \/ /\ machine # "unpaged" /\ curr_proc[t] = NULL
           /\ Panic

-----------------------------------------------------------------------------
(* Switching terminals.                                                       *)

(* Mutation: the running terminal is not recorded.                            *)
SetRunningProc_Not(t) == UNCHANGED curr_active_term

(* set_running_proc                                                           *)
SetRunningProc(t) == curr_active_term' = t

(* Leave the process of terminal `from` and go on with that of `to`.          *)
SwitchProcess(from, to) ==
    LET s == curr_proc[to]
        saved == Suspended(curr_proc[from])
    IN  /\ SetRunningProc(to)
        /\ Enter(s, saved[s].p_sched_ksp, saved)
        /\ UNCHANGED <<curr_proc, prev_proc, curr_proc_id_mask, jobs, memoryVars,
                       mode, owed, first_program_run, g_status, refused>>

(* Start a shell on terminal `to` from the context of `from`.  When execute   *)
(* finds no slot it returns, and the frame saved for `from` is popped.        *)
StartShell(from, to) ==
    /\ SetRunningProc(to)
    /\ \/ StartProcess(to, Suspended(curr_proc[from]), "shell", running)
       \/ /\ NoSlot
          /\ refused' = TRUE
          /\ pcb' = [pcb EXCEPT ![curr_proc[from]].p_sched_ksp = NULL]
          /\ UNCHANGED <<curr_proc, prev_proc, curr_proc_id_mask, jobs,
                         cpuVars, first_program_run, g_status, machine>>

(* Mutation: terminal 0 is not exempt.                                        *)
NeedsStart_Any(to) == to \notin term_started

(* The conditions on second_term_start and third_term_start.                  *)
NeedsStart(to) == to # 0 /\ to \notin term_started

(* context_switch starting terminal `to`.  `from` may have no process: before *)
(* paging the store through NULL lands in unused memory and execute finds no  *)
(* file system; afterwards it faults.                                         *)
StartTerminal(from, to) ==
    /\ NeedsStart(to)
    /\ IF curr_proc[from] # NULL
       THEN /\ term_started' = term_started \cup {to}
            /\ StartShell(from, to)
       ELSE IF machine = "unpaged"
       THEN /\ term_started' = term_started \cup {to}
            /\ SetRunningProc(to)
            /\ UNCHANGED <<tableVars, cpuVars, first_program_run, g_status,
                           machine, refused>>
       ELSE /\ machine' = "panic"
            /\ term_started' = term_started \cup {to}
            /\ SetRunningProc(to)
            /\ UNCHANGED <<tableVars, cpuVars, first_program_run, g_status,
                           refused>>

(* context_switch to a terminal that has been started.                        *)
SwitchTerminal(from, to) ==
    /\ ~ NeedsStart(to)
    /\ UNCHANGED term_started
    /\ IF curr_proc[from] = NULL \/ curr_proc[to] = NULL
       THEN UNCHANGED <<tableVars, cpuVars, curr_active_term,
                        first_program_run, g_status, machine, refused>>
       ELSE SwitchProcess(from, to)

(* F1, F2, F3: the screen shows terminal n, and context_switch follows.       *)
FunctionKey(n) ==
    /\ InterruptsOn
    /\ active_terminal' = n
    /\ EarlyKey(n # 0)
    /\ \/ /\ SCHED_ENABLED
          /\ UNCHANGED <<tableVars, cpuVars, term_started, curr_active_term,
                         first_program_run, g_status, machine, refused>>
       \/ ~ SCHED_ENABLED /\ StartTerminal(active_terminal, n)
       \/ ~ SCHED_ENABLED /\ SwitchTerminal(active_terminal, n)

(* Mutation: terminal 2 goes back to 1.                                       *)
NextTerm_Back == IF curr_active_term = 2 THEN 1 ELSE curr_active_term + 1

(* get_next_running_term_proc                                                 *)
NextTerm == (curr_active_term + 1) % 3

(* The timer: the next terminal's process, or a first shell for it.           *)
PitInterrupt ==
    /\ InterruptsOn
    /\ SCHED_ENABLED
    /\ first_program_run
    /\ curr_proc[curr_active_term] # NULL
    /\ UNCHANGED early_key
    /\ \/ /\ curr_proc[NextTerm] = NULL
          /\ active_terminal' = NextTerm
          /\ UNCHANGED term_started
          /\ StartShell(curr_active_term, NextTerm)
       \/ /\ curr_proc[NextTerm] # NULL
          /\ UNCHANGED screenVars
          /\ SwitchProcess(curr_active_term, NextTerm)

-----------------------------------------------------------------------------
(* What the running context does.                                             *)

InUserCode == machine = "up" /\ mode[running] = "user"

(* execute with the name of a runnable file.  A name that is too long,        *)
(* missing or not runnable returns -1, and "clear" returns 0, before anything *)
(* is changed here; so does a full table.                                     *)
SysExecute(program) ==
    /\ InUserCode
    /\ StartProcess(curr_active_term, pcb, program, running)
    /\ UNCHANGED <<screenVars, curr_active_term, early_key>>

(* The epilogue of execute: EXECUTE_EXIT returns g_status to the caller.      *)
ExecuteReturn ==
    /\ machine = "up" /\ mode[running] # "user"
    /\ mode' = [mode EXCEPT ![running] = "user"]
    /\ owed' = [owed EXCEPT ![running] = NULL]
    /\ UNCHANGED <<tableVars, screenVars, pd, esp0, memoryVars, running,
                   curr_active_term, first_program_run, g_status, machine,
                   early_key, refused>>

SysHalt(status) == InUserCode /\ Halt(status) /\ UNCHANGED early_key

(* Any of the 19 exceptions, raised by user code or by execute on a blank     *)
(* command (strtok returns NULL).                                             *)
Exception == InUserCode /\ Halt(KILLED) /\ UNCHANGED early_key

CtrlC == InterruptsOn /\ Halt(KILLED) /\ EarlyKey(TRUE)

(* read, write, open, close and getargs reach for the PCB of the running      *)
(* terminal; with a PCB there, they change nothing here.                      *)
SysFile ==
    /\ InUserCode
    /\ curr_proc[curr_active_term] = NULL
    /\ Panic
    /\ UNCHANGED early_key

Next ==
    \/ BootStep
    \/ \E n \in Terms : FunctionKey(n)
    \/ CtrlC
    \/ PitInterrupt
    \/ \E program \in Programs : SysExecute(program)
    \/ \E status \in Statuses : SysHalt(status)
    \/ Exception
    \/ ExecuteReturn
    \/ SysFile

Spec == Init /\ [][Next]_vars

(* The CPU executes what is ready; the 8259 latches a timer tick that comes   *)
(* while interrupts are masked and delivers it when they are not.             *)
FairSpec ==
    /\ Spec
    /\ WF_vars(BootStep)
    /\ WF_vars(ExecuteReturn)
    /\ SF_vars(PitInterrupt)

-----------------------------------------------------------------------------
(* Properties.                                                                *)

(* Each variable has its type: NULL or a slot where the code has a pcb_t *    *)
(* (curr_proc, prev_proc, the saved stack pointers), a subset of the slots    *)
(* for the bit mask.                                                          *)
TypeOK ==
    /\ curr_proc \in [Terms -> SlotOrNull]
    /\ prev_proc \in [Terms -> SlotOrNull]
    /\ curr_proc_id_mask \in SUBSET Slots
    /\ curr_active_term \in Terms
    /\ active_terminal \in Terms
    /\ term_started \in SUBSET {1, 2}
    /\ first_program_run \in BOOLEAN
    /\ pcb \in [Slots -> PcbType]
    /\ g_status \in 0 .. 255
    /\ pd \in SlotOrNull
    /\ esp0 \in SlotOrNull
    /\ image \in [Slots -> Programs \cup {NULL}]
    /\ executed \in [Slots -> Programs \cup {NULL}]
    /\ running \in SlotOrNull
    /\ mode \in [Slots -> Modes]
    /\ machine \in Booting \cup {"up", "panic", "lost"}
    /\ owed \in [Slots -> 0 .. 255 \cup {NULL}]
    /\ jobs \in [Terms -> Seq(Slots)]
    /\ early_key \in BOOLEAN
    /\ refused \in BOOLEAN

(* The pointers execute and halt keep in three places (curr_proc, prev_proc   *)
(* and the prev of every PCB) describe the same stack of processes on each    *)
(* terminal: prev_proc is always the process halt must go back to.            *)
ParentLinks == \A t \in Terms :
    LET n == Len(jobs[t])
    IN  /\ curr_proc[t] = IF n = 0 THEN NULL ELSE jobs[t][n]
        /\ prev_proc[t] = IF n < 2 THEN NULL ELSE jobs[t][n - 1]
        /\ \A i \in 1 .. n :
              pcb[jobs[t][i]].prev = IF i = 1 THEN NULL ELSE jobs[t][i - 1]

(* A bit of the mask is set exactly while a process of some terminal has the  *)
(* slot, and no two processes have the same one: execute never hands out a    *)
(* live process's stack and page, and halt's XOR never sets a bit instead of  *)
(* clearing it.                                                               *)
SlotAccounting ==
    /\ \A s \in Slots : s \in curr_proc_id_mask <=>
          \E t \in Terms : \E i \in 1 .. Len(jobs[t]) : jobs[t][i] = s
    /\ \A t, u \in Terms : \A i \in 1 .. Len(jobs[t]), j \in 1 .. Len(jobs[u]) :
          jobs[t][i] = jobs[u][j] => t = u /\ i = j

(* Whatever runs, runs on its own page and enters the kernel on its own       *)
(* stack, through every execute, halt, restart and switch.                    *)
AddressSpaceMatches ==
    machine = "up" => running # NULL /\ pd = running /\ esp0 = running

(* The terminals the user has: the first, those started with F2 and F3, and   *)
(* the one whose process is supposed to run.                                  *)
OpenTerms == {0, curr_active_term} \cup term_started
TerminalsLive == \A t \in OpenTerms : curr_proc[t] # NULL

(* As long as every open terminal got its shell, the code that looks up       *)
(* curr_proc[curr_active_term] (halt and every file system call) finds the    *)
(* caller, and without the scheduler that terminal is the one on the screen.  *)
RunsForeground ==
    machine = "up" /\ TerminalsLive =>
        /\ running = curr_proc[curr_active_term]
        /\ ~ SCHED_ENABLED => active_terminal = curr_active_term

(* ... and every stack pointer that a switch or a halt will load is good: the *)
(* foreground process of each other terminal is suspended in its own switch,  *)
(* every process with a child is suspended in the execute that started it.    *)
ContextsIntact ==
    machine = "up" /\ TerminalsLive =>
        /\ \A t \in Terms \ {curr_active_term} : curr_proc[t] # NULL =>
              pcb[curr_proc[t]].p_sched_ksp = curr_proc[t]
        /\ \A s \in curr_proc_id_mask : pcb[s].prev # NULL =>
              pcb[s].p_ksp = pcb[s].prev

TableFull == curr_proc_id_mask = Slots

(* Running out of slots is the only thing that leaves an open terminal        *)
(* without a process, once the machine is up.                                 *)
LostOnlyWhenFull ==
    [][machine = "up" /\ TerminalsLive /\ ~ TerminalsLive' => TableFull]_vars

(* The machine faults, or enters a wrong stack, for one of two reasons only:  *)
(* a terminal was opened (F2, F3, the timer) while every slot was taken, or   *)
(* F2, F3 or Ctrl+C came before kernel_main had started the first shell.  An  *)
(* F2 before paging, for one, puts that shell on the second terminal and      *)
(* leaves the first without a process: the next F3 stores through NULL.       *)
StopsOnlyAfterLoss ==
    machine \in {"panic", "lost"} => refused \/ early_key

(* The page that a live process has in its PCB holds the program it was       *)
(* executed with, and the page mapped at 128MB that of the process that runs: *)
(* execute maps, copies and remembers the same page, no later execute gets a  *)
(* page that is in use, and every halt and switch maps the right one.         *)
MemoryIntact ==
    /\ \A s \in curr_proc_id_mask : image[pcb[s].base] = executed[s]
    /\ machine = "up" => image[pd] = executed[running]

(* With the scheduler compiled in, the process of every terminal gets the CPU *)
(* again and again, as long as no terminal is lost.                           *)
RoundRobin ==
    <>[](machine = "up" /\ TerminalsLive) =>
        \A t \in Terms : curr_proc[t] # NULL ~> curr_active_term = t

(* The programs on each terminal, read from the memory of its processes.      *)
ProgramStacks ==
    [t \in Terms |-> [i \in 1 .. Len(jobs[t]) |-> image[jobs[t][i]]]]

TerminalView == INSTANCE TerminalJobs WITH stacks <- ProgramStacks

(* To its user each terminal is a stack of programs on a shell (TerminalJobs):*)
(* slots, pages and pointers implement that, whatever the interleaving.  Each *)
(* stack rests on a shell, as halt presumes, which starts "shell" again.      *)
ImplementsTerminalJobs == TerminalView!Spec

(* halt's status is "the status of the program being called": execute returns *)
(* to a caller what that caller's own child halted with.                      *)
ReturnsChildStatus ==
    machine = "up" /\ mode[running] = "exit" => g_status = owed[running]
=============================================================================
