-------------------------- MODULE ProcessesProofs --------------------------
(* Theorems about Processes, for every number of slots, every set of programs *)
(* and both settings of SCHED_ENABLED.                                        *)
EXTENDS Processes, SequenceTheorems, TLAPS

-----------------------------------------------------------------------------
(* Type correctness.                                                          *)

(* The part of TypeOK that execute, halt and a switch have to establish; the  *)
(* rest is the two terminal numbers and term_started.                         *)
KernelTypeOK ==
    /\ curr_proc \in [Terms -> SlotOrNull]
    /\ prev_proc \in [Terms -> SlotOrNull]
    /\ curr_proc_id_mask \in SUBSET Slots
    /\ first_program_run \in BOOLEAN
    /\ pcb \in [Slots -> PcbType]
    /\ g_status \in 0 .. 255
    /\ pd \in SlotOrNull
    /\ esp0 \in SlotOrNull
    /\ image \in [Slots -> Programs \cup {NULL}]
    /\ executed \in [Slots -> Programs \cup {NULL}]
    /\ running \in SlotOrNull
    /\ mode \in [Slots -> Modes]
    /\ machine \in Booting \cup {"up", "panic", "lost"}
    /\ owed \in [Slots -> 0 .. 255 \cup {NULL}]
    /\ jobs \in [Terms -> Seq(Slots)]
    /\ refused \in BOOLEAN

LEMMA ResumedType ==
    ASSUME NEW table \in [Slots -> PcbType], NEW r
    PROVE  Resumed(table, r) \in [Slots -> PcbType]
  BY DEF Resumed, PcbType, SlotOrNull

LEMMA SuspendedType ==
    ASSUME TypeOK, NEW s \in Slots
    PROVE  Suspended(s) \in [Slots -> PcbType]
<1>1. pcb[s] \in PcbType /\ running \in SlotOrNull
  BY DEF TypeOK
<1>2. [pcb[s] EXCEPT !.p_sched_ksp = running] \in PcbType
  BY <1>1 DEF PcbType
<1>3. QED
  BY <1>2 DEF TypeOK, Suspended

LEMMA StartProcessType ==
    ASSUME TypeOK, NEW t \in Terms, NEW table \in [Slots -> PcbType],
           NEW program \in Programs, NEW caller \in SlotOrNull,
           StartProcess(t, table, program, caller)
    PROVE  KernelTypeOK'
<1>1. PICK s \in Slots :
        /\ curr_proc_id_mask' = curr_proc_id_mask \cup {s}
        /\ pd' = s
        /\ image' = [image EXCEPT ![s] = program]
        /\ executed' = [executed EXCEPT ![s] = program]
        /\ pcb' = [table EXCEPT ![s] =
                      [prev |-> curr_proc[t], base |-> s,
                       p_ksp |-> caller, p_sched_ksp |-> caller]]
        /\ esp0' = s
        /\ prev_proc' = [prev_proc EXCEPT ![t] = curr_proc[t]]
        /\ curr_proc' = [curr_proc EXCEPT ![t] = s]
        /\ first_program_run' = TRUE
        /\ running' = s
        /\ mode' = [mode EXCEPT ![s] = "user"]
        /\ owed' = [owed EXCEPT ![s] = NULL]
        /\ jobs' = [jobs EXCEPT ![t] = Append(@, s)]
        /\ machine' = "up"
        /\ g_status' = g_status /\ refused' = refused
  BY DEF StartProcess, InitNewProcess, Loaded
<1>2. pcb' \in [Slots -> PcbType]
  BY <1>1 DEF TypeOK, PcbType, SlotOrNull
<1>3. jobs' \in [Terms -> Seq(Slots)]
  <2>1. Append(jobs[t], s) \in Seq(Slots)
    BY AppendProperties DEF TypeOK
  <2>2. QED
    BY <1>1, <2>1 DEF TypeOK
<1>4. /\ curr_proc' \in [Terms -> SlotOrNull]
      /\ prev_proc' \in [Terms -> SlotOrNull]
      /\ curr_proc_id_mask' \in SUBSET Slots
      /\ pd' \in SlotOrNull /\ esp0' \in SlotOrNull /\ running' \in SlotOrNull
  BY <1>1 DEF TypeOK, SlotOrNull
<1>5. /\ image' \in [Slots -> Programs \cup {NULL}]
      /\ executed' \in [Slots -> Programs \cup {NULL}]
      /\ mode' \in [Slots -> Modes]
      /\ owed' \in [Slots -> 0 .. 255 \cup {NULL}]
  BY <1>1 DEF TypeOK, Modes
<1>6. QED
  BY <1>1, <1>2, <1>3, <1>4, <1>5 DEF TypeOK, KernelTypeOK

(* Entering a context changes the CPU's registers and stack pointers only.    *)
LEMMA EnterType ==
    ASSUME TypeOK, NEW s \in Slots, NEW r \in SlotOrNull,
           NEW table \in [Slots -> PcbType], Enter(s, r, table)
    PROVE  /\ pd' \in SlotOrNull /\ esp0' \in SlotOrNull
           /\ running' \in SlotOrNull
           /\ machine' \in Booting \cup {"up", "panic", "lost"}
           /\ pcb' \in [Slots -> PcbType]
<1>1. pcb' \in [Slots -> PcbType]
  BY ResumedType DEF Enter, SwitchPd
<1>2. table[s].base \in SlotOrNull
  BY DEF PcbType
<1>3. QED
  BY <1>1, <1>2 DEF Enter, SwitchPd, TypeOK, SlotOrNull

LEMMA DropLast ==
    ASSUME NEW S, NEW seq \in Seq(S)
    PROVE  /\ SubSeq(seq, 1, Len(seq) - 1) \in Seq(S)
           /\ Len(seq) > 0 => Len(SubSeq(seq, 1, Len(seq) - 1)) = Len(seq) - 1
           /\ \A i \in 1 .. Len(seq) - 1 :
                 SubSeq(seq, 1, Len(seq) - 1)[i] = seq[i]
<1> DEFINE front == SubSeq(seq, 1, Len(seq) - 1)
<1>1. Len(seq) \in Nat /\ Len(seq) - 1 \in Int
      /\ \A i \in 1 .. Len(seq) - 1 : seq[i] \in S
  BY LenProperties, ElementOfSeq
<1>2. /\ front \in Seq(S)
      /\ Len(front) = IF 1 <= Len(seq) - 1 THEN Len(seq) - 1 - 1 + 1 ELSE 0
      /\ \A i \in 1 .. Len(seq) - 1 - 1 + 1 : front[i] = seq[1 + i - 1]
  BY <1>1, SubSeqProperties
<1> HIDE DEF front
<1>3. ASSUME Len(seq) > 0 PROVE Len(front) = Len(seq) - 1
  <2> DEFINE n == Len(seq)
  <2>1. n \in Nat /\ n > 0 /\ Len(front) = IF 1 <= n - 1 THEN n - 1 - 1 + 1 ELSE 0
    BY <1>1, <1>2, <1>3
  <2> HIDE DEF n
  <2>2. Len(front) = n - 1
    BY <2>1
  <2>3. QED
    BY <2>2 DEF n
<1>4. ASSUME NEW i \in 1 .. Len(seq) - 1 PROVE front[i] = seq[i]
  <2>1. i \in 1 .. Len(seq) - 1 - 1 + 1 /\ 1 + i - 1 = i
    BY <1>1
  <2>2. QED
    BY <1>2, <2>1
<1>5. QED
  BY <1>2, <1>3, <1>4 DEF front

LEMMA PopProcessType ==
    ASSUME TypeOK, NEW t \in Terms, NEW status \in 0 .. 255,
           curr_proc[t] # NULL, prev_proc[t] # NULL, PopProcess(t, status)
    PROVE  KernelTypeOK'
<1> DEFINE p == curr_proc[t]
           q == prev_proc[t]
<1>1. p \in Slots /\ q \in Slots
  BY DEF TypeOK, SlotOrNull
<1>2. /\ pd' \in SlotOrNull /\ esp0' \in SlotOrNull
      /\ running' \in SlotOrNull
      /\ machine' \in Booting \cup {"up", "panic", "lost"}
      /\ pcb' \in [Slots -> PcbType]
  <2>1. Resumed(pcb, p) \in [Slots -> PcbType]
    BY ResumedType DEF TypeOK
  <2>2. pcb[p].p_ksp \in SlotOrNull
    BY <1>1 DEF TypeOK, PcbType
  <2>3. Enter(q, pcb[p].p_ksp, Resumed(pcb, p))
    BY DEF PopProcess
  <2>4. QED
    BY <1>1, <2>1, <2>2, <2>3, EnterType
<1>3. jobs' \in [Terms -> Seq(Slots)]
  BY DropLast DEF PopProcess, TypeOK
<1>4. /\ curr_proc' \in [Terms -> SlotOrNull]
      /\ curr_proc_id_mask' \in SUBSET Slots
  BY <1>1 DEF PopProcess, TypeOK, FreedMask, SlotOrNull
<1>5. prev_proc' \in [Terms -> SlotOrNull]
  <2>1. PrevAfterHalt(t) \in SlotOrNull
    BY <1>1 DEF PrevAfterHalt, TypeOK, PcbType
  <2>2. QED
    BY <2>1 DEF PopProcess, TypeOK
<1>6. /\ mode' \in [Slots -> Modes]
      /\ owed' \in [Slots -> 0 .. 255 \cup {NULL}]
  BY <1>1 DEF PopProcess, TypeOK, Modes
<1>7. /\ g_status' \in 0 .. 255 /\ image' = image /\ executed' = executed
      /\ first_program_run' = first_program_run /\ refused' = refused
  BY DEF PopProcess, memoryVars
<1>8. QED
  BY <1>2, <1>3, <1>4, <1>5, <1>6, <1>7 DEF KernelTypeOK, TypeOK

LEMMA HaltType ==
    ASSUME TypeOK, NEW status \in 0 .. 255, Halt(status),
           early_key' \in BOOLEAN
    PROVE  TypeOK'
<1> DEFINE t == curr_active_term
<1>0. t \in Terms
  BY DEF TypeOK
<1>1. CASE /\ curr_proc[t] # NULL /\ prev_proc[t] # NULL
           /\ PopProcess(t, status)
  <2>1. KernelTypeOK'
    BY <1>0, <1>1, PopProcessType
  <2>2. UNCHANGED <<screenVars, curr_active_term>>
    BY <1>1 DEF PopProcess
  <2>3. QED
    BY <2>1, <2>2 DEF KernelTypeOK, TypeOK, screenVars
<1>2. CASE RestartProcess(t)
  BY <1>2 DEF RestartProcess, TypeOK, tableVars, screenVars, Modes, memoryVars
<1>3. CASE Panic
  BY <1>3 DEF Panic, TypeOK, tableVars, screenVars, cpuVars, memoryVars
<1>4. QED
  BY <1>1, <1>2, <1>3 DEF Halt

LEMMA SwitchProcessType ==
    ASSUME TypeOK, NEW from \in Terms, NEW to \in Terms,
           curr_proc[from] # NULL, curr_proc[to] # NULL,
           SwitchProcess(from, to)
    PROVE  KernelTypeOK' /\ curr_active_term' \in Terms
<1> DEFINE s == curr_proc[to]
           saved == Suspended(curr_proc[from])
<1>1. s \in Slots /\ curr_proc[from] \in Slots
  BY DEF TypeOK, SlotOrNull
<1>2. saved \in [Slots -> PcbType]
  BY <1>1, SuspendedType
<1>3. saved[s].p_sched_ksp \in SlotOrNull
  BY <1>1, <1>2 DEF PcbType
<1>4. Enter(s, saved[s].p_sched_ksp, saved)
  BY DEF SwitchProcess
<1>5. /\ pd' \in SlotOrNull /\ esp0' \in SlotOrNull
      /\ running' \in SlotOrNull
      /\ machine' \in Booting \cup {"up", "panic", "lost"}
      /\ pcb' \in [Slots -> PcbType]
  BY <1>1, <1>2, <1>3, <1>4, EnterType
<1>6. QED
  BY <1>5 DEF SwitchProcess, SetRunningProc, KernelTypeOK, TypeOK, memoryVars

LEMMA StartShellType ==
    ASSUME TypeOK, NEW from \in Terms, NEW to \in Terms,
           curr_proc[from] # NULL, StartShell(from, to)
    PROVE  KernelTypeOK' /\ curr_active_term' \in Terms
<1>1. curr_proc[from] \in Slots
  BY DEF TypeOK, SlotOrNull
<1>2. curr_active_term' \in Terms
  BY DEF StartShell, SetRunningProc
<1>3. CASE StartProcess(to, Suspended(curr_proc[from]), "shell", running)
  BY <1>1, <1>2, <1>3, SuspendedType, StartProcessType, ProgramsAssumption
     DEF TypeOK
<1>4. CASE /\ pcb' = [pcb EXCEPT ![curr_proc[from]].p_sched_ksp = NULL]
           /\ refused' = TRUE
           /\ UNCHANGED <<curr_proc, prev_proc, curr_proc_id_mask, jobs,
                          cpuVars, first_program_run, g_status, machine>>
  <2>1. pcb[curr_proc[from]] \in PcbType
    BY <1>1 DEF TypeOK
  <2>2. [pcb[curr_proc[from]] EXCEPT !.p_sched_ksp = NULL] \in PcbType
    BY <2>1 DEF PcbType, SlotOrNull
  <2>3. pcb' \in [Slots -> PcbType]
    BY <1>4, <2>2 DEF TypeOK
  <2>4. QED
    BY <1>2, <1>4, <2>3 DEF KernelTypeOK, TypeOK, cpuVars, memoryVars
<1>5. QED
  BY <1>3, <1>4 DEF StartShell

LEMMA TypeInit == Init => TypeOK
<1>1. EmptyPcb \in PcbType
  BY DEF EmptyPcb, PcbType, SlotOrNull
<1>2. <<>> \in Seq(Slots)
  BY EmptySeq
<1> SUFFICES ASSUME Init PROVE TypeOK
  OBVIOUS
<1>3. /\ curr_proc \in [Terms -> SlotOrNull]
      /\ prev_proc \in [Terms -> SlotOrNull]
      /\ pcb \in [Slots -> PcbType]
      /\ image \in [Slots -> Programs \cup {NULL}]
      /\ executed \in [Slots -> Programs \cup {NULL}]
      /\ mode \in [Slots -> Modes]
      /\ owed \in [Slots -> 0 .. 255 \cup {NULL}]
      /\ jobs \in [Terms -> Seq(Slots)]
  BY <1>1, <1>2 DEF Init, SlotOrNull, Modes
<1>4. curr_proc_id_mask = {} /\ term_started = {}
  BY DEF Init
<1>5. /\ curr_active_term = 0 /\ active_terminal = 0 /\ g_status = 0
      /\ first_program_run = FALSE /\ machine = "unpaged"
      /\ pd = NULL /\ esp0 = NULL /\ running = NULL
  BY DEF Init, Unmapped
<1>6. /\ curr_active_term \in Terms /\ active_terminal \in Terms
      /\ g_status \in 0 .. 255
      /\ machine \in Booting \cup {"up", "panic", "lost"}
  BY <1>5 DEF Terms, Booting
<1>7. first_program_run \in BOOLEAN /\ early_key \in BOOLEAN /\ refused \in BOOLEAN
  BY <1>5, Zenon DEF Init
<1>8. pd \in SlotOrNull /\ esp0 \in SlotOrNull /\ running \in SlotOrNull
  BY <1>5 DEF SlotOrNull
<1>9. QED
  BY <1>3, <1>4, <1>6, <1>7, <1>8 DEF TypeOK

LEMMA TypeStep == TypeOK /\ [Next]_vars => TypeOK'
<1> SUFFICES ASSUME TypeOK, [Next]_vars PROVE TypeOK'
  OBVIOUS
<1>0. curr_active_term \in Terms /\ active_terminal \in Terms
      /\ early_key \in BOOLEAN /\ NULL \in SlotOrNull /\ running \in SlotOrNull
      /\ pcb \in [Slots -> PcbType]
  BY DEF TypeOK, SlotOrNull
<1>1. CASE BootStep
  <2>1. CASE /\ StartProcess(curr_active_term, pcb, "shell", NULL)
             /\ UNCHANGED <<screenVars, curr_active_term, early_key>>
    <3>1. KernelTypeOK'
      BY <1>0, <2>1, StartProcessType, ProgramsAssumption
    <3>2. QED
      BY <2>1, <3>1 DEF KernelTypeOK, TypeOK, screenVars
  <2>2. CASE /\ machine' \in Booting
             /\ UNCHANGED <<tableVars, screenVars, cpuVars, curr_active_term,
                            first_program_run, g_status, early_key, refused>>
    BY <2>2 DEF TypeOK, tableVars, screenVars, cpuVars, memoryVars
  <2>3. QED
    BY <1>1, <2>1, <2>2 DEF BootStep, Booting
<1>2. ASSUME NEW n \in Terms, FunctionKey(n) PROVE TypeOK'
  <2>0. early_key' \in BOOLEAN
    BY <1>2, Zenon DEF FunctionKey, EarlyKey
  <2>1. active_terminal' \in Terms
    BY <1>2 DEF FunctionKey
  <2>2. CASE UNCHANGED <<tableVars, cpuVars, term_started, curr_active_term,
                         first_program_run, g_status, machine, refused>>
    BY <2>0, <2>1, <2>2 DEF TypeOK, tableVars, cpuVars, memoryVars
  <2>3. CASE StartTerminal(active_terminal, n)
    <3>1. term_started' \in SUBSET {1, 2}
      <4>1. n \in {1, 2}
        BY <1>2, <2>3 DEF StartTerminal, NeedsStart, Terms
      <4>2. term_started' = term_started \cup {n}
        BY <2>3 DEF StartTerminal
      <4>3. QED
        BY <4>1, <4>2 DEF TypeOK
    <3>2. CASE /\ curr_proc[active_terminal] # NULL
               /\ StartShell(active_terminal, n)
      <4>1. KernelTypeOK' /\ curr_active_term' \in Terms
        BY <1>0, <1>2, <3>2, StartShellType
      <4>2. QED
        BY <2>0, <2>1, <3>1, <4>1 DEF KernelTypeOK, TypeOK
    <3>3. CASE /\ curr_active_term' = n
               /\ machine' \in {machine, "panic"}
               /\ UNCHANGED <<tableVars, cpuVars, first_program_run, g_status,
                              refused>>
      BY <1>2, <2>0, <2>1, <3>1, <3>3 DEF TypeOK, tableVars, cpuVars, memoryVars
    <3>4. QED
      BY <2>3, <3>2, <3>3 DEF StartTerminal, SetRunningProc
  <2>4. CASE SwitchTerminal(active_terminal, n)
    <3>1. CASE UNCHANGED <<tableVars, cpuVars, curr_active_term,
                           first_program_run, g_status, machine, refused>>
      BY <2>0, <2>1, <2>4, <3>1 DEF SwitchTerminal, TypeOK, tableVars, cpuVars, memoryVars
    <3>2. CASE /\ curr_proc[active_terminal] # NULL /\ curr_proc[n] # NULL
               /\ SwitchProcess(active_terminal, n)
      <4>1. KernelTypeOK' /\ curr_active_term' \in Terms
        BY <1>0, <1>2, <3>2, SwitchProcessType
      <4>2. QED
        BY <2>0, <2>1, <2>4, <4>1 DEF SwitchTerminal, KernelTypeOK, TypeOK
    <3>3. QED
      BY <2>4, <3>1, <3>2 DEF SwitchTerminal
  <2>5. QED
    BY <1>2, <2>2, <2>3, <2>4 DEF FunctionKey
<1>3. CASE CtrlC
  <2>1. early_key' \in BOOLEAN
    BY <1>3, Zenon DEF CtrlC, EarlyKey
  <2>2. QED
    BY <1>3, <2>1, HaltType DEF CtrlC, KILLED
<1>4. CASE PitInterrupt
  <2>1. NextTerm \in Terms /\ curr_proc[curr_active_term] # NULL
    BY <1>0, <1>4 DEF NextTerm, Terms, PitInterrupt
  <2>2. active_terminal' \in Terms /\ term_started' = term_started
    BY <1>0, <1>4, <2>1 DEF PitInterrupt, screenVars
  <2>3. KernelTypeOK' /\ curr_active_term' \in Terms
    <3>1. CASE StartShell(curr_active_term, NextTerm)
      BY <1>0, <2>1, <3>1, StartShellType
    <3>2. CASE /\ curr_proc[NextTerm] # NULL
               /\ SwitchProcess(curr_active_term, NextTerm)
      BY <1>0, <2>1, <3>2, SwitchProcessType
    <3>3. QED
      BY <1>4, <3>1, <3>2 DEF PitInterrupt
  <2>4. early_key' \in BOOLEAN
    BY <1>0, <1>4, Zenon DEF PitInterrupt
  <2>5. QED
    BY <2>2, <2>3, <2>4 DEF KernelTypeOK, TypeOK
<1>5. ASSUME NEW program \in Programs, SysExecute(program) PROVE TypeOK'
  <2>1. KernelTypeOK'
    BY <1>0, <1>5, StartProcessType DEF SysExecute
  <2>2. QED
    BY <1>5, <2>1 DEF SysExecute, KernelTypeOK, TypeOK, screenVars
<1>6. ASSUME NEW status \in Statuses, SysHalt(status) PROVE TypeOK'
  BY <1>0, <1>6, HaltType, StatusesAssumption DEF SysHalt
<1>7. CASE Exception
  BY <1>0, <1>7, HaltType DEF Exception, KILLED
<1>8. CASE ExecuteReturn
  BY <1>8 DEF ExecuteReturn, TypeOK, tableVars, screenVars, Modes, memoryVars
<1>9. CASE SysFile
  BY <1>9 DEF SysFile, Panic, TypeOK, tableVars, screenVars, cpuVars, memoryVars
<1>10. CASE UNCHANGED vars
  BY <1>10 DEF TypeOK, vars, tableVars, screenVars, cpuVars, memoryVars
<1>11. QED
  BY <1>1, <1>2, <1>3, <1>4, <1>5, <1>6, <1>7, <1>8, <1>9, <1>10 DEF Next

(* Every reachable state has its types: each process pointer is NULL or a PCB *)
(* of one of the MAX_PROG_NUM slots, through every call, key and interrupt.   *)
THEOREM TypeCorrect == Spec => []TypeOK
  BY TypeInit, TypeStep, PTL DEF Spec

-----------------------------------------------------------------------------
(* The process table: ParentLinks and SlotAccounting, by induction together.  *)
(* A push needs SlotAccounting to know that the slot it overwrites is in no   *)
(* terminal's stack; a pop needs ParentLinks to know that prev_proc is the    *)
(* process below.  Nothing else may touch a prev pointer.                     *)

TableInv == TypeOK /\ ParentLinks /\ SlotAccounting

SamePrev(table) == \A s \in Slots : table[s].prev = pcb[s].prev

LEMMA ResumedPrev ==
    ASSUME NEW table \in [Slots -> PcbType], NEW r, NEW s \in Slots
    PROVE  Resumed(table, r)[s].prev = table[s].prev
  BY DEF Resumed, PcbType

LEMMA SuspendedPrev ==
    ASSUME TypeOK, NEW s \in Slots
    PROVE  SamePrev(Suspended(s))
<1> SUFFICES ASSUME NEW x \in Slots PROVE Suspended(s)[x].prev = pcb[x].prev
  BY DEF SamePrev
<1>1. pcb[s] \in PcbType /\ pcb \in [Slots -> PcbType]
  BY DEF TypeOK
<1>2. [pcb[s] EXCEPT !.p_sched_ksp = running].prev = pcb[s].prev
  BY <1>1 DEF PcbType
<1>3. QED
  BY <1>1, <1>2 DEF Suspended

LEMMA KeepTable ==
    ASSUME TableInv, UNCHANGED <<curr_proc, prev_proc, curr_proc_id_mask, jobs>>,
           \A s \in Slots : pcb'[s].prev = pcb[s].prev
    PROVE  ParentLinks' /\ SlotAccounting'
<1>1. \A t \in Terms : \A i \in 1 .. Len(jobs[t]) : jobs[t][i] \in Slots
  BY ElementOfSeq DEF TableInv, TypeOK
<1>2. ParentLinks'
  BY <1>1 DEF TableInv, ParentLinks
<1>3. SlotAccounting'
  BY DEF TableInv, SlotAccounting
<1>4. QED
  BY <1>2, <1>3

LEMMA StartTable ==
    ASSUME TableInv, NEW t \in Terms, NEW table \in [Slots -> PcbType],
           SamePrev(table), NEW program, NEW caller,
           StartProcess(t, table, program, caller)
    PROVE  ParentLinks' /\ SlotAccounting'
<1> DEFINE n == Len(jobs[t])
<1>1. PICK s \in Slots :
        /\ s \notin curr_proc_id_mask
        /\ curr_proc_id_mask' = curr_proc_id_mask \cup {s}
        /\ pcb' = [table EXCEPT ![s] =
                      [prev |-> curr_proc[t], base |-> s,
                       p_ksp |-> caller, p_sched_ksp |-> caller]]
        /\ prev_proc' = [prev_proc EXCEPT ![t] = curr_proc[t]]
        /\ curr_proc' = [curr_proc EXCEPT ![t] = s]
        /\ jobs' = [jobs EXCEPT ![t] = Append(@, s)]
  BY DEF StartProcess, FreeSlot, InitNewProcess
<1>2. \A u \in Terms : /\ jobs[u] \in Seq(Slots) /\ Len(jobs[u]) \in Nat
                       /\ \A i \in 1 .. Len(jobs[u]) : jobs[u][i] \in Slots
  BY LenProperties, ElementOfSeq DEF TableInv, TypeOK
<1>3. /\ jobs'[t] = Append(jobs[t], s)
      /\ \A u \in Terms \ {t} : jobs'[u] = jobs[u]
  BY <1>1 DEF TableInv, TypeOK
<1>4. /\ Len(jobs'[t]) = n + 1
      /\ jobs'[t][n + 1] = s
      /\ \A i \in 1 .. n : jobs'[t][i] = jobs[t][i]
  BY <1>2, <1>3, AppendProperties
<1>5. \A u \in Terms : \A i \in 1 .. Len(jobs[u]) : jobs[u][i] # s
  BY <1>1 DEF TableInv, SlotAccounting
<1>6. /\ \A x \in Slots \ {s} : pcb'[x].prev = pcb[x].prev
      /\ pcb'[s].prev = curr_proc[t]
  BY <1>1 DEF SamePrev
<1>7. ParentLinks'
  <2> SUFFICES ASSUME NEW u \in Terms
               PROVE  LET m == Len(jobs'[u])
                      IN  /\ curr_proc'[u] = IF m = 0 THEN NULL ELSE jobs'[u][m]
                          /\ prev_proc'[u] = IF m < 2 THEN NULL ELSE jobs'[u][m - 1]
                          /\ \A i \in 1 .. m : pcb'[jobs'[u][i]].prev =
                                IF i = 1 THEN NULL ELSE jobs'[u][i - 1]
    BY DEF ParentLinks
  <2>1. CASE u # t
    <3>1. curr_proc'[u] = curr_proc[u] /\ prev_proc'[u] = prev_proc[u]
      BY <1>1, <2>1 DEF TableInv, TypeOK
    <3>2. \A i \in 1 .. Len(jobs[u]) :
             pcb'[jobs[u][i]].prev = pcb[jobs[u][i]].prev
      BY <1>2, <1>5, <1>6
    <3>3. /\ curr_proc[u] = IF Len(jobs[u]) = 0 THEN NULL
                             ELSE jobs[u][Len(jobs[u])]
          /\ prev_proc[u] = IF Len(jobs[u]) < 2 THEN NULL
                             ELSE jobs[u][Len(jobs[u]) - 1]
          /\ \A i \in 1 .. Len(jobs[u]) : pcb[jobs[u][i]].prev =
                IF i = 1 THEN NULL ELSE jobs[u][i - 1]
      BY DEF TableInv, ParentLinks
    <3>4. jobs'[u] = jobs[u]
      BY <1>3, <2>1
    <3>5. QED
      BY <3>1, <3>2, <3>3, <3>4
  <2>2. CASE u = t
    <3>1. curr_proc'[t] = s /\ prev_proc'[t] = curr_proc[t]
      BY <1>1 DEF TableInv, TypeOK
    <3>2. /\ curr_proc[t] = IF n = 0 THEN NULL ELSE jobs[t][n]
          /\ \A i \in 1 .. n :
                pcb[jobs[t][i]].prev = IF i = 1 THEN NULL ELSE jobs[t][i - 1]
      BY DEF TableInv, ParentLinks
    <3>3. n \in Nat
      BY <1>2
    <3>4. ASSUME NEW i \in 1 .. n + 1
          PROVE  pcb'[jobs'[t][i]].prev = IF i = 1 THEN NULL ELSE jobs'[t][i - 1]
      <4>1. CASE i = n + 1
        BY <1>4, <1>6, <3>2, <3>3, <4>1
      <4>2. CASE i \in 1 .. n
        <5>1. pcb'[jobs[t][i]].prev = pcb[jobs[t][i]].prev
          BY <1>2, <1>5, <1>6, <4>2
        <5>2. i # 1 => i - 1 \in 1 .. n
          BY <3>3, <4>2
        <5>3. QED
          BY <1>4, <3>2, <4>2, <5>1, <5>2
      <4>3. QED
        BY <3>3, <4>1, <4>2
    <3>5. n # 0 => n \in 1 .. n
      BY <3>3
    <3>6. prev_proc'[t] = IF n + 1 < 2 THEN NULL ELSE jobs'[t][n + 1 - 1]
      BY <1>4, <3>1, <3>2, <3>3, <3>5
    <3>7. QED
      BY <1>4, <2>2, <3>1, <3>3, <3>4, <3>6
  <2>3. QED
    BY <2>1, <2>2
<1>8. SlotAccounting'
  <2>1. ASSUME NEW u \in Terms, NEW i \in 1 .. Len(jobs'[u])
        PROVE  \/ i \in 1 .. Len(jobs[u]) /\ jobs'[u][i] = jobs[u][i]
               \/ u = t /\ i = n + 1 /\ jobs'[u][i] = s
    BY <1>2, <1>3, <1>4
  <2>2. ASSUME NEW u \in Terms, NEW i \in 1 .. Len(jobs[u])
        PROVE  i \in 1 .. Len(jobs'[u]) /\ jobs'[u][i] = jobs[u][i]
    BY <1>2, <1>3, <1>4
  <2>3. n + 1 \in 1 .. Len(jobs'[t])
    BY <1>2, <1>4
  <2>4. ASSUME NEW x \in Slots
        PROVE  x \in curr_proc_id_mask' <=>
                 \E u \in Terms : \E i \in 1 .. Len(jobs'[u]) : jobs'[u][i] = x
    BY <1>1, <1>4, <2>1, <2>2, <2>3 DEF TableInv, SlotAccounting
  <2>5. ASSUME NEW u \in Terms, NEW v \in Terms,
               NEW i \in 1 .. Len(jobs'[u]), NEW j \in 1 .. Len(jobs'[v]),
               jobs'[u][i] = jobs'[v][j]
        PROVE  u = v /\ i = j
    BY <1>5, <2>1, <2>5 DEF TableInv, SlotAccounting
  <2>6. QED
    BY <2>4, <2>5 DEF SlotAccounting
<1>9. QED
  BY <1>7, <1>8

LEMMA PopTable ==
    ASSUME TableInv, NEW t \in Terms, NEW status,
           curr_proc[t] # NULL, prev_proc[t] # NULL, PopProcess(t, status)
    PROVE  ParentLinks' /\ SlotAccounting'
<1> DEFINE p == curr_proc[t]
           q == prev_proc[t]
           n == Len(jobs[t])
<1>1. \A u \in Terms : /\ jobs[u] \in Seq(Slots) /\ Len(jobs[u]) \in Nat
                       /\ \A i \in 1 .. Len(jobs[u]) : jobs[u][i] \in Slots
  BY LenProperties, ElementOfSeq DEF TableInv, TypeOK
<1>2. /\ n \in Nat /\ n >= 2 /\ p = jobs[t][n] /\ q = jobs[t][n - 1]
      /\ \A i \in 1 .. n :
            pcb[jobs[t][i]].prev = IF i = 1 THEN NULL ELSE jobs[t][i - 1]
  BY <1>1 DEF TableInv, ParentLinks
<1>3. p \in Slots /\ q \in Slots
  BY DEF TableInv, TypeOK, SlotOrNull
<1>4. /\ curr_proc' = [curr_proc EXCEPT ![t] = q]
      /\ prev_proc' = [prev_proc EXCEPT ![t] = pcb[q].prev]
      /\ curr_proc_id_mask' = FreedMask(p)
      /\ jobs' = [jobs EXCEPT ![t] = SubSeq(@, 1, Len(@) - 1)]
      /\ pcb' = Resumed(Resumed(pcb, p), pcb[p].p_ksp)
  BY DEF PopProcess, PrevAfterHalt, Enter
<1>5. /\ jobs'[t] = SubSeq(jobs[t], 1, n - 1)
      /\ \A u \in Terms \ {t} : jobs'[u] = jobs[u]
  BY <1>4 DEF TableInv, TypeOK
<1>6. /\ Len(jobs'[t]) = n - 1
      /\ \A i \in 1 .. n - 1 : jobs'[t][i] = jobs[t][i]
  BY <1>1, <1>2, <1>5, DropLast
<1>7. \A x \in Slots : pcb'[x].prev = pcb[x].prev
  <2>1. pcb \in [Slots -> PcbType] /\ Resumed(pcb, p) \in [Slots -> PcbType]
    BY ResumedType DEF TableInv, TypeOK
  <2>2. QED
    BY <1>4, <2>1, ResumedPrev
<1>8. Len(jobs[t]) = n
  OBVIOUS
<1> HIDE DEF n
<1>9. n - 1 \in 1 .. n - 1 /\ n - 1 \in 1 .. n
  BY <1>2
<1>10. ParentLinks'
  <2> SUFFICES ASSUME NEW u \in Terms
               PROVE  LET m == Len(jobs'[u])
                      IN  /\ curr_proc'[u] = IF m = 0 THEN NULL ELSE jobs'[u][m]
                          /\ prev_proc'[u] = IF m < 2 THEN NULL ELSE jobs'[u][m - 1]
                          /\ \A i \in 1 .. m : pcb'[jobs'[u][i]].prev =
                                IF i = 1 THEN NULL ELSE jobs'[u][i - 1]
    BY DEF ParentLinks
  <2>1. CASE u # t
    <3>1. curr_proc'[u] = curr_proc[u] /\ prev_proc'[u] = prev_proc[u]
      BY <1>4, <2>1 DEF TableInv, TypeOK
    <3>2. \A i \in 1 .. Len(jobs[u]) :
             pcb'[jobs[u][i]].prev = pcb[jobs[u][i]].prev
      BY <1>1, <1>7
    <3>3. /\ curr_proc[u] = IF Len(jobs[u]) = 0 THEN NULL
                             ELSE jobs[u][Len(jobs[u])]
          /\ prev_proc[u] = IF Len(jobs[u]) < 2 THEN NULL
                             ELSE jobs[u][Len(jobs[u]) - 1]
          /\ \A i \in 1 .. Len(jobs[u]) : pcb[jobs[u][i]].prev =
                IF i = 1 THEN NULL ELSE jobs[u][i - 1]
      BY DEF TableInv, ParentLinks
    <3>4. jobs'[u] = jobs[u]
      BY <1>5, <2>1
    <3>5. QED
      BY <3>1, <3>2, <3>3, <3>4
  <2>2. CASE u = t
    <3>1. curr_proc'[t] = q /\ prev_proc'[t] = pcb[q].prev
      BY <1>4 DEF TableInv, TypeOK
    <3>2. curr_proc'[t] = jobs'[t][n - 1]
      BY <1>2, <1>6, <1>9, <3>1
    <3>3. prev_proc'[t] = IF n - 1 < 2 THEN NULL ELSE jobs'[t][n - 1 - 1]
      <4>1. pcb[q].prev = IF n - 1 = 1 THEN NULL ELSE jobs[t][n - 1 - 1]
        BY <1>2, <1>9
      <4>2. n - 1 # 1 => n - 1 - 1 \in 1 .. n - 1
        BY <1>2
      <4>3. QED
        BY <1>2, <1>6, <3>1, <4>1, <4>2
    <3>4. ASSUME NEW i \in 1 .. n - 1
          PROVE  pcb'[jobs'[t][i]].prev = IF i = 1 THEN NULL ELSE jobs'[t][i - 1]
      <4>1. i \in 1 .. n /\ (i # 1 => i - 1 \in 1 .. n - 1)
        BY <1>2
      <4>2. jobs'[t][i] = jobs[t][i] /\ (i # 1 => jobs'[t][i - 1] = jobs[t][i - 1])
        BY <1>6, <4>1
      <4>3. jobs[t][i] \in Slots
        BY <1>1, <1>8, <4>1
      <4>4. pcb'[jobs[t][i]].prev = pcb[jobs[t][i]].prev
        BY <1>7, <4>3
      <4>5. QED
        BY <1>2, <4>1, <4>2, <4>4
    <3>5. QED
      BY <1>2, <1>6, <2>2, <3>2, <3>3, <3>4
  <2>3. QED
    BY <2>1, <2>2
<1>11. SlotAccounting'
  <2>1. p \in curr_proc_id_mask
    BY <1>2, <1>3, <1>8 DEF TableInv, SlotAccounting
  <2>2. curr_proc_id_mask' = curr_proc_id_mask \ {p}
    BY <1>4, <2>1 DEF FreedMask
  <2>3. ASSUME NEW u \in Terms, NEW i \in 1 .. Len(jobs'[u])
        PROVE  /\ i \in 1 .. Len(jobs[u]) /\ jobs'[u][i] = jobs[u][i]
               /\ ~ (u = t /\ i = n)
    <3>1. CASE u = t
      BY <1>2, <1>6, <1>8, <3>1
    <3>2. CASE u # t
      BY <1>5, <3>2
    <3>3. QED
      BY <3>1, <3>2
  <2>4. ASSUME NEW u \in Terms, NEW i \in 1 .. Len(jobs[u]), ~ (u = t /\ i = n)
        PROVE  i \in 1 .. Len(jobs'[u]) /\ jobs'[u][i] = jobs[u][i]
    <3>1. CASE u = t
      BY <1>2, <1>6, <1>8, <2>4, <3>1
    <3>2. CASE u # t
      BY <1>5, <3>2
    <3>3. QED
      BY <3>1, <3>2
  <2>5. ASSUME NEW u \in Terms, NEW i \in 1 .. Len(jobs[u])
        PROVE  jobs[u][i] = p <=> u = t /\ i = n
    BY <1>2, <1>8 DEF TableInv, SlotAccounting
  <2>6. ASSUME NEW x \in Slots
        PROVE  x \in curr_proc_id_mask' <=>
                 \E u \in Terms : \E i \in 1 .. Len(jobs'[u]) : jobs'[u][i] = x
    <3>1. x \in curr_proc_id_mask' =>
            \E u \in Terms : \E i \in 1 .. Len(jobs'[u]) : jobs'[u][i] = x
      <4> SUFFICES ASSUME x \in curr_proc_id_mask, x # p
                   PROVE  \E u \in Terms : \E i \in 1 .. Len(jobs'[u]) :
                             jobs'[u][i] = x
        BY <2>2
      <4>1. PICK u \in Terms : \E i \in 1 .. Len(jobs[u]) : jobs[u][i] = x
        BY DEF TableInv, SlotAccounting
      <4>2. PICK i \in 1 .. Len(jobs[u]) : jobs[u][i] = x
        BY <4>1
      <4>3. ~ (u = t /\ i = n)
        BY <1>2, <4>2
      <4>4. QED
        BY <2>4, <4>2, <4>3
    <3>2. ASSUME NEW u \in Terms, NEW i \in 1 .. Len(jobs'[u]), jobs'[u][i] = x
          PROVE  x \in curr_proc_id_mask'
      <4>1. /\ i \in 1 .. Len(jobs[u]) /\ jobs[u][i] = x
            /\ ~ (u = t /\ i = n)
        BY <2>3, <3>2
      <4>2. x # p
        BY <2>5, <4>1
      <4>3. x \in curr_proc_id_mask
        BY <4>1 DEF TableInv, SlotAccounting
      <4>4. QED
        BY <2>2, <4>2, <4>3
    <3>3. QED
      BY <3>1, <3>2
  <2>7. ASSUME NEW u \in Terms, NEW v \in Terms,
               NEW i \in 1 .. Len(jobs'[u]), NEW j \in 1 .. Len(jobs'[v]),
               jobs'[u][i] = jobs'[v][j]
        PROVE  u = v /\ i = j
    BY <2>3, <2>7 DEF TableInv, SlotAccounting
  <2>8. QED
    BY <2>6, <2>7 DEF SlotAccounting
<1>12. QED
  BY <1>10, <1>11

LEMMA SwitchTable ==
    ASSUME TableInv, NEW from \in Terms, NEW to \in Terms,
           curr_proc[from] # NULL, curr_proc[to] # NULL,
           SwitchProcess(from, to)
    PROVE  ParentLinks' /\ SlotAccounting'
<1> DEFINE saved == Suspended(curr_proc[from])
           r == saved[curr_proc[to]].p_sched_ksp
<1>1. curr_proc[from] \in Slots
  BY DEF TableInv, TypeOK, SlotOrNull
<1>2. saved \in [Slots -> PcbType] /\ SamePrev(saved)
  BY <1>1, SuspendedType, SuspendedPrev DEF TableInv
<1>3. pcb' = Resumed(saved, r)
  BY DEF SwitchProcess, Enter
<1>4. \A s \in Slots : pcb'[s].prev = pcb[s].prev
  <2> HIDE DEF saved, r
  <2>1. QED
    BY <1>2, <1>3, ResumedPrev DEF SamePrev
<1>5. UNCHANGED <<curr_proc, prev_proc, curr_proc_id_mask, jobs>>
  BY DEF SwitchProcess
<1>6. QED
  BY <1>4, <1>5, KeepTable

LEMMA StartShellTable ==
    ASSUME TableInv, NEW from \in Terms, NEW to \in Terms,
           curr_proc[from] # NULL, StartShell(from, to)
    PROVE  ParentLinks' /\ SlotAccounting'
<1>1. curr_proc[from] \in Slots
  BY DEF TableInv, TypeOK, SlotOrNull
<1>2. CASE StartProcess(to, Suspended(curr_proc[from]), "shell", running)
  BY <1>1, <1>2, SuspendedType, SuspendedPrev, StartTable DEF TableInv
<1>3. CASE /\ pcb' = [pcb EXCEPT ![curr_proc[from]].p_sched_ksp = NULL]
           /\ UNCHANGED <<curr_proc, prev_proc, curr_proc_id_mask, jobs>>
  <2>1. pcb[curr_proc[from]] \in PcbType /\ pcb \in [Slots -> PcbType]
    BY <1>1 DEF TableInv, TypeOK
  <2>2. [pcb[curr_proc[from]] EXCEPT !.p_sched_ksp = NULL].prev
          = pcb[curr_proc[from]].prev
    BY <2>1 DEF PcbType
  <2>3. \A s \in Slots : pcb'[s].prev = pcb[s].prev
    BY <1>3, <2>1, <2>2
  <2>4. QED
    BY <1>3, <2>3, KeepTable
<1>4. QED
  BY <1>2, <1>3 DEF StartShell

LEMMA HaltTable ==
    ASSUME TableInv, NEW status, Halt(status)
    PROVE  ParentLinks' /\ SlotAccounting'
<1> DEFINE t == curr_active_term
<1>1. CASE /\ curr_proc[t] # NULL /\ prev_proc[t] # NULL
           /\ PopProcess(t, status)
  BY <1>1, PopTable DEF TableInv, TypeOK
<1>2. CASE UNCHANGED tableVars
  BY <1>2, KeepTable DEF tableVars
<1>3. QED
  BY <1>1, <1>2 DEF Halt, RestartProcess, Panic

LEMMA TableInit == Init => ParentLinks /\ SlotAccounting
<1> SUFFICES ASSUME Init PROVE ParentLinks /\ SlotAccounting
  OBVIOUS
<1>1. \A t \in Terms : /\ jobs[t] = <<>> /\ Len(jobs[t]) = 0
                       /\ curr_proc[t] = NULL /\ prev_proc[t] = NULL
  BY DEF Init
<1>2. curr_proc_id_mask = {}
  BY DEF Init
<1>3. QED
  BY <1>1, <1>2 DEF ParentLinks, SlotAccounting

LEMMA TableStep == TableInv /\ [Next]_vars => ParentLinks' /\ SlotAccounting'
<1> SUFFICES ASSUME TableInv, [Next]_vars PROVE ParentLinks' /\ SlotAccounting'
  OBVIOUS
<1>0. /\ curr_active_term \in Terms /\ active_terminal \in Terms
      /\ pcb \in [Slots -> PcbType] /\ SamePrev(pcb)
  BY DEF TableInv, TypeOK, SamePrev
<1>1. CASE UNCHANGED tableVars
  BY <1>1, KeepTable DEF tableVars
<1>2. CASE BootStep
  <2>1. CASE StartProcess(curr_active_term, pcb, "shell", NULL)
    BY <1>0, <2>1, StartTable
  <2>2. QED
    BY <1>1, <1>2, <2>1 DEF BootStep
<1>3. ASSUME NEW n \in Terms, FunctionKey(n)
      PROVE  ParentLinks' /\ SlotAccounting'
  <2>1. CASE /\ curr_proc[active_terminal] # NULL
             /\ StartShell(active_terminal, n)
    BY <1>0, <2>1, StartShellTable
  <2>2. CASE /\ curr_proc[active_terminal] # NULL /\ curr_proc[n] # NULL
             /\ SwitchProcess(active_terminal, n)
    BY <1>0, <2>2, SwitchTable
  <2>3. QED
    BY <1>1, <1>3, <2>1, <2>2
       DEF FunctionKey, StartTerminal, SwitchTerminal
<1>4. CASE CtrlC
  BY <1>4, HaltTable DEF CtrlC
<1>5. CASE PitInterrupt
  <2>1. NextTerm \in Terms
    BY <1>0 DEF NextTerm, Terms
  <2>2. CASE StartShell(curr_active_term, NextTerm)
    BY <1>0, <1>5, <2>1, <2>2, StartShellTable DEF PitInterrupt
  <2>3. CASE /\ curr_proc[NextTerm] # NULL
             /\ SwitchProcess(curr_active_term, NextTerm)
    BY <1>0, <1>5, <2>1, <2>3, SwitchTable DEF PitInterrupt
  <2>4. QED
    BY <1>5, <2>2, <2>3 DEF PitInterrupt
<1>6. ASSUME NEW program \in Programs, SysExecute(program)
      PROVE  ParentLinks' /\ SlotAccounting'
  BY <1>0, <1>6, StartTable DEF SysExecute
<1>7. ASSUME NEW status \in Statuses, SysHalt(status)
      PROVE  ParentLinks' /\ SlotAccounting'
  BY <1>7, HaltTable DEF SysHalt
<1>8. CASE Exception
  BY <1>8, HaltTable DEF Exception
<1>9. QED
  BY <1>1, <1>2, <1>3, <1>4, <1>5, <1>6, <1>7, <1>8
     DEF Next, ExecuteReturn, SysFile, Panic, vars

LEMMA TableInvariant == Spec => []TableInv
<1>1. Init => TableInv
  BY TypeInit, TableInit DEF TableInv
<1>2. TableInv /\ [Next]_vars => TableInv'
  BY TypeStep, TableStep DEF TableInv
<1>3. QED
  BY <1>1, <1>2, PTL DEF Spec

(* The parent pointers in curr_proc, prev_proc and the PCBs always describe   *)
(* one stack per terminal, so halt always returns to the process below.       *)
THEOREM ParentLinksCorrect == Spec => []ParentLinks
<1>1. TableInv => ParentLinks
  BY DEF TableInv
<1>2. QED
  BY <1>1, TableInvariant, PTL

(* No process slot is leaked, shared, or freed while in use.                  *)
THEOREM SlotAccountingCorrect == Spec => []SlotAccounting
<1>1. TableInv => SlotAccounting
  BY DEF TableInv
<1>2. QED
  BY <1>1, TableInvariant, PTL

-----------------------------------------------------------------------------
(* The address space of what runs.                                            *)

(* What makes AddressSpaceMatches inductive: the directory entry a PCB keeps, *)
(* which halt and the switches load, is that of the process's own page.       *)
OwnPages == \A s \in curr_proc_id_mask : pcb[s].base = s
RunningUsed == machine = "up" => running \in curr_proc_id_mask
SpaceInv == AddressSpaceMatches /\ OwnPages /\ RunningUsed

SameBase(table) == \A s \in Slots : table[s].base = pcb[s].base

LEMMA ResumedBase ==
    ASSUME NEW table \in [Slots -> PcbType], SameBase(table), NEW r
    PROVE  SameBase(Resumed(table, r))
<1> SUFFICES ASSUME NEW s \in Slots
             PROVE  Resumed(table, r)[s].base = table[s].base
  BY DEF SameBase
<1>1. QED
  BY DEF Resumed, PcbType

LEMMA SuspendedBase ==
    ASSUME TypeOK, NEW s \in Slots
    PROVE  SameBase(Suspended(s))
<1> SUFFICES ASSUME NEW x \in Slots PROVE Suspended(s)[x].base = pcb[x].base
  BY DEF SameBase
<1>1. pcb[s] \in PcbType /\ pcb \in [Slots -> PcbType]
  BY DEF TypeOK
<1>2. [pcb[s] EXCEPT !.p_sched_ksp = running].base = pcb[s].base
  BY <1>1 DEF PcbType
<1>3. QED
  BY <1>1, <1>2 DEF Suspended

LEMMA StackedAreUsed ==
    ASSUME TableInv, NEW t \in Terms
    PROVE  /\ curr_proc[t] # NULL => curr_proc[t] \in curr_proc_id_mask
           /\ prev_proc[t] # NULL => prev_proc[t] \in curr_proc_id_mask
<1> DEFINE n == Len(jobs[t])
<1>1. n \in Nat /\ \A i \in 1 .. n : jobs[t][i] \in Slots
  BY LenProperties, ElementOfSeq DEF TableInv, TypeOK
<1>2. \A i \in 1 .. n : jobs[t][i] \in curr_proc_id_mask
  BY <1>1 DEF TableInv, SlotAccounting
<1>3. /\ curr_proc[t] # NULL => n # 0 /\ curr_proc[t] = jobs[t][n]
      /\ prev_proc[t] # NULL => ~ (n < 2) /\ prev_proc[t] = jobs[t][n - 1]
  BY DEF TableInv, ParentLinks
<1>4. curr_proc[t] # NULL => n \in 1 .. n
  BY <1>1, <1>3
<1>5. prev_proc[t] # NULL => n - 1 \in 1 .. n
  BY <1>1, <1>3
<1>6. QED
  BY <1>2, <1>3, <1>4, <1>5

LEMMA ParentIsOther ==
    ASSUME TableInv, NEW t \in Terms, curr_proc[t] # NULL, prev_proc[t] # NULL
    PROVE  prev_proc[t] # curr_proc[t]
<1> DEFINE n == Len(jobs[t])
<1>1. n \in Nat
  BY LenProperties DEF TableInv, TypeOK
<1>2. ~ (n < 2) /\ curr_proc[t] = jobs[t][n] /\ prev_proc[t] = jobs[t][n - 1]
  BY DEF TableInv, ParentLinks
<1>3. n \in 1 .. n /\ n - 1 \in 1 .. n /\ n # n - 1
  BY <1>1, <1>2
<1>4. QED
  BY <1>2, <1>3 DEF TableInv, SlotAccounting

LEMMA KeepSpace ==
    ASSUME TypeOK, SpaceInv, UNCHANGED <<pd, esp0, running, curr_proc_id_mask>>,
           machine' = "up" => machine = "up", SameBase(pcb')
    PROVE  SpaceInv'
<1>1. AddressSpaceMatches'
  BY DEF SpaceInv, AddressSpaceMatches
<1>2. OwnPages'
  BY DEF SpaceInv, OwnPages, SameBase, TypeOK
<1>3. RunningUsed'
  BY DEF SpaceInv, RunningUsed
<1>4. QED
  BY <1>1, <1>2, <1>3 DEF SpaceInv

LEMMA EnterSpace ==
    ASSUME TypeOK, SpaceInv, NEW s \in curr_proc_id_mask, NEW r,
           NEW table \in [Slots -> PcbType], SameBase(table), Enter(s, r, table),
           curr_proc_id_mask' \subseteq curr_proc_id_mask,
           s \in curr_proc_id_mask'
    PROVE  SpaceInv'
<1>1. s \in Slots /\ curr_proc_id_mask \subseteq Slots
  BY DEF TypeOK
<1>2. /\ pd' = table[s].base /\ esp0' = s /\ running' = r
      /\ machine' = IF r = s THEN machine ELSE "lost"
      /\ pcb' = Resumed(table, r)
  BY DEF Enter, SwitchPd
<1>3. table[s].base = s
  BY <1>1 DEF SameBase, SpaceInv, OwnPages
<1>4. AddressSpaceMatches'
  <2>1. machine' = "up" => r = s
    BY <1>2
  <2>2. QED
    BY <1>1, <1>2, <1>3, <2>1, NullAssumption DEF AddressSpaceMatches
<1>5. OwnPages'
  BY <1>1, <1>2, ResumedBase DEF SpaceInv, OwnPages, SameBase
<1>6. RunningUsed'
  BY <1>2 DEF RunningUsed
<1>7. QED
  BY <1>4, <1>5, <1>6 DEF SpaceInv

LEMMA StartSpace ==
    ASSUME TypeOK, SpaceInv, NEW t, NEW table \in [Slots -> PcbType],
           SameBase(table), NEW program, NEW caller,
           StartProcess(t, table, program, caller)
    PROVE  SpaceInv'
<1>1. PICK s \in Slots :
        /\ curr_proc_id_mask' = curr_proc_id_mask \cup {s}
        /\ pd' = s /\ esp0' = s /\ running' = s
        /\ pcb' = [table EXCEPT ![s] =
                      [prev |-> curr_proc[t], base |-> s,
                       p_ksp |-> caller, p_sched_ksp |-> caller]]
  BY DEF StartProcess, InitNewProcess
<1>2. AddressSpaceMatches'
  BY <1>1, NullAssumption DEF AddressSpaceMatches
<1>3. pcb'[s].base = s /\ \A x \in Slots \ {s} : pcb'[x] = table[x]
  BY <1>1
<1>4. \A x \in curr_proc_id_mask \ {s} : pcb'[x].base = x
  BY <1>3 DEF SameBase, SpaceInv, OwnPages, TypeOK
<1>5. OwnPages'
  BY <1>1, <1>3, <1>4 DEF OwnPages
<1>6. RunningUsed'
  BY <1>1 DEF RunningUsed
<1>7. QED
  BY <1>2, <1>5, <1>6 DEF SpaceInv

LEMMA SwitchSpace ==
    ASSUME TableInv, SpaceInv, NEW from \in Terms, NEW to \in Terms,
           curr_proc[from] # NULL, curr_proc[to] # NULL,
           SwitchProcess(from, to)
    PROVE  SpaceInv'
<1> DEFINE saved == Suspended(curr_proc[from])
<1>1. curr_proc[from] \in Slots /\ curr_proc[to] \in curr_proc_id_mask
  BY StackedAreUsed DEF TableInv, TypeOK, SlotOrNull
<1>2. saved \in [Slots -> PcbType] /\ SameBase(saved)
  BY <1>1, SuspendedType, SuspendedBase DEF TableInv
<1>3. /\ Enter(curr_proc[to], saved[curr_proc[to]].p_sched_ksp, saved)
      /\ curr_proc_id_mask' = curr_proc_id_mask
  BY DEF SwitchProcess
<1> HIDE DEF saved
<1>4. QED
  BY <1>1, <1>2, <1>3, EnterSpace DEF TableInv

LEMMA StartShellSpace ==
    ASSUME TableInv, SpaceInv, NEW from \in Terms, NEW to \in Terms,
           curr_proc[from] # NULL, StartShell(from, to)
    PROVE  SpaceInv'
<1>1. curr_proc[from] \in Slots
  BY DEF TableInv, TypeOK, SlotOrNull
<1>2. CASE StartProcess(to, Suspended(curr_proc[from]), "shell", running)
  BY <1>1, <1>2, SuspendedType, SuspendedBase, StartSpace DEF TableInv
<1>3. CASE /\ pcb' = [pcb EXCEPT ![curr_proc[from]].p_sched_ksp = NULL]
           /\ UNCHANGED <<curr_proc_id_mask, cpuVars, machine>>
  <2>1. pcb[curr_proc[from]] \in PcbType /\ pcb \in [Slots -> PcbType]
    BY <1>1 DEF TableInv, TypeOK
  <2>2. [pcb[curr_proc[from]] EXCEPT !.p_sched_ksp = NULL].base
          = pcb[curr_proc[from]].base
    BY <2>1 DEF PcbType
  <2>3. SameBase(pcb')
    BY <1>3, <2>1, <2>2 DEF SameBase
  <2>4. QED
    BY <1>3, <2>3, KeepSpace DEF TableInv, cpuVars, memoryVars
<1>4. QED
  BY <1>2, <1>3 DEF StartShell

LEMMA HaltSpace ==
    ASSUME TableInv, SpaceInv, NEW status, Halt(status)
    PROVE  SpaceInv'
<1> DEFINE t == curr_active_term
<1>0. t \in Terms /\ pcb \in [Slots -> PcbType] /\ SameBase(pcb)
  BY DEF TableInv, TypeOK, SameBase
<1>1. CASE /\ curr_proc[t] # NULL /\ prev_proc[t] # NULL
           /\ PopProcess(t, status)
  <2> DEFINE p == curr_proc[t]
             q == prev_proc[t]
             table == Resumed(pcb, p)
  <2>1. p \in curr_proc_id_mask /\ q \in curr_proc_id_mask
    BY <1>0, <1>1, StackedAreUsed
  <2>2. table \in [Slots -> PcbType] /\ SameBase(table)
    BY <1>0, ResumedType, ResumedBase
  <2>3. Enter(q, pcb[p].p_ksp, table) /\ curr_proc_id_mask' = FreedMask(p)
    BY <1>1 DEF PopProcess
  <2>4. curr_proc_id_mask' \subseteq curr_proc_id_mask
    BY <2>1, <2>3 DEF FreedMask
  <2>5. q # p
    BY <1>0, <1>1, ParentIsOther
  <2>6. q \in curr_proc_id_mask'
    BY <2>1, <2>3, <2>5 DEF FreedMask
  <2> HIDE DEF p, q, table
  <2>7. QED
    BY <2>1, <2>2, <2>3, <2>4, <2>6, EnterSpace DEF TableInv
<1>2. CASE UNCHANGED <<pd, esp0, running, curr_proc_id_mask, pcb>>
           /\ (machine' = "up" => machine = "up")
  <2>1. SameBase(pcb')
    BY <1>2 DEF SameBase
  <2>2. QED
    BY <1>2, <2>1, KeepSpace DEF TableInv
<1>3. QED
  BY <1>1, <1>2 DEF Halt, RestartProcess, Panic, tableVars, cpuVars, memoryVars

LEMMA SpaceStep == TableInv /\ SpaceInv /\ [Next]_vars => SpaceInv'
<1> SUFFICES ASSUME TableInv, SpaceInv, [Next]_vars PROVE SpaceInv'
  OBVIOUS
<1>0. /\ curr_active_term \in Terms /\ active_terminal \in Terms
      /\ pcb \in [Slots -> PcbType] /\ SameBase(pcb) /\ TypeOK
  BY DEF TableInv, TypeOK, SameBase
<1>1. CASE UNCHANGED <<pd, esp0, running, curr_proc_id_mask, pcb>>
           /\ (machine' = "up" => machine = "up")
  <2>1. SameBase(pcb')
    BY <1>1 DEF SameBase
  <2>2. QED
    BY <1>0, <1>1, <2>1, KeepSpace
<1>2. CASE BootStep
  <2>1. CASE StartProcess(curr_active_term, pcb, "shell", NULL)
    BY <1>0, <2>1, StartSpace
  <2>2. QED
    BY <1>1, <1>2, <2>1 DEF BootStep, tableVars, cpuVars, memoryVars
<1>3. ASSUME NEW n \in Terms, FunctionKey(n)
      PROVE  SpaceInv'
  <2>1. CASE /\ curr_proc[active_terminal] # NULL
             /\ StartShell(active_terminal, n)
    BY <1>0, <2>1, StartShellSpace
  <2>2. CASE /\ curr_proc[active_terminal] # NULL /\ curr_proc[n] # NULL
             /\ SwitchProcess(active_terminal, n)
    BY <1>0, <2>2, SwitchSpace
  <2>3. QED
    BY <1>1, <1>3, <2>1, <2>2
       DEF FunctionKey, StartTerminal, SwitchTerminal, tableVars, cpuVars, memoryVars
<1>4. CASE CtrlC
  BY <1>4, HaltSpace DEF CtrlC
<1>5. CASE PitInterrupt
  <2>1. NextTerm \in Terms
    BY <1>0 DEF NextTerm, Terms
  <2>2. CASE StartShell(curr_active_term, NextTerm)
    BY <1>0, <1>5, <2>1, <2>2, StartShellSpace DEF PitInterrupt
  <2>3. CASE /\ curr_proc[NextTerm] # NULL
             /\ SwitchProcess(curr_active_term, NextTerm)
    BY <1>0, <1>5, <2>1, <2>3, SwitchSpace DEF PitInterrupt
  <2>4. QED
    BY <1>5, <2>2, <2>3 DEF PitInterrupt
<1>6. ASSUME NEW program \in Programs, SysExecute(program)
      PROVE  SpaceInv'
  BY <1>0, <1>6, StartSpace DEF SysExecute
<1>7. ASSUME NEW status \in Statuses, SysHalt(status)
      PROVE  SpaceInv'
  BY <1>7, HaltSpace DEF SysHalt
<1>8. CASE Exception
  BY <1>8, HaltSpace DEF Exception
<1>9. QED
  BY <1>1, <1>2, <1>3, <1>4, <1>5, <1>6, <1>7, <1>8
     DEF Next, ExecuteReturn, SysFile, Panic, vars, tableVars, cpuVars, memoryVars

LEMMA SpaceInvariant == Spec => []SpaceInv
<1>1. Init => SpaceInv
  BY DEF Init, SpaceInv, AddressSpaceMatches, OwnPages, RunningUsed
<1>2. TableInv /\ SpaceInv /\ [Next]_vars => SpaceInv'
  BY SpaceStep
<1>3. QED
  BY <1>1, <1>2, TableInvariant, PTL DEF Spec

(* Whatever execute, halt, a restart or a switch leads to, the process that   *)
(* runs has its own page at 128MB and its own kernel stack in the TSS.        *)
THEOREM AddressSpaceMatchesCorrect == Spec => []AddressSpaceMatches
<1>1. SpaceInv => AddressSpaceMatches
  BY DEF SpaceInv
<1>2. QED
  BY <1>1, SpaceInvariant, PTL

-----------------------------------------------------------------------------
(* Program memory.                                                            *)

SameMemory == \A s \in curr_proc_id_mask :
                 image'[s] = image[s] /\ executed'[s] = executed[s]

(* The page of a slot in use holds what its process was executed with: with   *)
(* OwnPages and AddressSpaceMatches that is MemoryIntact.                     *)
MemoryInv == \A s \in curr_proc_id_mask : image[s] = executed[s]

LEMMA StartKeepsMemory ==
    ASSUME TypeOK, NEW t, NEW table, NEW program, NEW caller,
           StartProcess(t, table, program, caller)
    PROVE  SameMemory /\ (MemoryInv => MemoryInv')
<1>1. PICK s \in Slots : /\ s \notin curr_proc_id_mask
                         /\ curr_proc_id_mask' = curr_proc_id_mask \cup {s}
                         /\ image' = [image EXCEPT ![s] = program]
                         /\ executed' = [executed EXCEPT ![s] = program]
  BY DEF StartProcess, FreeSlot, Loaded, InitNewProcess
<1>2. image'[s] = program /\ executed'[s] = program
  BY <1>1 DEF TypeOK
<1>3. SameMemory
  BY <1>1 DEF TypeOK, SameMemory
<1>4. QED
  BY <1>1, <1>2, <1>3 DEF SameMemory, MemoryInv

LEMMA KeepMemory ==
    ASSUME UNCHANGED memoryVars, curr_proc_id_mask' \subseteq curr_proc_id_mask
    PROVE  SameMemory /\ (MemoryInv => MemoryInv')
  BY DEF memoryVars, SameMemory, MemoryInv

LEMMA HaltKeepsMemory ==
    ASSUME TableInv, NEW status, Halt(status)
    PROVE  SameMemory /\ (MemoryInv => MemoryInv')
<1> DEFINE t == curr_active_term
<1>1. CASE curr_proc[t] # NULL /\ PopProcess(t, status)
  <2>1. curr_proc[t] \in curr_proc_id_mask
    BY <1>1, StackedAreUsed DEF TableInv, TypeOK
  <2>2. QED
    BY <1>1, <2>1, KeepMemory DEF PopProcess, FreedMask
<1>2. CASE RestartProcess(t) \/ Panic
  BY <1>2, KeepMemory DEF RestartProcess, Panic, tableVars, cpuVars, memoryVars
<1>3. QED
  BY <1>1, <1>2 DEF Halt

LEMMA StepKeepsMemory ==
    TableInv /\ [Next]_vars => SameMemory /\ (MemoryInv => MemoryInv')
<1> SUFFICES ASSUME TableInv, [Next]_vars
             PROVE  SameMemory /\ (MemoryInv => MemoryInv')
  OBVIOUS
<1>0. TypeOK
  BY DEF TableInv
<1>1. CASE UNCHANGED <<memoryVars, curr_proc_id_mask>>
  BY <1>1, KeepMemory
<1>2. CASE BootStep
  BY <1>0, <1>1, <1>2, StartKeepsMemory DEF BootStep, cpuVars, memoryVars, tableVars
<1>3. ASSUME NEW from, NEW to, StartShell(from, to)
      PROVE  SameMemory /\ (MemoryInv => MemoryInv')
  BY <1>0, <1>1, <1>3, StartKeepsMemory DEF StartShell, cpuVars, memoryVars
<1>4. ASSUME NEW n \in Terms, FunctionKey(n)
      PROVE  SameMemory /\ (MemoryInv => MemoryInv')
  BY <1>1, <1>3, <1>4 DEF FunctionKey, StartTerminal, SwitchTerminal,
                          SwitchProcess, cpuVars, memoryVars, tableVars
<1>5. CASE PitInterrupt
  BY <1>1, <1>3, <1>5 DEF PitInterrupt, SwitchProcess
<1>6. ASSUME NEW program, SysExecute(program)
      PROVE  SameMemory /\ (MemoryInv => MemoryInv')
  BY <1>0, <1>6, StartKeepsMemory DEF SysExecute
<1>7. ASSUME NEW status, Halt(status)
      PROVE  SameMemory /\ (MemoryInv => MemoryInv')
  BY <1>7, HaltKeepsMemory
<1>8. QED
  BY <1>1, <1>2, <1>4, <1>5, <1>6, <1>7
     DEF Next, CtrlC, SysHalt, Exception, ExecuteReturn, SysFile, Panic,
         vars, cpuVars, memoryVars, tableVars

(* Through every execute, halt, F-key and tick the page in a live process's   *)
(* PCB holds the program it was executed with, and what is mapped at 128MB is *)
(* the program of the process that runs.                                      *)
THEOREM MemoryIntactCorrect == Spec => []MemoryIntact
<1>1. Init => MemoryInv
  BY DEF Init, MemoryInv
<1>2. TableInv /\ MemoryInv /\ [Next]_vars => MemoryInv'
  BY StepKeepsMemory
<1>3. MemoryInv /\ SpaceInv => MemoryIntact
  BY DEF MemoryInv, SpaceInv, MemoryIntact, OwnPages, AddressSpaceMatches,
         RunningUsed
<1>4. QED
  BY <1>1, <1>2, <1>3, TableInvariant, SpaceInvariant, PTL DEF Spec
=============================================================================
