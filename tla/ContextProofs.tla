---------------------------- MODULE ContextProofs ----------------------------
(* Theorems about the context that runs and those that are suspended, over    *)
(* the process table of ProcessesProofs, for either build.                    *)
EXTENDS ProcessesProofs, WellFoundedInduction

-----------------------------------------------------------------------------
(* The invariant.                                                             *)

Started == {0} \cup term_started

(* Until the first shell runs no terminal has a process.  With the scheduler  *)
(* it will run on terminal 0; without it, on 0 unless an early F-key took the *)
(* start of another terminal.                                                 *)
BootInv ==
    machine \in Booting =>
        /\ \A t \in Terms : curr_proc[t] = NULL
        /\ ~ first_program_run
        /\ SCHED_ENABLED => term_started = {} /\ curr_active_term = 0
        /\ ~ SCHED_ENABLED =>
              IF term_started = {}
              THEN curr_active_term = 0 /\ active_terminal = 0
              ELSE curr_active_term \in term_started

(* Which terminals may have a process.  The terminal that is supposed to run  *)
(* has none only when execute found no slot for its shell, and no process can *)
(* be started on it then: a terminal that is lost stays lost.                 *)
UpInv ==
    machine = "up" =>
        /\ SCHED_ENABLED => term_started = {} /\ curr_proc[0] # NULL
        /\ ~ SCHED_ENABLED =>
              /\ curr_active_term \in Started
              /\ \A t \in Terms \ Started : curr_proc[t] = NULL
        /\ curr_proc[curr_active_term] = NULL => NoSlot

ContextInv == BootInv /\ UpInv /\ RunsForeground /\ ContextsIntact

-----------------------------------------------------------------------------
(* What the stacks of the terminals say of the processes on top of them.      *)

LEMMA StackFacts ==
    ASSUME TableInv
    PROVE  /\ \A t, u \in Terms : curr_proc[t] # NULL /\ curr_proc[t] = curr_proc[u]
                => t = u
           /\ \A t \in Terms, s \in curr_proc_id_mask : curr_proc[t] # NULL
                => pcb[s].prev # curr_proc[t]
           /\ \A t \in Terms, s \in curr_proc_id_mask :
                prev_proc[t] # NULL /\ pcb[s].prev = prev_proc[t] => s = curr_proc[t]
           /\ \A t \in Terms : prev_proc[t] # NULL
                => curr_proc[t] # NULL /\ pcb[curr_proc[t]].prev = prev_proc[t]
<1>1. \A t \in Terms : Len(jobs[t]) \in Nat
                       /\ \A i \in 1 .. Len(jobs[t]) : jobs[t][i] \in Slots
  BY LenProperties, ElementOfSeq DEF TableInv, TypeOK
<1>2. \A t \in Terms :
        /\ curr_proc[t] # NULL => Len(jobs[t]) \in 1 .. Len(jobs[t])
                                  /\ curr_proc[t] = jobs[t][Len(jobs[t])]
        /\ prev_proc[t] # NULL => Len(jobs[t]) - 1 \in 1 .. Len(jobs[t])
                                  /\ Len(jobs[t]) \in 1 .. Len(jobs[t])
                                  /\ prev_proc[t] = jobs[t][Len(jobs[t]) - 1]
                                  /\ curr_proc[t] = jobs[t][Len(jobs[t])]
  BY <1>1 DEF TableInv, ParentLinks
<1>3. \A t, u \in Terms : \A i \in 1 .. Len(jobs[t]), j \in 1 .. Len(jobs[u]) :
        jobs[t][i] = jobs[u][j] => t = u /\ i = j
  BY DEF TableInv, SlotAccounting
<1>4. \A s \in curr_proc_id_mask : pcb[s].prev # NULL =>
        \E u \in Terms : \E j \in 1 .. Len(jobs[u]) :
            /\ j - 1 \in 1 .. Len(jobs[u])
            /\ s = jobs[u][j] /\ pcb[s].prev = jobs[u][j - 1]
  <2> TAKE s \in curr_proc_id_mask
  <2>1. PICK u \in Terms : \E j \in 1 .. Len(jobs[u]) : jobs[u][j] = s
    BY DEF TableInv, TypeOK, SlotAccounting
  <2>2. PICK j \in 1 .. Len(jobs[u]) : jobs[u][j] = s
    BY <2>1
  <2>3. pcb[s].prev = IF j = 1 THEN NULL ELSE jobs[u][j - 1]
    BY <2>2 DEF TableInv, ParentLinks
  <2>4. pcb[s].prev # NULL => j - 1 \in 1 .. Len(jobs[u])
    BY <1>1, <2>3
  <2>5. QED
    BY <2>2, <2>3, <2>4
<1>5. \A t, u \in Terms : curr_proc[t] # NULL /\ curr_proc[t] = curr_proc[u] => t = u
  BY <1>2, <1>3
<1>6. ASSUME NEW t \in Terms, NEW s \in curr_proc_id_mask, curr_proc[t] # NULL,
             pcb[s].prev = curr_proc[t]
      PROVE  FALSE
  <2>0. pcb[s].prev # NULL
    BY <1>6
  <2>1. PICK u \in Terms : \E j \in 1 .. Len(jobs[u]) :
            j - 1 \in 1 .. Len(jobs[u]) /\ pcb[s].prev = jobs[u][j - 1]
    BY <1>4, <2>0
  <2>2. PICK j \in 1 .. Len(jobs[u]) :
            j - 1 \in 1 .. Len(jobs[u]) /\ pcb[s].prev = jobs[u][j - 1]
    BY <2>1
  <2>3. /\ Len(jobs[t]) \in 1 .. Len(jobs[t])
        /\ curr_proc[t] = jobs[t][Len(jobs[t])]
    BY <1>2, <1>6
  <2>4. jobs[t][Len(jobs[t])] = jobs[u][j - 1]
    BY <1>6, <2>2, <2>3
  <2>5. t = u /\ Len(jobs[t]) = j - 1
    BY <1>3, <2>2, <2>3, <2>4
  <2>6. QED
    BY <1>1, <2>2, <2>5
<1>7. ASSUME NEW t \in Terms, NEW s \in curr_proc_id_mask, prev_proc[t] # NULL,
             pcb[s].prev = prev_proc[t]
      PROVE  s = curr_proc[t]
  <2>1. \E u \in Terms : \E j \in 1 .. Len(jobs[u]) :
            /\ j - 1 \in 1 .. Len(jobs[u])
            /\ s = jobs[u][j] /\ pcb[s].prev = jobs[u][j - 1]
    BY <1>4, <1>7
  <2>2. \E j \in 1 .. Len(jobs[t]) :
            s = jobs[t][j] /\ Len(jobs[t]) - 1 = j - 1
    BY <1>2, <1>3, <1>7, <2>1
  <2>3. s = jobs[t][Len(jobs[t])]
    BY <1>1, <2>2
  <2>4. QED
    BY <1>2, <1>7, <2>3
<1>8. ASSUME NEW t \in Terms, prev_proc[t] # NULL
      PROVE  curr_proc[t] # NULL /\ pcb[curr_proc[t]].prev = prev_proc[t]
  <2>1. Len(jobs[t]) \in Nat /\ Len(jobs[t]) # 1 /\ Len(jobs[t]) \in 1 .. Len(jobs[t])
    BY <1>1, <1>2, <1>8
  <2>2. pcb[jobs[t][Len(jobs[t])]].prev = jobs[t][Len(jobs[t]) - 1]
    BY <2>1 DEF TableInv, ParentLinks
  <2>3. curr_proc[t] \in Slots
    BY <1>1, <1>2, <1>8
  <2>4. QED
    BY <1>2, <1>8, <2>2, <2>3, NullAssumption
<1>9. QED
  BY <1>5, <1>6, <1>7, <1>8

-----------------------------------------------------------------------------
(* execute on the terminal that runs.                                         *)

LEMMA ExecuteContext ==
    ASSUME TableInv, ContextInv, machine = "up", NEW program,
           StartProcess(curr_active_term, pcb, program, running),
           UNCHANGED <<active_terminal, term_started, curr_active_term>>
    PROVE  machine' = "up" /\ ContextInv'
<1> DEFINE c == curr_active_term
<1>0. /\ c \in Terms /\ curr_proc \in [Terms -> SlotOrNull]
      /\ pcb \in [Slots -> PcbType] /\ curr_proc_id_mask \subseteq Slots
      /\ term_started \subseteq Terms /\ 0 \in Terms
  BY DEF TableInv, TypeOK, Terms
<1>1. PICK s \in Slots :
        /\ FreeSlot(s)
        /\ curr_proc_id_mask' = curr_proc_id_mask \cup {s}
        /\ pcb' = [pcb EXCEPT ![s] = [prev |-> curr_proc[c], base |-> s,
                                      p_ksp |-> running, p_sched_ksp |-> running]]
        /\ curr_proc' = [curr_proc EXCEPT ![c] = s]
        /\ running' = s
        /\ machine' = "up"
  BY DEF StartProcess, InitNewProcess
<1>2. curr_proc[c] # NULL
  BY <1>1 DEF ContextInv, UpInv, NoSlot
<1>3. s # NULL /\ s \notin curr_proc_id_mask
  BY <1>1, NullAssumption DEF FreeSlot
<1>4. curr_proc'[c] = s /\ \A t \in Terms \ {c} : curr_proc'[t] = curr_proc[t]
  BY <1>0, <1>1
<1>5. UpInv'
  <2>1. SCHED_ENABLED => term_started' = {} /\ curr_proc'[0] # NULL
    BY <1>0, <1>3, <1>4 DEF ContextInv, UpInv
  <2>2. ~ SCHED_ENABLED => c' \in Started'
    BY DEF ContextInv, UpInv, Started
  <2>3. ~ SCHED_ENABLED => \A t \in Terms \ Started' : curr_proc'[t] = NULL
    BY <1>4 DEF ContextInv, UpInv, Started
  <2>4. curr_proc'[c'] # NULL
    BY <1>3, <1>4
  <2>5. QED
    BY <2>1, <2>2, <2>3, <2>4 DEF UpInv
<1>6. TerminalsLive' => TerminalsLive
  BY <1>0, <1>2, <1>4 DEF TerminalsLive, OpenTerms
<1>7. RunsForeground'
  BY <1>1, <1>4, <1>6 DEF RunsForeground, ContextInv
<1>8. ContextsIntact'
  <2> SUFFICES ASSUME TerminalsLive'
               PROVE  /\ \A t \in Terms \ {c'} : curr_proc'[t] # NULL =>
                            pcb'[curr_proc'[t]].p_sched_ksp = curr_proc'[t]
                      /\ \A x \in curr_proc_id_mask' : pcb'[x].prev # NULL =>
                            pcb'[x].p_ksp = pcb'[x].prev
    BY DEF ContextsIntact
  <2>1. running = curr_proc[c]
    BY <1>6 DEF ContextInv, RunsForeground
  <2>2. \A x \in curr_proc_id_mask : pcb'[x] = pcb[x]
    BY <1>0, <1>1, <1>3
  <2>3. \A t \in Terms \ {c} : curr_proc[t] # NULL =>
            curr_proc[t] \in curr_proc_id_mask
            /\ pcb[curr_proc[t]].p_sched_ksp = curr_proc[t]
    BY <1>6, StackedAreUsed DEF ContextInv, ContextsIntact
  <2>4. pcb'[s].p_ksp = pcb'[s].prev
    BY <1>0, <1>1, <2>1
  <2>5. \A x \in curr_proc_id_mask : pcb'[x].prev # NULL =>
            pcb'[x].p_ksp = pcb'[x].prev
    BY <1>6, <2>2 DEF ContextInv, ContextsIntact
  <2>6. QED
    BY <1>1, <1>4, <2>2, <2>3, <2>4, <2>5
<1>9. QED
  BY <1>1, <1>5, <1>7, <1>8 DEF ContextInv, BootInv, Booting

-----------------------------------------------------------------------------
(* A halt that goes back to the process below.                                *)

LEMMA ResumedElsewhere ==
    ASSUME NEW table \in [Slots -> PcbType], NEW r, NEW s \in Slots
    PROVE  /\ Resumed(table, r)[s].prev = table[s].prev
           /\ table[s].p_ksp # r => Resumed(table, r)[s].p_ksp = table[s].p_ksp
           /\ table[s].p_sched_ksp # r =>
                Resumed(table, r)[s].p_sched_ksp = table[s].p_sched_ksp
  BY DEF Resumed, PcbType

LEMMA PopContext ==
    ASSUME TableInv, ContextInv, machine = "up", NEW status,
           curr_proc[curr_active_term] # NULL, prev_proc[curr_active_term] # NULL,
           PopProcess(curr_active_term, status)
    PROVE  /\ machine' = "up" => ContextInv'
           /\ TerminalsLive => machine' = "up"
<1> DEFINE c == curr_active_term
           p == curr_proc[c]
           q == prev_proc[c]
           table == Resumed(pcb, p)
           r == pcb[p].p_ksp
<1>0. /\ c \in Terms /\ curr_proc \in [Terms -> SlotOrNull]
      /\ pcb \in [Slots -> PcbType] /\ curr_proc_id_mask \subseteq Slots
      /\ term_started \subseteq Terms /\ 0 \in Terms
  BY DEF TableInv, TypeOK, Terms
<1>1. /\ curr_proc_id_mask' = FreedMask(p)
      /\ machine' = IF r = q THEN machine ELSE "lost"
      /\ running' = r
      /\ pcb' = Resumed(table, r)
      /\ curr_proc' = [curr_proc EXCEPT ![c] = q]
      /\ UNCHANGED <<active_terminal, term_started, curr_active_term>>
  BY DEF PopProcess, Enter, screenVars
<1>2. /\ p \in curr_proc_id_mask /\ q \in curr_proc_id_mask
      /\ p \in Slots /\ q \in Slots /\ p # NULL /\ q # NULL
      /\ pcb[p].prev = q
  BY <1>0, StackedAreUsed, StackFacts
<1>3. /\ \A s \in curr_proc_id_mask : pcb[s].prev # p
      /\ \A s \in curr_proc_id_mask : pcb[s].prev = q => s = p
      /\ \A t \in Terms \ {c} : curr_proc[t] # NULL =>
            curr_proc[t] \in curr_proc_id_mask /\ curr_proc[t] # p
  BY <1>0, <1>2, StackedAreUsed, StackFacts
<1>4. \A t \in Terms \ {c} : curr_proc[t] # NULL => curr_proc[t] # q
  <2> SUFFICES ASSUME NEW t \in Terms \ {c}, curr_proc[t] # NULL, curr_proc[t] = q
               PROVE  FALSE
    OBVIOUS
  <2>1. pcb[p].prev # curr_proc[t]
    BY <1>2, StackFacts
  <2>2. QED
    BY <1>2, <2>1
<1>5. /\ curr_proc'[c] = q
      /\ \A t \in Terms \ {c} : curr_proc'[t] = curr_proc[t]
      /\ curr_proc_id_mask' = curr_proc_id_mask \ {p}
  BY <1>0, <1>1, <1>2 DEF FreedMask
<1>6. TerminalsLive => machine' = "up"
  <2>1. TerminalsLive => r = q
    BY <1>2 DEF ContextInv, ContextsIntact
  <2>2. QED
    BY <1>1, <2>1
<1> HIDE DEF p, q, r
<1>7. ASSUME machine' = "up" PROVE ContextInv'
  <2>0. r = q /\ running' = q
    BY <1>1, <1>7
  <2>1. UpInv'
    <3>1. SCHED_ENABLED => term_started' = {} /\ curr_proc'[0] # NULL
      BY <1>0, <1>1, <1>2, <1>5 DEF ContextInv, UpInv
    <3>2. ~ SCHED_ENABLED => c' \in Started'
      BY <1>1 DEF ContextInv, UpInv, Started
    <3>3. ~ SCHED_ENABLED => \A t \in Terms \ Started' : curr_proc'[t] = NULL
      BY <1>1, <1>5 DEF ContextInv, UpInv, Started
    <3>4. curr_proc'[c'] # NULL
      BY <1>1, <1>2, <1>5
    <3>5. QED
      BY <3>1, <3>2, <3>3, <3>4 DEF UpInv
  <2>2. TerminalsLive' => TerminalsLive
    BY <1>0, <1>1, <1>2, <1>5 DEF TerminalsLive, OpenTerms, p
  <2>3. RunsForeground'
    BY <1>1, <1>5, <2>0, <2>2 DEF RunsForeground, ContextInv
  <2>4. table \in [Slots -> PcbType]
    BY <1>0, ResumedType
  <2>5. \A s \in Slots :
          /\ pcb'[s].prev = pcb[s].prev
          /\ pcb[s].p_ksp \notin {p, q} => pcb'[s].p_ksp = pcb[s].p_ksp
          /\ pcb[s].p_sched_ksp \notin {p, q} =>
                pcb'[s].p_sched_ksp = pcb[s].p_sched_ksp
    <3> TAKE s \in Slots
    <3>1. /\ table[s].prev = pcb[s].prev
          /\ pcb[s].p_ksp # p => table[s].p_ksp = pcb[s].p_ksp
          /\ pcb[s].p_sched_ksp # p => table[s].p_sched_ksp = pcb[s].p_sched_ksp
      BY <1>0, ResumedElsewhere
    <3> HIDE DEF table
    <3>2. /\ pcb'[s].prev = table[s].prev
          /\ table[s].p_ksp # q => pcb'[s].p_ksp = table[s].p_ksp
          /\ table[s].p_sched_ksp # q => pcb'[s].p_sched_ksp = table[s].p_sched_ksp
      BY <1>1, <2>0, <2>4, ResumedElsewhere
    <3>3. QED
      BY <3>1, <3>2
  <2>6. ContextsIntact'
    <3> SUFFICES ASSUME TerminalsLive'
                 PROVE  /\ \A t \in Terms \ {c'} : curr_proc'[t] # NULL =>
                              pcb'[curr_proc'[t]].p_sched_ksp = curr_proc'[t]
                        /\ \A x \in curr_proc_id_mask' : pcb'[x].prev # NULL =>
                              pcb'[x].p_ksp = pcb'[x].prev
      BY DEF ContextsIntact
    <3>1. \A t \in Terms \ {c} : curr_proc[t] # NULL =>
              pcb[curr_proc[t]].p_sched_ksp = curr_proc[t]
      BY <2>2 DEF ContextInv, ContextsIntact
    <3>2. \A t \in Terms \ {c} : curr_proc[t] # NULL =>
              pcb'[curr_proc[t]].p_sched_ksp = curr_proc[t]
      BY <1>0, <1>3, <1>4, <2>5, <3>1
    <3>3. \A x \in curr_proc_id_mask : pcb[x].prev # NULL =>
              pcb[x].p_ksp = pcb[x].prev
      BY <2>2 DEF ContextInv, ContextsIntact
    <3>4. \A x \in curr_proc_id_mask \ {p} : pcb'[x].prev # NULL =>
              pcb'[x].p_ksp = pcb'[x].prev
      BY <1>0, <1>3, <2>5, <3>3
    <3>5. QED
      BY <1>1, <1>5, <3>2, <3>4
  <2>7. QED
    BY <1>7, <2>1, <2>3, <2>6 DEF ContextInv, BootInv, Booting
<1>8. QED
  BY <1>6, <1>7

-----------------------------------------------------------------------------
(* The switches.                                                              *)

LEMMA SuspendedFields ==
    ASSUME TypeOK, NEW u \in Slots, NEW s \in Slots
    PROVE  /\ Suspended(u) \in [Slots -> PcbType]
           /\ Suspended(u)[s].prev = pcb[s].prev
           /\ Suspended(u)[s].p_ksp = pcb[s].p_ksp
           /\ Suspended(u)[s].p_sched_ksp =
                IF s = u THEN running ELSE pcb[s].p_sched_ksp
<1>1. pcb \in [Slots -> PcbType] /\ pcb[s] \in PcbType /\ pcb[u] \in PcbType
  BY DEF TypeOK
<1>2. /\ [pcb[u] EXCEPT !.p_sched_ksp = running].prev = pcb[u].prev
      /\ [pcb[u] EXCEPT !.p_sched_ksp = running].p_ksp = pcb[u].p_ksp
      /\ [pcb[u] EXCEPT !.p_sched_ksp = running].p_sched_ksp = running
  BY <1>1 DEF PcbType
<1>3. Suspended(u)[s] = IF s = u THEN [pcb[u] EXCEPT !.p_sched_ksp = running]
                        ELSE pcb[s]
  BY <1>1 DEF Suspended
<1>4. QED
  BY <1>2, <1>3, SuspendedType

(* The terminal a switch leaves: the running one under the timer, the one on  *)
(* the screen when a key was pressed.                                         *)
Leaves(from) ==
    /\ from \in Terms /\ curr_proc[from] # NULL
    /\ IF SCHED_ENABLED THEN from = curr_active_term ELSE from = active_terminal

(* As long as no terminal is lost, that is the same.                          *)
LEMMA LeavesRunning ==
    ASSUME ContextInv, machine = "up", TerminalsLive, NEW from, Leaves(from)
    PROVE  from = curr_active_term /\ running = curr_proc[from]
  BY DEF ContextInv, RunsForeground, Leaves

(* With the scheduler a terminal is lost only when it is the running one.     *)
LEMMA LiveWhenLeaving ==
    ASSUME ContextInv, machine = "up", SCHED_ENABLED, NEW from, Leaves(from)
    PROVE  TerminalsLive
  BY DEF ContextInv, UpInv, Leaves, TerminalsLive, OpenTerms

LEMMA StartShellContext ==
    ASSUME TableInv, ContextInv, machine = "up", NEW from, NEW to \in Terms,
           Leaves(from), StartShell(from, to), active_terminal' = to,
           SCHED_ENABLED => curr_proc[to] = NULL /\ UNCHANGED term_started,
           ~ SCHED_ENABLED => to \notin Started
                              /\ term_started' = term_started \cup {to}
    PROVE  machine' = "up" /\ ContextInv'
<1> DEFINE u == curr_proc[from]
           table == Suspended(u)
<1>0. /\ curr_proc \in [Terms -> SlotOrNull] /\ u \in Slots
      /\ pcb \in [Slots -> PcbType] /\ curr_proc_id_mask \subseteq Slots
      /\ term_started \subseteq Terms /\ 0 \in Terms /\ TypeOK
      /\ curr_active_term' = to
  BY DEF TableInv, TypeOK, Terms, Leaves, SlotOrNull, StartShell, SetRunningProc
<1>1. curr_proc[to] = NULL
  BY DEF ContextInv, UpInv
<1>2. CASE StartProcess(to, table, "shell", running)
  <2>1. PICK s \in Slots :
          /\ FreeSlot(s)
          /\ curr_proc_id_mask' = curr_proc_id_mask \cup {s}
          /\ pcb' = [table EXCEPT ![s] = [prev |-> curr_proc[to], base |-> s,
                                          p_ksp |-> running, p_sched_ksp |-> running]]
          /\ curr_proc' = [curr_proc EXCEPT ![to] = s]
          /\ running' = s
          /\ machine' = "up"
    BY <1>2 DEF StartProcess, InitNewProcess
  <2>2. s # NULL /\ s \notin curr_proc_id_mask
    BY <2>1, NullAssumption DEF FreeSlot
  <2>3. curr_proc'[to] = s /\ \A t \in Terms \ {to} : curr_proc'[t] = curr_proc[t]
    BY <1>0, <2>1
  <2>4. UpInv'
    <3>1. SCHED_ENABLED => term_started' = {} /\ curr_proc'[0] # NULL
      BY <1>0, <2>2, <2>3 DEF ContextInv, UpInv
    <3>2. ~ SCHED_ENABLED =>
            /\ to \in Started'
            /\ \A t \in Terms \ Started' : curr_proc'[t] = NULL
      BY <2>3 DEF ContextInv, UpInv, Started
    <3>3. curr_proc'[to] # NULL
      BY <2>2, <2>3
    <3>4. QED
      BY <1>0, <3>1, <3>2, <3>3 DEF UpInv
  <2>5. TerminalsLive' => TerminalsLive
    <3>1. CASE SCHED_ENABLED
      BY <3>1, LiveWhenLeaving
    <3>2. CASE ~ SCHED_ENABLED
      <4>1. OpenTerms = Started /\ Started \subseteq OpenTerms' /\ to \notin Started
        BY <3>2 DEF ContextInv, UpInv, Started, OpenTerms
      <4>2. \A t \in Started : t \in Terms /\ curr_proc'[t] = curr_proc[t]
        BY <1>0, <2>3, <4>1 DEF Started
      <4>3. QED
        BY <4>1, <4>2 DEF TerminalsLive
    <3>3. QED
      BY <3>1, <3>2
  <2>6. RunsForeground'
    BY <1>0, <2>1, <2>3 DEF RunsForeground
  <2>7. ContextsIntact'
    <3> SUFFICES ASSUME TerminalsLive'
                 PROVE  /\ \A t \in Terms \ {to} : curr_proc'[t] # NULL =>
                              pcb'[curr_proc'[t]].p_sched_ksp = curr_proc'[t]
                        /\ \A x \in curr_proc_id_mask' : pcb'[x].prev # NULL =>
                              pcb'[x].p_ksp = pcb'[x].prev
      BY <1>0 DEF ContextsIntact
    <3>1. from = curr_active_term /\ running = u
      BY <2>5, LeavesRunning
    <3>2. \A t \in Terms \ {to} : curr_proc[t] # NULL =>
            /\ curr_proc[t] \in curr_proc_id_mask
            /\ t = from <=> curr_proc[t] = u
            /\ t # from => pcb[curr_proc[t]].p_sched_ksp = curr_proc[t]
      BY <2>5, <3>1, StackedAreUsed, StackFacts DEF ContextInv, ContextsIntact, Leaves
    <3>3. \A x \in Slots :
            /\ table[x].prev = pcb[x].prev /\ table[x].p_ksp = pcb[x].p_ksp
            /\ table[x].p_sched_ksp = IF x = u THEN u ELSE pcb[x].p_sched_ksp
      BY <1>0, <3>1, SuspendedFields
    <3>4. table \in [Slots -> PcbType]
      BY <1>0, SuspendedType
    <3> HIDE DEF table, u
    <3>5. /\ \A x \in curr_proc_id_mask : pcb'[x] = table[x]
          /\ pcb'[s].prev = NULL
      BY <1>0, <1>1, <2>1, <2>2, <3>4
    <3>6. \A t \in Terms \ {to} : curr_proc[t] # NULL =>
              pcb'[curr_proc[t]].p_sched_ksp = curr_proc[t]
      BY <1>0, <3>2, <3>3, <3>5
    <3>7. \A x \in curr_proc_id_mask : pcb[x].prev # NULL =>
              pcb[x].p_ksp = pcb[x].prev
      BY <2>5 DEF ContextInv, ContextsIntact
    <3>8. \A x \in curr_proc_id_mask : pcb'[x].prev # NULL =>
              pcb'[x].p_ksp = pcb'[x].prev
      BY <1>0, <3>3, <3>5, <3>7
    <3>9. QED
      BY <2>1, <2>3, <3>5, <3>6, <3>8
  <2>8. QED
    BY <2>1, <2>4, <2>6, <2>7 DEF ContextInv, BootInv, Booting
<1>3. CASE /\ NoSlot
           /\ UNCHANGED <<curr_proc, curr_proc_id_mask, machine>>
  <2>1. NoSlot'
    BY <1>3 DEF NoSlot, FreeSlot
  <2>2. ~ TerminalsLive'
    BY <1>0, <1>1, <1>3 DEF TerminalsLive, OpenTerms
  <2>3. UpInv'
    BY <1>0, <1>3, <2>1 DEF ContextInv, UpInv, Started
  <2>4. QED
    BY <1>3, <2>2, <2>3
       DEF ContextInv, BootInv, Booting, RunsForeground, ContextsIntact
<1>4. QED
  BY <1>2, <1>3 DEF StartShell

LEMMA SwitchContext ==
    ASSUME TableInv, ContextInv, machine = "up", NEW from, NEW to \in Terms,
           Leaves(from), curr_proc[to] # NULL, SwitchProcess(from, to),
           UNCHANGED term_started,
           ~ SCHED_ENABLED => to \in Started /\ active_terminal' = to
    PROVE  /\ machine' = "up" => ContextInv'
           /\ TerminalsLive => machine' = "up"
<1> DEFINE u == curr_proc[from]
           s == curr_proc[to]
           saved == Suspended(u)
           r == saved[s].p_sched_ksp
<1>0. /\ curr_proc \in [Terms -> SlotOrNull] /\ u \in Slots /\ s \in Slots
      /\ pcb \in [Slots -> PcbType] /\ curr_proc_id_mask \subseteq Slots
      /\ term_started \subseteq Terms /\ 0 \in Terms /\ TypeOK /\ from \in Terms
  BY DEF TableInv, TypeOK, Terms, Leaves, SlotOrNull
<1>1. /\ curr_active_term' = to
      /\ UNCHANGED <<curr_proc, curr_proc_id_mask>>
      /\ machine' = IF r = s THEN machine ELSE "lost"
      /\ running' = r
      /\ pcb' = Resumed(saved, r)
  BY DEF SwitchProcess, SetRunningProc, Enter
<1>2. saved \in [Slots -> PcbType]
      /\ \A x \in Slots :
            /\ saved[x].prev = pcb[x].prev /\ saved[x].p_ksp = pcb[x].p_ksp
            /\ saved[x].p_sched_ksp = IF x = u THEN running
                                      ELSE pcb[x].p_sched_ksp
  BY <1>0, SuspendedFields
<1>3. TerminalsLive => from = curr_active_term /\ running = u
  BY LeavesRunning
<1>4. s = u => to = from
  BY <1>0, StackFacts
<1>5. TerminalsLive => r = s
  <2>1. TerminalsLive /\ to # from => pcb[s].p_sched_ksp = s
    BY <1>3 DEF ContextInv, ContextsIntact
  <2> HIDE DEF saved, u, s
  <2>2. QED
    BY <1>0, <1>2, <1>3, <1>4, <2>1 DEF u, s
<1>6. TerminalsLive' => TerminalsLive
  <2>1. CASE SCHED_ENABLED
    BY <2>1, LiveWhenLeaving
  <2>2. CASE ~ SCHED_ENABLED
    <3>1. OpenTerms = Started /\ OpenTerms' = Started
      BY <1>1, <2>2 DEF ContextInv, UpInv, Started, OpenTerms
    <3>2. QED
      BY <1>1, <3>1 DEF TerminalsLive
  <2>3. QED
    BY <2>1, <2>2
<1>7. ASSUME machine' = "up" PROVE ContextInv'
  <2>0. r = s /\ running' = s
    BY <1>1, <1>7
  <2>1. UpInv'
    BY <1>1 DEF ContextInv, UpInv, Started
  <2>2. RunsForeground'
    BY <1>1, <2>0 DEF RunsForeground
  <2>3. ContextsIntact'
    <3> SUFFICES ASSUME TerminalsLive'
                 PROVE  /\ \A t \in Terms \ {to} : curr_proc[t] # NULL =>
                              pcb'[curr_proc[t]].p_sched_ksp = curr_proc[t]
                        /\ \A x \in curr_proc_id_mask : pcb'[x].prev # NULL =>
                              pcb'[x].p_ksp = pcb'[x].prev
      BY <1>1 DEF ContextsIntact
    <3>1. \A t \in Terms \ {to} : curr_proc[t] # NULL =>
            /\ curr_proc[t] \in Slots /\ curr_proc[t] # s
            /\ t = from <=> curr_proc[t] = u
            /\ t # from => pcb[curr_proc[t]].p_sched_ksp = curr_proc[t]
      BY <1>0, <1>3, <1>6, StackFacts DEF ContextInv, ContextsIntact, SlotOrNull
    <3>2. \A x \in curr_proc_id_mask : x \in Slots /\ pcb[x].prev # s
      BY <1>0, StackFacts
    <3>3. \A x \in curr_proc_id_mask : pcb[x].prev # NULL =>
              pcb[x].p_ksp = pcb[x].prev
      BY <1>6 DEF ContextInv, ContextsIntact
    <3>4. running = u
      BY <1>3, <1>6
    <3>5. pcb' = Resumed(saved, s)
      BY <1>1, <2>0
    <3> HIDE DEF saved, u, s, r
    <3>6. \A x \in Slots :
            /\ pcb'[x].prev = saved[x].prev
            /\ saved[x].p_ksp # s => pcb'[x].p_ksp = saved[x].p_ksp
            /\ saved[x].p_sched_ksp # s =>
                 pcb'[x].p_sched_ksp = saved[x].p_sched_ksp
      BY <1>2, <3>5, ResumedElsewhere
    <3>7. \A t \in Terms \ {to} : curr_proc[t] # NULL =>
              pcb'[curr_proc[t]].p_sched_ksp = curr_proc[t]
      BY <1>2, <3>1, <3>4, <3>6
    <3>8. \A x \in curr_proc_id_mask : pcb'[x].prev # NULL =>
              pcb'[x].p_ksp = pcb'[x].prev
      BY <1>2, <3>2, <3>3, <3>6
    <3>9. QED
      BY <3>7, <3>8
  <2>4. QED
    BY <1>7, <2>1, <2>2, <2>3 DEF ContextInv, BootInv, Booting
<1>8. TerminalsLive => machine' = "up"
  BY <1>1, <1>5
<1>9. QED
  BY <1>7, <1>8

-----------------------------------------------------------------------------
(* The other steps, and the start of the machine.                             *)

LEMMA StoppedContext ==
    ASSUME machine' \in {"panic", "lost"} PROVE ContextInv'
  BY DEF ContextInv, BootInv, UpInv, RunsForeground, ContextsIntact, Booting

LEMMA KeepContext ==
    ASSUME ContextInv, machine = "up",
           UNCHANGED <<curr_proc, curr_proc_id_mask, pcb, running,
                       curr_active_term, term_started, machine>>,
           SCHED_ENABLED \/ ~ TerminalsLive \/ UNCHANGED active_terminal
    PROVE  ContextInv'
<1>1. TerminalsLive' <=> TerminalsLive
  BY DEF TerminalsLive, OpenTerms
<1>2. NoSlot => NoSlot'
  BY DEF NoSlot, FreeSlot
<1>3. UpInv'
  BY <1>2 DEF ContextInv, UpInv, Started
<1>4. RunsForeground'
  BY <1>1 DEF ContextInv, RunsForeground
<1>5. ContextsIntact'
  BY <1>1 DEF ContextInv, ContextsIntact
<1>6. QED
  BY <1>3, <1>4, <1>5 DEF ContextInv, BootInv, Booting

LEMMA FirstShellContext ==
    ASSUME TableInv, ContextInv, machine \in Booting,
           StartProcess(curr_active_term, pcb, "shell", NULL),
           UNCHANGED <<screenVars, curr_active_term>>
    PROVE  ContextInv'
<1> DEFINE c == curr_active_term
<1>0. /\ c \in Terms /\ curr_proc \in [Terms -> SlotOrNull]
      /\ pcb \in [Slots -> PcbType] /\ term_started \subseteq {1, 2} /\ 0 \in Terms
      /\ \A t \in Terms : curr_proc[t] = NULL
      /\ UNCHANGED <<active_terminal, term_started>>
  BY DEF TableInv, TypeOK, Terms, ContextInv, BootInv, screenVars
<1>1. PICK s \in Slots :
        /\ curr_proc_id_mask' = curr_proc_id_mask \cup {s}
        /\ pcb' = [pcb EXCEPT ![s] = [prev |-> curr_proc[c], base |-> s,
                                      p_ksp |-> NULL, p_sched_ksp |-> NULL]]
        /\ curr_proc' = [curr_proc EXCEPT ![c] = s]
        /\ running' = s
        /\ machine' = "up"
  BY DEF StartProcess, InitNewProcess
<1>2. s # NULL
  BY NullAssumption
<1>3. curr_proc'[c] = s /\ \A t \in Terms \ {c} : curr_proc'[t] = NULL
  BY <1>0, <1>1
<1>4. curr_proc_id_mask = {}
  <2>1. \A t \in Terms : Len(jobs[t]) \in Nat
    BY LenProperties DEF TableInv, TypeOK
  <2>2. \A t \in Terms : \A i \in 1 .. Len(jobs[t]) : jobs[t][i] \in Slots
    BY ElementOfSeq DEF TableInv, TypeOK
  <2>3. \A t \in Terms : Len(jobs[t]) # 0 => Len(jobs[t]) \in 1 .. Len(jobs[t])
    BY <2>1
  <2>4. \A t \in Terms : Len(jobs[t]) = 0
    BY <1>0, <2>2, <2>3, NullAssumption DEF TableInv, ParentLinks
  <2>5. QED
    BY <2>4 DEF TableInv, TypeOK, SlotAccounting
<1>5. UpInv'
  BY <1>0, <1>1, <1>2, <1>3 DEF UpInv, ContextInv, BootInv, Started
<1>6. RunsForeground'
  <2>1. ~ SCHED_ENABLED /\ TerminalsLive' => active_terminal = c
    <3>0. 0 \notin term_started
      BY <1>0
    <3>1. term_started # {} /\ ~ SCHED_ENABLED => c # 0
      <4>1. BootInv
        BY DEF ContextInv
      <4>2. term_started # {} /\ ~ SCHED_ENABLED => c \in term_started
        BY <4>1, Zenon DEF BootInv
      <4>3. QED
        BY <3>0, <4>2
    <3>2. c # 0 => ~ TerminalsLive'
      BY <1>0, <1>3 DEF TerminalsLive, OpenTerms
    <3>3. QED
      BY <3>1, <3>2 DEF ContextInv, BootInv
  <2>2. QED
    BY <1>0, <1>1, <1>3, <2>1 DEF RunsForeground
<1>7. ContextsIntact'
  BY <1>0, <1>1, <1>3, <1>4 DEF ContextsIntact
<1>8. QED
  BY <1>1, <1>5, <1>6, <1>7 DEF ContextInv, BootInv, Booting

LEMMA BootContext ==
    ASSUME TableInv, ContextInv, machine \in Booting, [Next]_vars
    PROVE  ContextInv'
<1>0. /\ machine # "up" /\ active_terminal \in Terms /\ curr_active_term \in Terms
      /\ \A t \in Terms : curr_proc[t] = NULL
      /\ BootInv
  BY DEF Booting, TableInv, TypeOK, ContextInv, BootInv
<1>1. ASSUME machine' \in Booting, BootInv' PROVE ContextInv'
  BY <1>1 DEF ContextInv, UpInv, RunsForeground, ContextsIntact, Booting
<1>2. CASE BootStep
  <2>1. CASE /\ machine' \in Booting
             /\ UNCHANGED <<tableVars, screenVars, curr_active_term,
                            first_program_run>>
    BY <1>0, <1>1, <2>1 DEF BootInv, tableVars, screenVars
  <2>2. CASE /\ StartProcess(curr_active_term, pcb, "shell", NULL)
             /\ UNCHANGED <<screenVars, curr_active_term>>
    BY <2>2, FirstShellContext
  <2>3. QED
    BY <1>2, <2>1, <2>2 DEF BootStep, Booting
<1>3. ASSUME NEW n \in Terms, FunctionKey(n) PROVE ContextInv'
  <2>1. CASE /\ SCHED_ENABLED
             /\ UNCHANGED <<tableVars, cpuVars, term_started, curr_active_term,
                            first_program_run, g_status, machine>>
    BY <1>0, <1>1, <2>1 DEF BootInv, tableVars
  <2>2. CASE ~ SCHED_ENABLED /\ StartTerminal(active_terminal, n)
    <3>1. CASE machine = "unpaged"
      <4>1. /\ term_started' = term_started \cup {n} /\ curr_active_term' = n
            /\ UNCHANGED <<tableVars, first_program_run, machine>>
        BY <1>0, <2>2, <3>1 DEF StartTerminal, SetRunningProc
      <4>2. QED
        BY <1>0, <1>1, <2>2, <4>1 DEF BootInv, tableVars
    <3>2. CASE machine # "unpaged"
      BY <1>0, <2>2, <3>2, StoppedContext DEF StartTerminal
    <3>3. QED
      BY <3>1, <3>2
  <2>3. CASE ~ SCHED_ENABLED /\ SwitchTerminal(active_terminal, n)
    <3>1. /\ UNCHANGED <<tableVars, term_started, curr_active_term,
                         first_program_run, machine>>
          /\ n # 0 => n \in term_started
          /\ active_terminal' = n
      BY <1>0, <1>3, <2>3 DEF SwitchTerminal, NeedsStart, FunctionKey
    <3>2. QED
      BY <1>0, <1>1, <2>3, <3>1 DEF BootInv, tableVars
  <2>4. QED
    BY <1>3, <2>1, <2>2, <2>3 DEF FunctionKey
<1>4. CASE CtrlC
  BY <1>0, <1>4, StoppedContext DEF CtrlC, Halt, Panic
<1>5. ~ PitInterrupt /\ ~ InUserCode
  BY <1>0 DEF PitInterrupt, InUserCode, BootInv
<1>6. CASE UNCHANGED vars
  BY <1>0, <1>1, <1>6 DEF BootInv, vars, tableVars, screenVars
<1>7. QED
  BY <1>0, <1>2, <1>3, <1>4, <1>5, <1>6
     DEF Next, SysExecute, SysHalt, Exception, ExecuteReturn, SysFile

LEMMA HaltContext ==
    ASSUME TableInv, ContextInv, machine = "up", NEW status, Halt(status)
    PROVE  ContextInv' /\ (TerminalsLive => machine' = "up")
<1> DEFINE c == curr_active_term
<1>1. CASE curr_proc[c] # NULL /\ prev_proc[c] # NULL /\ PopProcess(c, status)
  <2>1. machine' \in {"up", "lost"}
    BY <1>1 DEF PopProcess, Enter
  <2>2. QED
    BY <1>1, <2>1, PopContext, StoppedContext
<1>2. CASE RestartProcess(c)
  BY <1>2, KeepContext DEF RestartProcess, tableVars, screenVars
<1>3. CASE curr_proc[c] = NULL /\ Panic
  BY <1>3, StoppedContext DEF Panic, TerminalsLive, OpenTerms
<1>4. QED
  BY <1>1, <1>2, <1>3 DEF Halt

LEMMA FunctionKeyContext ==
    ASSUME TableInv, ContextInv, machine = "up", NEW n \in Terms, FunctionKey(n)
    PROVE  ContextInv' /\ (TerminalsLive => machine' = "up")
<1> DEFINE a == active_terminal
<1>0. a \in Terms /\ active_terminal' = n
  BY DEF TableInv, TypeOK, FunctionKey
<1>1. CASE /\ SCHED_ENABLED
           /\ UNCHANGED <<tableVars, cpuVars, term_started, curr_active_term,
                          first_program_run, g_status, machine>>
  BY <1>1, KeepContext DEF tableVars, cpuVars, memoryVars
<1>2. CASE ~ SCHED_ENABLED /\ StartTerminal(a, n)
  <2>1. n \notin Started
    BY <1>2 DEF StartTerminal, NeedsStart, Started
  <2>2. CASE curr_proc[a] # NULL
    BY <1>0, <1>2, <2>1, <2>2, StartShellContext DEF StartTerminal, Leaves
  <2>3. CASE curr_proc[a] = NULL
    <3>1. machine' = "panic"
      BY <1>2, <2>3 DEF StartTerminal
    <3>2. ~ TerminalsLive
      BY <1>2, <2>3 DEF ContextInv, RunsForeground, TerminalsLive, OpenTerms
    <3>3. QED
      BY <3>1, <3>2, StoppedContext
  <2>4. QED
    BY <2>2, <2>3
<1>3. CASE ~ SCHED_ENABLED /\ SwitchTerminal(a, n)
  <2>1. n \in Started /\ UNCHANGED term_started
    BY <1>0, <1>3 DEF SwitchTerminal, NeedsStart, Started
  <2>2. CASE curr_proc[a] = NULL \/ curr_proc[n] = NULL
    <3>1. UNCHANGED <<tableVars, cpuVars, curr_active_term,
                      first_program_run, g_status, machine>>
      BY <1>3, <2>2 DEF SwitchTerminal
    <3>2. ~ TerminalsLive
      BY <1>3, <2>1, <2>2 DEF ContextInv, RunsForeground, TerminalsLive,
                              OpenTerms, Started
    <3>3. QED
      BY <2>1, <3>1, <3>2, KeepContext DEF tableVars, cpuVars, memoryVars
  <2>3. CASE curr_proc[a] # NULL /\ curr_proc[n] # NULL
    <3>1. SwitchProcess(a, n) /\ Leaves(a)
      BY <1>0, <1>3, <2>3 DEF SwitchTerminal, Leaves
    <3>2. machine' \in {"up", "lost"}
      BY <3>1 DEF SwitchProcess, Enter
    <3>3. QED
      BY <1>0, <2>1, <2>3, <3>1, <3>2, SwitchContext, StoppedContext
  <2>4. QED
    BY <2>2, <2>3
<1>4. QED
  BY <1>1, <1>2, <1>3 DEF FunctionKey

LEMMA PitContext ==
    ASSUME TableInv, ContextInv, machine = "up", PitInterrupt
    PROVE  ContextInv' /\ (TerminalsLive => machine' = "up")
<1> DEFINE c == curr_active_term
<1>0. c \in Terms /\ NextTerm \in Terms /\ SCHED_ENABLED /\ Leaves(c)
  BY DEF TableInv, TypeOK, PitInterrupt, Leaves, NextTerm, Terms
<1>1. CASE /\ curr_proc[NextTerm] = NULL /\ active_terminal' = NextTerm
           /\ UNCHANGED term_started /\ StartShell(c, NextTerm)
  BY <1>0, <1>1, StartShellContext
<1>2. CASE /\ curr_proc[NextTerm] # NULL /\ UNCHANGED screenVars
           /\ SwitchProcess(c, NextTerm)
  <2>1. machine' \in {"up", "lost"}
    BY <1>2 DEF SwitchProcess, Enter
  <2>2. QED
    BY <1>0, <1>2, <2>1, SwitchContext, StoppedContext DEF screenVars
<1>3. QED
  BY <1>1, <1>2 DEF PitInterrupt

LEMMA UpContext ==
    ASSUME TableInv, ContextInv, machine = "up", [Next]_vars
    PROVE  ContextInv' /\ (TerminalsLive => machine' = "up")
<1> DEFINE Goal == ContextInv' /\ (TerminalsLive => machine' = "up")
<1>1. ~ BootStep
  BY DEF BootStep
<1>2. ASSUME NEW n \in Terms, FunctionKey(n) PROVE Goal
  BY <1>2, FunctionKeyContext
<1>3. CASE CtrlC
  BY <1>3, HaltContext DEF CtrlC
<1>4. CASE PitInterrupt
  BY <1>4, PitContext
<1>5. ASSUME NEW program \in Programs, SysExecute(program) PROVE Goal
  BY <1>5, ExecuteContext DEF SysExecute, screenVars
<1>6. ASSUME NEW status \in Statuses, SysHalt(status) PROVE Goal
  BY <1>6, HaltContext DEF SysHalt
<1>7. CASE Exception
  BY <1>7, HaltContext DEF Exception
<1>8. CASE ExecuteReturn \/ UNCHANGED vars
  BY <1>8, KeepContext DEF ExecuteReturn, vars, tableVars, screenVars, cpuVars, memoryVars
<1>9. CASE SysFile
  BY <1>9, StoppedContext DEF SysFile, Panic, TerminalsLive, OpenTerms
<1>10. QED
  BY <1>1, <1>2, <1>3, <1>4, <1>5, <1>6, <1>7, <1>8, <1>9 DEF Next

LEMMA ContextStep == TableInv /\ ContextInv /\ [Next]_vars => ContextInv'
<1> SUFFICES ASSUME TableInv, ContextInv, [Next]_vars PROVE ContextInv'
  OBVIOUS
<1>1. CASE machine \in Booting
  BY <1>1, BootContext
<1>2. CASE machine = "up"
  BY <1>2, UpContext
<1>3. CASE machine \in {"panic", "lost"}
  <2>1. machine # "up" /\ machine \notin Booting /\ machine # "unpaged"
        /\ machine # "paged" /\ machine # "mounted"
    BY <1>3 DEF Booting
  <2>2. ~ InterruptsOn /\ ~ InUserCode /\ ~ BootStep /\ ~ ExecuteReturn
    BY <2>1 DEF InterruptsOn, InUserCode, BootStep, ExecuteReturn
  <2>3. UNCHANGED vars
    BY <2>2 DEF Next, FunctionKey, CtrlC, PitInterrupt, SysExecute, SysHalt,
                Exception, SysFile
  <2>4. machine' \in {"panic", "lost"}
    BY <1>3, <2>3 DEF vars
  <2>5. QED
    BY <2>4, StoppedContext
<1>4. QED
  BY <1>1, <1>2, <1>3 DEF TableInv, TypeOK

LEMMA ContextInit == Init => ContextInv
  BY DEF Init, ContextInv, BootInv, UpInv, RunsForeground, ContextsIntact, Booting

LEMMA ContextInvariant == Spec => [](TableInv /\ ContextInv)
<1>1. Init => ContextInv
  BY ContextInit
<1>2. TableInv /\ ContextInv /\ [Next]_vars => ContextInv'
  BY ContextStep
<1>3. QED
  BY <1>1, <1>2, TableInvariant, PTL DEF Spec

-----------------------------------------------------------------------------
(* While every open terminal has its process, the one that runs is the one    *)
(* that halt and the file system calls look up (curr_proc[curr_active_term]). *)
THEOREM RunsForegroundCorrect == Spec => []RunsForeground
<1>1. ContextInv => RunsForeground
  BY DEF ContextInv
<1>2. QED
  BY <1>1, ContextInvariant, PTL

(* ... and every stack pointer that halt or context_switch will load leads    *)
(* back into the process it belongs to.                                       *)
THEOREM ContextsIntactCorrect == Spec => []ContextsIntact
<1>1. ContextInv => ContextsIntact
  BY DEF ContextInv
<1>2. QED
  BY <1>1, ContextInvariant, PTL

-----------------------------------------------------------------------------
(* Losing a terminal.                                                         *)

LEMMA LessThanIsWellFounded ==
    IsWellFoundedOn({ss \in Nat \X Nat : ss[1] < ss[2]}, Nat)
  BY NatLessThanWellFounded DEF OpToRel

(* execute's scan finds no slot only when all of them are in use.             *)
LEMMA NoSlotIsFull == ASSUME TypeOK, NoSlot PROVE TableFull
<1> DEFINE Below == {ss \in Nat \X Nat : ss[1] < ss[2]}
           Free == Slots \ curr_proc_id_mask
<1>1. SUFFICES ASSUME Free # {} PROVE FALSE
  BY DEF TypeOK, TableFull
<1>2. Free \subseteq Nat
  BY MaxProgNumAssumption DEF Slots
<1> HIDE DEF Below, Free
<1>3. PICK s \in Free : \A r \in Free : ~ (<<r, s>> \in Below)
  BY <1>1, <1>2, LessThanIsWellFounded, WFMin DEF Below
<1>4. \A r \in Free : ~ (r < s)
  BY <1>2, <1>3 DEF Below
<1>5. FreeSlot(s) /\ s \in Slots
  BY <1>3, <1>4 DEF Free, FreeSlot
<1>6. QED
  BY <1>5 DEF NoSlot

LEMMA StartedIsLive ==
    ASSUME TableInv, TerminalsLive, NEW t \in Terms, NEW table, NEW program,
           NEW caller, StartProcess(t, table, program, caller),
           OpenTerms' \subseteq OpenTerms \cup {t}
    PROVE  TerminalsLive'
<1>1. PICK s \in Slots : curr_proc' = [curr_proc EXCEPT ![t] = s]
  BY DEF StartProcess
<1>2. /\ curr_proc \in [Terms -> SlotOrNull] /\ OpenTerms \subseteq Terms
      /\ s # NULL
  BY NullAssumption DEF TableInv, TypeOK, OpenTerms, Terms
<1>3. QED
  BY <1>1, <1>2 DEF TerminalsLive

LEMMA StartShellLive ==
    ASSUME TableInv, TerminalsLive, NEW from, NEW to \in Terms,
           StartShell(from, to), term_started' \subseteq term_started \cup {to}
    PROVE  TerminalsLive' \/ (TableFull /\ refused')
<1>1. OpenTerms' \subseteq OpenTerms \cup {to}
  BY DEF OpenTerms, StartShell, SetRunningProc
<1>2. CASE StartProcess(to, Suspended(curr_proc[from]), "shell", running)
  BY <1>1, <1>2, StartedIsLive
<1>3. CASE NoSlot /\ refused'
  BY <1>3, NoSlotIsFull DEF TableInv
<1>4. QED
  BY <1>2, <1>3 DEF StartShell

LEMMA KeepLive ==
    ASSUME TerminalsLive, UNCHANGED curr_proc, UNCHANGED term_started,
           curr_proc[curr_active_term'] # NULL
    PROVE  TerminalsLive'
  BY DEF TerminalsLive, OpenTerms

LEMMA HaltLive ==
    ASSUME TableInv, TerminalsLive, NEW status, Halt(status)
    PROVE  TerminalsLive'
<1> DEFINE c == curr_active_term
<1>0. curr_proc[c] # NULL
  BY DEF TerminalsLive, OpenTerms
<1>1. CASE prev_proc[c] # NULL /\ PopProcess(c, status)
  <2>1. /\ curr_proc' = [curr_proc EXCEPT ![c] = prev_proc[c]]
        /\ UNCHANGED <<term_started, curr_active_term>>
    BY <1>1 DEF PopProcess, screenVars
  <2>2. curr_proc \in [Terms -> SlotOrNull] /\ c \in Terms
        /\ OpenTerms \subseteq Terms
    BY DEF TableInv, TypeOK, OpenTerms, Terms
  <2>3. QED
    BY <1>1, <2>1, <2>2 DEF TerminalsLive, OpenTerms
<1>2. CASE RestartProcess(c)
  BY <1>0, <1>2, KeepLive DEF RestartProcess, tableVars, screenVars
<1>3. QED
  BY <1>0, <1>1, <1>2 DEF Halt

LEMMA LiveStep ==
    ASSUME TableInv, ContextInv, TerminalsLive, machine = "up", [Next]_vars
    PROVE  TerminalsLive' \/ (TableFull /\ refused')
<1>0. curr_active_term \in Terms /\ active_terminal \in Terms
      /\ curr_proc[curr_active_term] # NULL
  BY DEF TableInv, TypeOK, TerminalsLive, OpenTerms
<1>1. CASE UNCHANGED <<curr_proc, term_started, curr_active_term>>
  BY <1>0, <1>1, KeepLive
<1>2. ASSUME NEW n \in Terms, FunctionKey(n)
      PROVE  TerminalsLive' \/ (TableFull /\ refused')
  <2>1. CASE ~ SCHED_ENABLED /\ StartTerminal(active_terminal, n)
    <3>1. curr_proc[active_terminal] # NULL
      BY <1>0, <2>1 DEF ContextInv, RunsForeground
    <3>2. QED
      BY <2>1, <3>1, StartShellLive DEF StartTerminal
  <2>2. CASE SwitchTerminal(active_terminal, n)
    BY <1>0, <1>1, <2>2, KeepLive
       DEF SwitchTerminal, SwitchProcess, SetRunningProc, tableVars
  <2>3. QED
    BY <1>1, <1>2, <2>1, <2>2 DEF FunctionKey, tableVars
<1>3. CASE PitInterrupt
  <2>1. NextTerm \in Terms
    BY <1>0 DEF NextTerm, Terms
  <2>2. CASE StartShell(curr_active_term, NextTerm) /\ UNCHANGED term_started
    BY <2>1, <2>2, StartShellLive
  <2>3. CASE /\ curr_proc[NextTerm] # NULL /\ UNCHANGED screenVars
             /\ SwitchProcess(curr_active_term, NextTerm)
    BY <2>3, KeepLive DEF SwitchProcess, SetRunningProc, screenVars
  <2>4. QED
    BY <1>3, <2>2, <2>3 DEF PitInterrupt
<1>4. ASSUME NEW program \in Programs, SysExecute(program)
      PROVE  TerminalsLive'
  <2>1. OpenTerms' = OpenTerms
    BY <1>4 DEF SysExecute, OpenTerms, screenVars
  <2>2. QED
    BY <1>0, <1>4, <2>1, StartedIsLive DEF SysExecute
<1>5. ASSUME NEW status, Halt(status) PROVE TerminalsLive'
  BY <1>5, HaltLive
<1>6. ~ BootStep
  BY DEF BootStep
<1>7. QED
  BY <1>1, <1>2, <1>3, <1>4, <1>5, <1>6
     DEF Next, CtrlC, SysHalt, Exception, ExecuteReturn, SysFile, Panic,
         vars, tableVars, screenVars

(* A terminal that is open is left without a process only by running out of   *)
(* slots.                                                                     *)
THEOREM LostOnlyWhenFullCorrect == Spec => LostOnlyWhenFull
<1>1. TableInv /\ ContextInv /\ [Next]_vars
        => [machine = "up" /\ TerminalsLive /\ ~ TerminalsLive' => TableFull]_vars
  BY LiveStep
<1>2. QED
  BY <1>1, ContextInvariant, PTL DEF Spec, LostOnlyWhenFull

(* Why the machine stops.  Until a key comes, the start of the machine is     *)
(* bound for terminal 0; once the first shell runs there, every open terminal *)
(* has a process, and goes on having one until a shell is refused its slot.   *)
LossInv ==
    /\ machine \in Booting /\ ~ early_key /\ ~ refused =>
          term_started = {} /\ curr_active_term = 0
    /\ machine = "up" => TerminalsLive \/ refused \/ early_key
    /\ StopsOnlyAfterLoss

LEMMA LossRemembered ==
    [Next]_vars => (refused => refused') /\ (early_key => early_key')
<1> SUFFICES ASSUME [Next]_vars
             PROVE  (refused => refused') /\ (early_key => early_key')
  OBVIOUS
<1>1. CASE UNCHANGED <<refused, early_key>>
  BY <1>1
<1>2. ASSUME NEW t, NEW table, NEW program, NEW caller,
             StartProcess(t, table, program, caller)
      PROVE  refused => refused'
  BY <1>2 DEF StartProcess
<1>3. ASSUME NEW from, NEW to, StartShell(from, to) PROVE refused => refused'
  BY <1>2, <1>3 DEF StartShell
<1>4. ASSUME NEW status, Halt(status) PROVE refused => refused'
  BY <1>4 DEF Halt, PopProcess, RestartProcess, Panic
<1>5. ASSUME NEW n \in Terms, FunctionKey(n)
      PROVE  (refused => refused') /\ (early_key => early_key')
  <2>1. refused => refused'
    BY <1>3, <1>5 DEF FunctionKey, StartTerminal, SwitchTerminal, SwitchProcess
  <2>2. early_key => early_key'
    BY <1>5, Zenon DEF FunctionKey, EarlyKey
  <2>3. QED
    BY <2>1, <2>2
<1>6. CASE CtrlC
  <2>1. early_key => early_key'
    BY <1>6, Zenon DEF CtrlC, EarlyKey
  <2>2. QED
    BY <1>4, <1>6, <2>1 DEF CtrlC
<1>7. CASE BootStep
  <2>1. CASE StartProcess(curr_active_term, pcb, "shell", NULL)
             /\ UNCHANGED <<screenVars, curr_active_term, early_key>>
    BY <1>2, <2>1
  <2>2. CASE UNCHANGED <<refused, early_key>>
    BY <1>1, <2>2
  <2>3. QED
    BY <1>7, <2>1, <2>2 DEF BootStep
<1>8. CASE PitInterrupt
  <2>1. refused => refused'
    BY <1>3, <1>8 DEF PitInterrupt, SwitchProcess
  <2>2. early_key' = early_key
    BY <1>8, Zenon DEF PitInterrupt
  <2>3. QED
    BY <2>1, <2>2
<1>9. ASSUME NEW program, SysExecute(program)
      PROVE  (refused => refused') /\ (early_key => early_key')
  BY <1>2, <1>9 DEF SysExecute
<1>10. CASE Exception \/ \E status \in Statuses : SysHalt(status)
  BY <1>4, <1>10 DEF Exception, SysHalt
<1>11. CASE ExecuteReturn \/ SysFile \/ UNCHANGED vars
  BY <1>11 DEF ExecuteReturn, SysFile, Panic, vars
<1>12. QED
  BY <1>5, <1>6, <1>7, <1>8, <1>9, <1>10, <1>11 DEF Next

LEMMA BootLoss ==
    ASSUME TableInv, ContextInv, LossInv, machine \in Booting, ~ early_key',
           ~ refused', [Next]_vars
    PROVE  LossInv'
<1>0. /\ machine # "up" /\ ~ early_key /\ term_started = {} /\ curr_active_term = 0
      /\ active_terminal \in Terms /\ 0 \in Terms
      /\ \A t \in Terms : curr_proc[t] = NULL
      /\ ~ first_program_run
  <2>1. ~ early_key /\ ~ refused
    BY LossRemembered
  <2>2. QED
    BY <2>1 DEF Booting, TableInv, TypeOK, Terms, ContextInv, BootInv, LossInv
<1>1. ASSUME machine' \in Booting, UNCHANGED <<term_started, curr_active_term>>
      PROVE  LossInv'
  BY <1>0, <1>1 DEF LossInv, StopsOnlyAfterLoss, Booting
<1>2. CASE BootStep
  <2>1. CASE machine' \in Booting /\ UNCHANGED <<screenVars, curr_active_term>>
    BY <1>1, <2>1 DEF screenVars
  <2>2. CASE /\ StartProcess(curr_active_term, pcb, "shell", NULL)
             /\ UNCHANGED <<screenVars, curr_active_term>>
    <3>1. PICK s \in Slots : /\ curr_proc' = [curr_proc EXCEPT ![0] = s]
                             /\ machine' = "up"
      BY <1>0, <2>2 DEF StartProcess
    <3>2. curr_proc'[0] # NULL
      BY <1>0, <3>1, NullAssumption DEF TableInv, TypeOK
    <3>3. OpenTerms' = {0}
      BY <1>0, <2>2 DEF OpenTerms, screenVars
    <3>4. QED
      BY <3>1, <3>2, <3>3 DEF LossInv, TerminalsLive, StopsOnlyAfterLoss, Booting
  <2>3. QED
    BY <1>2, <2>1, <2>2 DEF BootStep, Booting
<1>3. ASSUME NEW n \in Terms, FunctionKey(n) PROVE LossInv'
  <2>1. n = 0
    BY <1>3, Zenon DEF FunctionKey, EarlyKey
  <2>2. ~ StartTerminal(active_terminal, n)
    BY <2>1 DEF StartTerminal, NeedsStart
  <2>3. UNCHANGED <<machine, term_started, curr_active_term>>
    BY <1>0, <1>3, <2>2 DEF FunctionKey, SwitchTerminal
  <2>4. QED
    BY <1>1, <2>3
<1>4. ~ CtrlC
  BY Zenon DEF CtrlC, EarlyKey
<1>5. ~ PitInterrupt /\ ~ InUserCode
  BY <1>0 DEF PitInterrupt, InUserCode
<1>6. CASE UNCHANGED vars
  BY <1>1, <1>6 DEF vars, screenVars
<1>7. QED
  BY <1>0, <1>2, <1>3, <1>4, <1>5, <1>6
     DEF Next, SysExecute, SysHalt, Exception, ExecuteReturn, SysFile

LEMMA LossStep == TableInv /\ ContextInv /\ LossInv /\ [Next]_vars => LossInv'
<1> SUFFICES ASSUME TableInv, ContextInv, LossInv, [Next]_vars PROVE LossInv'
  OBVIOUS
<1>1. CASE refused' \/ early_key'
  BY <1>1 DEF LossInv, StopsOnlyAfterLoss
<1>2. CASE ~ refused' /\ ~ early_key' /\ machine \in Booting
  BY <1>2, BootLoss
<1>3. CASE ~ refused' /\ ~ early_key' /\ machine = "up"
  <2>1. ~ refused /\ ~ early_key
    BY <1>3, LossRemembered
  <2>2. TerminalsLive
    BY <1>3, <2>1 DEF LossInv
  <2>3. machine' = "up" /\ TerminalsLive'
    BY <1>3, <2>2, UpContext, LiveStep
  <2>4. QED
    BY <2>3 DEF LossInv, StopsOnlyAfterLoss, Booting
<1>4. CASE ~ refused' /\ ~ early_key' /\ machine \in {"panic", "lost"}
  BY <1>4, LossRemembered DEF LossInv, StopsOnlyAfterLoss
<1>5. QED
  BY <1>1, <1>2, <1>3, <1>4 DEF TableInv, TypeOK

(* The machine faults or enters a wrong stack only if a terminal was opened   *)
(* with no slot free, or if F2, F3 or Ctrl+C came before the first shell.     *)
THEOREM StopsOnlyAfterLossCorrect == Spec => []StopsOnlyAfterLoss
<1>1. Init => LossInv
  BY DEF Init, LossInv, StopsOnlyAfterLoss
<1>2. TableInv /\ ContextInv /\ LossInv /\ [Next]_vars => LossInv'
  BY LossStep
<1>3. LossInv => StopsOnlyAfterLoss
  BY DEF LossInv
<1>4. QED
  BY <1>1, <1>2, <1>3, ContextInvariant, PTL DEF Spec

-----------------------------------------------------------------------------
(* The refinement: Processes implements TerminalJobs, for every number of     *)
(* slots, every set of programs and either build.                             *)

(* The programs of a stack of slots.                                          *)

Images(img, seq) == [i \in 1 .. Len(seq) |-> img[seq[i]]]

LEMMA ImagesSeq ==
    ASSUME NEW V, NEW img \in [Slots -> V], NEW seq \in Seq(Slots)
    PROVE  /\ Images(img, seq) \in Seq(V)
           /\ Len(Images(img, seq)) = Len(seq) /\ Len(seq) \in Nat
           /\ \A i \in 1 .. Len(seq) : Images(img, seq)[i] = img[seq[i]]
<1>1. Len(seq) \in Nat /\ \A i \in 1 .. Len(seq) : seq[i] \in Slots
  BY LenProperties, ElementOfSeq
<1>2. Images(img, seq) \in [1 .. Len(seq) -> V]
  BY <1>1 DEF Images
<1>3. Images(img, seq) \in Seq(V)
  BY <1>1, <1>2, SeqDef
<1>4. Len(Images(img, seq)) = Len(seq)
  BY <1>1, <1>2, <1>3
<1>5. QED
  BY <1>1, <1>3, <1>4 DEF Images

LEMMA ImagesAppend ==
    ASSUME NEW V, NEW img \in [Slots -> V], NEW new \in [Slots -> V],
           NEW seq \in Seq(Slots), NEW s \in Slots,
           \A i \in 1 .. Len(seq) : new[seq[i]] = img[seq[i]]
    PROVE  Images(new, Append(seq, s)) = Append(Images(img, seq), new[s])
<1> DEFINE longer == Append(seq, s)
           left == Images(new, longer)
           right == Append(Images(img, seq), new[s])
           n == Len(seq)
<1>1. /\ n \in Nat /\ longer \in Seq(Slots) /\ Len(longer) = n + 1
      /\ longer[n + 1] = s
      /\ \A i \in 1 .. n : longer[i] = seq[i]
  BY LenProperties, AppendProperties
<1>2. /\ left \in Seq(V) /\ Len(left) = n + 1
      /\ \A i \in 1 .. n + 1 : left[i] = new[longer[i]]
  <2> HIDE DEF longer
  <2>1. /\ left \in Seq(V) /\ Len(left) = Len(longer)
        /\ \A i \in 1 .. Len(longer) : left[i] = new[longer[i]]
    BY <1>1, ImagesSeq, ZenonT(30)
  <2>2. QED
    BY <1>1, <2>1
<1>3. /\ Images(img, seq) \in Seq(V) /\ Len(Images(img, seq)) = n
      /\ \A i \in 1 .. n : Images(img, seq)[i] = img[seq[i]]
  BY ImagesSeq, ZenonT(30)
<1>4. new[s] \in V
  OBVIOUS
<1>5. /\ right \in Seq(V) /\ Len(right) = n + 1
      /\ right[n + 1] = new[s]
      /\ \A i \in 1 .. n : right[i] = Images(img, seq)[i]
  BY <1>3, <1>4, AppendProperties
<1> HIDE DEF left, right, longer
<1>6. \A i \in 1 .. n + 1 : left[i] = right[i]
  <2> TAKE i \in 1 .. n + 1
  <2>1. CASE i = n + 1
    BY <1>1, <1>2, <1>5, <2>1
  <2>2. CASE i \in 1 .. n
    BY <1>1, <1>2, <1>3, <1>5, <2>2
  <2>3. QED
    BY <1>1, <2>1, <2>2
<1>7. left = right
  BY <1>2, <1>5, <1>6, SeqEqual
<1>8. QED
  BY <1>7 DEF left, right, longer

LEMMA ImagesDropLast ==
    ASSUME NEW V, NEW img \in [Slots -> V], NEW seq \in Seq(Slots), Len(seq) > 0
    PROVE  Images(img, SubSeq(seq, 1, Len(seq) - 1)) =
             SubSeq(Images(img, seq), 1, Len(Images(img, seq)) - 1)
<1> DEFINE front == SubSeq(seq, 1, Len(seq) - 1)
           all == Images(img, seq)
           left == Images(img, front)
           right == SubSeq(all, 1, Len(all) - 1)
           n == Len(seq)
<1>1. /\ n \in Nat /\ n > 0 /\ front \in Seq(Slots) /\ Len(front) = n - 1
      /\ \A i \in 1 .. n - 1 : front[i] = seq[i]
  BY LenProperties, DropLast
<1>2. /\ all \in Seq(V) /\ Len(all) = n
      /\ \A i \in 1 .. n : all[i] = img[seq[i]]
  BY ImagesSeq
<1> HIDE DEF all
<1>3. /\ right \in Seq(V) /\ Len(right) = n - 1
      /\ \A i \in 1 .. n - 1 : right[i] = all[i]
  BY <1>1, <1>2, DropLast
<1>4. /\ left \in Seq(V) /\ Len(left) = n - 1
      /\ \A i \in 1 .. n - 1 : left[i] = img[front[i]]
  <2> HIDE DEF front
  <2>1. /\ left \in Seq(V) /\ Len(left) = Len(front)
        /\ \A i \in 1 .. Len(front) : left[i] = img[front[i]]
    BY <1>1, ImagesSeq
  <2>2. QED
    BY <1>1, <2>1
<1> HIDE DEF left, right
<1>5. \A i \in 1 .. n - 1 : left[i] = right[i]
  BY <1>1, <1>2, <1>3, <1>4
<1>6. left = right
  BY <1>3, <1>4, <1>5, SeqEqual
<1>7. QED
  BY <1>6 DEF left, right, all

LEMMA StacksAreImages ==
    /\ ProgramStacks = [t \in Terms |-> Images(image, jobs[t])]
    /\ ProgramStacks' = [t \in Terms |-> Images(image', jobs'[t])]
  BY DEF ProgramStacks, Images

LEMMA StackImages ==
    ASSUME TypeOK, NEW t \in Terms
    PROVE  /\ ProgramStacks[t] = Images(image, jobs[t])
           /\ Len(ProgramStacks[t]) = Len(jobs[t])
<1> DEFINE V == Programs \cup {NULL}
<1>1. image \in [Slots -> V] /\ jobs[t] \in Seq(Slots)
  BY DEF TypeOK
<1> HIDE DEF V
<1>2. Len(Images(image, jobs[t])) = Len(jobs[t])
  BY <1>1, ImagesSeq
<1>3. QED
  BY <1>2, StacksAreImages

-----------------------------------------------------------------------------
(* The steps.                                                                 *)

JobsStep == TerminalView!Next \/ UNCHANGED ProgramStacks

LEMMA StackedImagesKept ==
    ASSUME TableInv, [Next]_vars
    PROVE  \A t \in Terms : \A i \in 1 .. Len(jobs[t]) :
              image'[jobs[t][i]] = image[jobs[t][i]]
<1>1. \A s \in curr_proc_id_mask : image'[s] = image[s]
  BY StepKeepsMemory DEF SameMemory
<1>2. \A t \in Terms : \A i \in 1 .. Len(jobs[t]) :
          jobs[t][i] \in Slots /\ jobs[t][i] \in curr_proc_id_mask
  BY LenProperties, ElementOfSeq DEF TableInv, TypeOK, SlotAccounting
<1>3. QED
  BY <1>1, <1>2

LEMMA KeepJobs ==
    ASSUME TableInv, [Next]_vars, UNCHANGED jobs
    PROVE  UNCHANGED ProgramStacks
<1>1. \A t \in Terms : Images(image', jobs[t]) = Images(image, jobs[t])
  BY StackedImagesKept DEF Images
<1>2. QED
  BY <1>1, StacksAreImages

LEMMA StartJobs ==
    ASSUME TableInv, TypeOK', [Next]_vars, NEW t \in Terms, NEW table,
           NEW program \in Programs, NEW caller,
           StartProcess(t, table, program, caller),
           curr_proc[t] = NULL => program = "shell"
    PROVE  TerminalView!Next
<1>1. PICK s \in Slots : /\ image' = [image EXCEPT ![s] = program]
                         /\ jobs' = [jobs EXCEPT ![t] = Append(@, s)]
  BY DEF StartProcess, Loaded, InitNewProcess
<1> DEFINE V == Programs \cup {NULL}
<1>2. /\ image \in [Slots -> V] /\ image' \in [Slots -> V]
      /\ jobs \in [Terms -> Seq(Slots)]
  BY DEF TableInv, TypeOK
<1>3. image'[s] = program
  BY <1>1, <1>2
<1>4. Images(image', Append(jobs[t], s)) = Append(Images(image, jobs[t]), program)
  <2>1. jobs[t] \in Seq(Slots)
    BY <1>2
  <2>2. \A i \in 1 .. Len(jobs[t]) : image'[jobs[t][i]] = image[jobs[t][i]]
    BY StackedImagesKept
  <2> HIDE DEF V
  <2>3. QED
    BY <1>2, <1>3, <2>1, <2>2, ImagesAppend, ZenonT(30)
<1>5. \A u \in Terms \ {t} : Images(image', jobs'[u]) = Images(image, jobs[u])
  <2>1. \A u \in Terms \ {t} : jobs'[u] = jobs[u]
    BY <1>1, <1>2
  <2>2. QED
    BY <2>1, StackedImagesKept DEF Images
<1>6. jobs'[t] = Append(jobs[t], s)
  BY <1>1, <1>2
<1>7. ProgramStacks' = [ProgramStacks EXCEPT ![t] = Append(@, program)]
  BY <1>4, <1>5, <1>6, StacksAreImages
<1>8. ProgramStacks[t] = <<>> => program = "shell"
  <2>1. ProgramStacks[t] = <<>> => Len(jobs[t]) = 0
    BY StackImages DEF TableInv
  <2>2. Len(jobs[t]) = 0 => curr_proc[t] = NULL
    BY DEF TableInv, ParentLinks
  <2>3. QED
    BY <2>1, <2>2
<1>9. TerminalView!Start(t, program)
  BY <1>7, <1>8 DEF TerminalView!Start
<1>10. QED
  BY <1>9 DEF TerminalView!Next

LEMMA PopJobs ==
    ASSUME TableInv, [Next]_vars, NEW t \in Terms, NEW status,
           prev_proc[t] # NULL, PopProcess(t, status)
    PROVE  TerminalView!Next
<1> DEFINE V == Programs \cup {NULL}
<1>1. /\ image' = image
      /\ jobs' = [jobs EXCEPT ![t] = SubSeq(@, 1, Len(@) - 1)]
  BY DEF PopProcess, memoryVars
<1>2. image \in [Slots -> V] /\ jobs \in [Terms -> Seq(Slots)]
  BY DEF TableInv, TypeOK
<1>3. Len(jobs[t]) \in Nat /\ Len(jobs[t]) > 1
  BY <1>2, LenProperties DEF TableInv, ParentLinks
<1>4. /\ ProgramStacks[t] = Images(image, jobs[t])
      /\ Len(ProgramStacks[t]) = Len(jobs[t])
  BY StackImages DEF TableInv
<1>5. Images(image, SubSeq(jobs[t], 1, Len(jobs[t]) - 1))
        = SubSeq(Images(image, jobs[t]), 1, Len(Images(image, jobs[t])) - 1)
  <2>1. jobs[t] \in Seq(Slots) /\ Len(jobs[t]) > 0
    BY <1>2, <1>3
  <2> HIDE DEF V
  <2>2. QED
    BY <1>2, <2>1, ImagesDropLast
<1>6. ProgramStacks' =
        [ProgramStacks EXCEPT ![t] = SubSeq(@, 1, Len(@) - 1)]
  <2>1. /\ jobs'[t] = SubSeq(jobs[t], 1, Len(jobs[t]) - 1)
        /\ \A u \in Terms \ {t} : jobs'[u] = jobs[u]
    BY <1>1, <1>2
  <2>2. Images(image', jobs'[t])
          = SubSeq(ProgramStacks[t], 1, Len(ProgramStacks[t]) - 1)
    BY <1>1, <1>4, <1>5, <2>1
  <2>3. \A u \in Terms \ {t} : Images(image', jobs'[u]) = Images(image, jobs[u])
    BY <1>1, <2>1
  <2>4. QED
    BY <2>2, <2>3, StacksAreImages
<1>7. Len(ProgramStacks[t]) > 1
  BY <1>3, <1>4
<1>8. TerminalView!Finish(t)
  BY <1>6, <1>7 DEF TerminalView!Finish
<1>9. QED
  BY <1>8 DEF TerminalView!Next

LEMMA HaltJobs ==
    ASSUME TableInv, [Next]_vars, NEW status, Halt(status)
    PROVE  JobsStep
<1>1. CASE /\ prev_proc[curr_active_term] # NULL
           /\ PopProcess(curr_active_term, status)
  BY <1>1, PopJobs DEF TableInv, TypeOK, JobsStep
<1>2. CASE UNCHANGED jobs
  BY <1>2, KeepJobs DEF JobsStep
<1>3. QED
  BY <1>1, <1>2 DEF Halt, RestartProcess, Panic, tableVars

LEMMA ShellJobs ==
    ASSUME TableInv, TypeOK', [Next]_vars, NEW from, NEW to \in Terms,
           StartShell(from, to)
    PROVE  JobsStep
<1>1. CASE StartProcess(to, Suspended(curr_proc[from]), "shell", running)
  BY <1>1, StartJobs, ProgramsAssumption DEF JobsStep
<1>2. CASE UNCHANGED jobs
  BY <1>2, KeepJobs DEF JobsStep
<1>3. QED
  BY <1>1, <1>2 DEF StartShell

LEMMA StepJobs ==
    ASSUME TableInv, ContextInv, TypeOK', [Next]_vars
    PROVE  JobsStep
<1>0. curr_active_term \in Terms /\ active_terminal \in Terms
      /\ NextTerm \in Terms
  BY DEF TableInv, TypeOK, NextTerm, Terms
<1>1. CASE UNCHANGED jobs
  BY <1>1, KeepJobs DEF JobsStep
<1>2. ASSUME NEW from, NEW to \in Terms, StartShell(from, to) PROVE JobsStep
  BY <1>2, ShellJobs
<1>3. ASSUME NEW status, Halt(status) PROVE JobsStep
  BY <1>3, HaltJobs
<1>4. CASE BootStep
  <2>1. CASE StartProcess(curr_active_term, pcb, "shell", NULL)
    BY <1>0, <2>1, StartJobs, ProgramsAssumption DEF JobsStep
  <2>2. CASE UNCHANGED tableVars
    BY <1>1, <2>2 DEF tableVars
  <2>3. QED
    BY <1>4, <2>1, <2>2 DEF BootStep
<1>5. ASSUME NEW program \in Programs, SysExecute(program) PROVE JobsStep
  <2>1. StartProcess(curr_active_term, pcb, program, running) /\ machine = "up"
    BY <1>5 DEF SysExecute, InUserCode
  <2>2. curr_proc[curr_active_term] # NULL
    BY <2>1 DEF StartProcess, ContextInv, UpInv, NoSlot
  <2>3. QED
    BY <1>0, <2>1, <2>2, StartJobs DEF JobsStep
<1>6. ASSUME NEW n \in Terms, FunctionKey(n) PROVE JobsStep
  <2>1. CASE StartTerminal(active_terminal, n)
    <3>1. CASE StartShell(active_terminal, n)
      BY <1>2, <3>1
    <3>2. CASE UNCHANGED tableVars
      BY <1>1, <3>2 DEF tableVars
    <3>3. QED
      BY <2>1, <3>1, <3>2 DEF StartTerminal
  <2>2. CASE UNCHANGED jobs
    BY <1>1, <2>2
  <2>3. QED
    BY <1>6, <2>1, <2>2
       DEF FunctionKey, SwitchTerminal, SwitchProcess, tableVars
<1>7. CASE PitInterrupt
  <2>1. CASE StartShell(curr_active_term, NextTerm)
    BY <1>0, <1>2, <2>1
  <2>2. CASE UNCHANGED jobs
    BY <1>1, <2>2
  <2>3. QED
    BY <1>7, <2>1, <2>2 DEF PitInterrupt, SwitchProcess
<1>8. CASE ExecuteReturn \/ SysFile \/ UNCHANGED vars
  BY <1>1, <1>8 DEF ExecuteReturn, SysFile, Panic, vars, tableVars
<1>9. CASE CtrlC \/ Exception \/ \E status \in Statuses : SysHalt(status)
  BY <1>3, <1>9 DEF CtrlC, Exception, SysHalt
<1>10. QED
  BY <1>4, <1>5, <1>6, <1>7, <1>8, <1>9 DEF Next

LEMMA InitJobs == Init => TerminalView!Init
<1> SUFFICES ASSUME Init PROVE ProgramStacks = [t \in Terms |-> <<>>]
  BY DEF TerminalView!Init
<1>1. \A t \in Terms : jobs[t] = <<>>
  BY DEF Init
<1>2. \A t \in Terms : [i \in 1 .. Len(jobs[t]) |-> image[jobs[t][i]]] = <<>>
  BY <1>1
<1>3. QED
  BY <1>2 DEF ProgramStacks

(* To the user each terminal is a stack of programs on a shell: execute puts  *)
(* one on top, halt takes one away, and nothing else ever changes one.        *)
THEOREM ImplementsTerminalJobsCorrect == Spec => ImplementsTerminalJobs
<1>1. TableInv /\ TableInv' /\ ContextInv /\ [Next]_vars
        => [TerminalView!Next]_ProgramStacks
  BY StepJobs DEF TableInv, JobsStep
<1>2. QED
  BY <1>1, InitJobs, ContextInvariant, PTL
     DEF Spec, ImplementsTerminalJobs, TerminalView!Spec
=============================================================================
