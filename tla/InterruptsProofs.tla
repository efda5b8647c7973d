-------------------------- MODULE InterruptsProofs --------------------------
(* Theorems about Interrupts, for any terminals and any depth of programs.    *)
EXTENDS Interrupts, SequenceTheorems, TLAPS

-----------------------------------------------------------------------------
(* The grammar of a kernel stack: what may be interrupted, called or left by  *)
(* what.  It is why every restore_flags and iret finds a frame, and of whom.  *)

Frame == [place : Places, flag : BOOLEAN]

(* What is done right below, on the same stack.                               *)
Under(p) ==
    CASE p = "user"                                 -> {"exec"}
      [] p \in {"sys", "rtc_wait"}                  -> {"user"}
      [] p \in {"cli", "exec", "epilogue"}          -> {"sys"}
      [] p \in {"irq", "key_tail", "pit_tail", "sound_wait"}
            -> {"user", "sys", "rtc_wait", "boot", "epilogue"}
      [] OTHER                                      -> {}

(* What may be at the bottom, and how far up a place may be.                  *)
Ground == {"user", "boot", "closed"}

Height(p) ==
    CASE p \in {"boot", "closed"}      -> 1
      [] p \in {"exec", "epilogue"}    -> 3 * MAX_PROGRAMS
      [] p = "user"                    -> 3 * MAX_PROGRAMS + 1
      [] p \in {"sys", "rtc_wait"}     -> 3 * MAX_PROGRAMS + 2
      [] OTHER                         -> 3 * MAX_PROGRAMS + 3

(* Where interrupts are on.                                                   *)
OnPlaces == {"user", "sys", "rtc_wait"}

At(s, p, k) == IF k = Len(s) + 1 THEN p ELSE s[k].place

Fits(s, p, k) ==
    /\ k <= Height(At(s, p, k))
    /\ IF k = 1 THEN At(s, p, k) \in Ground
       ELSE At(s, p, k - 1) \in Under(At(s, p, k))

Shaped(s, p) ==
    /\ s \in Seq(Frame) /\ p \in Places
    /\ \A k \in 1 .. Len(s) + 1 : Fits(s, p, k)
    /\ \A k \in 1 .. Len(s) : s[k].place \in OnPlaces => s[k].flag

LEMMA ShapedLength ==
    ASSUME NEW s, NEW p, Shaped(s, p)
    PROVE  /\ Len(s) \in Nat /\ Len(s) + 1 <= Height(p)
           /\ Len(s) = 0 => p \in Ground
           /\ Len(s) # 0 => s[Len(s)].place \in Under(p)
<1>1. s \in Seq(Frame) /\ Len(s) \in Nat
  BY LenProperties DEF Shaped
<1>2. Fits(s, p, Len(s) + 1)
  BY <1>1 DEF Shaped
<1>3. At(s, p, Len(s) + 1) = p
  BY DEF At
<1>4. Len(s) # 0 => At(s, p, Len(s) + 1 - 1) = s[Len(s)].place
  BY <1>1 DEF At
<1>5. QED
  BY <1>1, <1>2, <1>3, <1>4 DEF Fits

(* Something else is done on top of the same frames.                          *)
LEMMA ReplaceTop ==
    ASSUME NEW s, NEW p, Shaped(s, p), NEW q \in Places,
           Len(s) + 1 <= Height(q),
           Len(s) = 0 => q \in Ground,
           Len(s) # 0 => s[Len(s)].place \in Under(q)
    PROVE  Shaped(s, q)
<1>1. s \in Seq(Frame) /\ Len(s) \in Nat
  BY LenProperties DEF Shaped
<1>2. ASSUME NEW k \in 1 .. Len(s) PROVE Fits(s, q, k)
  <2>1. At(s, q, k) = At(s, p, k) /\ (k # 1 => At(s, q, k - 1) = At(s, p, k - 1))
    BY <1>1 DEF At
  <2>2. Fits(s, p, k)
    BY <1>1 DEF Shaped
  <2>3. QED
    BY <2>1, <2>2 DEF Fits
<1>3. Fits(s, q, Len(s) + 1)
  BY <1>1 DEF Fits, At
<1>4. \A k \in 1 .. Len(s) + 1 : k \in 1 .. Len(s) \/ k = Len(s) + 1
  BY <1>1
<1>5. \A k \in 1 .. Len(s) + 1 : Fits(s, q, k)
  BY <1>2, <1>3, <1>4
<1>6. QED
  BY <1>5 DEF Shaped

(* A gate, cli_and_save or execute leaves a frame.                            *)
LEMMA PushFrame ==
    ASSUME NEW s, NEW p, Shaped(s, p), NEW f \in BOOLEAN, NEW q \in Places,
           p \in OnPlaces => f, p \in Under(q), Len(s) + 2 <= Height(q)
    PROVE  Shaped(Append(s, [place |-> p, flag |-> f]), q)
<1> DEFINE frame == [place |-> p, flag |-> f]
           r == Append(s, frame)
<1>1. s \in Seq(Frame) /\ Len(s) \in Nat /\ frame \in Frame
  BY LenProperties DEF Shaped, Frame
<1>2. /\ r \in Seq(Frame) /\ Len(r) = Len(s) + 1 /\ r[Len(s) + 1] = frame
      /\ \A k \in 1 .. Len(s) : r[k] = s[k]
  BY <1>1, AppendProperties
<1>3. frame.place = p /\ frame.flag = f
  OBVIOUS
<1> HIDE DEF r, frame
<1>4. \A k \in 1 .. Len(s) + 1 : At(r, q, k) = At(s, p, k)
  BY <1>1, <1>2, <1>3 DEF At
<1>5. ASSUME NEW k \in 1 .. Len(s) + 1 PROVE Fits(r, q, k)
  <2>1. k # 1 => k - 1 \in 1 .. Len(s) + 1
    BY <1>1
  <2>2. Fits(s, p, k)
    BY DEF Shaped
  <2>3. QED
    BY <1>4, <2>1, <2>2 DEF Fits
<1>6. Fits(r, q, Len(r) + 1)
  <2>1. At(r, q, Len(r) + 1) = q /\ At(r, q, Len(r) + 1 - 1) = p
    BY <1>1, <1>2, <1>3 DEF At
  <2>2. QED
    BY <1>1, <1>2, <2>1 DEF Fits
<1>7. \A k \in 1 .. Len(r) + 1 : Fits(r, q, k)
  BY <1>1, <1>2, <1>5, <1>6
<1>8. \A k \in 1 .. Len(r) : r[k].place \in OnPlaces => r[k].flag
  <2> TAKE k \in 1 .. Len(r)
  <2>1. CASE k \in 1 .. Len(s)
    BY <1>2, <2>1, Zenon DEF Shaped
  <2>2. CASE k = Len(s) + 1
    BY <1>2, <1>3, <2>2, Zenon
  <2>3. QED
    BY <1>1, <1>2, <2>1, <2>2
<1>9. QED
  BY <1>2, <1>7, <1>8 DEF Shaped, r, frame

(* restore_flags, iret or halt takes frames away, down to frame k.            *)
LEMMA PopFrames ==
    ASSUME NEW s, NEW p, Shaped(s, p), NEW k \in 1 .. Len(s)
    PROVE  /\ Shaped(SubSeq(s, 1, k - 1), s[k].place)
           /\ s[k] \in Frame
           /\ s[k].place \in OnPlaces => s[k].flag
<1> DEFINE r == SubSeq(s, 1, k - 1)
           q == s[k].place
<1>1. /\ s \in Seq(Frame) /\ Len(s) \in Nat /\ k \in Nat /\ k >= 1
      /\ \A i \in 1 .. Len(s) : s[i] \in Frame
  BY LenProperties, ElementOfSeq DEF Shaped
<1>2. /\ r \in Seq(Frame)
      /\ Len(r) = k - 1
      /\ \A i \in 1 .. k - 1 : r[i] = s[i]
  <2>1. \A i \in 1 .. k - 1 : s[i] \in Frame
    BY <1>1
  <2>2. /\ r \in Seq(Frame)
        /\ Len(r) = IF 1 <= k - 1 THEN k - 1 - 1 + 1 ELSE 0
        /\ \A i \in 1 .. k - 1 - 1 + 1 : r[i] = s[1 + i - 1]
    BY <1>1, <2>1, SubSeqProperties
  <2> HIDE DEF r
  <2>3. \A i \in 1 .. k - 1 : i \in 1 .. k - 1 - 1 + 1 /\ 1 + i - 1 = i
    BY <1>1
  <2>4. QED
    BY <1>1, <2>2, <2>3
<1> HIDE DEF r
<1>3. \A i \in 1 .. k : At(r, q, i) = At(s, p, i)
  BY <1>1, <1>2 DEF At
<1>4. ASSUME NEW i \in 1 .. k PROVE Fits(r, q, i)
  <2>1. i # 1 => i - 1 \in 1 .. k
    BY <1>1
  <2>2. Fits(s, p, i)
    BY <1>1 DEF Shaped
  <2>3. QED
    BY <1>3, <2>1, <2>2 DEF Fits
<1>5. \A i \in 1 .. Len(r) + 1 : Fits(r, q, i)
  BY <1>1, <1>2, <1>4
<1>6. \A i \in 1 .. Len(r) : r[i].place \in OnPlaces => r[i].flag
  <2> TAKE i \in 1 .. Len(r)
  <2>1. i \in 1 .. Len(s) /\ r[i] = s[i]
    BY <1>1, <1>2
  <2>2. QED
    BY <2>1, Zenon DEF Shaped
<1>7. q \in Places
  BY <1>1 DEF Frame
<1>8. s[k].place \in OnPlaces => s[k].flag
  BY Zenon DEF Shaped
<1>9. QED
  BY <1>1, <1>2, <1>5, <1>6, <1>7, <1>8, Zenon DEF Shaped, r, q

(* Where two frames are taken away, the second is the program's.              *)
LEMMA UserBelow ==
    ASSUME NEW s, NEW p \in {"cli", "epilogue"}, Shaped(s, p)
    PROVE  /\ Len(s) \in Nat /\ Len(s) >= 2
           /\ s[Len(s) - 1].place = "user"
<1>1. Len(s) \in Nat /\ Len(s) # 0 /\ s[Len(s)].place = "sys"
  <2>1. p \notin Ground /\ Under(p) = {"sys"}
    BY DEF Ground, Under
  <2>2. Len(s) \in Nat /\ Len(s) # 0 /\ s[Len(s)].place \in Under(p)
    BY <2>1, ShapedLength
  <2>3. QED
    BY <2>1, <2>2
<1>2. Fits(s, p, Len(s))
  BY <1>1 DEF Shaped
<1>3. At(s, p, Len(s)) = "sys"
  BY <1>1 DEF At
<1>4. At(s, p, Len(s) - 1) \in {"user"}
  BY <1>2, <1>3 DEF Fits, Ground, Under
<1>5. Len(s) # 1
  BY <1>2, <1>3 DEF Fits, Ground
<1>6. At(s, p, Len(s) - 1) = s[Len(s) - 1].place
  BY <1>1 DEF At
<1>7. Len(s) >= 2
  <2> DEFINE n == Len(s)
  <2>1. n \in Nat /\ n # 0 /\ n # 1
    BY <1>1, <1>5, Zenon
  <2> HIDE DEF n
  <2>2. n >= 2
    BY <2>1
  <2>3. QED
    BY <2>2 DEF n
<1>8. s[Len(s) - 1].place = "user"
  BY <1>4, <1>6, Zenon
<1>9. QED
  BY <1>1, <1>7, <1>8, Zenon

-----------------------------------------------------------------------------
(* The invariant on the stacks and the interrupt flag.                        *)

StackInv ==
    /\ stack \in [Terms -> Seq(Frame)] /\ place \in [Terms -> Places]
    /\ running \in Terms
    /\ \A t \in Terms : Shaped(stack[t], place[t])

OffPlaces == {"cli", "irq", "sound_wait"}
AwayPlaces == {"closed", "exec", "key_tail", "pit_tail"}

(* What the CPU does, and the flag it does it with.                           *)
CpuFits(p, flag) ==
    /\ flag \in BOOLEAN
    /\ p \in OnPlaces => flag
    /\ p \in OffPlaces => ~ flag
    /\ p \notin AwayPlaces

CpuInv == CpuFits(place[running], int_flag)

LEMMA OneStack ==
    ASSUME StackInv, NEW t \in Terms, NEW s, NEW p, Shaped(s, p),
           stack' = [stack EXCEPT ![t] = s], place' = [place EXCEPT ![t] = p],
           running' \in Terms
    PROVE  StackInv' /\ place'[t] = p
<1>1. s \in Seq(Frame) /\ p \in Places
  BY DEF Shaped
<1>2. \A u \in Terms : Shaped(stack'[u], place'[u])
  BY DEF StackInv
<1>3. QED
  BY <1>1, <1>2 DEF StackInv

LEMMA SaveKeeps ==
    ASSUME StackInv, CpuInv, NEW q \in Places, NEW flag,
           Save(running, q, flag), UNCHANGED running,
           place[running] \in Under(q),
           Height(place[running]) + 1 <= Height(q),
           CpuFits(q, flag)
    PROVE  StackInv' /\ CpuInv'
<1> DEFINE s == stack[running]
           p == place[running]
           r == Append(s, [place |-> p, flag |-> int_flag])
<1>1. running \in Terms /\ Shaped(s, p)
  BY DEF StackInv
<1>2. int_flag \in BOOLEAN /\ (p \in OnPlaces => int_flag)
  BY Zenon DEF CpuInv, CpuFits
<1>3. Len(s) + 2 <= Height(q)
  <2>1. Len(s) \in Nat /\ Len(s) + 1 <= Height(p)
    BY <1>1, ShapedLength
  <2>2. Height(p) \in Nat /\ Height(q) \in Nat
    BY InterruptsAssumption DEF Height
  <2> HIDE DEF s, p
  <2>3. QED
    BY <2>1, <2>2 DEF p
<1>4. Shaped(r, q)
  <2> HIDE DEF s, p
  <2>1. p \in Under(q)
    BY DEF p
  <2>2. QED
    BY <1>1, <1>2, <1>3, <2>1, PushFrame
<1>5. stack' = [stack EXCEPT ![running] = r]
      /\ place' = [place EXCEPT ![running] = q] /\ int_flag' = flag
  BY Zenon DEF Save
<1> HIDE DEF r
<1>6. StackInv' /\ place'[running] = q
  BY <1>1, <1>4, <1>5, OneStack
<1>7. CpuInv'
  BY <1>5, <1>6, Zenon DEF CpuInv
<1>8. QED
  BY <1>6, <1>7

(* Down to a frame of something that may be gone on with.                     *)
LEMMA ResumeKeeps ==
    ASSUME StackInv, NEW t \in Terms, NEW k \in 1 .. Len(stack[t]),
           running' = t,
           stack' = [stack EXCEPT ![t] = SubSeq(stack[t], 1, k - 1)],
           place' = [place EXCEPT ![t] = stack[t][k].place],
           int_flag' = stack[t][k].flag,
           stack[t][k].place \notin OffPlaces \cup AwayPlaces
    PROVE  StackInv' /\ CpuInv'
<1> DEFINE s == stack[t]
<1>1. Shaped(s, place[t])
  BY DEF StackInv
<1> HIDE DEF s
<1>2. /\ Shaped(SubSeq(s, 1, k - 1), s[k].place)
      /\ s[k] \in Frame
      /\ s[k].place \in OnPlaces => s[k].flag
  BY <1>1, PopFrames DEF s
<1>3. StackInv' /\ place'[t] = s[k].place
  <2> DEFINE r == SubSeq(s, 1, k - 1)
             p == s[k].place
  <2>1. Shaped(r, p) /\ stack' = [stack EXCEPT ![t] = r]
        /\ place' = [place EXCEPT ![t] = p]
    BY <1>2, Zenon DEF s
  <2> HIDE DEF r, p
  <2>2. StackInv' /\ place'[t] = p
    BY <2>1, OneStack
  <2>3. QED
    BY <2>2 DEF p
<1>4. s[k].flag \in BOOLEAN
  BY <1>2 DEF Frame
<1>5. CpuFits(s[k].place, s[k].flag)
  BY <1>2, <1>4, Zenon DEF CpuFits, s
<1>6. CpuInv'
  BY <1>3, <1>5, Zenon DEF CpuInv, s
<1>7. QED
  BY <1>3, <1>6

LEMMA RestoreKeeps ==
    ASSUME StackInv, UNCHANGED running,
           \/ place[running] \in {"sys", "cli", "irq"} /\ Restore(running, 1)
           \/ place[running] \in {"cli", "epilogue"} /\ Restore(running, 2)
    PROVE  StackInv' /\ CpuInv'
<1> DEFINE t == running
           n == Len(stack[t])
<1>1. t \in Terms /\ Shaped(stack[t], place[t])
  BY DEF StackInv
<1>2. CASE place[t] \in {"sys", "cli", "irq"} /\ Restore(t, 1)
  <2>1. n \in Nat /\ n # 0 /\ stack[t][n].place \in Under(place[t])
    BY <1>1, <1>2, ShapedLength DEF Ground
  <2>2. n - 1 + 1 = n /\ n \in 1 .. n
    BY <2>1
  <2>3. stack[t][n].place \notin OffPlaces \cup AwayPlaces
    BY <1>2, <2>1 DEF Under, OffPlaces, AwayPlaces
  <2>4. /\ stack' = [stack EXCEPT ![t] = SubSeq(stack[t], 1, n - 1)]
        /\ place' = [place EXCEPT ![t] = stack[t][n].place]
        /\ int_flag' = stack[t][n].flag
    BY <1>2, <2>2, Zenon DEF Restore, Popped
  <2>5. QED
    BY <1>1, <2>2, <2>3, <2>4, ResumeKeeps
<1>3. CASE place[t] \in {"cli", "epilogue"} /\ Restore(t, 2)
  <2>1. n \in Nat /\ n >= 2 /\ stack[t][n - 1].place = "user"
    BY <1>1, <1>3, UserBelow
  <2>2. n - 2 + 1 = n - 1 /\ n - 1 \in 1 .. n /\ n - 2 = n - 1 - 1
    BY <2>1
  <2>3. stack[t][n - 1].place \notin OffPlaces \cup AwayPlaces
    BY <2>1 DEF OffPlaces, AwayPlaces
  <2>4. /\ stack' = [stack EXCEPT ![t] = SubSeq(stack[t], 1, n - 1 - 1)]
        /\ place' = [place EXCEPT ![t] = stack[t][n - 1].place]
        /\ int_flag' = stack[t][n - 1].flag
    BY <1>3, <2>2, Zenon DEF Restore, Popped
  <2>5. QED
    BY <1>1, <2>2, <2>3, <2>4, ResumeKeeps
<1>4. QED
  BY <1>2, <1>3

LEMMA HaltKeeps ==
    ASSUME StackInv, Halt(running), UNCHANGED running
    PROVE  /\ StackInv' /\ CpuInv'
           /\ place'[running] \in {"user", "epilogue"}
<1> DEFINE t == running
<1>1. t \in Terms /\ Shaped(stack[t], place[t])
  BY DEF StackInv
<1>2. ASSUME NEW k \in 1 .. Len(stack[t]), stack[t][k].place = "exec",
             stack' = [stack EXCEPT ![t] = SubSeq(@, 1, k - 1)],
             place' = [place EXCEPT ![t] = "epilogue"], int_flag' \in BOOLEAN
      PROVE  StackInv' /\ CpuInv' /\ place'[t] \in {"user", "epilogue"}
  <2> DEFINE r == SubSeq(stack[t], 1, k - 1)
  <2>1. Shaped(r, "exec")
    BY <1>1, <1>2, PopFrames
  <2>2. stack' = [stack EXCEPT ![t] = r]
    BY <1>2
  <2> HIDE DEF r
  <2>3. Shaped(r, "epilogue")
    BY <2>1, ShapedLength, ReplaceTop DEF Height, Ground, Under, Places
  <2>4. StackInv' /\ place'[t] = "epilogue"
    BY <1>1, <1>2, <2>2, <2>3, OneStack
  <2>5. CpuFits("epilogue", int_flag')
    BY <1>2 DEF CpuFits, OnPlaces, OffPlaces, AwayPlaces
  <2>6. QED
    BY <2>4, <2>5 DEF CpuInv
<1>3. ASSUME stack' = [stack EXCEPT ![t] = <<>>],
             place' = [place EXCEPT ![t] = "user"], int_flag' = UserFlag
      PROVE  StackInv' /\ CpuInv' /\ place'[t] \in {"user", "epilogue"}
  <2>1. Shaped(<<>>, "user")
    <3>1. <<>> \in Seq(Frame) /\ Len(<<>>) = 0
      OBVIOUS
    <3>2. Fits(<<>>, "user", 1)
      BY <3>1, InterruptsAssumption DEF Fits, At, Height, Ground
    <3>3. QED
      BY <3>1, <3>2 DEF Shaped, Places
  <2>2. StackInv' /\ place'[t] = "user"
    BY <1>1, <1>3, <2>1, OneStack
  <2>3. CpuFits("user", TRUE)
    BY DEF CpuFits, OffPlaces, AwayPlaces
  <2>4. QED
    BY <1>3, <2>2, <2>3, Zenon DEF CpuInv, UserFlag
<1>4. QED
  BY <1>2, <1>3 DEF Halt

(* An F-key or the timer: the handler stays behind in its tail.               *)
LEMMA SwitchKeeps ==
    ASSUME StackInv, place[running] = "irq",
           NEW t \in Terms, NEW tail \in {"key_tail", "pit_tail"},
           Switch(t, tail)
    PROVE  StackInv' /\ CpuInv'
<1> DEFINE left == [place EXCEPT ![running] = tail]
<1>1. /\ running \in Terms /\ running' = t /\ left \in [Terms -> Places]
      /\ stack \in [Terms -> Seq(Frame)]
      /\ \A u \in Terms : left[u] = IF u = running THEN tail ELSE place[u]
  BY DEF StackInv, Switch, Places
<1>2. ASSUME NEW u \in Terms PROVE Shaped(stack[u], left[u])
  <2>1. Shaped(stack[u], place[u])
    BY DEF StackInv
  <2>2. CASE u = running
    <3>1. Shaped(stack[u], "irq")
      BY <2>1, <2>2
    <3>2. Shaped(stack[u], tail)
      BY <3>1, ShapedLength, ReplaceTop DEF Height, Ground, Under, Places
    <3>3. QED
      BY <1>1, <2>2, <3>2
  <2>3. CASE u # running
    BY <1>1, <2>1, <2>3
  <2>4. QED
    BY <2>2, <2>3
<1>3. /\ running' = t
      /\ \/ /\ left[t] = "closed"
            /\ place' = [left EXCEPT ![t] = "user"]
            /\ int_flag' = UserFlag
            /\ UNCHANGED stack
         \/ /\ left[t] \in {"key_tail", "pit_tail"}
            /\ place' = [left EXCEPT ![t] = Top(t).place]
            /\ int_flag' = Top(t).flag
            /\ stack' = [stack EXCEPT ![t] = Popped(t, 1)]
  BY Zenon DEF Switch
<1> HIDE DEF left
<1>4. ASSUME NEW s, NEW p, Shaped(s, p), CpuFits(p, int_flag'),
             stack' = [stack EXCEPT ![t] = s],
             place' = [left EXCEPT ![t] = p]
      PROVE  StackInv' /\ CpuInv'
  <2>1. s \in Seq(Frame) /\ p \in Places
    BY <1>4 DEF Shaped
  <2>2. \A u \in Terms : Shaped(stack'[u], place'[u])
    BY <1>1, <1>2, <1>4
  <2>3. StackInv'
    BY <1>1, <1>4, <2>1, <2>2 DEF StackInv
  <2>4. place'[running'] = p
    BY <1>1, <1>4
  <2>5. QED
    BY <1>4, <2>3, <2>4, Zenon DEF CpuInv
<1>5. CASE /\ left[t] = "closed"
           /\ place' = [left EXCEPT ![t] = "user"]
           /\ int_flag' = UserFlag
           /\ UNCHANGED stack
  <2>1. Shaped(stack[t], "closed")
    BY <1>2, <1>5
  <2>2. Len(stack[t]) = 0
    BY <2>1, ShapedLength DEF Height
  <2>3. Shaped(stack[t], "user")
    BY <2>1, <2>2, ReplaceTop, InterruptsAssumption
       DEF Height, Ground, Places
  <2>4. CpuFits("user", int_flag')
    BY <1>5 DEF CpuFits, UserFlag, OffPlaces, AwayPlaces
  <2>5. stack' = [stack EXCEPT ![t] = stack[t]]
    BY <1>1, <1>5
  <2>6. QED
    BY <1>4, <1>5, <2>3, <2>4, <2>5
<1>6. CASE /\ left[t] \in {"key_tail", "pit_tail"}
           /\ place' = [left EXCEPT ![t] = Top(t).place]
           /\ int_flag' = Top(t).flag
           /\ stack' = [stack EXCEPT ![t] = Popped(t, 1)]
  <2> DEFINE s == stack[t]
             n == Len(s)
             frame == s[n]
             r == SubSeq(s, 1, n - 1)
  <2>1. Shaped(s, left[t])
    BY <1>2
  <2>2. n \in Nat /\ n # 0 /\ frame.place \in Under(left[t])
    <3> HIDE DEF s
    <3>1. QED
      BY <1>6, <2>1, ShapedLength DEF Ground
  <2>3. n \in 1 .. n
    BY <2>2
  <2>4. /\ Shaped(r, frame.place) /\ frame \in Frame
        /\ frame.place \in OnPlaces => frame.flag
    <3> HIDE DEF s
    <3>1. QED
      BY <2>1, <2>3, PopFrames
  <2>5. frame.place \notin OffPlaces \cup AwayPlaces
    BY <1>6, <2>2 DEF Under, OffPlaces, AwayPlaces
  <2>6. frame = Top(t) /\ r = Popped(t, 1)
    BY DEF Top, Popped
  <2> HIDE DEF frame, r
  <2>7. CpuFits(frame.place, int_flag')
    <3>1. frame.flag \in BOOLEAN
      BY <2>4 DEF Frame
    <3>2. QED
      BY <1>6, <2>4, <2>5, <2>6, <3>1, Zenon DEF CpuFits
  <2>8. QED
    BY <1>4, <1>6, <2>4, <2>6, <2>7
<1>7. QED
  BY <1>3, <1>5, <1>6

(* What is done changes, on the same frames.                                  *)
LEMMA MoveKeeps ==
    ASSUME StackInv, UNCHANGED <<running, stack>>, NEW q \in Places,
           place' = [place EXCEPT ![running] = q],
           Height(place[running]) <= Height(q),
           place[running] \in Ground => q \in Ground,
           Under(place[running]) \subseteq Under(q),
           CpuFits(q, int_flag')
    PROVE  StackInv' /\ CpuInv'
<1> DEFINE s == stack[running]
           p == place[running]
<1>1. running \in Terms /\ Shaped(s, p) /\ stack \in [Terms -> Seq(Frame)]
  BY DEF StackInv
<1>2. stack' = [stack EXCEPT ![running] = s]
  BY <1>1
<1>3. Height(p) \in Nat /\ Height(q) \in Nat
  BY InterruptsAssumption DEF Height
<1>4. Shaped(s, q)
  <2>1. Height(p) <= Height(q) /\ (p \in Ground => q \in Ground)
        /\ Under(p) \subseteq Under(q)
    OBVIOUS
  <2> HIDE DEF s, p
  <2>2. /\ Len(s) \in Nat /\ Len(s) + 1 <= Height(p)
        /\ Len(s) = 0 => p \in Ground
        /\ Len(s) # 0 => s[Len(s)].place \in Under(p)
    BY <1>1, ShapedLength
  <2>3. Len(s) + 1 <= Height(q)
    BY <1>3, <2>1, <2>2
  <2>4. /\ Len(s) = 0 => q \in Ground
        /\ Len(s) # 0 => s[Len(s)].place \in Under(q)
    BY <2>1, <2>2, Zenon
  <2>5. QED
    BY <1>1, <2>3, <2>4, ReplaceTop
<1> HIDE DEF s
<1>5. StackInv' /\ place'[running] = q
  BY <1>1, <1>2, <1>4, OneStack
<1>6. QED
  BY <1>5, Zenon DEF CpuInv

(* A terminal's programs do not outgrow the bound: execute's frame.           *)
LEMMA ExecuteKeeps ==
    ASSUME StackInv, CpuInv, Execute
    PROVE  StackInv' /\ CpuInv'
<1> DEFINE s == stack[running]
           r == Append(s, [place |-> "exec", flag |-> int_flag])
<1>1. /\ running \in Terms /\ Shaped(s, "cli")
      /\ Len(s) < 3 * MAX_PROGRAMS
      /\ stack' = [stack EXCEPT ![running] = r]
      /\ place' = [place EXCEPT ![running] = "user"]
      /\ int_flag' = TRUE /\ running' = running /\ int_flag \in BOOLEAN
  <2>1. StackInv /\ place[running] = "cli"
    BY DEF Execute, Step
  <2>2. running \in Terms /\ Shaped(s, "cli")
    BY <2>1 DEF StackInv
  <2>3. int_flag \in BOOLEAN
    BY Zenon DEF CpuInv, CpuFits
  <2>4. QED
    BY <2>2, <2>3, Zenon DEF Execute, Step, UserFlag
<1>2. Shaped(r, "user")
  <2> HIDE DEF s
  <2>1. Len(s) \in Nat /\ Len(s) # 0 /\ s[Len(s)].place \in Under("cli")
    BY <1>1, ShapedLength DEF Ground
  <2>2. /\ Len(s) + 1 <= Height("exec") /\ Len(s) + 2 <= Height("user")
    BY <1>1, <2>1, InterruptsAssumption DEF Height
  <2>3. Under("cli") = Under("exec")
    BY DEF Under
  <2>4. Shaped(s, "exec")
    BY <1>1, <2>1, <2>2, <2>3, ReplaceTop DEF Places
  <2>5. "exec" \in Under("user") /\ "exec" \notin OnPlaces
        /\ "user" \in Places
    BY DEF Under, OnPlaces, Places
  <2>6. QED
    BY <1>1, <2>2, <2>4, <2>5, PushFrame
<1> HIDE DEF r
<1>3. StackInv' /\ place'[running] = "user"
  BY <1>1, <1>2, OneStack
<1>4. CpuFits("user", TRUE)
  BY DEF CpuFits, OffPlaces, AwayPlaces
<1>5. QED
  BY <1>1, <1>3, <1>4, Zenon DEF CpuInv

LEMMA BootKeeps ==
    ASSUME StackInv, CpuInv, BootStep
    PROVE  StackInv' /\ CpuInv'
<1>1. /\ place[running] = "boot" /\ running \in Terms
      /\ UNCHANGED <<running, stack>>
      /\ int_flag \in BOOLEAN
  <2>1. int_flag \in BOOLEAN
    BY Zenon DEF CpuInv, CpuFits
  <2>2. QED
    BY <2>1 DEF BootStep, StackInv
<1>2. CASE place' = [place EXCEPT ![running] = "user"] /\ int_flag' = TRUE
  <2>1. /\ Height("boot") <= Height("user")
        /\ "user" \in Ground /\ "user" \in Places
        /\ Under("boot") \subseteq Under("user")
    BY InterruptsAssumption DEF Height, Ground, Under, Places
  <2>2. CpuFits("user", TRUE)
    BY DEF CpuFits, OffPlaces, AwayPlaces
  <2>3. QED
    BY <1>1, <1>2, <2>1, <2>2, MoveKeeps
<1>3. CASE UNCHANGED place /\ int_flag' \in BOOLEAN
  <2>1. StackInv'
    BY <1>1, <1>3 DEF StackInv
  <2>2. CpuFits("boot", int_flag')
    BY <1>3 DEF CpuFits, OnPlaces, OffPlaces, AwayPlaces
  <2>3. QED
    BY <1>1, <1>3, <2>1, <2>2 DEF CpuInv
<1>4. QED
  BY <1>1, <1>2, <1>3, Zenon DEF BootStep, UserFlag

(* The gate of an interrupt, from wherever interrupts are on.                 *)
LEMMA GateOpen ==
    ASSUME StackInv, CpuInv, int_flag
    PROVE  place[running] \in {"boot", "user", "sys", "rtc_wait", "epilogue"}
<1>1. place[running] \in Places
  BY DEF StackInv
<1>2. place[running] \notin OffPlaces \cup AwayPlaces
  BY Zenon DEF CpuInv, CpuFits
<1>3. QED
  BY <1>1, <1>2 DEF Places, OffPlaces, AwayPlaces

LEMMA TakenKeeps ==
    ASSUME StackInv, CpuInv, NEW line, Taken(line)
    PROVE  /\ StackInv' /\ CpuInv'
           /\ place'[running'] = "irq"
           /\ place[running] \notin {"irq", "sound_wait"}
<1>1. /\ int_flag /\ UNCHANGED running /\ Save(running, "irq", FALSE)
  BY Zenon DEF Taken
<1>2. place[running] \in {"boot", "user", "sys", "rtc_wait", "epilogue"}
  BY <1>1, GateOpen
<1>3. /\ place[running] \in Under("irq")
      /\ Height(place[running]) + 1 <= Height("irq")
  BY <1>2, InterruptsAssumption DEF Under, Height
<1>4. CpuFits("irq", FALSE)
  BY DEF CpuFits, OnPlaces, AwayPlaces
<1>5. StackInv' /\ CpuInv'
  BY <1>1, <1>3, <1>4, SaveKeeps DEF Places
<1>6. place'[running'] = "irq"
  BY <1>1 DEF StackInv, Save
<1>7. QED
  BY <1>2, <1>5, <1>6

LEMMA HandlerKeeps ==
    ASSUME StackInv, CpuInv, Handler
    PROVE  StackInv' /\ CpuInv'
<1>1. place[running] = "irq"
  BY Zenon DEF Handler, ServeTimer, ServeKey, ServeCtrlC, ServeFunctionKey,
     ServeRtc, ServeMouse, ServeGeneral, ServeSound, Serve
<1>2. CASE Restore(running, 1) /\ UNCHANGED running
  BY <1>1, <1>2, RestoreKeeps
<1>3. ASSUME NEW t \in Terms, NEW tail \in {"key_tail", "pit_tail"},
             Switch(t, tail)
      PROVE  StackInv' /\ CpuInv'
  BY <1>1, <1>3, SwitchKeeps
<1>4. CASE Halt(running) /\ UNCHANGED running
  BY <1>4, HaltKeeps
<1>5. CASE ServeSound
  <2>1. UNCHANGED <<running, stack, int_flag>>
    BY <1>5 DEF ServeSound
  <2>2. CASE UNCHANGED place
    BY <2>1, <2>2, Zenon DEF StackInv, CpuInv
  <2>3. CASE place' = [place EXCEPT ![running] = "sound_wait"]
    <3>1. CpuFits("sound_wait", int_flag')
      <4>1. CpuFits("irq", int_flag)
        BY <1>1 DEF CpuInv
      <4>2. QED
        BY <2>1, <4>1, Zenon
           DEF CpuFits, OnPlaces, OffPlaces, AwayPlaces
    <3>2. /\ Height("irq") <= Height("sound_wait")
          /\ "irq" \notin Ground /\ "sound_wait" \in Places
          /\ Under("irq") \subseteq Under("sound_wait")
      BY InterruptsAssumption DEF Height, Ground, Under, Places
    <3>3. QED
      BY <1>1, <2>1, <2>3, <3>1, <3>2, MoveKeeps
  <2>4. QED
    BY <1>5, <2>2, <2>3 DEF ServeSound
<1>6. CASE ServeTimer
  BY <1>2, <1>3, <1>6, Zenon DEF ServeTimer
<1>7. CASE ServeFunctionKey
  BY <1>2, <1>3, <1>7, Zenon DEF ServeFunctionKey
<1>8. CASE ServeKey \/ ServeRtc \/ ServeMouse \/ ServeGeneral
  BY <1>2, <1>8, Zenon DEF ServeKey, ServeRtc, ServeMouse, ServeGeneral
<1>9. CASE ServeCtrlC
  BY <1>4, <1>9, Zenon DEF ServeCtrlC
<1>10. QED
  BY <1>5, <1>6, <1>7, <1>8, <1>9 DEF Handler

LEMMA CodeKeeps ==
    ASSUME StackInv, CpuInv, Code
    PROVE  StackInv' /\ CpuInv'
<1>1. ASSUME NEW p \in Places, NEW q \in Places, NEW flag,
             Step(p), Save(running, q, flag),
             p \in Under(q), Height(p) + 1 <= Height(q), CpuFits(q, flag)
      PROVE  StackInv' /\ CpuInv'
  <2>1. place[running] = p /\ UNCHANGED running
    BY <1>1 DEF Step
  <2>2. QED
    BY <1>1, <2>1, SaveKeeps
<1>2. CASE SysCall
  <2>1. /\ "user" \in Under("sys") /\ Height("user") + 1 <= Height("sys")
        /\ CpuFits("sys", TRUE) /\ {"user", "sys"} \subseteq Places
    BY InterruptsAssumption
       DEF Under, Height, CpuFits, OffPlaces, AwayPlaces, Places
  <2>2. Step("user") /\ Save(running, "sys", TRUE)
    BY <1>2 DEF SysCall
  <2>3. QED
    BY <1>1, <2>1, <2>2
<1>3. CASE CliSave
  <2>1. /\ "sys" \in Under("cli") /\ Height("sys") + 1 <= Height("cli")
        /\ CpuFits("cli", FALSE) /\ {"sys", "cli"} \subseteq Places
    BY InterruptsAssumption
       DEF Under, Height, CpuFits, OnPlaces, AwayPlaces, Places
  <2>2. Step("sys") /\ Save(running, "cli", FALSE)
    BY <1>3 DEF CliSave
  <2>3. QED
    BY <1>1, <2>1, <2>2
<1>4. CASE SysReturn \/ CliRestore \/ ErrorReturn \/ ExecuteReturn
  BY <1>4, RestoreKeeps
     DEF SysReturn, CliRestore, ErrorReturn, ExecuteReturn, Step
<1>5. CASE SysHalt \/ Exception
  BY <1>5, HaltKeeps DEF SysHalt, Exception, Step
<1>6. ASSUME NEW p \in OnPlaces \ {"user"}, NEW q \in OnPlaces \ {"user"},
             Step(p), place' = [place EXCEPT ![running] = q],
             UNCHANGED <<int_flag, stack>>
      PROVE  StackInv' /\ CpuInv'
  <2>1. place[running] = p /\ UNCHANGED running
    BY <1>6 DEF Step
  <2>2. /\ Height(p) <= Height(q) /\ p \notin Ground /\ q \in Places
        /\ Under(p) \subseteq Under(q)
    BY <1>6, InterruptsAssumption
       DEF OnPlaces, Height, Ground, Under, Places
  <2>3. int_flag
    BY <1>6, <2>1, Zenon DEF CpuInv, CpuFits
  <2>4. int_flag' \in BOOLEAN /\ int_flag'
    BY <1>6, <2>3, Zenon DEF CpuInv, CpuFits
  <2>5. q \notin AwayPlaces
    BY <1>6 DEF OnPlaces, AwayPlaces
  <2>6. q \notin OffPlaces
    BY <1>6 DEF OnPlaces, OffPlaces
  <2>7. CpuFits(q, int_flag')
    BY <2>4, <2>5, <2>6, Zenon DEF CpuFits
  <2>8. QED
    BY <1>6, <2>1, <2>2, <2>7, MoveKeeps
<1>7. CASE RtcWait \/ RtcWake
  <2>1. {"sys", "rtc_wait"} \subseteq OnPlaces \ {"user"}
    BY DEF OnPlaces
  <2>2. QED
    BY <1>6, <1>7, <2>1 DEF RtcWait, RtcWake
<1>8. QED
  BY <1>2, <1>3, <1>4, <1>5, <1>7, BootKeeps, ExecuteKeeps DEF Code

LEMMA StackStep ==
    ASSUME StackInv, CpuInv, [Next]_vars
    PROVE  StackInv' /\ CpuInv'
<1>1. CASE UNCHANGED <<running, place, stack, int_flag>>
  BY <1>1, Zenon DEF StackInv, CpuInv
<1>2. ASSUME NEW line \in Devices, Raise(line)
      PROVE  StackInv' /\ CpuInv'
  BY <1>1, <1>2, Zenon DEF Raise
<1>3. CASE Interrupt
  BY <1>3, TakenKeeps DEF Interrupt, Deliver, Withdrawn
<1>4. QED
  BY <1>1, <1>2, <1>3, HandlerKeeps, CodeKeeps DEF Next, vars

-----------------------------------------------------------------------------
(* The controllers: what is in service belongs to the handler that runs.      *)

Own(line) == IF line \in Devices THEN {line, Level(line)} ELSE {}

Left == IF withdrawn THEN {Cascade} ELSE {}

AckInv ==
    /\ serving # NoLine => place[running] \in {"irq", "sound_wait"}
    /\ isr \subseteq Own(serving) \cup Left

LEMMA SendEoiOwn ==
    ASSUME NEW line \in Devices \cup {7, 15}
    PROVE  /\ line \in Devices => SendEoi(isr, line) = isr \ Own(line)
           /\ SendEoi(isr, line) \subseteq isr
           /\ line \notin Devices => Own(line) = {}
           /\ Own(NoLine) = {}
BY DEF SendEoi, Own, Level, Devices, Timer, Keyboard, Cascade, Sound, Rtc,
       Mouse, NoLine

LEMMA AckStep ==
    ASSUME StackInv, CpuInv, AckInv, [Next]_vars
    PROVE  AckInv'
<1>1. CASE UNCHANGED <<serving, place, running, isr, withdrawn>>
  BY <1>1, Zenon DEF AckInv, Left
<1>2. ASSUME NEW line \in Devices, Deliver(line) \/ Withdrawn(line)
      PROVE  AckInv'
  <2>1. /\ place'[running'] = "irq"
        /\ place[running] \notin {"irq", "sound_wait"}
    BY <1>2, TakenKeeps DEF Deliver, Withdrawn
  <2>2. isr \subseteq Left
    <3>1. serving = NoLine
      BY <2>1 DEF AckInv
    <3>2. Own(NoLine) = {}
      BY SendEoiOwn
    <3>3. QED
      BY <3>1, <3>2 DEF AckInv
  <2>3. CASE Deliver(line)
    <3>1. isr' = isr \cup Own(line) /\ serving' = line /\ Left' = Left
      BY <2>3 DEF Deliver, Own, Left
    <3>2. QED
      BY <2>1, <2>2, <3>1 DEF AckInv
  <2>4. CASE Withdrawn(line)
    <3>1. /\ withdrawn' = (withdrawn \/ line = Mouse)
          /\ isr' = IF line = Mouse THEN isr \cup {Cascade} ELSE isr
      BY <2>4 DEF Withdrawn
    <3>2. isr' \subseteq Left'
      BY <2>2, <3>1 DEF Left
    <3>3. QED
      BY <2>1, <3>2 DEF AckInv
  <2>5. QED
    BY <1>2, <2>3, <2>4
<1>3. ASSUME NEW line \in Devices, Serve(line), isr' \subseteq SendEoi(isr, line)
      PROVE  AckInv'
  <2>1. isr \subseteq Own(line) \cup Left
    BY <1>3 DEF Serve, AckInv
  <2>2. isr' \subseteq Left /\ Own(NoLine) = {}
    BY <1>3, <2>1, SendEoiOwn
  <2>3. serving' = NoLine /\ Left' = Left
    BY <1>3 DEF Serve, Left
  <2>4. QED
    BY <2>2, <2>3 DEF AckInv
<1>4. CASE ServeGeneral
  <2>1. PICK line \in {7, 15} : Serve(line)
    BY <1>4 DEF ServeGeneral
  <2>2. line \notin Devices /\ Timer \in Devices
    BY DEF Devices, Timer, Keyboard, Sound, Rtc, Mouse
  <2>3. isr \subseteq Left
    BY <2>1, <2>2, SendEoiOwn DEF Serve, AckInv
  <2>4. isr' \subseteq isr /\ Own(NoLine) = {}
    BY <1>4, <2>2, SendEoiOwn DEF ServeGeneral
  <2>5. serving' = NoLine /\ Left' = Left
    BY <2>1 DEF Serve, Left
  <2>6. QED
    BY <2>3, <2>4, <2>5 DEF AckInv
<1>5. CASE ServeSound
  <2>1. /\ place[running] = "irq" /\ running \in Terms
        /\ UNCHANGED <<running, serving, isr, withdrawn>>
        /\ UNCHANGED place \/ place' = [place EXCEPT ![running] = "sound_wait"]
    BY <1>5 DEF ServeSound, StackInv, pic
  <2>2. place'[running'] \in {"irq", "sound_wait"}
    BY <2>1 DEF StackInv
  <2>3. QED
    BY <2>1, <2>2 DEF AckInv, Left
<1>6. CASE Handler
  <2>1. {Timer, Keyboard, Rtc, Mouse} \subseteq Devices
    BY DEF Devices
  <2>2. SendEoi(SendEoi(isr, Keyboard), Keyboard) \subseteq SendEoi(isr, Keyboard)
    BY DEF SendEoi
  <2>3. CASE ServeTimer \/ ServeRtc \/ ServeMouse
    BY <1>3, <2>1, <2>3 DEF ServeTimer, ServeRtc, ServeMouse
  <2>4. CASE ServeKey \/ ServeCtrlC \/ ServeFunctionKey
    BY <1>3, <2>1, <2>2, <2>4
       DEF ServeKey, ServeCtrlC, AfterCtrlC, ServeFunctionKey
  <2>5. QED
    BY <1>4, <1>5, <1>6, <2>3, <2>4 DEF Handler
<1>7. CASE Code
  <2>1. place[running] \notin {"irq", "sound_wait"}
    BY <1>7 DEF Code, BootStep, SysCall, SysReturn, CliSave, CliRestore,
       ErrorReturn, Execute, ExecuteReturn, SysHalt, Exception, RtcWait,
       RtcWake, Step
  <2>2. UNCHANGED <<serving, isr, withdrawn>>
    BY <1>7 DEF Code, BootStep, SysCall, SysReturn, CliSave, CliRestore,
       ErrorReturn, Execute, ExecuteReturn, SysHalt, Exception, RtcWait,
       RtcWake, Step, pic
  <2>3. QED
    BY <2>1, <2>2 DEF AckInv, Left
<1>8. ASSUME NEW line \in Devices, Raise(line)
      PROVE  AckInv'
  BY <1>1, <1>8, Zenon DEF Raise
<1>9. CASE UNCHANGED vars
  BY <1>1, <1>9 DEF vars, pic
<1>10. QED
  BY <1>2, <1>6, <1>7, <1>8, <1>9 DEF Next, Interrupt

-----------------------------------------------------------------------------
(* The registers.                                                             *)

PicOK ==
    /\ imr \subseteq Lines /\ irr \subseteq Devices /\ isr \subseteq Lines
    /\ burst \subseteq Devices /\ irr \subseteq burst
    /\ reg_c \in BOOLEAN

RegsOK ==
    /\ sched \in Builds
    /\ PicOK
    /\ booted \in 0 .. 8
    /\ serving \in Lines \cup {NoLine}
    /\ intr_occ \in BOOLEAN

LEMMA LineTypes ==
    /\ Devices \subseteq Lines /\ Cascade \in Lines
    /\ {7, 15} \subseteq Lines
    /\ \A line \in Devices : Level(line) \in Lines
BY DEF Devices, Lines, Level, Timer, Keyboard, Cascade, Sound, Rtc, Mouse

LEMMA RegsStep ==
    ASSUME RegsOK, [Next]_vars
    PROVE  RegsOK'
<1>1. ASSUME NEW line \in Devices, Raise(line)
      PROVE  RegsOK'
  BY <1>1, Zenon DEF Raise, On, RegsOK, PicOK
<1>2. ASSUME NEW line \in Devices, Taken(line),
             isr' \subseteq Lines, reg_c' = reg_c,
             serving' \in Lines
      PROVE  RegsOK'
  <2>1. irr' \subseteq Devices /\ burst' \subseteq Devices /\ irr' \subseteq burst'
    BY <1>2 DEF Taken, RegsOK, PicOK
  <2>2. QED
    BY <1>2, <2>1, Zenon DEF Taken, On, RegsOK, PicOK
<1>3. CASE Interrupt
  <2>1. PICK line \in Devices : Deliver(line) \/ Withdrawn(line)
    BY <1>3 DEF Interrupt
  <2>2. isr \subseteq Lines
    BY DEF RegsOK, PicOK
  <2>3. CASE Deliver(line)
    BY <1>2, <2>2, <2>3, LineTypes DEF Deliver
  <2>4. CASE Withdrawn(line)
    BY <1>2, <2>2, <2>4, LineTypes DEF Withdrawn
  <2>5. QED
    BY <2>1, <2>3, <2>4
<1>4. ASSUME NEW line, Serve(line), isr' \subseteq isr,
             reg_c' \in BOOLEAN, intr_occ' \in BOOLEAN
      PROVE  RegsOK'
  BY <1>4, Zenon DEF Serve, On, RegsOK, PicOK
<1>5. \A line : SendEoi(isr, line) \subseteq isr
  BY DEF SendEoi
<1>6. reg_c \in BOOLEAN /\ intr_occ \in BOOLEAN
  BY Zenon DEF RegsOK, PicOK
<1>7. CASE ServeTimer \/ ServeKey \/ ServeCtrlC \/ ServeMouse
  BY <1>4, <1>5, <1>6, <1>7, Zenon
     DEF ServeTimer, ServeKey, ServeCtrlC, AfterCtrlC, ServeMouse
<1>8. CASE ServeFunctionKey
  <2>1. SendEoi(SendEoi(isr, Keyboard), Keyboard) \subseteq isr
    BY DEF SendEoi
  <2>2. QED
    BY <1>4, <1>6, <1>8, <2>1, Zenon DEF ServeFunctionKey
<1>9. CASE ServeRtc
  BY <1>4, <1>5, <1>9, Zenon DEF ServeRtc, AfterRtc
<1>10. CASE ServeGeneral
  BY <1>4, <1>5, <1>6, <1>10, Zenon DEF ServeGeneral
<1>11. CASE ServeSound
  BY <1>11, Zenon DEF ServeSound, On, pic, RegsOK, PicOK
<1>12. CASE BootStep
  <2>1. booted \in 0 .. 8 /\ booted' = booted + 1 /\ booted <= 7
    BY <1>12 DEF BootStep, RegsOK
  <2>2. booted' \in 0 .. 8
    BY <2>1
  <2>3. imr' \subseteq Lines
    BY <1>12 DEF BootStep, EnableIrq, RegsOK, PicOK
  <2>4. QED
    BY <1>12, <2>2, <2>3, Zenon DEF BootStep, On, RegsOK, PicOK
<1>13. ASSUME NEW from, Step(from), intr_occ' \in BOOLEAN
       PROVE  RegsOK'
  BY <1>13, Zenon DEF Step, On, pic, RegsOK, PicOK
<1>14. CASE \/ SysCall \/ SysReturn \/ CliSave \/ CliRestore \/ ErrorReturn
            \/ Execute \/ ExecuteReturn \/ SysHalt \/ Exception \/ RtcWait
  BY <1>6, <1>13, <1>14, Zenon
     DEF SysCall, SysReturn, CliSave, CliRestore, ErrorReturn, Execute,
         ExecuteReturn, SysHalt, Exception, RtcWait
<1>15. CASE RtcWake
  BY <1>13, <1>15, Zenon DEF RtcWake
<1>16. CASE UNCHANGED vars
  BY <1>16, Zenon DEF vars, pic, RegsOK, PicOK
<1>17. QED
  BY <1>1, <1>3, <1>7, <1>8, <1>9, <1>10, <1>11, <1>12, <1>14, <1>15, <1>16
     DEF Next, Handler, Code

-----------------------------------------------------------------------------
(* The theorems.                                                              *)

InterruptsInv == RegsOK /\ StackInv /\ CpuInv /\ AckInv

LEMMA InitInterruptsInv ==
    Init => InterruptsInv
<1> SUFFICES ASSUME Init PROVE InterruptsInv
  OBVIOUS
<1>1. RegsOK
  <2>1. booted \in 0 .. 8
    BY DEF Init
  <2>2. PicOK
    BY Zenon DEF Init, PicOK
  <2>3. QED
    BY <2>1, <2>2, Zenon DEF Init, RegsOK
<1>2. /\ stack = [t \in Terms |-> <<>>] /\ running = 0 /\ 0 \in Terms
      /\ \A t \in Terms : place[t] \in {"boot", "closed"}
      /\ place \in [Terms -> Places] /\ place[0] = "boot"
  BY InterruptsAssumption DEF Init, Places
<1>3. \A p \in {"boot", "closed"} : Shaped(<<>>, p)
  <2> TAKE p \in {"boot", "closed"}
  <2>1. <<>> \in Seq(Frame) /\ Len(<<>>) = 0
    OBVIOUS
  <2>2. Fits(<<>>, p, 1)
    BY <2>1 DEF Fits, At, Height, Ground
  <2>3. QED
    BY <2>1, <2>2 DEF Shaped, Places
<1>4. StackInv
  BY <1>2, <1>3 DEF StackInv
<1>5. CpuFits("boot", FALSE)
  BY DEF CpuFits, OnPlaces, AwayPlaces
<1>6. CpuInv
  BY <1>2, <1>5, Zenon DEF Init, CpuInv
<1>7. AckInv
  BY DEF Init, AckInv
<1>8. QED
  BY <1>1, <1>4, <1>6, <1>7 DEF InterruptsInv

LEMMA InterruptsInvCorrect ==
    Spec => []InterruptsInv
<1>1. InterruptsInv /\ [Next]_vars => InterruptsInv'
  BY StackStep, AckStep, RegsStep, Zenon DEF InterruptsInv
<1>2. QED
  BY <1>1, InitInterruptsInv, PTL DEF Spec

(* Every variable keeps its type, and no stack grows beyond what the programs *)
(* on it need: at most three frames for each, and two for a handler inside a  *)
(* system call, whatever handlers, errors, halts and switches it has seen.    *)
THEOREM TypeCorrect == Spec => []TypeOK
<1>1. InterruptsInv => TypeOK
  <2> SUFFICES ASSUME InterruptsInv PROVE TypeOK
    OBVIOUS
  <2>1. RegsOK /\ StackInv /\ CpuInv
    BY Zenon DEF InterruptsInv
  <2>2. ASSUME NEW t \in Terms
        PROVE  /\ \A k \in 1 .. Len(stack[t]) : stack[t][k] \in Frame
               /\ Len(stack[t]) <= 3 * MAX_PROGRAMS + 2
    <3>1. stack[t] \in Seq(Frame) /\ Shaped(stack[t], place[t])
      BY <2>1 DEF StackInv
    <3>2. /\ Len(stack[t]) \in Nat
          /\ Len(stack[t]) + 1 <= Height(place[t])
      BY <3>1, ShapedLength
    <3>3. Height(place[t]) \in Nat /\ Height(place[t]) <= 3 * MAX_PROGRAMS + 3
      BY InterruptsAssumption DEF Height
    <3>4. Len(stack[t]) <= 3 * MAX_PROGRAMS + 2
      BY <3>2, <3>3, InterruptsAssumption
    <3>5. QED
      BY <3>1, <3>4, ElementOfSeq
  <2>3. int_flag \in BOOLEAN
    BY <2>1, Zenon DEF CpuInv, CpuFits
  <2>4. QED
    BY <2>1, <2>2, <2>3, Zenon DEF TypeOK, RegsOK, PicOK, StackInv, Frame
<1>2. QED
  BY <1>1, InterruptsInvCorrect, PTL

(* A handler that has been left, whichever way, has acknowledged its          *)
(* interrupt at both controllers (send_eoi in every handler of drivers/ and   *)
(* idt.c), so that no line stays blocked.                                     *)
THEOREM AllAcknowledgedCorrect == Spec => []AllAcknowledged
<1>1. InterruptsInv => AllAcknowledged
  BY SendEoiOwn DEF InterruptsInv, AckInv, AllAcknowledged, Left
<1>2. QED
  BY <1>1, InterruptsInvCorrect, PTL

(* User code and the wait of rtc_read run with the interrupt flag set: every  *)
(* frame that leads back to them saved it set.                                *)
THEOREM InterruptibleCorrect == Spec => []Interruptible
<1>1. InterruptsInv => Interruptible
  BY Zenon DEF InterruptsInv, CpuInv, CpuFits, OnPlaces, Interruptible
<1>2. QED
  BY <1>1, InterruptsInvCorrect, PTL
=============================================================================
