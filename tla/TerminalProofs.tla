--------------------------- MODULE TerminalProofs ---------------------------
(* Theorems about Terminal, for any number of terminals, any length of the    *)
(* buffer, any keys, file names and outputs.                                  *)
EXTENDS Terminal, SequenceTheorems, TLAPS

-----------------------------------------------------------------------------
(* The invariant.                                                             *)

Bytes == AllChars \cup {NUL}

Types ==
    /\ active_terminal \in Terms
    /\ keyboard_buf \in [Cells -> Bytes]
    /\ num_chars_in_buf \in [Terms -> 0 .. MAX_CHARS_IN_BUF + 1]
    /\ read_buf_ready \in [Terms -> BOOLEAN]
    /\ pc \in [Terms -> Labels]
    /\ out \in [Terms -> Seq(OutChars)]
    /\ loaded \in [Terms -> 0 .. MAX_CHARS_IN_BUF + 1]
    /\ nbytes \in [Terms -> ReadSizes \cup {0}]
    /\ got \in [Terms -> Seq(Bytes)]
    /\ line \in [Terms -> Seq(AllChars)]
    /\ clean \in [Terms -> BOOLEAN]

(* Where the program is in a system call, and what it has in hand there.      *)
CallInv(t) ==
    /\ pc[t] \in {"store", "load"} => num_chars_in_buf[t] <= MAX_CHARS_IN_BUF
    /\ pc[t] = "incr" => loaded[t] <= MAX_CHARS_IN_BUF
    /\ pc[t] \in {"store", "load", "incr"} => out[t] # <<>>
    /\ pc[t] = "copy" => Len(got[t]) <= nbytes[t]
    /\ pc[t] \in {"zero_r", "ready_r"} => Len(got[t]) = nbytes[t] + 1
    /\ pc[t] \notin {"copy", "zero_r", "ready_r"} => got[t] = <<>>
    /\ pc[t] \in {"copy", "zero_r"} => read_buf_ready[t]

(* Where the line is in the buffer, and where it is being taken out of it.    *)
Editing == {"user", "wait", "ready_r", "ready_w"}
Taking == {"copy", "zero_r"}

Row(t, i) == keyboard_buf[Cell(t, i - 1)]
Entered(t, i) == IF i <= Len(line[t]) THEN line[t][i] ELSE NUL

LineInv(t) ==
    clean[t] =>
        /\ pc[t] \in Editing \cup Taking =>
              num_chars_in_buf[t] = Len(line[t]) /\ Len(line[t]) <= MAX_CHARS_IN_BUF
        /\ pc[t] \in Editing =>
              \A i \in 1 .. Len(line[t]) : Row(t, i) = line[t][i]
        /\ pc[t] \in {"user", "wait"} /\ read_buf_ready[t] =>
              \A i \in Len(line[t]) + 1 .. MAX_CHARS_IN_BUF : Row(t, i) = NUL
        /\ pc[t] \in Taking =>
              \A i \in 1 .. MAX_CHARS_IN_BUF :
                  Entered(t, i) = IF i <= Len(got[t]) THEN got[t][i] ELSE Row(t, i)

TerminalInv == Types /\ \A t \in Terms : CallInv(t) /\ LineInv(t)

-----------------------------------------------------------------------------
(* The rows of the block of memory.                                           *)

LEMMA Rows ==
    /\ MAX_CHARS_IN_BUF \in Nat \ {0}
    /\ \A t \in Terms :
          /\ Cell(t, 0) \in Nat
          /\ \A i \in Int : Cell(t, i) = Cell(t, 0) + i
          /\ \A i \in 0 .. MAX_CHARS_IN_BUF : Cell(t, i) \in Cells
          /\ \A i \in Nat : i < MAX_CHARS_IN_BUF + BEHIND => Cell(t, i) \in Cells
    /\ \A t, u \in Terms : t < u => Cell(t, 0) + MAX_CHARS_IN_BUF <= Cell(u, 0)
<1> DEFINE M == MAX_CHARS_IN_BUF
<1>1. M \in Nat \ {0} /\ NUM_TERMINALS \in Nat \ {0} /\ BEHIND \in Nat \ {0}
  BY TerminalAssumption
<1>2. \A t, u \in Int : 0 <= t /\ t < u => t * M + M <= u * M
  <2> SUFFICES ASSUME NEW t \in Int, NEW u \in Int, 0 <= t, t < u
               PROVE  t * M + M <= u * M
    OBVIOUS
  <2> DEFINE d == u - t - 1
  <2>1. d \in Nat /\ u = t + 1 + d
    OBVIOUS
  <2> HIDE DEF d
  <2>2. u * M = t * M + M + d * M
    BY <1>1, <2>1
  <2>3. t * M \in Int /\ d * M >= 0
    BY <1>1, <2>1
  <2>4. QED
    BY <1>1, <2>2, <2>3
<1>3. \A t \in Terms : t \in Nat /\ t < NUM_TERMINALS
  BY <1>1 DEF Terms
<1>4. \A t \in Terms : t * M \in Nat /\ t * M + M <= NUM_TERMINALS * M
  BY <1>1, <1>2, <1>3
<1>5. \A t \in Terms : \A i \in Int : Cell(t, 0) = t * M /\ Cell(t, i) = t * M + i
  BY <1>4 DEF Cell
<1>6. \A t \in Terms : \A i \in Nat : i < M + BEHIND => Cell(t, i) \in Cells
  <2> SUFFICES ASSUME NEW t \in Terms, NEW i \in Nat, i < M + BEHIND
               PROVE  Cell(t, i) \in 0 .. NUM_TERMINALS * M + BEHIND - 1
    BY DEF Cells
  <2> DEFINE b == t * M
             e == NUM_TERMINALS * M
  <2>1. b \in Nat /\ b + M <= e /\ e \in Nat /\ Cell(t, i) = b + i
    BY <1>1, <1>4, <1>5
  <2> HIDE DEF b, e
  <2>2. Cell(t, i) \in 0 .. e + BEHIND - 1
    BY <1>1, <2>1
  <2>3. QED
    BY <2>2 DEF e
<1>7. \A i \in 0 .. M : i \in Nat /\ i < M + BEHIND
  BY <1>1
<1>8. QED
  BY <1>1, <1>2, <1>3, <1>4, <1>5, <1>6, <1>7

(* What Follow, the history of the lines, does.                               *)
LEMMA Followed ==
    ASSUME Types, NEW t \in Terms, NEW l \in Seq(AllChars), NEW last, NEW late,
           Follow(t, l, last, late)
    PROVE  /\ clean' \in [Terms -> BOOLEAN]
           /\ line' \in [Terms -> Seq(AllChars)]
           /\ clean'[t] => clean[t] /\ ~ late /\ line'[t] = l
           /\ \A u \in Terms \ {t} : clean'[u] =>
                 clean[u] /\ line'[u] = line[u] /\ (u > t => last < Cell(u, 0))
<1>1. clean' = [u \in Terms |-> /\ clean[u]
                                /\ u = t => ~ late
                                /\ u > t => last < Cell(u, 0)]
  BY Zenon DEF Follow
<1>2. line' = [u \in Terms |->
          IF ~ clean'[u] THEN <<>> ELSE IF u = t THEN l ELSE line[u]]
  BY Zenon DEF Follow
<1>3. clean' \in [Terms -> BOOLEAN]
  BY <1>1, Zenon
<1>4. line' \in [Terms -> Seq(AllChars)]
  BY <1>2 DEF Types
<1>5. QED
  BY <1>1, <1>2, <1>3, <1>4, Zenon

-----------------------------------------------------------------------------
(* The keyboard interrupt.                                                    *)

(* Terminal t's keys leave the programs of the others alone; their own where  *)
(* it is.                                                                     *)
CallsInv == \A t \in Terms : CallInv(t)

LEMMA ConstantTypes ==
    /\ Chars \subseteq AllChars /\ OutChars \subseteq AllChars
    /\ AllChars \subseteq Bytes /\ NUL \in Bytes
    /\ ReadSizes \subseteq Nat
    /\ \A k \in 1 .. Len(Names) : Names[k] \in Seq(AllChars)
    /\ \A w \in Outputs : w \in Seq(OutChars)
BY TerminalAssumption DEF AllChars, Bytes

LEMMA KeyTypes ==
    ASSUME Types, CallsInv, UNCHANGED progVars,
           active_terminal' \in Terms,
           keyboard_buf' \in [Cells -> Bytes],
           read_buf_ready' \in [Terms -> BOOLEAN],
           \A u \in Terms : read_buf_ready[u] => read_buf_ready'[u],
           NEW t \in Terms, NEW n \in 0 .. MAX_CHARS_IN_BUF + 1,
           num_chars_in_buf' = [num_chars_in_buf EXCEPT ![t] = n],
           n <= MAX_CHARS_IN_BUF \/ n = num_chars_in_buf[t],
           line' \in [Terms -> Seq(AllChars)], clean' \in [Terms -> BOOLEAN]
    PROVE  Types' /\ CallsInv'
<1>1. Types'
  BY DEF Types, progVars
<1>2. ASSUME NEW u \in Terms PROVE CallInv(u)'
  <2>1. UNCHANGED <<pc[u], loaded[u], out[u], got[u], nbytes[u]>>
    BY DEF progVars
  <2>2. CallInv(u)
    BY DEF CallsInv
  <2>3. num_chars_in_buf[u] <= MAX_CHARS_IN_BUF => num_chars_in_buf'[u] <= MAX_CHARS_IN_BUF
    BY DEF Types
  <2>4. QED
    BY <2>1, <2>2, <2>3 DEF CallInv
<1>3. QED
  BY <1>1, <1>2 DEF CallsInv

LEMMA Requested ==
    ASSUME Types, NEW t \in Terms
    PROVE  nbytes[t] \in Nat /\ nbytes[t] < MAX_CHARS_IN_BUF + BEHIND
<1>1. nbytes[t] \in ReadSizes \cup {0}
  BY DEF Types
<1>2. 0 \in Nat /\ 0 < MAX_CHARS_IN_BUF + BEHIND
  BY TerminalAssumption
<1>3. \A n \in ReadSizes : n \in Nat /\ n < MAX_CHARS_IN_BUF + BEHIND
  BY TerminalAssumption
<1>4. QED
  BY <1>1, <1>2, <1>3

(* What an action makes of the line of a terminal it is not about.            *)
LEMMA OtherLine ==
    ASSUME Types, NEW t \in Terms, NEW u \in Terms \ {t}, CallInv(u), LineInv(u),
           NEW last \in Int,
           UNCHANGED <<num_chars_in_buf[u], read_buf_ready[u], pc[u], got[u],
                       nbytes[u]>>,
           clean'[u] => clean[u] /\ line'[u] = line[u] /\ (u > t => last < Cell(u, 0)),
           \A c \in Cells : c < Cell(t, 0) \/ last < c =>
                keyboard_buf'[c] = keyboard_buf[c]
    PROVE  LineInv(u)'
<1> SUFFICES ASSUME clean'[u]
             PROVE  LineInv(u)'
  BY DEF LineInv
<1>1. MAX_CHARS_IN_BUF \in Nat
  BY TerminalAssumption
<1>2. clean[u] /\ line'[u] = line[u] /\ (u > t => last < Cell(u, 0)) /\ u # t
  OBVIOUS
<1> DEFINE n == Len(line[u])
<1>3. n \in Nat
  BY LenProperties DEF Types
<1> HIDE DEF n
<1>5. ASSUME NEW i \in 1 .. MAX_CHARS_IN_BUF PROVE Row(u, i)' = Row(u, i)
  <2>1. /\ i - 1 \in 0 .. MAX_CHARS_IN_BUF /\ MAX_CHARS_IN_BUF \in Nat /\ i \in Int
        /\ 1 <= i /\ i <= MAX_CHARS_IN_BUF
    BY Rows
  <2>2. Cell(u, i - 1) \in Cells /\ Cell(u, i - 1) = Cell(u, 0) + i - 1
        /\ Cell(u, 0) \in Nat /\ Cell(t, 0) \in Nat
        /\ Cell(t, MAX_CHARS_IN_BUF) = Cell(t, 0) + MAX_CHARS_IN_BUF
    BY <2>1, Rows
  <2>3. CASE u < t
    <3>1. Cell(u, 0) + MAX_CHARS_IN_BUF <= Cell(t, 0)
      BY <2>3, Rows
    <3>2. Cell(u, i - 1) < Cell(t, 0)
      BY <2>1, <2>2, <3>1
    <3>3. QED
      BY <2>2, <3>2 DEF Row
  <2>4. CASE t < u
    <3>1. last < Cell(u, i - 1)
      BY <1>2, <2>1, <2>2, <2>4
    <3>2. QED
      BY <2>2, <3>1 DEF Row
  <2>5. QED
    BY <1>2, <2>3, <2>4, TerminalAssumption DEF Terms
<1>6. n <= MAX_CHARS_IN_BUF => \A i \in 1 .. n : i \in 1 .. MAX_CHARS_IN_BUF
  BY <1>1, <1>3
<1>7. \A i \in n + 1 .. MAX_CHARS_IN_BUF : i \in 1 .. MAX_CHARS_IN_BUF
  BY <1>1, <1>3
<1>9. \A i : Entered(u, i)' = Entered(u, i)
  BY <1>2 DEF Entered
<1>10. LineInv(u) /\ clean[u]
  BY <1>2
<1>11. QED
  BY <1>2, <1>5, <1>6, <1>7, <1>9, <1>10 DEF LineInv, Row, Entered, n

(* Its own line, when the terminal's buffer has not been entered: nothing is  *)
(* being read from it.                                                        *)
LEMMA EditedLine ==
    ASSUME Types, NEW t \in Terms, CallInv(t), UNCHANGED progVars,
           read_buf_ready'[t] = read_buf_ready[t],
           clean'[t] => ~ read_buf_ready[t],
           clean'[t] /\ pc[t] \in Editing =>
               /\ num_chars_in_buf'[t] = Len(line'[t])
               /\ Len(line'[t]) <= MAX_CHARS_IN_BUF
               /\ \A i \in 1 .. Len(line'[t]) :
                     keyboard_buf'[Cell(t, i - 1)] = line'[t][i]
    PROVE  LineInv(t)'
<1>1. pc'[t] = pc[t]
  BY DEF progVars
<1>2. ~ read_buf_ready[t] => pc[t] \notin Taking
  BY DEF CallInv, Taking
<1>3. {"user", "wait"} \subseteq Editing
  BY DEF Editing
<1>4. QED
  BY <1>1, <1>2, <1>3 DEF LineInv, Row

LEMMA OtherCalls ==
    ASSUME TerminalInv, NEW t \in Terms,
           \A u \in Terms \ {t} :
               UNCHANGED <<num_chars_in_buf[u], read_buf_ready[u], pc[u], out[u],
                           loaded[u], got[u], nbytes[u]>>
    PROVE  \A u \in Terms \ {t} : CallInv(u)'
<1>1. ASSUME NEW u \in Terms \ {t} PROVE CallInv(u)'
  BY DEF TerminalInv, CallInv
<1>2. QED
  BY <1>1

LEMMA AllLines ==
    ASSUME TerminalInv, NEW t \in Terms, LineInv(t)',
           NEW last \in Int,
           \A u \in Terms \ {t} :
               /\ UNCHANGED <<num_chars_in_buf[u], read_buf_ready[u], pc[u],
                              got[u], nbytes[u]>>
               /\ clean'[u] => clean[u] /\ line'[u] = line[u]
                               /\ (u > t => last < Cell(u, 0)),
           \A c \in Cells : c < Cell(t, 0) \/ last < c =>
                keyboard_buf'[c] = keyboard_buf[c]
    PROVE  \A u \in Terms : LineInv(u)'
<1>1. ASSUME NEW u \in Terms \ {t} PROVE LineInv(u)'
  <2>1. Types /\ CallInv(u) /\ LineInv(u)
    BY DEF TerminalInv
  <2>2. QED
    BY <2>1, OtherLine
<1>2. QED
  BY <1>1

LEMMA KeyCharStep ==
    ASSUME TerminalInv, NEW t \in Terms, t = active_terminal,
           NEW c \in Chars, KeyChar(c)
    PROVE  TerminalInv'
<1> DEFINE n == num_chars_in_buf[t]
           l == Append(line[t], c)
<1>1. /\ n < MAX_CHARS_IN_BUF
      /\ keyboard_buf' = [keyboard_buf EXCEPT ![Cell(t, n)] = c]
      /\ num_chars_in_buf' = [num_chars_in_buf EXCEPT ![t] = n + 1]
      /\ Follow(t, l, Cell(t, n), read_buf_ready[t])
      /\ UNCHANGED <<active_terminal, read_buf_ready, progVars>>
  BY Zenon DEF KeyChar, HasRoom
<1>2. Types /\ CallsInv /\ \A u \in Terms : CallInv(u) /\ LineInv(u)
  BY DEF TerminalInv, CallsInv, Types
<1>3. n \in 0 .. MAX_CHARS_IN_BUF + 1 /\ MAX_CHARS_IN_BUF \in Nat
  BY <1>2, Rows DEF Types
<1>4. c \in AllChars /\ c \in Bytes /\ line[t] \in Seq(AllChars)
  BY <1>2 DEF Types, AllChars, Bytes
<1> HIDE DEF n
<1>5. l \in Seq(AllChars) /\ Len(l) = Len(line[t]) + 1 /\ Len(line[t]) \in Nat
      /\ \A i \in 1 .. Len(l) : l[i] = IF i = Len(line[t]) + 1 THEN c ELSE line[t][i]
  BY <1>4
<1> HIDE DEF l
<1>6. n \in 0 .. MAX_CHARS_IN_BUF /\ n + 1 \in 0 .. MAX_CHARS_IN_BUF + 1
      /\ n + 1 <= MAX_CHARS_IN_BUF
  BY <1>1, <1>3
<1>7. Cell(t, n) \in Cells /\ Cell(t, n) = Cell(t, 0) + n /\ Cell(t, 0) \in Nat
      /\ Cell(t, MAX_CHARS_IN_BUF) = Cell(t, 0) + MAX_CHARS_IN_BUF
  BY <1>2, <1>3, <1>6, Rows
<1>8. /\ clean' \in [Terms -> BOOLEAN]
      /\ line' \in [Terms -> Seq(AllChars)]
      /\ clean'[t] => clean[t] /\ ~ read_buf_ready[t] /\ line'[t] = l
      /\ \A u \in Terms \ {t} : clean'[u] =>
            clean[u] /\ line'[u] = line[u] /\ (u > t => Cell(t, n) < Cell(u, 0))
  BY <1>1, <1>2, <1>5, Followed, Zenon
<1>9. Types' /\ CallsInv'
  <2>1. keyboard_buf' \in [Cells -> Bytes]
    BY <1>1, <1>2, <1>4 DEF Types
  <2>2. active_terminal' \in Terms /\ read_buf_ready' \in [Terms -> BOOLEAN]
        /\ \A u \in Terms : read_buf_ready[u] => read_buf_ready'[u]
    BY <1>1, <1>2 DEF Types
  <2>3. QED
    BY <1>1, <1>2, <1>6, <1>8, <2>1, <2>2, KeyTypes
<1>10. LineInv(t)'
  <2>1. ASSUME clean'[t], pc[t] \in Editing
        PROVE  /\ num_chars_in_buf'[t] = Len(line'[t])
               /\ Len(line'[t]) <= MAX_CHARS_IN_BUF
               /\ \A i \in 1 .. Len(line'[t]) :
                     keyboard_buf'[Cell(t, i - 1)] = line'[t][i]
    <3>1. n = Len(line[t]) /\ \A i \in 1 .. n : keyboard_buf[Cell(t, i - 1)] = line[t][i]
      BY <1>2, <1>8, <2>1 DEF LineInv, Row, n
    <3>2. num_chars_in_buf'[t] = n + 1
      BY <1>1, <1>2 DEF Types
    <3>3. ASSUME NEW i \in 1 .. n + 1
          PROVE  keyboard_buf'[Cell(t, i - 1)] = l[i]
      <4>1. i - 1 \in 0 .. MAX_CHARS_IN_BUF /\ i - 1 \in Int
        BY <1>3, <1>6
      <4>2. Cell(t, i - 1) \in Cells /\ Cell(t, i - 1) = Cell(t, 0) + (i - 1)
        BY <1>2, <4>1, Rows
      <4>3. CASE i = n + 1
        <5>1. Cell(t, i - 1) = Cell(t, n) /\ l[i] = c
          BY <1>5, <1>6, <3>1, <4>3
        <5>2. QED
          BY <1>1, <1>2, <1>7, <5>1 DEF Types
      <4>4. CASE i # n + 1
        <5>1. i \in 1 .. n /\ Cell(t, i - 1) # Cell(t, n)
          BY <1>6, <1>7, <4>2, <4>4
        <5>2. l[i] = line[t][i]
          BY <1>5, <1>6, <3>1, <4>4
        <5>3. QED
          BY <1>1, <1>2, <3>1, <4>2, <5>1, <5>2 DEF Types
      <4>5. QED
        BY <4>3, <4>4
    <3>4. line'[t] = l /\ Len(l) = n + 1
      BY <1>5, <1>8, <2>1, <3>1
    <3>5. QED
      BY <1>6, <3>2, <3>3, <3>4
  <2>2. QED
    BY <1>1, <1>2, <1>8, <2>1, EditedLine
<1>11. \A u \in Terms : LineInv(u)'
  <2>1. \A u \in Terms \ {t} :
          UNCHANGED <<num_chars_in_buf[u], read_buf_ready[u], pc[u], got[u], nbytes[u]>>
    BY <1>1, <1>2 DEF Types, progVars
  <2>2. Cell(t, n) \in Int /\ Cell(t, n) <= Cell(t, MAX_CHARS_IN_BUF)
    BY <1>3, <1>6, <1>7
  <2>3. \A d \in Cells : d < Cell(t, 0) \/ Cell(t, n) < d =>
           keyboard_buf'[d] = keyboard_buf[d]
    BY <1>1, <1>2, <1>6, <1>7 DEF Types, Cells
  <2>4. QED
    BY <1>8, <1>10, <2>1, <2>2, <2>3, AllLines
<1>12. QED
  BY <1>9, <1>11 DEF TerminalInv, CallsInv

LEMMA EnterStep ==
    ASSUME TerminalInv, NEW t \in Terms, t = active_terminal, Enter
    PROVE  TerminalInv'
<1> DEFINE n == num_chars_in_buf[t]
           M == MAX_CHARS_IN_BUF
<1>1. /\ keyboard_buf' = [c \in Cells |->
             IF Cell(t, n) <= c /\ c <= Cell(t, M) THEN NUL ELSE keyboard_buf[c]]
      /\ read_buf_ready' = [read_buf_ready EXCEPT ![t] = TRUE]
      /\ Follow(t, line[t], Cell(t, M), FALSE)
      /\ UNCHANGED <<active_terminal, num_chars_in_buf, progVars>>
  BY Zenon DEF Enter, Terminated
<1>2. Types /\ CallsInv /\ CallInv(t) /\ LineInv(t) /\ line[t] \in Seq(AllChars)
      /\ Len(line[t]) \in Nat
  BY DEF TerminalInv, CallsInv, Types
<1>3. n \in 0 .. M + 1 /\ M \in Nat
  BY <1>2, Rows DEF Types
<1>4. /\ clean' \in [Terms -> BOOLEAN]
      /\ line' \in [Terms -> Seq(AllChars)]
      /\ clean'[t] => clean[t] /\ line'[t] = line[t]
      /\ \A u \in Terms \ {t} : clean'[u] =>
            clean[u] /\ line'[u] = line[u] /\ (u > t => Cell(t, M) < Cell(u, 0))
  BY <1>1, <1>2, Followed, Zenon
<1> HIDE DEF n, M
<1>5. /\ Cell(t, 0) \in Nat /\ Cell(t, n) = Cell(t, 0) + n /\ Cell(t, M) = Cell(t, 0) + M
      /\ \A i \in 1 .. M : Cell(t, i - 1) \in Cells /\ Cell(t, i - 1) = Cell(t, 0) + (i - 1)
  BY <1>3, Rows DEF M
<1>6. Types' /\ CallsInv'
  <2>1. keyboard_buf' \in [Cells -> Bytes]
    BY <1>1, <1>2 DEF Types, Bytes
  <2>2. active_terminal' \in Terms /\ read_buf_ready' \in [Terms -> BOOLEAN]
        /\ \A u \in Terms : read_buf_ready[u] => read_buf_ready'[u]
    BY <1>1, <1>2 DEF Types
  <2>3. num_chars_in_buf' = [num_chars_in_buf EXCEPT ![t] = n]
    BY <1>1, <1>2 DEF Types, n
  <2>4. QED
    BY <1>1, <1>2, <1>3, <1>4, <2>1, <2>2, <2>3, KeyTypes DEF n, M
<1>7. \A i \in 1 .. M : keyboard_buf'[Cell(t, i - 1)] =
          IF i <= n THEN keyboard_buf[Cell(t, i - 1)] ELSE NUL
  <2> SUFFICES ASSUME NEW i \in 1 .. M
               PROVE  keyboard_buf'[Cell(t, i - 1)] =
                          IF i <= n THEN keyboard_buf[Cell(t, i - 1)] ELSE NUL
    OBVIOUS
  <2>1. Cell(t, i - 1) \in Cells /\ Cell(t, i - 1) = Cell(t, 0) + (i - 1)
    BY <1>5
  <2>2. Cell(t, n) <= Cell(t, i - 1) /\ Cell(t, i - 1) <= Cell(t, M) <=> ~ (i <= n)
    BY <1>3, <1>5, <2>1
  <2>3. QED
    BY <1>1, <2>1, <2>2
<1>8. LineInv(t)'
  <2> SUFFICES ASSUME clean'[t] PROVE LineInv(t)'
    BY DEF LineInv
  <2>1. clean[t] /\ line'[t] = line[t] /\ pc'[t] = pc[t] /\ got'[t] = got[t]
        /\ nbytes'[t] = nbytes[t] /\ num_chars_in_buf'[t] = n
    BY <1>1, <1>4 DEF progVars, n
  <2>2. pc[t] \in Editing \cup Taking => n = Len(line[t]) /\ n <= M
    BY <1>2, <2>1 DEF LineInv, n, M
  <2>3. pc'[t] \in Editing => \A i \in 1 .. Len(line'[t]) : Row(t, i)' = line'[t][i]
    BY <1>2, <1>3, <1>7, <2>1, <2>2 DEF LineInv, Row
  <2>4. pc'[t] \in {"user", "wait"} =>
            \A i \in Len(line'[t]) + 1 .. MAX_CHARS_IN_BUF : Row(t, i)' = NUL
    BY <1>2, <1>3, <1>7, <2>1, <2>2 DEF Row, Editing, M
  <2>5. ASSUME pc'[t] \in Taking, NEW i \in 1 .. M
        PROVE  Entered(t, i)' = IF i <= Len(got'[t]) THEN got'[t][i] ELSE Row(t, i)'
    <3>2. Entered(t, i) = IF i <= Len(got[t]) THEN got[t][i] ELSE Row(t, i)
      BY <1>2, <2>1, <2>5 DEF LineInv, M
    <3>3. Row(t, i)' = IF i <= n THEN Row(t, i) ELSE NUL
      BY <1>7 DEF Row
    <3>4. ~ (i <= n) => Entered(t, i) = NUL
      BY <2>1, <2>2, <2>5 DEF Entered
    <3>5. Entered(t, i)' = Entered(t, i)
      BY <2>1 DEF Entered
    <3>6. QED
      BY <2>1, <3>2, <3>3, <3>4, <3>5
  <2>6. pc'[t] \in Editing \cup Taking =>
            num_chars_in_buf'[t] = Len(line'[t]) /\ Len(line'[t]) <= MAX_CHARS_IN_BUF
    BY <2>1, <2>2 DEF M
  <2>7. QED
    BY <2>3, <2>4, <2>5, <2>6 DEF LineInv, M
<1>9. \A u \in Terms : LineInv(u)'
  <2>1. \A u \in Terms \ {t} :
          UNCHANGED <<num_chars_in_buf[u], read_buf_ready[u], pc[u], got[u], nbytes[u]>>
    BY <1>1, <1>2 DEF Types, progVars
  <2>2. Cell(t, M) \in Int /\ Cell(t, M) <= Cell(t, MAX_CHARS_IN_BUF)
    BY <1>3, <1>5 DEF M
  <2>3. \A c \in Cells : c < Cell(t, 0) \/ Cell(t, M) < c =>
           keyboard_buf'[c] = keyboard_buf[c]
    BY <1>1, <1>3, <1>5 DEF Cells
  <2>4. QED
    BY <1>4, <1>8, <2>1, <2>2, <2>3, AllLines
<1>10. QED
  BY <1>6, <1>9 DEF TerminalInv, CallsInv

LEMMA BackspaceStep ==
    ASSUME TerminalInv, NEW t \in Terms, t = active_terminal, Backspace
    PROVE  TerminalInv'
<1> DEFINE n == num_chars_in_buf[t] - 1
           l == Shortened(line[t])
           M == MAX_CHARS_IN_BUF
<1>1. /\ num_chars_in_buf[t] > 0
      /\ num_chars_in_buf' = [num_chars_in_buf EXCEPT ![t] = n]
      /\ keyboard_buf' = [keyboard_buf EXCEPT ![Cell(t, n)] = NUL]
      /\ Follow(t, l, Cell(t, n), read_buf_ready[t])
      /\ UNCHANGED <<active_terminal, read_buf_ready, progVars>>
  BY Zenon DEF Backspace, CountAfterBackspace
<1>2. Types /\ CallsInv /\ CallInv(t) /\ LineInv(t) /\ line[t] \in Seq(AllChars)
  BY DEF TerminalInv, CallsInv, Types
<1>3. n \in 0 .. M /\ M \in Nat /\ num_chars_in_buf[t] = n + 1
  <2>1. num_chars_in_buf[t] \in 0 .. MAX_CHARS_IN_BUF + 1
    BY <1>2 DEF Types
  <2>2. MAX_CHARS_IN_BUF \in Nat
    BY Rows
  <2>3. QED
    BY <1>1, <2>1, <2>2
<1>4. /\ l \in Seq(AllChars) /\ Len(line[t]) \in Nat
      /\ Len(line[t]) > 0 => /\ Len(l) = Len(line[t]) - 1
                             /\ \A i \in 1 .. Len(l) : l[i] = line[t][i]
  BY <1>2 DEF Shortened
<1>5. /\ clean' \in [Terms -> BOOLEAN]
      /\ line' \in [Terms -> Seq(AllChars)]
      /\ clean'[t] => clean[t] /\ ~ read_buf_ready[t] /\ line'[t] = l
      /\ \A u \in Terms \ {t} : clean'[u] =>
            clean[u] /\ line'[u] = line[u] /\ (u > t => Cell(t, n) < Cell(u, 0))
  BY <1>1, <1>2, <1>4, Followed, Zenon
<1> HIDE DEF n, l, M
<1>6. /\ Cell(t, 0) \in Nat /\ Cell(t, n) = Cell(t, 0) + n /\ Cell(t, M) = Cell(t, 0) + M
      /\ Cell(t, n) \in Cells
      /\ \A i \in 1 .. M : Cell(t, i - 1) \in Cells /\ Cell(t, i - 1) = Cell(t, 0) + (i - 1)
  BY <1>3, Rows DEF M
<1>7. Types' /\ CallsInv'
  <2>1. keyboard_buf' \in [Cells -> Bytes]
    BY <1>1, <1>2 DEF Types, Bytes
  <2>2. active_terminal' \in Terms /\ read_buf_ready' \in [Terms -> BOOLEAN]
        /\ \A u \in Terms : read_buf_ready[u] => read_buf_ready'[u]
    BY <1>1, <1>2 DEF Types
  <2>3. n \in 0 .. MAX_CHARS_IN_BUF + 1 /\ n <= MAX_CHARS_IN_BUF
    BY <1>3 DEF M
  <2>4. QED
    BY <1>1, <1>2, <1>5, <2>1, <2>2, <2>3, KeyTypes
<1>8. LineInv(t)'
  <2>1. ASSUME clean'[t], pc[t] \in Editing
        PROVE  /\ num_chars_in_buf'[t] = Len(line'[t])
               /\ Len(line'[t]) <= MAX_CHARS_IN_BUF
               /\ \A i \in 1 .. Len(line'[t]) :
                     keyboard_buf'[Cell(t, i - 1)] = line'[t][i]
    <3>1. n + 1 = Len(line[t]) /\ \A i \in 1 .. n + 1 : keyboard_buf[Cell(t, i - 1)] = line[t][i]
      BY <1>2, <1>3, <1>5, <2>1 DEF LineInv, Row
    <3>2. num_chars_in_buf'[t] = n /\ line'[t] = l /\ Len(l) = n
          /\ \A i \in 1 .. n : l[i] = line[t][i]
      BY <1>1, <1>2, <1>3, <1>4, <1>5, <2>1, <3>1 DEF Types
    <3>3. ASSUME NEW i \in 1 .. n
          PROVE  keyboard_buf'[Cell(t, i - 1)] = keyboard_buf[Cell(t, i - 1)]
      <4>1. i \in 1 .. M
        BY <1>3
      <4>2. Cell(t, i - 1) \in Cells /\ Cell(t, i - 1) # Cell(t, n)
        BY <1>3, <1>6, <4>1
      <4>3. QED
        BY <1>1, <1>2, <4>2 DEF Types
    <3>4. QED
      BY <1>3, <3>1, <3>2, <3>3 DEF M
  <2>2. QED
    BY <1>1, <1>2, <1>5, <2>1, EditedLine
<1>9. \A u \in Terms : LineInv(u)'
  <2>1. \A u \in Terms \ {t} :
          UNCHANGED <<num_chars_in_buf[u], read_buf_ready[u], pc[u], got[u], nbytes[u]>>
    BY <1>1, <1>2 DEF Types, progVars
  <2>2. Cell(t, n) \in Int /\ Cell(t, n) <= Cell(t, MAX_CHARS_IN_BUF)
    BY <1>3, <1>6 DEF M
  <2>3. \A c \in Cells : c < Cell(t, 0) \/ Cell(t, n) < c =>
           keyboard_buf'[c] = keyboard_buf[c]
    BY <1>1, <1>2, <1>3, <1>6 DEF Types, Cells
  <2>4. QED
    BY <1>5, <1>8, <2>1, <2>2, <2>3, AllLines
<1>10. QED
  BY <1>7, <1>9 DEF TerminalInv, CallsInv

LEMMA CtrlLStep ==
    ASSUME TerminalInv, NEW t \in Terms, t = active_terminal, CtrlL
    PROVE  TerminalInv'
<1> DEFINE M == MAX_CHARS_IN_BUF
           last == Cell(t, M) - 1
<1>1. /\ keyboard_buf' = [c \in Cells |->
             IF Cell(t, 0) <= c /\ c < Cell(t, M) THEN NUL ELSE keyboard_buf[c]]
      /\ num_chars_in_buf' = [num_chars_in_buf EXCEPT ![t] = 0]
      /\ line' = [line EXCEPT ![t] = <<>>]
      /\ clean' = [clean EXCEPT ![t] = ~ read_buf_ready[t]]
      /\ UNCHANGED <<active_terminal, read_buf_ready, progVars>>
  BY Zenon DEF CtrlL
<1>2. Types /\ CallsInv /\ CallInv(t)
  BY DEF TerminalInv, CallsInv
<1>3. M \in Nat /\ Cell(t, 0) \in Nat /\ Cell(t, M) = Cell(t, 0) + M
      /\ \A u \in Terms : t < u => Cell(t, 0) + M <= Cell(u, 0) /\ Cell(u, 0) \in Nat
  BY Rows
<1> HIDE DEF M
<1>4. Types' /\ CallsInv'
  <2>1. keyboard_buf' \in [Cells -> Bytes]
    BY <1>1, <1>2 DEF Types, Bytes
  <2>2. active_terminal' \in Terms /\ read_buf_ready' \in [Terms -> BOOLEAN]
        /\ \A u \in Terms : read_buf_ready[u] => read_buf_ready'[u]
    BY <1>1, <1>2 DEF Types
  <2>3. line' \in [Terms -> Seq(AllChars)] /\ clean' \in [Terms -> BOOLEAN]
    BY <1>1, <1>2 DEF Types
  <2>4. 0 \in 0 .. MAX_CHARS_IN_BUF + 1 /\ 0 <= MAX_CHARS_IN_BUF
    BY <1>3 DEF M
  <2>5. QED
    BY <1>1, <1>2, <2>1, <2>2, <2>3, <2>4, KeyTypes
<1>5. LineInv(t)'
  <2>1. line'[t] = <<>> /\ num_chars_in_buf'[t] = 0 /\ Len(<<>>) = 0
        /\ (clean'[t] => ~ read_buf_ready[t])
    BY <1>1, <1>2 DEF Types
  <2>2. QED
    BY <1>1, <1>2, <1>3, <2>1, EditedLine DEF M
<1>6. \A u \in Terms : LineInv(u)'
  <2>1. \A u \in Terms \ {t} :
          UNCHANGED <<num_chars_in_buf[u], read_buf_ready[u], pc[u], got[u], nbytes[u]>>
    BY <1>1, <1>2 DEF Types, progVars
  <2>2. \A u \in Terms \ {t} : clean'[u] =>
            clean[u] /\ line'[u] = line[u] /\ (u > t => last < Cell(u, 0))
    BY <1>1, <1>2, <1>3 DEF Types, Terms
  <2>3. last \in Int /\ last <= Cell(t, MAX_CHARS_IN_BUF)
    BY <1>3 DEF M
  <2>4. \A c \in Cells : c < Cell(t, 0) \/ last < c => keyboard_buf'[c] = keyboard_buf[c]
    BY <1>1, <1>3 DEF Cells
  <2>5. QED
    BY <1>5, <2>1, <2>2, <2>3, <2>4, AllLines
<1>7. QED
  BY <1>4, <1>6 DEF TerminalInv, CallsInv

LEMMA TabStep ==
    ASSUME TerminalInv, NEW t \in Terms, t = active_terminal, Tab
    PROVE  TerminalInv'
<1> DEFINE m == num_chars_in_buf[t]
           M == MAX_CHARS_IN_BUF
           last == IF m <= M THEN Cell(t, M) - 1 ELSE Cell(t, m) - 1
           deleted == [c \in Cells |->
               IF Cell(t, 0) <= c /\ c < Cell(t, m) THEN NUL ELSE keyboard_buf[c]]
<1>1. PICK k \in 1 .. Len(Names), n \in 0 .. M :
        /\ n = IF Len(Names[k]) < M THEN Len(Names[k]) ELSE M
        /\ keyboard_buf' = [c \in Cells |->
               IF Cell(t, 0) <= c /\ c < Cell(t, n)
               THEN Names[k][c - Cell(t, 0) + 1] ELSE deleted[c]]
        /\ num_chars_in_buf' = [num_chars_in_buf EXCEPT ![t] = n]
        /\ Follow(t, SubSeq(Names[k], 1, n), Cell(t, m) - 1, read_buf_ready[t])
        /\ UNCHANGED <<active_terminal, read_buf_ready, progVars>>
  BY Zenon DEF Tab
<1> DEFINE l == SubSeq(Names[k], 1, n)
<1>2. Types /\ CallsInv /\ CallInv(t)
  BY DEF TerminalInv, CallsInv
<1>3. M \in Nat /\ m \in 0 .. M + 1
  BY <1>2, Rows DEF Types
<1>4. l \in Seq(AllChars) /\ Len(l) = n
      /\ \A i \in 1 .. n : Names[k][i] \in Bytes /\ l[i] = Names[k][i]
  <2>1. Names[k] \in Seq(AllChars)
    BY ConstantTypes
  <2>2. Len(Names[k]) \in Nat /\ n <= Len(Names[k]) /\ n \in Nat
    BY <1>1, <1>3, <2>1
  <2>3. \A i \in 1 .. n : i \in 1 .. Len(Names[k])
    BY <2>2
  <2>4. \A i \in 1 .. n : Names[k][i] \in AllChars
    BY <2>1, <2>3
  <2>5. QED
    BY <2>1, <2>2, <2>3, <2>4 DEF Bytes
<1>5. /\ clean' \in [Terms -> BOOLEAN]
      /\ line' \in [Terms -> Seq(AllChars)]
      /\ clean'[t] => clean[t] /\ ~ read_buf_ready[t] /\ line'[t] = l
      /\ \A u \in Terms \ {t} : clean'[u] =>
            clean[u] /\ line'[u] = line[u] /\ (u > t => Cell(t, m) - 1 < Cell(u, 0))
  BY <1>1, <1>2, <1>4, Followed, Zenon
<1> HIDE DEF m, M, l, deleted
<1>6. /\ Cell(t, 0) \in Nat /\ Cell(t, m) = Cell(t, 0) + m /\ Cell(t, M) = Cell(t, 0) + M
      /\ Cell(t, n) = Cell(t, 0) + n
      /\ \A i \in 1 .. M : Cell(t, i - 1) \in Cells /\ Cell(t, i - 1) = Cell(t, 0) + (i - 1)
      /\ \A u \in Terms : t < u => Cell(t, 0) + M <= Cell(u, 0) /\ Cell(u, 0) \in Nat
  <2>1. m \in Int /\ n \in Int /\ M \in Int
    BY <1>1, <1>3
  <2>2. /\ Cell(t, 0) \in Nat /\ Cell(t, m) = Cell(t, 0) + m /\ Cell(t, M) = Cell(t, 0) + M
        /\ Cell(t, n) = Cell(t, 0) + n
    BY <2>1, Rows
  <2>3. \A i \in 1 .. M : Cell(t, i - 1) \in Cells /\ Cell(t, i - 1) = Cell(t, 0) + (i - 1)
    <3>1. \A i \in 1 .. M : i - 1 \in 0 .. MAX_CHARS_IN_BUF /\ i - 1 \in Int
      BY <1>3 DEF M
    <3>2. QED
      BY <3>1, Rows
  <2>4. \A u \in Terms : t < u => Cell(t, 0) + M <= Cell(u, 0) /\ Cell(u, 0) \in Nat
    BY Rows DEF M
  <2>5. QED
    BY <2>2, <2>3, <2>4
<1>7. \A c \in Cells : c \in Nat /\ deleted[c] \in Bytes
        /\ (c < Cell(t, 0) \/ Cell(t, m) <= c => deleted[c] = keyboard_buf[c])
  <2>1. keyboard_buf \in [Cells -> Bytes] /\ NUL \in Bytes
    BY <1>2 DEF Types, Bytes
  <2>2. \A c \in Cells : c \in Nat
    BY DEF Cells
  <2>3. Cell(t, 0) \in Int /\ Cell(t, m) \in Int
    BY <1>3, <1>6
  <2>4. QED
    BY <2>1, <2>2, <2>3 DEF deleted
<1>8. Types' /\ CallsInv'
  <2>1. keyboard_buf' \in [Cells -> Bytes]
    <3>1. ASSUME NEW c \in Cells, Cell(t, 0) <= c, c < Cell(t, n)
          PROVE  Names[k][c - Cell(t, 0) + 1] \in Bytes
      <4>1. c - Cell(t, 0) + 1 \in 1 .. n
        BY <1>3, <1>6, <1>7, <3>1
      <4>2. QED
        BY <1>4, <4>1
    <3>2. QED
      BY <1>1, <1>7, <3>1
  <2>2. active_terminal' \in Terms /\ read_buf_ready' \in [Terms -> BOOLEAN]
        /\ \A u \in Terms : read_buf_ready[u] => read_buf_ready'[u]
    BY <1>1, <1>2 DEF Types
  <2>3. n \in 0 .. MAX_CHARS_IN_BUF + 1 /\ n <= MAX_CHARS_IN_BUF
    BY <1>3 DEF M
  <2>4. QED
    BY <1>1, <1>2, <1>5, <2>1, <2>2, <2>3, KeyTypes
<1>9. LineInv(t)'
  <2>1. ASSUME clean'[t], pc[t] \in Editing
        PROVE  /\ num_chars_in_buf'[t] = Len(line'[t])
               /\ Len(line'[t]) <= MAX_CHARS_IN_BUF
               /\ \A i \in 1 .. Len(line'[t]) :
                     keyboard_buf'[Cell(t, i - 1)] = line'[t][i]
    <3>1. num_chars_in_buf'[t] = n /\ line'[t] = l /\ n <= M
      BY <1>1, <1>2, <1>3, <1>5, <2>1 DEF Types
    <3>2. ASSUME NEW i \in 1 .. n
          PROVE  keyboard_buf'[Cell(t, i - 1)] = l[i]
      <4>1. i \in 1 .. M
        BY <1>3
      <4>2. /\ Cell(t, i - 1) \in Cells /\ Cell(t, 0) <= Cell(t, i - 1)
            /\ Cell(t, i - 1) < Cell(t, n) /\ Cell(t, i - 1) - Cell(t, 0) + 1 = i
        BY <1>3, <1>6, <4>1
      <4>3. QED
        BY <1>1, <1>4, <4>2
    <3>3. QED
      BY <1>4, <3>1, <3>2 DEF M
  <2>2. QED
    BY <1>1, <1>2, <1>5, <2>1, EditedLine
<1>10. \A u \in Terms : LineInv(u)'
  <2>1. \A u \in Terms \ {t} :
          UNCHANGED <<num_chars_in_buf[u], read_buf_ready[u], pc[u], got[u], nbytes[u]>>
    BY <1>1, <1>2 DEF Types, progVars
  <2>2. \A u \in Terms \ {t} : clean'[u] =>
            clean[u] /\ line'[u] = line[u] /\ (u > t => last < Cell(u, 0))
    BY <1>3, <1>5, <1>6 DEF Terms
  <2>3. last \in Int /\ last <= Cell(t, MAX_CHARS_IN_BUF)
    BY <1>3, <1>6 DEF M
  <2>4. \A c \in Cells : c < Cell(t, 0) \/ last < c => keyboard_buf'[c] = keyboard_buf[c]
    BY <1>1, <1>3, <1>6, <1>7
  <2>5. QED
    BY <1>9, <2>1, <2>2, <2>3, <2>4, AllLines
<1>11. QED
  BY <1>8, <1>10 DEF TerminalInv, CallsInv

LEMMA CtrlCStep ==
    ASSUME TerminalInv, NEW t \in Terms, t = active_terminal, CtrlC
    PROVE  TerminalInv'
<1>1. /\ pc' = [pc EXCEPT ![t] = "user"]
      /\ out' = [out EXCEPT ![t] = <<>>]
      /\ loaded' = [loaded EXCEPT ![t] = 0]
      /\ nbytes' = [nbytes EXCEPT ![t] = 0]
      /\ got' = [got EXCEPT ![t] = <<>>]
      /\ Follow(t, line[t], Cell(t, 0), pc[t] \notin {"user", "wait"})
      /\ UNCHANGED <<active_terminal, bufVars>>
  BY Zenon DEF CtrlC
<1>2. Types /\ CallInv(t) /\ LineInv(t) /\ line[t] \in Seq(AllChars)
  BY DEF TerminalInv, Types
<1>3. /\ clean' \in [Terms -> BOOLEAN]
      /\ line' \in [Terms -> Seq(AllChars)]
      /\ clean'[t] => clean[t] /\ pc[t] \in {"user", "wait"} /\ line'[t] = line[t]
      /\ \A u \in Terms \ {t} : clean'[u] =>
            clean[u] /\ line'[u] = line[u] /\ (u > t => Cell(t, 0) < Cell(u, 0))
  BY <1>1, <1>2, Followed, Zenon
<1>4. <<>> \in Seq(OutChars) /\ <<>> \in Seq(Bytes) /\ 0 \in 0 .. MAX_CHARS_IN_BUF + 1
  BY TerminalAssumption
<1>5. Types'
  BY <1>1, <1>2, <1>3, <1>4 DEF Types, bufVars, Labels
<1>6. \A u \in Terms : CallInv(u)'
  <2>1. CallInv(t)'
    BY <1>1, <1>2 DEF CallInv, Types
  <2>2. \A u \in Terms \ {t} : CallInv(u)'
    BY <1>1, <1>2, OtherCalls DEF bufVars, Types
  <2>3. QED
    BY <2>1, <2>2
<1>7. LineInv(t)'
  BY <1>1, <1>2, <1>3 DEF LineInv, Row, bufVars, Types, Editing, Taking
<1>8. \A u \in Terms : LineInv(u)'
  <2>1. Cell(t, 0) \in Int /\ Cell(t, 0) <= Cell(t, MAX_CHARS_IN_BUF)
    BY Rows
  <2>2. \A u \in Terms \ {t} :
          UNCHANGED <<num_chars_in_buf[u], read_buf_ready[u], pc[u], got[u], nbytes[u]>>
    BY <1>1, <1>2 DEF Types, bufVars
  <2>3. \A c \in Cells : keyboard_buf'[c] = keyboard_buf[c]
    BY <1>1 DEF bufVars
  <2>4. QED
    BY <1>3, <1>7, <2>1, <2>2, <2>3, AllLines
<1>9. QED
  BY <1>5, <1>6, <1>8 DEF TerminalInv

LEMMA FunctionKeyStep ==
    ASSUME TerminalInv, NEW t \in Terms, FunctionKey(t)
    PROVE  TerminalInv'
<1>1. active_terminal' = t /\ UNCHANGED <<bufVars, progVars, histVars>>
  BY DEF FunctionKey
<1>2. Types'
  BY <1>1 DEF TerminalInv, Types, bufVars, progVars, histVars
<1>3. \A u \in Terms : CallInv(u)'
  BY <1>1 DEF TerminalInv, CallInv, bufVars, progVars
<1>4. \A u \in Terms : LineInv(u)'
  BY <1>1 DEF TerminalInv, LineInv, Row, Entered, bufVars, progVars, histVars
<1>5. QED
  BY <1>2, <1>3, <1>4 DEF TerminalInv

-----------------------------------------------------------------------------
(* terminal_read.                                                             *)

(* A step of t's program that leaves the buffer and the history alone.        *)
LEMMA QuietLines ==
    ASSUME TerminalInv, NEW t \in Terms, LineInv(t)', keyboard_buf' = keyboard_buf,
           \A u \in Terms \ {t} :
               UNCHANGED <<num_chars_in_buf[u], read_buf_ready[u], pc[u], got[u],
                           nbytes[u], line[u], clean[u]>>
    PROVE  \A u \in Terms : LineInv(u)'
<1>1. ASSUME NEW u \in Terms \ {t} PROVE LineInv(u)'
  BY DEF TerminalInv, LineInv, Row, Entered
<1>2. QED
  BY <1>1

LEMMA ReadCallStep ==
    ASSUME TerminalInv, NEW t \in Terms, UNCHANGED active_terminal,
           NEW n \in ReadSizes, ReadCall(t, n)
    PROVE  TerminalInv'
<1>1. /\ pc[t] = "user"
      /\ pc' = [pc EXCEPT ![t] = "wait"]
      /\ nbytes' = [nbytes EXCEPT ![t] = n]
      /\ UNCHANGED <<bufVars, out, loaded, got, histVars>>
  BY Zenon DEF ReadCall
<1>2. Types /\ CallInv(t) /\ LineInv(t)
  BY DEF TerminalInv
<1>3. Types'
  BY <1>1, <1>2 DEF Types, bufVars, histVars, Labels
<1>4. CallInv(t)' /\ \A u \in Terms \ {t} : CallInv(u)'
  <2>1. CallInv(t)'
    BY <1>1, <1>2 DEF CallInv, Types, bufVars
  <2>2. QED
    BY <1>1, <1>2, <2>1, OtherCalls DEF Types, bufVars
<1>5. LineInv(t)'
  BY <1>1, <1>2 DEF LineInv, Row, Types, bufVars, histVars, Editing, Taking
<1>6. \A u \in Terms : LineInv(u)'
  BY <1>1, <1>2, <1>5, QuietLines DEF Types, bufVars, histVars
<1>7. QED
  BY <1>3, <1>4, <1>6 DEF TerminalInv

LEMMA ReadWakeStep ==
    ASSUME TerminalInv, NEW t \in Terms, UNCHANGED active_terminal, ReadWake(t)
    PROVE  TerminalInv'
<1>1. /\ pc[t] = "wait" /\ read_buf_ready[t]
      /\ pc' = [pc EXCEPT ![t] = "copy"]
      /\ UNCHANGED <<bufVars, out, loaded, nbytes, got, histVars>>
  BY Zenon DEF ReadWake, ReadWoken
<1>2. Types /\ CallInv(t) /\ LineInv(t)
  BY DEF TerminalInv
<1>3. Types'
  BY <1>1, <1>2 DEF Types, bufVars, histVars, Labels
<1>4. nbytes[t] \in Nat /\ MAX_CHARS_IN_BUF \in Nat
      /\ got[t] = <<>> /\ Len(<<>>) = 0
  BY <1>1, <1>2, Requested, TerminalAssumption DEF CallInv
<1>5. CallInv(t)' /\ \A u \in Terms \ {t} : CallInv(u)'
  <2>1. CallInv(t)'
    BY <1>1, <1>2, <1>4 DEF CallInv, Types, bufVars
  <2>2. QED
    BY <1>1, <1>2, <2>1, OtherCalls DEF Types, bufVars
<1>6. LineInv(t)'
  <2> SUFFICES ASSUME clean[t] PROVE LineInv(t)'
    BY <1>1 DEF LineInv, histVars
  <2>1. pc'[t] = "copy" /\ line' = line /\ got' = got /\ nbytes' = nbytes
        /\ keyboard_buf' = keyboard_buf /\ num_chars_in_buf' = num_chars_in_buf
    BY <1>1, <1>2 DEF Types, bufVars, histVars
  <2>2. num_chars_in_buf[t] = Len(line[t]) /\ Len(line[t]) <= MAX_CHARS_IN_BUF
        /\ (\A i \in 1 .. Len(line[t]) : Row(t, i) = line[t][i])
        /\ (\A i \in Len(line[t]) + 1 .. MAX_CHARS_IN_BUF : Row(t, i) = NUL)
    BY <1>1, <1>2 DEF LineInv, Editing
  <2>3. ASSUME NEW i \in 1 .. MAX_CHARS_IN_BUF PROVE Entered(t, i) = Row(t, i)
    <3>1. i \in 1 .. Len(line[t]) \/ i \in Len(line[t]) + 1 .. MAX_CHARS_IN_BUF
      <4>1. Len(line[t]) \in Nat
        BY <1>2 DEF Types
      <4>2. QED
        BY <1>4, <4>1
    <3>2. Len(line[t]) \in Nat
      BY <1>2 DEF Types
    <3>3. QED
      BY <2>2, <3>1, <3>2 DEF Entered
  <2>4. \A i \in 1 .. MAX_CHARS_IN_BUF : ~ (i <= Len(got[t]))
    BY <1>4
  <2>5. "copy" \notin Editing /\ "copy" \notin {"user", "wait"}
    BY DEF Editing
  <2>6. \A i \in 1 .. MAX_CHARS_IN_BUF :
           Entered(t, i)' = IF i <= Len(got'[t]) THEN got'[t][i] ELSE Row(t, i)'
    BY <2>1, <2>3, <2>4 DEF Entered, Row
  <2>7. QED
    BY <2>1, <2>2, <2>5, <2>6 DEF LineInv
<1>7. \A u \in Terms : LineInv(u)'
  BY <1>1, <1>2, <1>6, QuietLines DEF Types, bufVars, histVars
<1>8. QED
  BY <1>3, <1>5, <1>7 DEF TerminalInv

LEMMA ReadCopyStep ==
    ASSUME TerminalInv, NEW t \in Terms, UNCHANGED active_terminal, ReadCopy(t)
    PROVE  TerminalInv'
<1> DEFINE k == Len(got[t])
           x == keyboard_buf[Cell(t, k)]
<1>1. /\ pc[t] = "copy" /\ k <= nbytes[t]
      /\ got' = [got EXCEPT ![t] = Append(got[t], x)]
      /\ keyboard_buf' = [keyboard_buf EXCEPT ![Cell(t, k)] = NUL]
      /\ Follow(t, line[t], Cell(t, k), FALSE)
      /\ pc' = [pc EXCEPT ![t] = IF k = nbytes[t] THEN "zero_r" ELSE "copy"]
      /\ UNCHANGED <<num_chars_in_buf, read_buf_ready, out, loaded, nbytes>>
  BY Zenon DEF ReadCopy
<1>2. Types /\ CallInv(t) /\ LineInv(t) /\ line[t] \in Seq(AllChars)
      /\ got[t] \in Seq(Bytes)
  BY DEF TerminalInv, Types
<1>3. nbytes[t] \in Nat /\ MAX_CHARS_IN_BUF \in Nat
      /\ k \in Nat /\ k < MAX_CHARS_IN_BUF + BEHIND
  <2>1. nbytes[t] \in Nat /\ nbytes[t] < MAX_CHARS_IN_BUF + BEHIND
        /\ MAX_CHARS_IN_BUF \in Nat /\ BEHIND \in Nat
    BY <1>2, Requested, TerminalAssumption
  <2>2. QED
    BY <1>1, <1>2, <2>1
<1>4. /\ Cell(t, 0) \in Nat /\ Cell(t, k) = Cell(t, 0) + k /\ Cell(t, k) \in Cells
      /\ Cell(t, MAX_CHARS_IN_BUF) = Cell(t, 0) + MAX_CHARS_IN_BUF
      /\ \A i \in 1 .. MAX_CHARS_IN_BUF :
            Cell(t, i - 1) \in Cells /\ Cell(t, i - 1) = Cell(t, 0) + (i - 1)
  <2>1. \A i \in 1 .. MAX_CHARS_IN_BUF : i - 1 \in 0 .. MAX_CHARS_IN_BUF /\ i - 1 \in Int
    BY <1>3
  <2>2. k \in Int /\ MAX_CHARS_IN_BUF \in Int
    BY <1>3
  <2>3. QED
    BY <1>3, <2>1, <2>2, Rows
<1>5. x \in Bytes /\ NUL \in Bytes
  BY <1>2, <1>4 DEF Types, Bytes
<1>6. /\ clean' \in [Terms -> BOOLEAN]
      /\ line' \in [Terms -> Seq(AllChars)]
      /\ clean'[t] => clean[t] /\ line'[t] = line[t]
      /\ \A u \in Terms \ {t} : clean'[u] =>
            clean[u] /\ line'[u] = line[u] /\ (u > t => Cell(t, k) < Cell(u, 0))
  BY <1>1, <1>2, Followed, Zenon
<1>7. got'[t] = Append(got[t], x) /\ Len(got'[t]) = k + 1 /\ got'[t] \in Seq(Bytes)
      /\ \A i \in 1 .. k : got'[t][i] = got[t][i]
      /\ got'[t][k + 1] = x
  <2>1. got'[t] = Append(got[t], x)
    BY <1>1, <1>2 DEF Types
  <2>2. QED
    BY <1>2, <1>5, <2>1
<1> HIDE DEF k
<1>8. Types'
  <2>1. got' \in [Terms -> Seq(Bytes)]
    BY <1>1, <1>2, <1>5 DEF Types
  <2>2. keyboard_buf' \in [Cells -> Bytes]
    BY <1>1, <1>2, <1>5 DEF Types
  <2>3. pc' \in [Terms -> Labels]
    BY <1>1, <1>2 DEF Types, Labels
  <2>4. QED
    BY <1>1, <1>2, <1>6, <2>1, <2>2, <2>3 DEF Types
<1>9. CallInv(t)' /\ \A u \in Terms \ {t} : CallInv(u)'
  <2>1. pc'[t] = IF k = nbytes[t] THEN "zero_r" ELSE "copy"
    BY <1>1, <1>2 DEF Types
  <2>2. CallInv(t)'
    BY <1>1, <1>2, <1>3, <1>7, <2>1 DEF CallInv
  <2>3. QED
    BY <1>1, <1>2, <2>2, OtherCalls DEF Types
<1>10. LineInv(t)'
  <2> SUFFICES ASSUME clean'[t] PROVE LineInv(t)'
    BY DEF LineInv
  <2>1. clean[t] /\ line'[t] = line[t] /\ nbytes'[t] = nbytes[t]
        /\ num_chars_in_buf'[t] = num_chars_in_buf[t]
        /\ pc'[t] \in {"copy", "zero_r"} /\ pc'[t] \notin Editing
        /\ pc'[t] \notin {"user", "wait"}
    BY <1>1, <1>2, <1>6 DEF Types, Editing
  <2>2. num_chars_in_buf[t] = Len(line[t]) /\ Len(line[t]) <= MAX_CHARS_IN_BUF
        /\ \A i \in 1 .. MAX_CHARS_IN_BUF :
              Entered(t, i) = IF i <= k THEN got[t][i] ELSE Row(t, i)
    BY <1>1, <1>2, <2>1 DEF LineInv, Taking, k
  <2>3. ASSUME NEW i \in 1 .. MAX_CHARS_IN_BUF
        PROVE  Entered(t, i)' = IF i <= Len(got'[t]) THEN got'[t][i] ELSE Row(t, i)'
    <3>1. Entered(t, i)' = Entered(t, i)
      BY <2>1 DEF Entered
    <3>2. CASE i <= k
      <4>1. i \in 1 .. k /\ i <= k + 1
        BY <1>3, <3>2
      <4>2. QED
        BY <1>7, <2>2, <3>1, <3>2, <4>1
    <3>3. CASE i = k + 1
      <4>1. Row(t, i) = x /\ ~ (i <= k) /\ i <= k + 1
        <5>1. i - 1 = k
          BY <1>3, <3>3
        <5>2. QED
          BY <1>3, <3>3, <5>1 DEF Row
      <4>2. QED
        BY <1>7, <2>2, <3>1, <3>3, <4>1
    <3>4. CASE i > k + 1
      <4>1. i \in 1 .. MAX_CHARS_IN_BUF /\ ~ (i <= k + 1) /\ ~ (i <= k)
        BY <1>3, <3>4
      <4>2. Cell(t, i - 1) \in Cells /\ Cell(t, i - 1) # Cell(t, k)
        BY <1>3, <1>4, <3>4, <4>1
      <4>3. Row(t, i)' = Row(t, i)
        BY <1>1, <1>2, <4>2 DEF Row, Types
      <4>4. QED
        BY <1>7, <2>2, <3>1, <4>1, <4>3
    <3>5. QED
      BY <1>3, <3>2, <3>3, <3>4
  <2>4. QED
    BY <2>1, <2>2, <2>3 DEF LineInv
<1>11. \A u \in Terms : LineInv(u)'
  <2>1. Cell(t, k) \in Int
    BY <1>3, <1>4
  <2>2. \A u \in Terms \ {t} :
          UNCHANGED <<num_chars_in_buf[u], read_buf_ready[u], pc[u], got[u], nbytes[u]>>
    BY <1>1, <1>2 DEF Types
  <2>3. \A c \in Cells : c < Cell(t, 0) \/ Cell(t, k) < c =>
           keyboard_buf'[c] = keyboard_buf[c]
    BY <1>1, <1>2, <1>3, <1>4, SMTT(20) DEF Types, Cells
  <2>4. QED
    BY <1>6, <1>10, <2>1, <2>2, <2>3, AllLines
<1>12. QED
  BY <1>8, <1>9, <1>11 DEF TerminalInv

(* The end of either call: the line starts again, empty.                      *)
LEMMA ZeroCountStep ==
    ASSUME TerminalInv, NEW t \in Terms, UNCHANGED active_terminal,
           NEW from, NEW to, ZeroCount(t, from, to),
           <<from, to>> \in {<<"zero_r", "ready_r">>, <<"zero_w", "ready_w">>}
    PROVE  TerminalInv'
<1>1. /\ pc[t] = from
      /\ pc' = [pc EXCEPT ![t] = to]
      /\ num_chars_in_buf' = [num_chars_in_buf EXCEPT ![t] = 0]
      /\ line' = [line EXCEPT ![t] = <<>>]
      /\ clean' = [clean EXCEPT ![t] = TRUE]
      /\ UNCHANGED <<keyboard_buf, read_buf_ready, out, loaded, nbytes, got>>
  BY Zenon DEF ZeroCount
<1>2. Types /\ CallInv(t) /\ MAX_CHARS_IN_BUF \in Nat
  BY TerminalAssumption DEF TerminalInv
<1>3. \/ from = "zero_r" /\ to = "ready_r"
      \/ from = "zero_w" /\ to = "ready_w"
  OBVIOUS
<1>4. Types'
  BY <1>1, <1>2, <1>3 DEF Types, Labels
<1>5. CallInv(t)' /\ \A u \in Terms \ {t} : CallInv(u)'
  <2>1. CallInv(t)'
    BY <1>1, <1>2, <1>3 DEF CallInv, Types
  <2>2. QED
    BY <1>1, <1>2, <2>1, OtherCalls DEF Types
<1>6. LineInv(t)'
  <2>1. pc'[t] \in {"ready_r", "ready_w"} /\ line'[t] = <<>> /\ Len(<<>>) = 0
        /\ num_chars_in_buf'[t] = 0
    BY <1>1, <1>2, <1>3 DEF Types
  <2>2. QED
    BY <1>2, <2>1 DEF LineInv, Editing, Taking
<1>7. \A u \in Terms : LineInv(u)'
  BY <1>1, <1>2, <1>6, QuietLines DEF Types
<1>8. QED
  BY <1>4, <1>5, <1>7 DEF TerminalInv

LEMMA ZeroReadyStep ==
    ASSUME TerminalInv, NEW t \in Terms, UNCHANGED active_terminal,
           NEW from \in {"ready_r", "ready_w"}, ZeroReady(t, from)
    PROVE  TerminalInv'
<1>1. /\ pc[t] = from
      /\ pc' = [pc EXCEPT ![t] = "user"]
      /\ read_buf_ready' = [read_buf_ready EXCEPT ![t] = FALSE]
      /\ nbytes' = [nbytes EXCEPT ![t] = 0]
      /\ got' = [got EXCEPT ![t] = <<>>]
      /\ UNCHANGED <<keyboard_buf, num_chars_in_buf, out, loaded, histVars>>
  BY Zenon DEF ZeroReady
<1>2. Types /\ CallInv(t) /\ LineInv(t) /\ <<>> \in Seq(Bytes)
  BY DEF TerminalInv
<1>3. Types'
  BY <1>1, <1>2 DEF Types, Labels, histVars
<1>4. CallInv(t)' /\ \A u \in Terms \ {t} : CallInv(u)'
  <2>1. CallInv(t)'
    BY <1>1, <1>2 DEF CallInv, Types
  <2>2. QED
    BY <1>1, <1>2, <2>1, OtherCalls DEF Types
<1>5. LineInv(t)'
  BY <1>1, <1>2 DEF LineInv, Row, Types, histVars, Editing, Taking
<1>6. \A u \in Terms : LineInv(u)'
  BY <1>1, <1>2, <1>5, QuietLines DEF Types, histVars
<1>7. QED
  BY <1>3, <1>4, <1>6 DEF TerminalInv

-----------------------------------------------------------------------------
(* terminal_write.  Between its test and its increment no line is followed:   *)
(* the characters go into the user's line.                                    *)

LEMMA WriteCallStep ==
    ASSUME TerminalInv, NEW t \in Terms, UNCHANGED active_terminal, 
           NEW w \in Outputs, WriteCall(t, w)
    PROVE  TerminalInv'
<1>1. /\ pc[t] = "user"
      /\ pc' = [pc EXCEPT ![t] = "check"]
      /\ out' = [out EXCEPT ![t] = w]
      /\ UNCHANGED <<bufVars, loaded, nbytes, got, histVars>>
  BY Zenon DEF WriteCall
<1>2. Types /\ CallInv(t) /\ LineInv(t)
  BY DEF TerminalInv
<1>3. Types'
  <2>1. w \in Seq(OutChars)
    BY TerminalAssumption
  <2>2. QED
    BY <1>1, <1>2, <2>1 DEF Types, bufVars, histVars, Labels
<1>4. CallInv(t)' /\ \A u \in Terms \ {t} : CallInv(u)'
  <2>1. CallInv(t)'
    BY <1>1, <1>2 DEF CallInv, Types, bufVars
  <2>2. QED
    BY <1>1, <1>2, <2>1, OtherCalls DEF Types, bufVars
<1>5. LineInv(t)'
  BY <1>1, <1>2 DEF LineInv, Types, Editing, Taking
<1>6. \A u \in Terms : LineInv(u)'
  BY <1>1, <1>2, <1>5, QuietLines DEF Types, bufVars, histVars
<1>7. QED
  BY <1>3, <1>4, <1>6 DEF TerminalInv

LEMMA WriteCheckStep ==
    ASSUME TerminalInv, NEW t \in Terms, UNCHANGED active_terminal, WriteCheck(t)
    PROVE  TerminalInv'
<1>1. /\ pc[t] = "check"
      /\ UNCHANGED <<bufVars, loaded, nbytes, got, histVars>>
      /\ \/ pc' = [pc EXCEPT ![t] = "zero_w"] /\ UNCHANGED out
         \/ /\ out[t] # <<>> /\ num_chars_in_buf[t] < MAX_CHARS_IN_BUF
            /\ pc' = [pc EXCEPT ![t] = "store"] /\ UNCHANGED out
         \/ out[t] # <<>> /\ out' = [out EXCEPT ![t] = Tail(@)] /\ UNCHANGED pc
  BY Zenon DEF WriteCheck, HasRoom
<1>2. Types /\ CallInv(t) /\ LineInv(t) /\ MAX_CHARS_IN_BUF \in Nat
      /\ num_chars_in_buf[t] \in Nat
  BY TerminalAssumption DEF TerminalInv, Types
<1>3. Types'
  <2>1. out[t] # <<>> => Tail(out[t]) \in Seq(OutChars)
    BY <1>2 DEF Types
  <2>2. out' \in [Terms -> Seq(OutChars)] /\ pc' \in [Terms -> Labels]
    BY <1>1, <1>2, <2>1 DEF Types, Labels
  <2>3. QED
    BY <1>1, <1>2, <2>2 DEF Types, bufVars, histVars
<1>4. CallInv(t)' /\ \A u \in Terms \ {t} : CallInv(u)'
  <2>1. CallInv(t)'
    BY <1>1, <1>2, SMTT(20) DEF CallInv, Types, bufVars
  <2>2. QED
    BY <1>1, <1>2, <2>1, OtherCalls DEF Types, bufVars
<1>5. LineInv(t)'
  BY <1>1, <1>2 DEF LineInv, Types, Editing, Taking
<1>6. \A u \in Terms : LineInv(u)'
  BY <1>1, <1>2, <1>5, QuietLines DEF Types, bufVars, histVars
<1>7. QED
  BY <1>3, <1>4, <1>6 DEF TerminalInv

LEMMA WriteStoreStep ==
    ASSUME TerminalInv, NEW t \in Terms, UNCHANGED active_terminal, WriteStore(t)
    PROVE  TerminalInv'
<1> DEFINE n == num_chars_in_buf[t]
<1>1. /\ pc[t] = "store"
      /\ pc' = [pc EXCEPT ![t] = "load"]
      /\ keyboard_buf' = [keyboard_buf EXCEPT ![Cell(t, n)] = Head(out[t])]
      /\ Follow(t, <<>>, Cell(t, n), TRUE)
      /\ UNCHANGED <<num_chars_in_buf, read_buf_ready, out, loaded, nbytes, got>>
  BY Zenon DEF WriteStore
<1>2. Types /\ CallInv(t) /\ <<>> \in Seq(AllChars) /\ MAX_CHARS_IN_BUF \in Nat
  BY TerminalAssumption DEF TerminalInv
<1>3. n \in 0 .. MAX_CHARS_IN_BUF /\ n \in Int /\ Head(out[t]) \in Bytes
  <2>1. n \in 0 .. MAX_CHARS_IN_BUF + 1 /\ n <= MAX_CHARS_IN_BUF /\ out[t] # <<>>
    BY <1>1, <1>2 DEF CallInv, Types
  <2>2. Head(out[t]) \in OutChars
    BY <1>2, <2>1 DEF Types
  <2>3. QED
    BY <1>2, <2>1, <2>2, ConstantTypes
<1>4. /\ clean' \in [Terms -> BOOLEAN]
      /\ line' \in [Terms -> Seq(AllChars)]
      /\ ~ clean'[t]
      /\ \A u \in Terms \ {t} : clean'[u] =>
            clean[u] /\ line'[u] = line[u] /\ (u > t => Cell(t, n) < Cell(u, 0))
  BY <1>1, <1>2, Followed, Zenon
<1> HIDE DEF n
<1>5. Types'
  <2>1. keyboard_buf' \in [Cells -> Bytes]
    BY <1>1, <1>2, <1>3 DEF Types
  <2>2. QED
    BY <1>1, <1>2, <1>4, <2>1 DEF Types, Labels
<1>6. CallInv(t)' /\ \A u \in Terms \ {t} : CallInv(u)'
  <2>1. CallInv(t)'
    BY <1>1, <1>2 DEF CallInv, Types
  <2>2. QED
    BY <1>1, <1>2, <2>1, OtherCalls DEF Types
<1>7. LineInv(t)'
  BY <1>4 DEF LineInv
<1>8. \A u \in Terms : LineInv(u)'
  <2>1. Cell(t, n) = Cell(t, 0) + n /\ Cell(t, 0) \in Nat
        /\ Cell(t, MAX_CHARS_IN_BUF) = Cell(t, 0) + MAX_CHARS_IN_BUF
    BY <1>2, <1>3, Rows
  <2>2. Cell(t, n) \in Int /\ Cell(t, n) <= Cell(t, MAX_CHARS_IN_BUF)
    BY <1>2, <1>3, <2>1
  <2>3. \A u \in Terms \ {t} :
          UNCHANGED <<num_chars_in_buf[u], read_buf_ready[u], pc[u], got[u], nbytes[u]>>
    BY <1>1, <1>2 DEF Types
  <2>4. \A c \in Cells : c < Cell(t, 0) \/ Cell(t, n) < c =>
           keyboard_buf'[c] = keyboard_buf[c]
    BY <1>1, <1>2, <1>3, <2>1 DEF Types, Cells
  <2>5. QED
    BY <1>4, <1>7, <2>2, <2>3, <2>4, AllLines
<1>9. QED
  BY <1>5, <1>6, <1>8 DEF TerminalInv

LEMMA WriteLoadStep ==
    ASSUME TerminalInv, NEW t \in Terms, UNCHANGED active_terminal, WriteLoad(t)
    PROVE  TerminalInv'
<1>1. /\ pc[t] = "load"
      /\ pc' = [pc EXCEPT ![t] = "incr"]
      /\ loaded' = [loaded EXCEPT ![t] = num_chars_in_buf[t]]
      /\ UNCHANGED <<bufVars, out, nbytes, got, histVars>>
  BY Zenon DEF WriteLoad
<1>2. Types /\ CallInv(t) /\ LineInv(t)
  BY DEF TerminalInv
<1>3. Types'
  BY <1>1, <1>2 DEF Types, bufVars, histVars, Labels
<1>4. CallInv(t)' /\ \A u \in Terms \ {t} : CallInv(u)'
  <2>1. CallInv(t)'
    BY <1>1, <1>2 DEF CallInv, Types, bufVars
  <2>2. QED
    BY <1>1, <1>2, <2>1, OtherCalls DEF Types, bufVars
<1>5. LineInv(t)'
  BY <1>1, <1>2 DEF LineInv, Types, Editing, Taking
<1>6. \A u \in Terms : LineInv(u)'
  BY <1>1, <1>2, <1>5, QuietLines DEF Types, bufVars, histVars
<1>7. QED
  BY <1>3, <1>4, <1>6 DEF TerminalInv

LEMMA WriteIncrementStep ==
    ASSUME TerminalInv, NEW t \in Terms, UNCHANGED active_terminal, WriteIncrement(t)
    PROVE  TerminalInv'
<1>1. /\ pc[t] = "incr"
      /\ pc' = [pc EXCEPT ![t] = "check"]
      /\ num_chars_in_buf' = [num_chars_in_buf EXCEPT ![t] = loaded[t] + 1]
      /\ out' = [out EXCEPT ![t] = Tail(out[t])]
      /\ loaded' = [loaded EXCEPT ![t] = 0]
      /\ UNCHANGED <<keyboard_buf, read_buf_ready, nbytes, got, histVars>>
  BY Zenon DEF WriteIncrement
<1>2. Types /\ CallInv(t) /\ LineInv(t)
  BY DEF TerminalInv
<1>3. Types'
  <2>1. Tail(out[t]) \in Seq(OutChars)
    BY <1>1, <1>2 DEF Types, CallInv
  <2>2. loaded[t] + 1 \in 0 .. MAX_CHARS_IN_BUF + 1 /\ 0 \in 0 .. MAX_CHARS_IN_BUF + 1
    BY <1>1, <1>2, TerminalAssumption DEF Types, CallInv
  <2>3. QED
    BY <1>1, <1>2, <2>1, <2>2 DEF Types, histVars, Labels
<1>4. CallInv(t)' /\ \A u \in Terms \ {t} : CallInv(u)'
  <2>1. CallInv(t)'
    BY <1>1, <1>2 DEF CallInv, Types
  <2>2. QED
    BY <1>1, <1>2, <2>1, OtherCalls DEF Types
<1>5. LineInv(t)'
  BY <1>1, <1>2 DEF LineInv, Types, Editing, Taking
<1>6. \A u \in Terms : LineInv(u)'
  BY <1>1, <1>2, <1>5, QuietLines DEF Types, histVars
<1>7. QED
  BY <1>3, <1>4, <1>6 DEF TerminalInv

-----------------------------------------------------------------------------
(* The theorems.                                                              *)

LEMMA InitInv == Init => TerminalInv
<1> SUFFICES ASSUME Init PROVE TerminalInv
  OBVIOUS
<1>1. MAX_CHARS_IN_BUF \in Nat /\ 0 \in 0 .. MAX_CHARS_IN_BUF + 1 /\ 0 \in Terms
  BY TerminalAssumption DEF Terms
<1>2. <<>> \in Seq(OutChars) /\ <<>> \in Seq(Bytes) /\ <<>> \in Seq(AllChars)
      /\ Len(<<>>) = 0
  OBVIOUS
<1>3. Types
  BY <1>1, <1>2 DEF Init, Types, Labels, Bytes
<1>4. \A t \in Terms : CallInv(t)
  BY DEF Init, CallInv
<1>5. \A t \in Terms : LineInv(t)
  BY <1>1, <1>2 DEF Init, LineInv, Editing, Taking
<1>6. QED
  BY <1>3, <1>4, <1>5 DEF TerminalInv

LEMMA ProgramStep ==
    ASSUME TerminalInv, NEW t \in Terms, Program(t)
    PROVE  TerminalInv'
<1>1. UNCHANGED active_terminal
  BY DEF Program
<1>2. CASE \E n \in ReadSizes : ReadCall(t, n)
  BY <1>1, <1>2, ReadCallStep
<1>3. CASE ReadWake(t)
  BY <1>1, <1>3, ReadWakeStep
<1>4. CASE ReadCopy(t)
  BY <1>1, <1>4, ReadCopyStep
<1>5. CASE ZeroCount(t, "zero_r", "ready_r") \/ ZeroCount(t, "zero_w", "ready_w")
  BY <1>1, <1>5, ZeroCountStep
<1>6. CASE ZeroReady(t, "ready_r") \/ ZeroReady(t, "ready_w")
  BY <1>1, <1>6, ZeroReadyStep
<1>7. CASE \E w \in Outputs : WriteCall(t, w)
  BY <1>1, <1>7, WriteCallStep
<1>8. CASE WriteCheck(t)
  BY <1>1, <1>8, WriteCheckStep
<1>9. CASE WriteStore(t)
  BY <1>1, <1>9, WriteStoreStep
<1>10. CASE WriteLoad(t)
  BY <1>1, <1>10, WriteLoadStep
<1>11. CASE WriteIncrement(t)
  BY <1>1, <1>11, WriteIncrementStep
<1>12. QED
  BY <1>2, <1>3, <1>4, <1>5, <1>6, <1>7, <1>8, <1>9, <1>10, <1>11 DEF Program

LEMMA NextInv == TerminalInv /\ [Next]_vars => TerminalInv'
<1> SUFFICES ASSUME TerminalInv, [Next]_vars PROVE TerminalInv'
  OBVIOUS
<1>1. active_terminal \in Terms
  BY DEF TerminalInv, Types
<1>2. ASSUME NEW c \in Chars, KeyChar(c) PROVE TerminalInv'
  BY <1>1, <1>2, KeyCharStep
<1>3. CASE Enter
  BY <1>1, <1>3, EnterStep
<1>4. CASE Backspace
  BY <1>1, <1>4, BackspaceStep
<1>5. CASE CtrlL
  BY <1>1, <1>5, CtrlLStep
<1>6. CASE Tab
  BY <1>1, <1>6, TabStep
<1>7. CASE CtrlC
  BY <1>1, <1>7, CtrlCStep
<1>8. ASSUME NEW t \in Terms, FunctionKey(t) PROVE TerminalInv'
  BY <1>8, FunctionKeyStep
<1>9. ASSUME NEW t \in Terms, Program(t) PROVE TerminalInv'
  BY <1>9, ProgramStep
<1>10. CASE UNCHANGED vars
  <2>1. active_terminal \in Terms /\ active_terminal' = active_terminal
        /\ UNCHANGED <<bufVars, progVars, histVars>>
    BY <1>1, <1>10 DEF vars
  <2>2. QED
    BY <2>1, FunctionKeyStep DEF FunctionKey
<1>11. QED
  BY <1>2, <1>3, <1>4, <1>5, <1>6, <1>7, <1>8, <1>9, <1>10 DEF Next, Key

LEMMA TerminalInvariant == Spec => []TerminalInv
BY InitInv, NextInv, PTL DEF Spec

(* Every variable keeps its type: whatever keys arrive between the steps of a *)
(* write, num_chars_in_buf passes the end of the buffer by one at most, and   *)
(* no write leaves the block of buffers.                                      *)
THEOREM TypeCorrect == Spec => []TypeOK
<1>1. TerminalInv => TypeOK
  <2> SUFFICES ASSUME TerminalInv PROVE TypeOK
    OBVIOUS
  <2>1. Types
    BY DEF TerminalInv
  <2>2. ASSUME NEW t \in Terms PROVE Len(got[t]) <= nbytes[t] + 1
    <3>1. nbytes[t] \in Nat /\ CallInv(t) /\ Len(<<>>) = 0 /\ Len(got[t]) \in Nat
      BY <2>1, Requested, TerminalAssumption DEF TerminalInv, Types
    <3>2. QED
      BY <3>1 DEF CallInv
  <2>3. QED
    BY <2>1, <2>2 DEF Types, TypeOK, Bytes
<1>2. QED
  BY <1>1, TerminalInvariant, PTL

(* While a program computes or waits for input, keyboard_buf and              *)
(* num_chars_in_buf are the line the user sees.                               *)
THEOREM BufferHoldsLineCorrect == Spec => []BufferHoldsLine
<1>1. TerminalInv => BufferHoldsLine
  BY DEF TerminalInv, LineInv, BufferHoldsLine, Row, Editing
<1>2. QED
  BY <1>1, TerminalInvariant, PTL

(* terminal_read copies nbytes + 1 bytes: the line that was entered with NULs *)
(* behind it, to the end of the terminal's own row.                           *)
THEOREM ReadReturnsLineCorrect == Spec => ReadReturnsLine
<1>1. ASSUME TerminalInv, NEW t \in Terms, pc[t] = "zero_r"
      PROVE  nbytes[t] \in Nat /\ Len(got[t]) = nbytes[t] + 1
  BY <1>1, Requested DEF TerminalInv, CallInv
<1>2. ASSUME TerminalInv, NEW t \in Terms, pc[t] = "zero_r", clean[t],
             NEW i \in 1 .. nbytes[t] + 1, i <= MAX_CHARS_IN_BUF
      PROVE  got[t][i] = IF i <= Len(line[t]) THEN line[t][i] ELSE NUL
  <2>1. i \in 1 .. MAX_CHARS_IN_BUF /\ i <= Len(got[t])
    BY <1>1, <1>2, TerminalAssumption
  <2>2. Entered(t, i) = got[t][i]
    BY <1>2, <2>1 DEF TerminalInv, LineInv, Taking
  <2>3. QED
    BY <2>2 DEF Entered
<1>3. TerminalInv =>
        [\A t \in Terms :
            pc[t] = "zero_r" /\ pc'[t] = "ready_r" /\ clean[t] =>
                /\ Len(got[t]) = nbytes[t] + 1
                /\ \A i \in 1 .. nbytes[t] + 1 :
                      i <= MAX_CHARS_IN_BUF =>
                          got[t][i] =
                              IF i <= Len(line[t]) THEN line[t][i] ELSE NUL]_vars
  BY <1>1, <1>2
<1>4. QED
  BY <1>3, TerminalInvariant, PTL DEF ReadReturnsLine
=============================================================================
