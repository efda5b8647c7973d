------------------------- MODULE CommandLineProofs -------------------------
(* Theorems about CommandLine, for any commands and programs, buffers of any  *)
(* size and any number of terminals and slots.                                *)
EXTENDS CommandLine, WellFoundedInduction, SequenceTheorems, TLAPS

-----------------------------------------------------------------------------
(* Numbers and sequences.                                                     *)

LEMMA LessThanIsWellFounded ==
    IsWellFoundedOn({ss \in Nat \X Nat : ss[1] < ss[2]}, Nat)
  BY NatLessThanWellFounded DEF OpToRel

LEMMA MinOfNats ==
    ASSUME NEW S \in SUBSET Nat, S # {}
    PROVE  Min(S) \in S /\ \A x \in S : Min(S) <= x
<1> DEFINE Below == {ss \in Nat \X Nat : ss[1] < ss[2]}
<1> HIDE DEF Below
<1>1. PICK s \in S : \A r \in S : ~ (<<r, s>> \in Below)
  BY LessThanIsWellFounded, WFMin DEF Below
<1>2. \A r \in S : ~ (r < s)
  BY <1>1 DEF Below
<1>3. \A r \in S : s <= r
  BY <1>2
<1>4. QED
  BY <1>3 DEF Min

LEMMA CommandFacts ==
    ASSUME NEW c \in Commands
    PROVE  /\ c \in Seq(ToSet(c))
           /\ Len(c) \in Nat
           /\ DOMAIN c = 1 .. Len(c)
           /\ \A k \in 1 .. Len(c) : c[k] \in ToSet(c) /\ c[k] # NUL
<1>1. c \in Seq(ToSet(c)) /\ NUL \notin ToSet(c)
  BY CommandLineAssumption
<1>2. Len(c) \in Nat /\ DOMAIN c = 1 .. Len(c)
  BY <1>1, LenProperties
<1>3. \A k \in 1 .. Len(c) : c[k] \in ToSet(c)
  BY <1>2 DEF ToSet
<1>4. QED
  BY <1>1, <1>2, <1>3

LEMMA PartFacts ==
    ASSUME NEW c \in Commands, NEW m \in Nat \ {0}, NEW n \in 0 .. Len(c)
    PROVE  /\ SubSeq(c, m, n) \in Seq(ToSet(c))
           /\ Len(SubSeq(c, m, n)) = IF m <= n THEN n - m + 1 ELSE 0
           /\ DOMAIN SubSeq(c, m, n) = 1 .. Len(SubSeq(c, m, n))
           /\ \A k \in 1 .. Len(SubSeq(c, m, n)) : SubSeq(c, m, n)[k] = c[m + k - 1]
<1>1. m \in Int /\ n \in Int /\ Len(c) \in Nat
  BY CommandFacts
<1>2. \A k \in m .. n : c[k] \in ToSet(c)
  BY <1>1, CommandFacts
<1>3. /\ SubSeq(c, m, n) \in Seq(ToSet(c))
      /\ Len(SubSeq(c, m, n)) = IF m <= n THEN n - m + 1 ELSE 0
      /\ \A k \in 1 .. n - m + 1 : SubSeq(c, m, n)[k] = c[m + k - 1]
  BY <1>1, <1>2, SubSeqProperties
<1>4. DOMAIN SubSeq(c, m, n) = 1 .. Len(SubSeq(c, m, n))
  BY <1>3, LenProperties
<1>5. QED
  BY <1>1, <1>3, <1>4

LEMMA PrefixFacts ==
    ASSUME NEW c \in Commands, NEW n \in 0 .. Len(c)
    PROVE  /\ SubSeq(c, 1, n) \in Seq(ToSet(c))
           /\ Len(SubSeq(c, 1, n)) = n
           /\ DOMAIN SubSeq(c, 1, n) = 1 .. n
           /\ \A k \in 1 .. n : SubSeq(c, 1, n)[k] = c[k]
<1>1. 1 \in Nat \ {0} /\ n \in Nat /\ Len(c) \in Nat
  BY CommandFacts
<1>2. \A k \in 1 .. n : 1 + k - 1 = k
  BY <1>1
<1>3. QED
  BY <1>1, <1>2, PartFacts

-----------------------------------------------------------------------------
(* The loop of execute.                                                       *)

(* The place of the first blank, behind the command when there is none.       *)
BlankOrEnd(c) == {k \in 1 .. Len(c) : c[k] = BLANK} \cup {Len(c) + 1}
FirstBlank(c) == Min(BlankOrEnd(c))

LEMMA FirstBlankFacts ==
    ASSUME NEW c \in Commands
    PROVE  /\ FirstBlank(c) \in 1 .. Len(c) + 1
           /\ FirstBlank(c) \in Nat
           /\ \A k \in 1 .. Len(c) : k < FirstBlank(c) => c[k] # BLANK
           /\ FirstBlank(c) <= Len(c) => c[FirstBlank(c)] = BLANK
           /\ HasArguments(c) <=> FirstBlank(c) <= Len(c)
<1>1. Len(c) \in Nat /\ DOMAIN c = 1 .. Len(c)
  BY CommandFacts
<1>2. BlankOrEnd(c) \in SUBSET Nat /\ BlankOrEnd(c) # {}
  BY <1>1 DEF BlankOrEnd
<1>3. FirstBlank(c) \in BlankOrEnd(c) /\ \A k \in BlankOrEnd(c) : FirstBlank(c) <= k
  BY <1>2, MinOfNats DEF FirstBlank
<1> HIDE DEF FirstBlank
<1>4. FirstBlank(c) \in 1 .. Len(c) + 1 /\ FirstBlank(c) \in Nat
  BY <1>1, <1>3 DEF BlankOrEnd
<1>5. \A k \in 1 .. Len(c) : k < FirstBlank(c) => c[k] # BLANK
  BY <1>1, <1>3, <1>4 DEF BlankOrEnd
<1>6. FirstBlank(c) <= Len(c) => c[FirstBlank(c)] = BLANK
  BY <1>1, <1>3, <1>4 DEF BlankOrEnd
<1>7. HasArguments(c) <=> FirstBlank(c) <= Len(c)
  BY <1>1, <1>4, <1>5, <1>6 DEF HasArguments, ToSet
<1>8. QED
  BY <1>4, <1>5, <1>6, <1>7

(* The name is refused at its character NAME_SIZE + 1.                        *)
TooLate(c, k) == k > NAME_SIZE /\ FirstBlank(c) > NAME_SIZE + 1

(* What the loop has come to after k characters.                              *)
After(c, k) ==
    IF TooLate(c, k)
    THEN [i |-> NAME_SIZE + 1, space_flag |-> FALSE, cmd_len |-> 0, arg |-> <<>>,
          refused |-> TRUE]
    ELSE IF FirstBlank(c) <= k
    THEN [i |-> k, space_flag |-> TRUE, cmd_len |-> FirstBlank(c) - 1,
          arg |-> SubSeq(c, FirstBlank(c) + 1, k), refused |-> FALSE]
    ELSE [i |-> k, space_flag |-> FALSE, cmd_len |-> 0, arg |-> <<>>, refused |-> FALSE]

LEMMA AfterNone ==
    ASSUME NEW c \in Commands
    PROVE  After(c, 0) = Unparsed
<1>1. FirstBlank(c) \in Nat /\ FirstBlank(c) > 0 /\ NAME_SIZE \in Nat
  BY FirstBlankFacts, CommandLineAssumption
<1>2. QED
  BY <1>1 DEF After, TooLate, Unparsed

LEMMA AfterOneMore ==
    ASSUME NEW c \in Commands, NEW k \in 1 .. Len(c)
    PROVE  After(c, k) = Turn(After(c, k - 1), c[k])
<1> DEFINE b == FirstBlank(c)
           before == After(c, k - 1)
<1>1. /\ b \in Nat /\ b > 0
      /\ \A j \in 1 .. Len(c) : j < b => c[j] # BLANK
      /\ b <= Len(c) => c[b] = BLANK
      /\ Len(c) \in Nat /\ NAME_SIZE \in Nat /\ k \in Nat /\ k >= 1 /\ k <= Len(c)
  BY FirstBlankFacts, CommandFacts, CommandLineAssumption
<1>2. CASE TooLate(c, k - 1)
  <2>1. TooLate(c, k)
    BY <1>1, <1>2 DEF TooLate
  <2>2. QED
    BY <1>2, <2>1 DEF After, Turn
<1>3. CASE ~ TooLate(c, k - 1) /\ TooLate(c, k)
  <2>1. k = NAME_SIZE + 1 /\ k < b
    BY <1>1, <1>3 DEF TooLate
  <2>2. c[k] # BLANK
    BY <1>1, <2>1
  <2>3. before = [i |-> k - 1, space_flag |-> FALSE, cmd_len |-> 0, arg |-> <<>>,
                  refused |-> FALSE]
    BY <1>1, <1>3, <2>1 DEF After
  <2>4. Turn(before, c[k]) = [before EXCEPT !.i = @ + 1, !.refused = NameTooLong(before.i)]
    BY <2>2, <2>3 DEF Turn, EndsName
  <2>5. NameTooLong(before.i) = TRUE /\ before.i + 1 = NAME_SIZE + 1
    BY <1>1, <2>1, <2>3 DEF NameTooLong
  <2>6. Turn(before, c[k]) = [i |-> NAME_SIZE + 1, space_flag |-> FALSE, cmd_len |-> 0,
                              arg |-> <<>>, refused |-> TRUE]
    <3> HIDE DEF before
    <3>1. QED
      BY <2>3, <2>4, <2>5
  <2>7. QED
    BY <1>3, <2>6 DEF After
<1>4. CASE ~ TooLate(c, k) /\ k < b
  <2>1. c[k] # BLANK /\ k <= NAME_SIZE /\ ~ TooLate(c, k - 1)
    BY <1>1, <1>4 DEF TooLate
  <2>2. before = [i |-> k - 1, space_flag |-> FALSE, cmd_len |-> 0, arg |-> <<>>,
                  refused |-> FALSE]
    BY <1>1, <1>4, <2>1 DEF After
  <2>3. Turn(before, c[k]) = [before EXCEPT !.i = @ + 1, !.refused = NameTooLong(before.i)]
    BY <2>1, <2>2 DEF Turn, EndsName
  <2>4. NameTooLong(before.i) = FALSE /\ before.i + 1 = k
    BY <1>1, <2>1, <2>2 DEF NameTooLong
  <2>5. Turn(before, c[k]) = [i |-> k, space_flag |-> FALSE, cmd_len |-> 0,
                              arg |-> <<>>, refused |-> FALSE]
    <3> HIDE DEF before
    <3>1. QED
      BY <2>2, <2>3, <2>4
  <2>6. QED
    BY <1>1, <1>4, <2>5 DEF After
<1>5. CASE ~ TooLate(c, k) /\ k = b
  <2>1. c[k] = BLANK /\ ~ TooLate(c, k - 1)
    BY <1>1, <1>5 DEF TooLate
  <2>2. before = [i |-> k - 1, space_flag |-> FALSE, cmd_len |-> 0, arg |-> <<>>,
                  refused |-> FALSE]
    BY <1>1, <1>5, <2>1 DEF After
  <2>3. Turn(before, c[k]) =
            [before EXCEPT !.i = @ + 1, !.space_flag = TRUE, !.cmd_len = before.i]
    BY <2>1, <2>2 DEF Turn, EndsName
  <2>4. before.i + 1 = k /\ before.i = b - 1
    BY <1>1, <1>5, <2>2
  <2>5. Turn(before, c[k]) = [i |-> k, space_flag |-> TRUE, cmd_len |-> b - 1,
                              arg |-> <<>>, refused |-> FALSE]
    <3> HIDE DEF before
    <3>1. QED
      BY <2>2, <2>3, <2>4
  <2>6. SubSeq(c, b + 1, k) = <<>>
    <3>1. b + 1 \in Int /\ k \in Int /\ k < b + 1
      BY <1>1, <1>5
    <3>2. QED
      BY <3>1, SubSeqEmpty
  <2>7. After(c, k) = [i |-> k, space_flag |-> TRUE, cmd_len |-> b - 1,
                       arg |-> SubSeq(c, b + 1, k), refused |-> FALSE]
    BY <1>1, <1>5 DEF After
  <2>8. QED
    BY <2>5, <2>6, <2>7
<1>6. CASE ~ TooLate(c, k) /\ b < k
  <2>1. ~ TooLate(c, k - 1) /\ b <= k - 1
    BY <1>1, <1>6 DEF TooLate
  <2> DEFINE sofar == SubSeq(c, b + 1, k - 1)
  <2>2. before = [i |-> k - 1, space_flag |-> TRUE, cmd_len |-> b - 1, arg |-> sofar,
                  refused |-> FALSE]
    BY <2>1 DEF After
  <2>3. Turn(before, c[k]) = [before EXCEPT !.i = @ + 1, !.arg = Append(@, c[k])]
    BY <2>2 DEF Turn, EndsName
  <2>4. Turn(before, c[k]) = [i |-> k, space_flag |-> TRUE, cmd_len |-> b - 1,
                              arg |-> Append(sofar, c[k]), refused |-> FALSE]
    <3>1. before.i + 1 = k
      BY <1>1, <2>2
    <3> HIDE DEF sofar, before
    <3>2. QED
      BY <2>2, <2>3, <3>1
  <2>5. Append(sofar, c[k]) = SubSeq(c, b + 1, k)
    <3>1. c \in Seq(ToSet(c)) /\ c[k] \in ToSet(c)
      BY CommandFacts
    <3>2. b + 1 \in 1 .. Len(c) /\ k \in b + 1 .. Len(c)
      BY <1>1, <1>6
    <3>3. SubSeq(c, b + 1, k) = sofar \o <<c[k]>>
      BY <3>1, <3>2, SubSeqRecursiveSecond
    <3>4. sofar \in Seq(ToSet(c))
      <4>1. b + 1 \in Nat \ {0} /\ k - 1 \in 0 .. Len(c)
        BY <1>1, <3>2
      <4>2. QED
        BY <4>1, PartFacts
    <3>5. QED
      BY <3>1, <3>3, <3>4, AppendIsConcat
  <2>6. After(c, k) = [i |-> k, space_flag |-> TRUE, cmd_len |-> b - 1,
                       arg |-> SubSeq(c, b + 1, k), refused |-> FALSE]
    BY <1>1, <1>6 DEF After
  <2>7. QED
    BY <2>4, <2>5, <2>6
<1>7. QED
  BY <1>1, <1>2, <1>3, <1>4, <1>5, <1>6

(* The loop as the recursion has it is what After says.                       *)
LEMMA TurnsResult ==
    ASSUME NEW c \in Commands
    PROVE  \A k \in 0 .. Len(c) : Turns(c)[k] = After(c, k)
<1> DEFINE IsLoop(f) == f = [k \in 0 .. Len(c) |->
                               IF k = 0 THEN Unparsed ELSE Turn(f[k - 1], c[k])]
           loop == [k \in 0 .. Len(c) |-> After(c, k)]
           found == CHOOSE f : IsLoop(f)
<1>1. Len(c) \in Nat
  BY CommandFacts
<1>2. IsLoop(loop)
  <2>1. \A k \in 0 .. Len(c) : k # 0 => k \in 1 .. Len(c) /\ k - 1 \in 0 .. Len(c)
    BY <1>1
  <2>2. \A k \in 0 .. Len(c) : k # 0 => loop[k] = Turn(loop[k - 1], c[k])
    BY <2>1, AfterOneMore
  <2>3. 0 \in 0 .. Len(c) => loop[0] = Unparsed
    BY AfterNone
  <2>4. QED
    BY <2>2, <2>3
<1>3. Turns(c) = found
  BY DEF Turns
<1>4. IsLoop(found)
  BY <1>2
<1> HIDE DEF found
<1>5. \A k \in 0 .. Len(c) :
          found[k] = IF k = 0 THEN Unparsed ELSE Turn(found[k - 1], c[k])
  BY <1>4
<1> DEFINE Below == {ss \in Nat \X Nat : ss[1] < ss[2]}
           Wrong == {k \in 0 .. Len(c) : found[k] # After(c, k)}
<1> HIDE DEF Below, IsLoop
<1>6. SUFFICES ASSUME Wrong # {} PROVE FALSE
  BY <1>3
<1>7. Wrong \subseteq Nat
  BY <1>1
<1>8. PICK k \in Wrong : \A j \in Wrong : ~ (<<j, k>> \in Below)
  <2> HIDE DEF Wrong
  <2>1. QED
    BY <1>6, <1>7, LessThanIsWellFounded, WFMin DEF Below
<1>9. k # 0
  BY <1>1, <1>5, <1>8, AfterNone
<1>10. k - 1 \in 0 .. Len(c) /\ k \in 1 .. Len(c) /\ k - 1 < k
  BY <1>1, <1>9
<1>11. found[k - 1] = After(c, k - 1)
  BY <1>8, <1>10, <1>7 DEF Below
<1>12. found[k] = After(c, k)
  BY <1>5, <1>9, <1>10, <1>11, AfterOneMore
<1>13. QED
  BY <1>8, <1>12

LEMMA ParsedResult ==
    ASSUME NEW c \in Commands
    PROVE  Parsed[c] = After(c, Len(c))
<1>1. Len(c) \in 0 .. Len(c)
  BY CommandFacts
<1>2. QED
  BY <1>1, TurnsResult DEF Parsed

-----------------------------------------------------------------------------
(* strtok.                                                                    *)

LEMMA WordLengthFacts ==
    ASSUME NEW c \in Commands
    PROVE  LET n == WordLength(c)
           IN  /\ n \in 0 .. Len(c)
               /\ \A k \in 1 .. n : c[k] \notin {BLANK, NEWLINE}
               /\ n < Len(c) => c[n + 1] \in {BLANK, NEWLINE}
               /\ n < FirstBlank(c)
<1> DEFINE end == Min(WordEnds(c))
<1>1. Len(c) \in Nat
  BY CommandFacts
<1>2. WordEnds(c) \in SUBSET Nat /\ WordEnds(c) # {}
  BY <1>1 DEF WordEnds
<1>3. end \in WordEnds(c) /\ \A k \in WordEnds(c) : end <= k
  BY <1>2, MinOfNats
<1>4. WordLength(c) = end - 1
  BY DEF WordLength
<1> HIDE DEF end
<1>5. end \in 1 .. Len(c) + 1
  BY <1>1, <1>3 DEF WordEnds
<1>6. end - 1 \in 0 .. Len(c)
  BY <1>1, <1>5
<1>7. \A k \in 1 .. end - 1 : c[k] \notin {BLANK, NEWLINE}
  <2>1. \A k \in 1 .. end - 1 : k \in 1 .. Len(c) /\ ~ (end <= k)
    BY <1>1, <1>5
  <2>2. QED
    BY <1>3, <2>1 DEF WordEnds
<1>8. end - 1 < Len(c) => c[end] \in {BLANK, NEWLINE}
  BY <1>1, <1>3, <1>5 DEF WordEnds
<1>9. FirstBlank(c) \in WordEnds(c)
  <2>1. /\ FirstBlank(c) \in 1 .. Len(c) + 1
        /\ FirstBlank(c) <= Len(c) => c[FirstBlank(c)] = BLANK
    BY FirstBlankFacts
  <2>2. QED
    BY <1>1, <2>1 DEF WordEnds
<1>10. FirstBlank(c) \in Nat /\ end <= FirstBlank(c)
  BY <1>3, <1>9, FirstBlankFacts
<1>11. end - 1 < FirstBlank(c) /\ end - 1 + 1 = end
  BY <1>1, <1>5, <1>10
<1>12. QED
  BY <1>4, <1>6, <1>7, <1>8, <1>11

(* Whatever the name is, it is the first word of the command.                 *)
LEMMA NameIsWord ==
    ASSUME NEW c \in Commands, strtok(c) # NULL
    PROVE  /\ c[1] # BLANK
           /\ Len(strtok(c)) = WordLength(c)
           /\ strtok(c) = SubSeq(c, 1, WordLength(c))
           /\ IsWord(strtok(c), c)
<1> DEFINE n == WordLength(c)
           w == SubSeq(c, 1, n)
<1>1. c[1] # BLANK /\ strtok(c) = w
  BY DEF strtok
<1>2. /\ n \in 0 .. Len(c)
      /\ \A k \in 1 .. n : c[k] \notin {BLANK, NEWLINE}
      /\ n < Len(c) => c[n + 1] \in {BLANK, NEWLINE}
      /\ Len(c) \in Nat
  BY WordLengthFacts, CommandFacts
<1> HIDE DEF n
<1>3. /\ w \in Seq(ToSet(c))
      /\ Len(w) = n
      /\ DOMAIN w = 1 .. n
      /\ \A k \in 1 .. n : w[k] = c[k]
  BY <1>2, PrefixFacts
<1>4. SubSeq(w, 1, Len(w)) = w
  BY <1>3, SubSeqFull
<1> HIDE DEF w
<1>5. IsPrefix(w, c)
  BY <1>2, <1>3, <1>4 DEF IsPrefix, w
<1>6. {BLANK, NEWLINE} \cap ToSet(w) = {}
  BY <1>2, <1>3 DEF ToSet
<1>7. IsWord(w, c)
  BY <1>2, <1>3, <1>5, <1>6 DEF IsWord
<1>8. QED
  BY <1>1, <1>3, <1>7 DEF w, n

LEMMA NullIsBlank ==
    ASSUME NEW c \in Commands
    PROVE  strtok(c) = NULL <=> c[1] = BLANK
<1>1. ASSUME c[1] # BLANK, strtok(c) = NULL PROVE FALSE
  <2> DEFINE n == WordLength(c)
             w == SubSeq(c, 1, n)
  <2>1. w = NULL
    BY <1>1 DEF strtok
  <2>2. 1 \in Nat \ {0} /\ n \in 0 .. Len(c) /\ Len(c) \in Nat
    BY WordLengthFacts, CommandFacts
  <2>3. Len(w) = n /\ \A k \in 1 .. n : w[k] = c[k]
    BY <2>2, PrefixFacts
  <2> HIDE DEF w, n
  <2>4. Len(w) = 1 /\ w[1] = NUL
    BY <2>1 DEF NULL
  <2>5. 1 \in 1 .. n /\ 1 \in 1 .. Len(c)
    BY <2>2, <2>3, <2>4
  <2>6. c[1] = NUL
    BY <2>3, <2>4, <2>5
  <2>7. QED
    BY <2>5, <2>6, CommandFacts
<1>2. QED
  BY <1>1 DEF strtok

(* No other program has a name that is the first word.                        *)
LEMMA WordIsName ==
    ASSUME NEW c \in Commands, NEW w \in Runnable, IsWord(w, c)
    PROVE  strtok(c) = w
<1>1. /\ w \in Seq(ToSet(w)) /\ w # <<>>
      /\ {BLANK, NEWLINE} \cap ToSet(w) = {}
  BY CommandLineAssumption
<1>2. Len(w) \in Nat \ {0} /\ DOMAIN w = 1 .. Len(w)
  BY <1>1, LenProperties, EmptySeq
<1>3. Len(c) \in Nat /\ Len(w) <= Len(c)
  BY CommandFacts DEF IsWord, IsPrefix
<1>4. w = SubSeq(c, 1, Len(w))
  BY <1>1, SubSeqFull DEF IsWord, IsPrefix
<1>5. \A k \in 1 .. Len(w) : c[k] \notin {BLANK, NEWLINE}
  <2>1. \A k \in 1 .. Len(w) : w[k] \notin {BLANK, NEWLINE}
    BY <1>1, <1>2 DEF ToSet
  <2> DEFINE m == Len(w)
             v == SubSeq(c, 1, m)
  <2>2. m \in 0 .. Len(c)
    BY <1>2, <1>3
  <2>3. \A k \in 1 .. m : v[k] = c[k]
    BY <2>2, PrefixFacts
  <2>4. QED
    BY <1>4, <2>1, <2>3
<1> DEFINE n == WordLength(c)
<1>6. /\ n \in 0 .. Len(c)
      /\ \A k \in 1 .. n : c[k] \notin {BLANK, NEWLINE}
      /\ n < Len(c) => c[n + 1] \in {BLANK, NEWLINE}
  BY WordLengthFacts
<1> HIDE DEF n
<1>7. ~ (n < Len(w))
  <2>1. n < Len(w) => n + 1 \in 1 .. Len(w) /\ n < Len(c)
    BY <1>2, <1>3, <1>6
  <2>2. QED
    BY <1>5, <1>6, <2>1
<1>8. ~ (Len(w) < n)
  <2>1. SUFFICES ASSUME Len(w) < n PROVE FALSE
    OBVIOUS
  <2>2. Len(w) + 1 \in 1 .. n /\ Len(w) < Len(c)
    BY <1>2, <1>3, <1>6, <2>1
  <2>3. c[Len(w) + 1] \in {BLANK, NEWLINE}
    BY <2>2 DEF IsWord
  <2>4. c[Len(w) + 1] \notin {BLANK, NEWLINE}
    BY <1>6, <2>2
  <2>5. QED
    BY <2>3, <2>4
<1>9. n = Len(w)
  <2>1. n \in Int /\ Len(w) \in Int
    BY <1>2, <1>3, <1>6
  <2>2. QED
    BY <1>7, <1>8, <2>1
<1>10. c[1] # BLANK
  BY <1>2, <1>5
<1>11. QED
  BY <1>4, <1>9, <1>10 DEF strtok, n

-----------------------------------------------------------------------------
(* The arguments.                                                             *)

(* What stands behind the first blank.                                        *)
RestOf(c) == SubSeq(c, FirstBlank(c) + 1, Len(c))

LEMMA RestFacts ==
    ASSUME NEW c \in Commands, HasArguments(c)
    PROVE  /\ RestOf(c) \in Seq(ToSet(c))
           /\ Len(RestOf(c)) = Len(c) - FirstBlank(c)
           /\ Len(RestOf(c)) \in Nat /\ Len(RestOf(c)) <= Len(c)
           /\ DOMAIN RestOf(c) = 1 .. Len(RestOf(c))
           /\ \A k \in 1 .. Len(RestOf(c)) : RestOf(c)[k] # NUL
<1> DEFINE b == FirstBlank(c)
<1>1. /\ b \in Nat /\ b <= Len(c) /\ b > 0 /\ Len(c) \in Nat
  BY FirstBlankFacts, CommandFacts
<1> HIDE DEF b
<1>2. b + 1 \in Nat \ {0} /\ Len(c) \in 0 .. Len(c)
  BY <1>1
<1> DEFINE rest == SubSeq(c, b + 1, Len(c))
<1>3. /\ rest \in Seq(ToSet(c))
      /\ Len(rest) = IF b + 1 <= Len(c) THEN Len(c) - (b + 1) + 1 ELSE 0
      /\ DOMAIN rest = 1 .. Len(rest)
      /\ \A k \in 1 .. Len(rest) : rest[k] = c[b + 1 + k - 1]
  BY <1>2, PartFacts
<1> HIDE DEF rest
<1>4. Len(rest) = Len(c) - b
  BY <1>1, <1>3
<1>5. \A k \in 1 .. Len(rest) : b + 1 + k - 1 \in 1 .. Len(c)
  BY <1>1, <1>4
<1>6. \A k \in 1 .. Len(rest) : rest[k] # NUL
  BY <1>3, <1>5, CommandFacts
<1>7. RestOf(c) = rest
  BY DEF RestOf, rest, b
<1>8. Len(rest) \in Nat /\ Len(rest) <= Len(c)
  BY <1>1, <1>4
<1>9. QED
  BY <1>3, <1>4, <1>6, <1>7, <1>8 DEF b

LEMMA RestIsArguments ==
    ASSUME NEW c \in Commands, HasArguments(c)
    PROVE  AreArguments(RestOf(c), c)
<1> DEFINE b == FirstBlank(c)
           before == SubSeq(c, 1, b - 1)
<1>1. /\ b \in Nat /\ b <= Len(c) /\ b > 0 /\ Len(c) \in Nat
      /\ c[b] = BLANK
      /\ \A k \in 1 .. Len(c) : k < b => c[k] # BLANK
  BY FirstBlankFacts, CommandFacts
<1>2. c \in Seq(ToSet(c))
  BY CommandFacts
<1> HIDE DEF b
<1>3. b - 1 \in 0 .. Len(c) /\ 1 \in 1 .. Len(c) /\ b \in 1 .. Len(c)
  BY <1>1
<1>4. /\ DOMAIN before = 1 .. b - 1
      /\ \A k \in 1 .. b - 1 : before[k] = c[k]
  BY <1>3, PrefixFacts
<1>5. \A k \in 1 .. b - 1 : c[k] # BLANK
  BY <1>1
<1>6. BLANK \notin ToSet(before)
  BY <1>4, <1>5 DEF ToSet
<1>7. SubSeq(c, 1, b) = before \o <<c[b]>>
  BY <1>2, <1>3, SubSeqRecursiveSecond
<1>8. SubSeq(c, 1, b) \o SubSeq(c, b + 1, Len(c)) = SubSeq(c, 1, Len(c))
  <2>1. 1 \in 1 .. Len(c) + 1 /\ b \in 1 - 1 .. Len(c) /\ Len(c) \in b .. Len(c)
    BY <1>1
  <2>2. QED
    BY <1>2, <2>1, ConcatAdjacentSubSeq
<1>9. SubSeq(c, 1, Len(c)) = c
  BY <1>2, SubSeqFull
<1>10. c = before \o <<BLANK>> \o RestOf(c)
  BY <1>1, <1>7, <1>8, <1>9 DEF RestOf, b
<1>11. before \in {SubSeq(c, 1, k) : k \in 0 .. Len(c)}
  BY <1>3
<1> HIDE DEF before
<1>12. QED
  BY <1>6, <1>10, <1>11 DEF AreArguments

(* A string ends inside its array.                                            *)
LEMMA StringFits ==
    ASSUME NEW a, Ends(a)
    PROVE  Len(String(a)) < ARGS_SIZE
<1> DEFINE S == {k \in Fits : a[k] = NUL}
           n == Min(S)
<1>1. ARGS_SIZE \in Nat
  BY CommandLineAssumption
<1>2. S \in SUBSET Nat /\ S # {}
  BY <1>1 DEF Ends, Fits
<1>3. n \in S
  BY <1>2, MinOfNats
<1>4. n \in Nat /\ n < ARGS_SIZE
  BY <1>1, <1>3 DEF Fits
<1>5. String(a) = [k \in 1 .. n |-> a[k - 1]]
  BY DEF String
<1> HIDE DEF n
<1>6. Len(String(a)) = n
  BY <1>4, <1>5
<1>7. QED
  BY <1>4, <1>6

(* What the loop has stored and the terminator behind it are the arguments.   *)
LEMMA StoredIsRest ==
    ASSUME NEW c \in Commands, HasArguments(c), Len(RestOf(c)) \in Fits,
           NEW old, NEW p, p.arg = RestOf(c)
    PROVE  String(Terminated(Stored(p, old), Len(RestOf(c)))) = RestOf(c)
<1> DEFINE r == RestOf(c)
           n == Len(r)
           a == Terminated(Stored(p, old), n)
           S == {k \in Fits : a[k] = NUL}
<1>1. /\ r \in Seq(ToSet(c))
      /\ n \in Nat
      /\ DOMAIN r = 1 .. n
      /\ \A k \in 1 .. n : r[k] # NUL
  BY RestFacts
<1>2. p.arg = r /\ n \in Fits /\ ARGS_SIZE \in Nat
  BY CommandLineAssumption
<1> HIDE DEF r
<1>3. a = [[k \in Fits |-> IF k < n THEN r[k + 1] ELSE old[k]] EXCEPT ![n] = NUL]
  BY <1>2 DEF Terminated, Stored
<1>4. a[n] = NUL
  BY <1>2, <1>3
<1>5. \A k \in Fits : k < n => a[k] = r[k + 1]
  BY <1>1, <1>2, <1>3
<1> HIDE DEF a, n
<1>6. \A k \in Fits : k < n => k + 1 \in 1 .. n
  BY <1>1, <1>2 DEF Fits
<1>7. n \in S /\ S \in SUBSET Nat /\ \A k \in S : ~ (k < n)
  <2>1. n \in S
    BY <1>2, <1>4
  <2>2. S \in SUBSET Nat
    BY <1>2 DEF Fits
  <2>3. \A k \in S : ~ (k < n)
    BY <1>1, <1>5, <1>6
  <2>4. QED
    BY <2>1, <2>2, <2>3
<1>8. Min(S) \in S /\ \A k \in S : Min(S) <= k
  BY <1>7, MinOfNats
<1> HIDE DEF S
<1>9. Min(S) = n
  <2>1. Min(S) \in Nat /\ n \in Nat /\ Min(S) <= n /\ ~ (Min(S) < n)
    BY <1>1, <1>7, <1>8
  <2>2. QED
    BY <2>1
<1>10. String(a) = [k \in 1 .. n |-> a[k - 1]]
  BY <1>9 DEF String, S
<1>11. \A k \in 1 .. n : a[k - 1] = r[k]
  <2>1. \A k \in 1 .. n : k - 1 \in Fits /\ k - 1 < n /\ k - 1 + 1 = k
    BY <1>1, <1>2 DEF Fits
  <2>2. QED
    BY <1>5, <2>1
<1>12. r = [k \in 1 .. n |-> r[k]]
  BY <1>1
<1>13. String(a) = r
  BY <1>10, <1>11, <1>12
<1>14. QED
  BY <1>13 DEF a, n, r

(* getargs gives all of them and NULs, or as many as there is room for.       *)
Given(buf, c) ==
    \E w \in {SubSeq(buf, 1, k) : k \in 0 .. Len(buf)} :
        \/ /\ AreArguments(w, c)
           /\ \A k \in Len(w) + 1 .. Len(buf) : buf[k] = NUL
        \/ /\ w = buf
           /\ \E k \in 0 .. Len(c) :
                 AreArguments(w \o SubSeq(c, Len(c) - k + 1, Len(c)), c)

LEMMA RestIsGiven ==
    ASSUME NEW c \in Commands, HasArguments(c), NEW n \in Nat, NEW buf,
           buf = [k \in 1 .. n |-> IF k <= Len(RestOf(c)) THEN RestOf(c)[k] ELSE NUL]
    PROVE  Given(buf, c)
<1> DEFINE r == RestOf(c)
           m == Len(r)
           b == FirstBlank(c)
           T == ToSet(c) \cup {NUL}
<1>1. /\ r \in Seq(ToSet(c)) /\ m \in Nat /\ m = Len(c) - b
      /\ DOMAIN r = 1 .. m
  BY RestFacts
<1>2. AreArguments(r, c)
  BY RestIsArguments
<1>3. /\ b \in Nat /\ b <= Len(c) /\ b > 0 /\ Len(c) \in Nat
      /\ c \in Seq(ToSet(c)) /\ r = SubSeq(c, b + 1, Len(c))
  BY FirstBlankFacts, CommandFacts DEF RestOf
<1>4. buf = [k \in 1 .. n |-> IF k <= m THEN r[k] ELSE NUL]
  OBVIOUS
<1> HIDE DEF r, b
<1>5. \A k \in 1 .. m : r[k] \in ToSet(c)
  BY <1>1
<1>6. buf \in [1 .. n -> T]
  BY <1>1, <1>4, <1>5
<1> HIDE DEF T
<1>7. buf \in Seq(T) /\ Len(buf) = n
  BY <1>6
<1>8. CASE m <= n
  <2> DEFINE w == SubSeq(buf, 1, m)
  <2>1. m \in 0 .. Len(buf) /\ m \in 0 .. n
    BY <1>1, <1>7, <1>8
  <2>2. r \in Seq(T)
    BY <1>1 DEF T
  <2>3. w \in Seq(T) /\ Len(w) = m /\ \A k \in 1 .. m : w[k] = buf[k]
    <3> HIDE DEF m
    <3>1. \A k \in 1 .. m : buf[k] \in T
      BY <1>6, <2>1
    <3>2. 1 \in Int /\ m \in Int
      BY <2>1
    <3>3. /\ w \in Seq(T)
          /\ Len(w) = IF 1 <= m THEN m - 1 + 1 ELSE 0
          /\ \A k \in 1 .. m - 1 + 1 : w[k] = buf[1 + k - 1]
      BY <3>1, <3>2, SubSeqProperties
    <3>4. m - 1 + 1 = m /\ \A k \in 1 .. m : 1 + k - 1 = k
      BY <3>2
    <3>5. QED
      BY <1>1, <3>3, <3>4
  <2> HIDE DEF w
  <2>4. \A k \in 1 .. m : buf[k] = r[k]
    BY <1>1, <1>4, <1>8
  <2>5. w = r
    BY <2>2, <2>3, <2>4, SeqEqual
  <2>6. \A k \in Len(w) + 1 .. Len(buf) : buf[k] = NUL
    <3> HIDE DEF m
    <3>1. \A k \in m + 1 .. n : k \in 1 .. n /\ ~ (k <= m)
      BY <1>1, <1>8
    <3>2. QED
      BY <1>4, <1>7, <2>3, <3>1
  <2>7. w \in {SubSeq(buf, 1, k) : k \in 0 .. Len(buf)}
    BY <2>1 DEF w
  <2>8. QED
    BY <1>2, <2>5, <2>6, <2>7 DEF Given
<1>9. CASE n < m
  <2> DEFINE k == m - n
             behind == SubSeq(c, Len(c) - k + 1, Len(c))
  <2>1. k \in 0 .. Len(c) /\ Len(c) - k = b + n
    BY <1>1, <1>3, <1>9
  <2>2. buf = SubSeq(c, b + 1, b + n)
    <3> DEFINE part == SubSeq(c, b + 1, b + n)
    <3>1. b + 1 \in Nat \ {0} /\ b + n \in 0 .. Len(c) /\ Len(c) \in 0 .. Len(c)
      <4>1. b + 1 \in Nat \ {0} /\ Len(c) \in 0 .. Len(c)
        BY <1>3
      <4>2. b + n \in Nat /\ b + n <= Len(c)
        BY <1>1, <1>3, <1>9
      <4>3. QED
        BY <1>3, <4>1, <4>2
    <3>2. /\ part \in Seq(ToSet(c))
          /\ Len(part) = n
          /\ \A i \in 1 .. n : part[i] = c[b + 1 + i - 1]
      <4> DEFINE first == b + 1
                 last == b + n
                 cut == SubSeq(c, first, last)
      <4>1. part = cut
        OBVIOUS
      <4>2. first \in Nat \ {0} /\ last \in 0 .. Len(c)
        BY <3>1
      <4>3. last - first + 1 = n /\ (first <= last <=> 1 <= n)
        BY <1>3
      <4> HIDE DEF first, last, m, k, behind, part
      <4>4. /\ cut \in Seq(ToSet(c))
            /\ Len(cut) = IF first <= last THEN last - first + 1 ELSE 0
            /\ \A i \in 1 .. Len(cut) : cut[i] = c[first + i - 1]
        BY <4>2, PartFacts
      <4> HIDE DEF cut
      <4>5. Len(cut) = n
        BY <4>3, <4>4
      <4>6. QED
        BY <4>1, <4>4, <4>5 DEF first
    <3>3. \A i \in 1 .. m : r[i] = c[b + 1 + i - 1]
      BY <1>3, <3>1, PartFacts
    <3> HIDE DEF part, m
    <3>4. \A i \in 1 .. n : i \in 1 .. m /\ i <= m
      BY <1>1, <1>9
    <3>5. \A i \in 1 .. n : part[i] = buf[i]
      BY <1>4, <3>2, <3>3, <3>4
    <3>6. part \in Seq(T)
      BY <3>2 DEF T
    <3>7. part = buf
      BY <1>7, <3>2, <3>5, <3>6, SeqEqual
    <3>8. QED
      BY <3>7 DEF part
  <2>3. SubSeq(c, b + 1, b + n) \o SubSeq(c, b + n + 1, Len(c)) = SubSeq(c, b + 1, Len(c))
    <3>1. /\ b + 1 \in 1 .. Len(c) + 1
          /\ b + n \in (b + 1) - 1 .. Len(c)
          /\ Len(c) \in b + n .. Len(c)
      BY <1>1, <1>3, <1>9
    <3>2. QED
      BY <1>3, <3>1, ConcatAdjacentSubSeq
  <2>4. behind = SubSeq(c, b + n + 1, Len(c))
    BY <2>1
  <2> HIDE DEF k, behind
  <2>5. AreArguments(buf \o behind, c)
    BY <1>2, <1>3, <2>2, <2>3, <2>4
  <2>6. SubSeq(buf, 1, Len(buf)) = buf
    BY <1>7, SubSeqFull
  <2>7. buf \in {SubSeq(buf, 1, i) : i \in 0 .. Len(buf)}
    <3>1. Len(buf) \in 0 .. Len(buf)
      BY <1>7
    <3>2. QED
      BY <2>6, <3>1
  <2>8. QED
    BY <2>1, <2>5, <2>7 DEF Given, behind
<1>10. QED
  BY <1>1, <1>8, <1>9

-----------------------------------------------------------------------------
(* What execute comes to.                                                     *)

(* Why it refuses a command, and why it may leave its buffers.                *)
CannotRun(c) ==
    \/ \A w \in Runnable : ~ IsWord(w, c)
    \/ Used = Slots
    \/ \E k \in NAME_SIZE .. Len(c) : BLANK \notin ToSet(SubSeq(c, 1, k))

Fills(c) ==
    \/ ~ HasArguments(c) /\ Len(c) <= NAME_SIZE
    \/ IsWord(SubSeq(c, 1, NAME_SIZE), c)
    \/ \E k \in ARGS_SIZE .. Len(c) : AreArguments(SubSeq(c, Len(c) - k + 1, Len(c)), c)

Starts(c, a) ==
    /\ Start(c, strtok(c), a)
    /\ strtok(c) \in Runnable
    /\ IsWord(strtok(c), c)
    /\ OpenSpot # {}
    /\ Ends(a)
    /\ HasArguments(c) => String(a) = RestOf(c)

Outcome(c) ==
    \/ ComesTo(Refused(c)) /\ CannotRun(c)
    \/ PageFault(c) /\ c[1] = BLANK
    \/ ComesTo(Cleared(c))
    \/ ComesTo(Overrun(c)) /\ Fills(c)
    \/ \E a : Starts(c, a)

(* A name refused for its length has no blank among its first characters.     *)
LEMMA RefusedIsTooLong ==
    ASSUME NEW c \in Commands, TooLate(c, Len(c))
    PROVE  CannotRun(c)
<1> DEFINE k == NAME_SIZE + 1
           w == SubSeq(c, 1, k)
<1>1. /\ Len(c) \in Nat /\ NAME_SIZE \in Nat /\ Len(c) > NAME_SIZE
      /\ FirstBlank(c) > k /\ FirstBlank(c) \in Nat
      /\ \A j \in 1 .. Len(c) : j < FirstBlank(c) => c[j] # BLANK
  BY FirstBlankFacts, CommandFacts, CommandLineAssumption DEF TooLate
<1>2. k \in NAME_SIZE .. Len(c) /\ k \in 0 .. Len(c) /\ k \in Nat
  BY <1>1
<1> HIDE DEF k
<1>3. DOMAIN w = 1 .. k /\ \A j \in 1 .. k : w[j] = c[j]
  BY <1>2, PrefixFacts
<1>4. \A j \in 1 .. k : c[j] # BLANK
  BY <1>1, <1>2
<1>5. BLANK \notin ToSet(w)
  BY <1>3, <1>4 DEF ToSet
<1> HIDE DEF w
<1>6. QED
  BY <1>2, <1>5 DEF CannotRun, w

(* A name that fills strtok's buffer is as long as that.                      *)
LEMMA LongNameFills ==
    ASSUME NEW c \in Commands, ~ TooLate(c, Len(c)), strtok(c) # NULL,
           Len(strtok(c)) >= NAME_SIZE
    PROVE  Fills(c)
<1> DEFINE n == WordLength(c)
<1>1. /\ Len(strtok(c)) = n
      /\ strtok(c) = SubSeq(c, 1, n)
      /\ IsWord(strtok(c), c)
  BY NameIsWord
<1>2. n \in 0 .. Len(c) /\ n < FirstBlank(c)
  BY WordLengthFacts
<1>3. NAME_SIZE \in Nat /\ Len(c) \in Nat /\ FirstBlank(c) \in Nat
  BY CommandLineAssumption, CommandFacts, FirstBlankFacts
<1> HIDE DEF n
<1>4. n >= NAME_SIZE /\ n \in Nat /\ n <= Len(c)
  BY <1>1, <1>2, <1>3
<1>5. Len(c) <= NAME_SIZE \/ FirstBlank(c) <= NAME_SIZE + 1
  BY <1>3 DEF TooLate
<1>6. n = NAME_SIZE
  BY <1>2, <1>3, <1>4, <1>5
<1>7. IsWord(SubSeq(c, 1, NAME_SIZE), c)
  BY <1>1, <1>6
<1>8. QED
  BY <1>7 DEF Fills

(* So are the arguments when the terminator is not inside temp_arg.           *)
LEMMA EndFits ==
    ASSUME NEW c \in Commands, ~ TooLate(c, Len(c)), NEW len \in UnsetLengths \cup Nat,
           HasArguments(c) => len = FirstBlank(c) - 1,
           Len(c) - len - 1 \notin Fits
    PROVE  Fills(c)
<1>1. /\ NAME_SIZE \in Nat /\ ARGS_SIZE \in Nat /\ Len(c) \in Nat
      /\ FirstBlank(c) \in Nat /\ FirstBlank(c) \in 1 .. Len(c) + 1
      /\ HasArguments(c) <=> FirstBlank(c) <= Len(c)
  BY CommandLineAssumption, CommandFacts, FirstBlankFacts
<1>2. CASE ~ HasArguments(c)
  <2>1. Len(c) <= NAME_SIZE
    BY <1>1, <1>2 DEF TooLate
  <2>2. QED
    BY <1>2, <2>1 DEF Fills
<1>3. CASE HasArguments(c)
  <2> DEFINE k == Len(c) - FirstBlank(c)
  <2>1. Len(c) - len - 1 = k
    BY <1>1, <1>3
  <2>2. k \in ARGS_SIZE .. Len(c) /\ Len(c) - k + 1 = FirstBlank(c) + 1
    <3>1. k \in Nat /\ k <= Len(c) /\ k \notin 0 .. ARGS_SIZE - 1
      BY <1>1, <1>3, <2>1 DEF Fits
    <3>2. QED
      BY <1>1, <3>1
  <2>3. AreArguments(SubSeq(c, Len(c) - k + 1, Len(c)), c)
    BY <1>3, <2>2, RestIsArguments DEF RestOf
  <2> HIDE DEF k
  <2>4. QED
    BY <2>2, <2>3 DEF Fills
<1>4. QED
  BY <1>2, <1>3

JobsType == jobs \in [Terms -> Seq(Slots) \ {<<>>}]

LEMMA UsedAreSlots ==
    ASSUME JobsType
    PROVE  Used \subseteq Slots
<1>1. \A t \in Terms : jobs[t] \in Seq(Slots)
  BY DEF JobsType
<1>2. \A t \in Terms : \A i \in DOMAIN jobs[t] : jobs[t][i] \in Slots
  BY <1>1, LenProperties
<1>3. QED
  BY <1>2 DEF Used, ToSet

(* What follows once the command was taken apart.                             *)
LEMMA RunOutcome ==
    ASSUME JobsType, NEW c \in Commands, ~ TooLate(c, Len(c)), NEW a, Ends(a),
           HasArguments(c) => String(a) = RestOf(c),
           RunCommand(c, a)
    PROVE  Outcome(c)
<1>1. CASE strtok(c) = NULL
  <2>1. PageFault(c)
    BY <1>1 DEF RunCommand
  <2>2. QED
    BY <1>1, <2>1, NullIsBlank DEF Outcome
<1>2. CASE strtok(c) # NULL /\ IsClear(strtok(c))
  BY <1>2 DEF RunCommand, Outcome
<1>3. CASE /\ strtok(c) # NULL /\ ~ IsClear(strtok(c))
           /\ Len(strtok(c)) >= NAME_SIZE
  <2>1. ComesTo(Overrun(c))
    BY <1>3 DEF RunCommand
  <2>2. QED
    BY <1>3, <2>1, LongNameFills DEF Outcome
<1>4. CASE /\ strtok(c) # NULL /\ ~ IsClear(strtok(c))
           /\ ~ (Len(strtok(c)) >= NAME_SIZE)
           /\ strtok(c) \notin Runnable \/ OpenSpot = {}
  <2>1. ComesTo(Refused(c))
    BY <1>4 DEF RunCommand
  <2>2. strtok(c) \notin Runnable => \A w \in Runnable : ~ IsWord(w, c)
    BY WordIsName
  <2>3. CannotRun(c)
    <3>1. CASE strtok(c) \notin Runnable
      BY <2>2, <3>1 DEF CannotRun
    <3>2. CASE OpenSpot = {}
      BY <3>2, UsedAreSlots DEF CannotRun, OpenSpot
    <3>3. QED
      BY <1>4, <3>1, <3>2
  <2>4. QED
    BY <2>1, <2>3 DEF Outcome
<1>5. CASE /\ strtok(c) # NULL /\ ~ IsClear(strtok(c))
           /\ ~ (Len(strtok(c)) >= NAME_SIZE)
           /\ ~ (strtok(c) \notin Runnable \/ OpenSpot = {})
  <2>1. Start(c, strtok(c), a)
    BY <1>5 DEF RunCommand
  <2>2. IsWord(strtok(c), c)
    BY <1>5, NameIsWord
  <2>3. Starts(c, a)
    BY <1>5, <2>1, <2>2 DEF Starts
  <2>4. QED
    BY <2>3 DEF Outcome
<1>6. QED
  BY <1>1, <1>2, <1>3, <1>4, <1>5

LEMMA ExecuteOutcome ==
    ASSUME JobsType, NEW c \in Commands, Execute(c)
    PROVE  Outcome(c) /\ active' = active
<1> DEFINE p == After(c, Len(c))
           Goes(old, len) ==
              IF p.i - len - 1 \notin Fits THEN ComesTo(Overrun(c))
              ELSE RunCommand(c, Terminated(Stored(p, old), p.i - len - 1))
<1>1. /\ active' = active
      /\ \/ /\ c = <<>> \/ p.refused
            /\ ComesTo(Refused(c))
         \/ /\ c # <<>> /\ ~ p.refused
            /\ \E old \in Leftovers :
                  \E len \in IF p.space_flag THEN {p.cmd_len} ELSE UnsetLengths :
                      Goes(old, len)
  BY ParsedResult DEF Execute
<1>2. p.refused <=> TooLate(c, Len(c))
  BY DEF After
<1>3. ASSUME ~ TooLate(c, Len(c))
      PROVE  /\ p.i = Len(c)
             /\ p.space_flag <=> HasArguments(c)
             /\ HasArguments(c) => p.cmd_len = FirstBlank(c) - 1 /\ p.arg = RestOf(c)
  <2>1. HasArguments(c) <=> FirstBlank(c) <= Len(c)
    BY FirstBlankFacts
  <2>2. QED
    BY <1>3, <2>1 DEF After, RestOf
<1> HIDE DEF p
<1>4. CASE c = <<>> /\ ComesTo(Refused(c))
  <2>1. ASSUME NEW w \in Runnable PROVE ~ IsWord(w, c)
    <3>1. w \in Seq(ToSet(w)) /\ w # <<>>
      BY CommandLineAssumption
    <3>2. Len(w) \in Nat \ {0}
      BY <3>1, EmptySeq
    <3>3. Len(c) = 0
      BY <1>4
    <3>4. QED
      BY <3>2, <3>3 DEF IsWord, IsPrefix
  <2>2. QED
    BY <1>1, <1>4, <2>1 DEF Outcome, CannotRun
<1>5. CASE p.refused /\ ComesTo(Refused(c))
  BY <1>1, <1>2, <1>5, RefusedIsTooLong DEF Outcome
<1>6. ASSUME ~ p.refused, NEW old \in Leftovers,
             NEW len \in IF p.space_flag THEN {p.cmd_len} ELSE UnsetLengths,
             Goes(old, len)
      PROVE  Outcome(c)
  <2> DEFINE end == Len(c) - len - 1
             a == Terminated(Stored(p, old), end)
  <2>1. ~ TooLate(c, Len(c)) /\ p.i = Len(c)
    BY <1>2, <1>3, <1>6
  <2>2. HasArguments(c) => len = FirstBlank(c) - 1
    BY <1>3, <1>6, <2>1
  <2>3. len \in UnsetLengths \cup Nat
    <3>1. CASE ~ HasArguments(c)
      BY <1>3, <1>6, <2>1, <3>1
    <3>2. CASE HasArguments(c)
      BY <2>2, <3>2, FirstBlankFacts
    <3>3. QED
      BY <3>1, <3>2
  <2>4. CASE end \notin Fits
    <3>1. ComesTo(Overrun(c))
      BY <1>6, <2>1, <2>4
    <3>2. Fills(c)
      BY <2>1, <2>2, <2>3, <2>4, EndFits
    <3>3. QED
      BY <3>1, <3>2 DEF Outcome
  <2>5. CASE end \in Fits
    <3>1. RunCommand(c, a)
      BY <1>6, <2>1, <2>5
    <3>2. Ends(a)
      <4> HIDE DEF end
      <4>1. a[end] = NUL
        BY <2>5 DEF Terminated, Stored
      <4>2. QED
        BY <2>5, <4>1 DEF Ends
    <3>3. ASSUME HasArguments(c) PROVE String(a) = RestOf(c)
      <4>1. /\ Len(c) \in Nat /\ FirstBlank(c) \in Nat
            /\ Len(RestOf(c)) = Len(c) - FirstBlank(c)
        BY <3>3, CommandFacts, FirstBlankFacts, RestFacts
      <4>2. end = Len(RestOf(c))
        BY <2>2, <3>3, <4>1
      <4>3. p.arg = RestOf(c)
        BY <1>3, <2>1, <3>3
      <4> HIDE DEF end
      <4>4. QED
        BY <2>5, <3>3, <4>2, <4>3, StoredIsRest
    <3> HIDE DEF a
    <3>4. QED
      BY <2>1, <3>1, <3>2, <3>3, RunOutcome
  <2>6. QED
    BY <2>4, <2>5
<1>7. QED
  BY <1>1, <1>4, <1>5, <1>6

-----------------------------------------------------------------------------
(* The invariant.                                                             *)

(* No two processes have one slot.                                            *)
Apart ==
    \A t, u \in Terms : \A i \in DOMAIN jobs[t], j \in DOMAIN jobs[u] :
        jobs[t][i] = jobs[u][j] => t = u /\ i = j

(* Whatever was loaded into a slot is the first word of its command, and the  *)
(* arguments of that command stay in its PCB.                                 *)
SlotInv(s) ==
    /\ IsWord(program[s], command[s])
    /\ HasArguments(command[s]) =>
          command[s] \in Commands /\ args[s] = RestOf(command[s])

CommandLineInv ==
    /\ TypeOK
    /\ DOMAIN args = Slots
    /\ Apart
    /\ \A s \in Slots : SlotInv(s)
    /\ GetsItsArguments
    /\ OverrunOnlyWhenFull

LEMMA TypeGivesJobs ==
    ASSUME TypeOK
    PROVE  JobsType /\ active \in Terms
  BY DEF TypeOK, JobsType

LEMMA JobFacts ==
    ASSUME JobsType, NEW t \in Terms
    PROVE  /\ jobs[t] \in Seq(Slots) /\ jobs[t] # <<>>
           /\ Len(jobs[t]) \in Nat \ {0}
           /\ DOMAIN jobs[t] = 1 .. Len(jobs[t])
<1>1. jobs[t] \in Seq(Slots) /\ jobs[t] # <<>>
  BY DEF JobsType
<1>2. QED
  BY <1>1, LenProperties, EmptySeq

(* When a job list has a beginning of what it had, nothing comes together.    *)
LEMMA PoppedFacts ==
    ASSUME JobsType, active \in Terms, Apart, jobs' = Popped
    PROVE  JobsType' /\ Apart' /\ Used \ Used' \subseteq {Current}
<1> DEFINE old == jobs[active]
           n == Len(old)
           new == IF n = 1 THEN old ELSE Front(old)
<1>1. old \in Seq(Slots) /\ n \in Nat \ {0} /\ DOMAIN old = 1 .. n
  BY JobFacts
<1>2. jobs \in [Terms -> Seq(Slots) \ {<<>>}]
  BY DEF JobsType
<1>3. jobs' = [jobs EXCEPT ![active] = new]
  BY DEF Popped
<1>4. /\ new \in Seq(Slots) /\ new # <<>>
      /\ \A i \in DOMAIN new : i \in DOMAIN old /\ new[i] = old[i]
      /\ \A i \in 1 .. n : i # n => i \in DOMAIN new
  <2>1. CASE n = 1
    <3>1. new = old
      BY <2>1
    <3> HIDE DEF new, old, n
    <3>2. \A i \in 1 .. n : i = n
      BY <2>1
    <3>3. new # <<>>
      BY <1>1, <3>1, EmptySeq DEF n
    <3>4. QED
      BY <1>1, <3>1, <3>2, <3>3
  <2>2. CASE n # 1
    <3> DEFINE m == n - 1
               v == SubSeq(old, 1, m)
    <3>1. m \in Nat /\ m >= 1 /\ m < n
      <4> HIDE DEF n, old, v, new
      <4>1. QED
        BY <1>1, <2>2
    <3>2. new = v
      BY <2>2 DEF Front
    <3> HIDE DEF m, new, old, n
    <3>3. 1 \in Int /\ m \in Int /\ \A i \in 1 .. m : i \in 1 .. n
      BY <1>1, <3>1
    <3>4. \A i \in 1 .. m : old[i] \in Slots
      BY <1>1, <3>3, ElementOfSeq DEF n
    <3>5. /\ v \in Seq(Slots)
          /\ Len(v) = IF 1 <= m THEN m - 1 + 1 ELSE 0
          /\ \A i \in 1 .. m - 1 + 1 : v[i] = old[1 + i - 1]
      BY <3>3, <3>4, SubSeqProperties
    <3>6. m - 1 + 1 = m /\ \A i \in 1 .. m : 1 + i - 1 = i
      BY <3>1
    <3> HIDE DEF v
    <3>7. Len(v) = m /\ \A i \in 1 .. m : v[i] = old[i]
      BY <3>1, <3>5, <3>6
    <3>8. DOMAIN v = 1 .. m /\ v # <<>>
      BY <3>1, <3>5, <3>7, LenProperties, EmptySeq
    <3>9. \A i \in 1 .. n : i # n => i \in 1 .. m
      BY <1>1, <3>1 DEF m
    <3>10. QED
      BY <1>1, <3>2, <3>3, <3>5, <3>7, <3>8, <3>9
  <2>3. QED
    BY <2>1, <2>2
<1> HIDE DEF new, n
<1>5. jobs' \in [Terms -> Seq(Slots) \ {<<>>}]
  BY <1>2, <1>3, <1>4
<1>6. \A t \in Terms : \A i \in DOMAIN jobs'[t] :
          i \in DOMAIN jobs[t] /\ jobs'[t][i] = jobs[t][i]
  BY <1>2, <1>3, <1>4
<1>7. Apart'
  BY <1>6 DEF Apart
<1>8. ASSUME NEW x \in Used, x \notin Used' PROVE x = Current
  <2>1. PICK t \in Terms : \E i \in DOMAIN jobs[t] : jobs[t][i] = x
    BY <1>8 DEF Used, ToSet
  <2>2. PICK i \in DOMAIN jobs[t] : jobs[t][i] = x
    BY <2>1
  <2>3. ~ (i \in DOMAIN jobs'[t])
    BY <1>6, <1>8, <2>2 DEF Used, ToSet
  <2>4. t = active
    BY <1>2, <1>3, <2>2, <2>3
  <2>5. i = n
    BY <1>1, <1>2, <1>3, <1>4, <2>2, <2>3, <2>4
  <2>6. QED
    BY <2>2, <2>4, <2>5 DEF Current, Last, n
<1>9. QED
  BY <1>5, <1>7, <1>8 DEF JobsType

LEMMA PushedFacts ==
    ASSUME JobsType, active \in Terms, Apart, NEW s \in Slots, s \notin Used,
           jobs' = [jobs EXCEPT ![active] = Append(@, s)]
    PROVE  JobsType' /\ Apart'
<1> DEFINE old == jobs[active]
           n == Len(old)
           new == Append(old, s)
<1>1. old \in Seq(Slots) /\ n \in Nat \ {0} /\ DOMAIN old = 1 .. n
  BY JobFacts
<1>2. jobs \in [Terms -> Seq(Slots) \ {<<>>}]
  BY DEF JobsType
<1>3. jobs' = [jobs EXCEPT ![active] = new]
  OBVIOUS
<1> HIDE DEF old, n
<1>4. /\ new \in Seq(Slots) /\ new # <<>> /\ Len(new) = n + 1
      /\ \A i \in 1 .. n : new[i] = old[i]
      /\ new[n + 1] = s
  BY <1>1, AppendProperties DEF n
<1>5. DOMAIN new = 1 .. n + 1
  BY <1>4, LenProperties
<1> HIDE DEF new
<1>6. \A i \in 1 .. n + 1 : i \in 1 .. n \/ i = n + 1
  BY <1>1
<1>7. \A i \in DOMAIN new : (i \in DOMAIN old /\ new[i] = old[i]) \/ (i = n + 1 /\ new[i] = s)
  BY <1>1, <1>4, <1>5, <1>6
<1>8. jobs' \in [Terms -> Seq(Slots) \ {<<>>}]
  BY <1>2, <1>3, <1>4
<1>9. \A t \in Terms : \A i \in DOMAIN jobs'[t] :
          \/ i \in DOMAIN jobs[t] /\ jobs'[t][i] = jobs[t][i]
          \/ t = active /\ i = n + 1 /\ jobs'[t][i] = s
  BY <1>2, <1>3, <1>7 DEF old
<1>10. \A t \in Terms : \A i \in DOMAIN jobs[t] : jobs[t][i] # s
  BY DEF Used, ToSet
<1>11. Apart'
  BY <1>9, <1>10 DEF Apart
<1>12. QED
  BY <1>8, <1>11 DEF JobsType

LEMMA ShellFacts ==
    /\ IsWord(SHELL, SHELL)
    /\ ~ HasArguments(SHELL)
<1>1. /\ SHELL \in Seq(ToSet(SHELL))
      /\ {BLANK, NEWLINE, NUL} \cap ToSet(SHELL) = {}
  BY CommandLineAssumption
<1>2. Len(SHELL) \in Nat
  BY <1>1, LenProperties
<1>3. QED
  BY <1>1, <1>2 DEF IsWord, IsPrefix, HasArguments

LEMMA InvInit ==
    ASSUME Init
    PROVE  CommandLineInv
<1>1. \A t \in Terms : t \in Slots
  BY CommandLineAssumption
<1>2. jobs \in [Terms -> Seq(Slots) \ {<<>>}]
  BY <1>1 DEF Init
<1>3. TypeOK
  <2>1. active \in Terms /\ command \in [Slots -> Commands \cup {SHELL}]
    BY DEF Init
  <2>2. program \in [Slots -> Runnable]
    BY CommandLineAssumption DEF Init
  <2>3. \A s \in Slots : Len(args[s]) < ARGS_SIZE
    BY CommandLineAssumption DEF Init
  <2>4. result.call = "none"
    BY DEF Init, Nothing
  <2>5. QED
    BY <1>2, <2>1, <2>2, <2>3, <2>4 DEF TypeOK
<1>4. DOMAIN args = Slots
  BY DEF Init
<1>5. Apart
  <2>1. \A t \in Terms : DOMAIN jobs[t] = {1} /\ jobs[t][1] = t
    BY DEF Init
  <2>2. QED
    BY <2>1 DEF Apart
<1>6. \A s \in Slots : SlotInv(s)
  BY ShellFacts DEF Init, SlotInv
<1>7. GetsItsArguments /\ OverrunOnlyWhenFull
  BY DEF Init, Nothing, GetsItsArguments, OverrunOnlyWhenFull
<1>8. QED
  BY <1>3, <1>4, <1>5, <1>6, <1>7 DEF CommandLineInv

Calls == {"none", "getargs", "refused", "cleared", "killed", "overrun"}

(* A step that starts no program.                                             *)
LEMMA NoStartPreserves ==
    ASSUME CommandLineInv, active' \in Terms,
           JobsType', Apart',
           UNCHANGED <<program, args, command>>,
           result'.call \in Calls,
           GetsItsArguments', OverrunOnlyWhenFull'
    PROVE  CommandLineInv'
<1>1. TypeOK'
  BY DEF CommandLineInv, TypeOK, JobsType, Calls
<1>2. \A s \in Slots : SlotInv(s)'
  BY DEF CommandLineInv, SlotInv
<1>3. QED
  BY <1>1, <1>2 DEF CommandLineInv

LEMMA OtherResult ==
    ASSUME result'.call \in Calls \ {"getargs", "overrun"}
    PROVE  GetsItsArguments' /\ OverrunOnlyWhenFull'
  BY DEF GetsItsArguments, OverrunOnlyWhenFull

LEMMA ComesToPreserves ==
    ASSUME CommandLineInv, active' = active, NEW c,
           \/ ComesTo(Refused(c)) \/ ComesTo(Cleared(c))
           \/ ComesTo(Overrun(c)) /\ Fills(c)
    PROVE  CommandLineInv'
<1>1. /\ JobsType /\ active \in Terms /\ Apart
  BY TypeGivesJobs DEF CommandLineInv
<1>2. UNCHANGED <<jobs, program, args, command>>
  BY DEF ComesTo, Same
<1>3. JobsType' /\ Apart' /\ active' \in Terms
  BY <1>1, <1>2 DEF JobsType, Apart
<1>4. result'.call \in Calls
  BY DEF ComesTo, Refused, Cleared, Overrun, Calls
<1>5. GetsItsArguments'
  BY DEF ComesTo, Refused, Cleared, Overrun, GetsItsArguments
<1>6. OverrunOnlyWhenFull'
  BY DEF ComesTo, Refused, Cleared, Overrun, OverrunOnlyWhenFull, Fills
<1>7. QED
  BY <1>2, <1>3, <1>4, <1>5, <1>6, NoStartPreserves

LEMMA PageFaultPreserves ==
    ASSUME CommandLineInv, active' = active, NEW c, PageFault(c)
    PROVE  CommandLineInv'
<1>1. JobsType /\ active \in Terms /\ Apart
  BY TypeGivesJobs DEF CommandLineInv
<1>2. jobs' = Popped /\ UNCHANGED <<program, args, command>>
  BY DEF PageFault
<1>3. JobsType' /\ Apart' /\ active' \in Terms
  BY <1>1, <1>2, PoppedFacts
<1>4. result'.call \in Calls \ {"getargs", "overrun"}
  BY DEF PageFault, Killed, Calls
<1>5. QED
  BY <1>2, <1>3, <1>4, OtherResult, NoStartPreserves

LEMMA StartPreserves ==
    ASSUME CommandLineInv, active' = active, NEW c \in Commands, NEW a, Starts(c, a)
    PROVE  CommandLineInv'
<1> DEFINE s == Min(OpenSpot)
<1>1. JobsType /\ active \in Terms /\ Apart
  BY TypeGivesJobs DEF CommandLineInv
<1>2. s \in Slots /\ s \notin Used
  <2>1. OpenSpot \in SUBSET Nat /\ OpenSpot # {}
    BY CommandLineAssumption DEF OpenSpot, Slots, Starts
  <2>2. QED
    BY <2>1, MinOfNats DEF OpenSpot
<1>3. /\ program' = [program EXCEPT ![s] = strtok(c)]
      /\ args' = [args EXCEPT ![s] = String(a)]
      /\ jobs' = [jobs EXCEPT ![active] = Append(@, s)]
      /\ command' = [command EXCEPT ![s] = c]
      /\ result' = Nothing
  BY DEF Starts, Start, ArgsOwner
<1> HIDE DEF s
<1>4. JobsType' /\ Apart'
  BY <1>1, <1>2, <1>3, PushedFacts
<1>5. result'.call \in Calls \ {"getargs", "overrun"}
  BY <1>3 DEF Nothing, Calls
<1>6. TypeOK'
  <2>1. jobs' \in [Terms -> Seq(Slots) \ {<<>>}] /\ active' \in Terms
    BY <1>1, <1>4 DEF JobsType
  <2>2. program' \in [Slots -> Runnable]
    BY <1>2, <1>3 DEF CommandLineInv, TypeOK, Starts
  <2>3. ASSUME NEW r \in Slots PROVE Len(args'[r]) < ARGS_SIZE
    <3>1. CASE r = s
      <4>1. args'[r] = String(a)
        BY <1>2, <1>3, <3>1 DEF CommandLineInv
      <4>2. QED
        BY <4>1, StringFits DEF Starts
    <3>2. CASE r # s
      BY <1>3, <2>3, <3>2 DEF CommandLineInv, TypeOK
    <3>3. QED
      BY <3>1, <3>2
  <2>4. command' \in [Slots -> Commands \cup {SHELL}]
    BY <1>2, <1>3 DEF CommandLineInv, TypeOK
  <2>5. QED
    BY <1>5, <2>1, <2>2, <2>3, <2>4 DEF TypeOK, Calls
<1>7. DOMAIN args' = Slots
  BY <1>3 DEF CommandLineInv
<1>8. ASSUME NEW r \in Slots PROVE SlotInv(r)'
  <2>1. /\ program \in [Slots -> Runnable] /\ DOMAIN args = Slots
        /\ command \in [Slots -> Commands \cup {SHELL}]
        /\ SlotInv(r)
    BY DEF CommandLineInv, TypeOK
  <2>2. CASE r = s
    <3>1. program'[r] = strtok(c) /\ args'[r] = String(a) /\ command'[r] = c
      BY <1>2, <1>3, <2>1, <2>2
    <3>2. QED
      BY <3>1 DEF SlotInv, Starts
  <2>3. CASE r # s
    <3>1. program'[r] = program[r] /\ args'[r] = args[r] /\ command'[r] = command[r]
      BY <1>3, <2>1, <2>3
    <3>2. QED
      BY <2>1, <3>1 DEF SlotInv
  <2>4. QED
    BY <2>2, <2>3
<1>9. QED
  BY <1>4, <1>5, <1>6, <1>7, <1>8, OtherResult DEF CommandLineInv

LEMMA ExecutePreserves ==
    ASSUME CommandLineInv, NEW c \in Commands, Execute(c)
    PROVE  CommandLineInv'
<1>1. Outcome(c) /\ active' = active
  BY TypeGivesJobs, ExecuteOutcome DEF CommandLineInv
<1>2. QED
  BY <1>1, ComesToPreserves, PageFaultPreserves, StartPreserves DEF Outcome

LEMMA GetArgsPreserves ==
    ASSUME CommandLineInv, NEW nbytes \in -1 .. MAX_NBYTES, GetArgs(nbytes)
    PROVE  CommandLineInv'
<1>1. JobsType /\ active \in Terms /\ Apart
  BY TypeGivesJobs DEF CommandLineInv
<1>2. UNCHANGED <<jobs, active, program, args, command>>
  BY DEF GetArgs
<1>3. JobsType' /\ Apart' /\ active' \in Terms
  BY <1>1, <1>2 DEF JobsType, Apart
<1>4. Current \in Slots
  <2>1. Len(jobs[active]) \in DOMAIN jobs[active] /\ jobs[active] \in Seq(Slots)
    BY <1>1, JobFacts
  <2>2. QED
    BY <1>1, <2>1, JobFacts, ElementOfSeq DEF Current, Last
<1> DEFINE a == args[Current]
           buf == [k \in 1 .. nbytes |-> IF k <= Len(a) THEN a[k] ELSE NUL]
<1>5. result' = IF nbytes < 0 THEN [call |-> "getargs", ret |-> -1, buf |-> <<>>]
                ELSE [call |-> "getargs", ret |-> 0, buf |-> buf]
  BY DEF GetArgs
<1>6. result'.call = "getargs"
  BY <1>5
<1>7. OverrunOnlyWhenFull'
  BY <1>6 DEF OverrunOnlyWhenFull
<1>8. Current' = Current /\ command'[Current] = command[Current]
  BY <1>2 DEF Current
<1>9. GetsItsArguments'
  <2>1. SUFFICES ASSUME result'.ret = 0, HasArguments(command[Current])
                 PROVE  Given(result'.buf, command[Current])
    BY <1>2, <1>8 DEF GetsItsArguments, Given
  <2>2. nbytes \in Nat /\ result'.buf = buf
    <3>1. ~ (nbytes < 0) /\ nbytes \in Int
      BY <1>5, <2>1, CommandLineAssumption
    <3>2. QED
      BY <1>5, <3>1
  <2>3. command[Current] \in Commands /\ a = RestOf(command[Current])
    BY <1>4, <2>1 DEF CommandLineInv, SlotInv
  <2>4. QED
    BY <2>1, <2>2, <2>3, RestIsGiven
<1>10. QED
  BY <1>2, <1>3, <1>6, <1>7, <1>9, NoStartPreserves DEF Calls

LEMMA HaltPreserves ==
    ASSUME CommandLineInv, Halt
    PROVE  CommandLineInv'
<1>1. JobsType /\ active \in Terms /\ Apart
  BY TypeGivesJobs DEF CommandLineInv
<1>2. jobs' = Popped /\ UNCHANGED <<active, program, args, command>>
  BY DEF Halt
<1>3. JobsType' /\ Apart' /\ active' \in Terms
  BY <1>1, <1>2, PoppedFacts
<1>4. result'.call \in Calls \ {"getargs", "overrun"}
  BY DEF Halt, Nothing, Calls
<1>5. QED
  BY <1>2, <1>3, <1>4, OtherResult, NoStartPreserves

LEMMA SwitchPreserves ==
    ASSUME CommandLineInv, NEW t \in Terms, SwitchTerminal(t)
    PROVE  CommandLineInv'
<1>1. JobsType /\ Apart
  BY TypeGivesJobs DEF CommandLineInv
<1>2. active' = t /\ UNCHANGED <<jobs, program, args, command>>
  BY DEF SwitchTerminal
<1>3. JobsType' /\ Apart' /\ active' \in Terms
  BY <1>1, <1>2 DEF JobsType, Apart
<1>4. result'.call \in Calls \ {"getargs", "overrun"}
  BY DEF SwitchTerminal, Nothing, Calls
<1>5. QED
  BY <1>2, <1>3, <1>4, OtherResult, NoStartPreserves

LEMMA StutterPreserves ==
    ASSUME CommandLineInv, UNCHANGED vars
    PROVE  CommandLineInv'
<1>1. UNCHANGED <<jobs, active, program, args, result, command>>
  BY DEF vars
<1>2. JobsType /\ active \in Terms /\ Apart /\ result.call \in Calls
  BY TypeGivesJobs DEF CommandLineInv, TypeOK, Calls
<1>3. JobsType' /\ Apart' /\ active' \in Terms /\ result'.call \in Calls
  BY <1>1, <1>2 DEF JobsType, Apart
<1>4. GetsItsArguments' /\ OverrunOnlyWhenFull'
  BY <1>1 DEF CommandLineInv, GetsItsArguments, OverrunOnlyWhenFull, Current
<1>5. QED
  BY <1>1, <1>3, <1>4, NoStartPreserves

LEMMA InvNext ==
    ASSUME CommandLineInv, [Next]_vars
    PROVE  CommandLineInv'
<1>1. CASE \E c \in Commands : Execute(c)
  BY <1>1, ExecutePreserves
<1>2. CASE \E nbytes \in -1 .. MAX_NBYTES : GetArgs(nbytes)
  BY <1>2, GetArgsPreserves
<1>3. CASE Halt
  BY <1>3, HaltPreserves
<1>4. CASE \E t \in Terms : SwitchTerminal(t)
  BY <1>4, SwitchPreserves
<1>5. CASE UNCHANGED vars
  BY <1>5, StutterPreserves
<1>6. QED
  BY <1>1, <1>2, <1>3, <1>4, <1>5 DEF Next

-----------------------------------------------------------------------------
(* The theorems.                                                              *)

LEMMA CommandLineInvariant == Spec => []CommandLineInv
<1>1. Init => CommandLineInv
  BY InvInit
<1>2. CommandLineInv /\ [Next]_vars => CommandLineInv'
  BY InvNext
<1>3. QED
  BY <1>1, <1>2, PTL DEF Spec

(* Every variable keeps its type, and a string in a PCB leaves room for its   *)
(* NUL, for any command given to execute and any content of its stack.        *)
THEOREM TypeCorrect == Spec => []TypeOK
<1>1. CommandLineInv => TypeOK
  BY DEF CommandLineInv
<1>2. QED
  BY <1>1, CommandLineInvariant, PTL

(* What execute loads is the first word of the command, and into a slot that  *)
(* no process has.                                                            *)
THEOREM RunsFirstWordCorrect == Spec => []RunsFirstWord
<1>1. CommandLineInv => RunsFirstWord
  <2> SUFFICES ASSUME CommandLineInv PROVE RunsFirstWord
    OBVIOUS
  <2>1. Used \subseteq Slots
    BY TypeGivesJobs, UsedAreSlots DEF CommandLineInv
  <2>2. \A s \in Used : IsWord(program[s], command[s])
    BY <2>1 DEF CommandLineInv, SlotInv
  <2>3. QED
    BY <2>2 DEF CommandLineInv, Apart, RunsFirstWord
<1>2. QED
  BY <1>1, CommandLineInvariant, PTL

(* getargs gives a process what stood behind the first blank of its own       *)
(* command, whatever execute and halt did in between.                         *)
THEOREM GetsItsArgumentsCorrect == Spec => []GetsItsArguments
<1>1. CommandLineInv => GetsItsArguments
  BY DEF CommandLineInv
<1>2. QED
  BY <1>1, CommandLineInvariant, PTL

(* execute, strtok and strcpy leave their buffers only for a name or          *)
(* arguments that fill one, or for a command without arguments.               *)
THEOREM OverrunOnlyWhenFullCorrect == Spec => []OverrunOnlyWhenFull
<1>1. CommandLineInv => OverrunOnlyWhenFull
  BY DEF CommandLineInv
<1>2. QED
  BY <1>1, CommandLineInvariant, PTL

OutcomeStep ==
    LET c == result'.command
    IN  /\ result'.call = "refused" =>
              \/ \A w \in Runnable : ~ IsWord(w, c)
              \/ Used = Slots
              \/ \E k \in NAME_SIZE .. Len(c) : BLANK \notin ToSet(SubSeq(c, 1, k))
        /\ result'.call = "killed" =>
              /\ c[1] = BLANK
              /\ Used \ Used' \subseteq {Current}

LEMMA ExecuteOutcomeFits ==
    ASSUME CommandLineInv, NEW c \in Commands, Execute(c)
    PROVE  OutcomeStep
<1>1. Outcome(c) /\ JobsType /\ active \in Terms /\ Apart
  BY TypeGivesJobs, ExecuteOutcome DEF CommandLineInv
<1>2. CASE ComesTo(Refused(c)) /\ CannotRun(c)
  <2>1. result'.call = "refused" /\ result'.command = c
    BY <1>2 DEF ComesTo, Refused
  <2>2. QED
    BY <1>2, <2>1 DEF OutcomeStep, CannotRun
<1>3. CASE PageFault(c) /\ c[1] = BLANK
  <2>1. result'.call = "killed" /\ result'.command = c /\ jobs' = Popped
    BY <1>3 DEF PageFault, Killed
  <2>2. Used \ Used' \subseteq {Current}
    BY <1>1, <2>1, PoppedFacts
  <2>3. QED
    BY <1>3, <2>1, <2>2 DEF OutcomeStep
<1>4. CASE ComesTo(Cleared(c)) \/ ComesTo(Overrun(c)) \/ \E a : Starts(c, a)
  <2>1. result'.call \in {"cleared", "overrun", "none"}
    BY <1>4 DEF ComesTo, Cleared, Overrun, Starts, Start, Nothing
  <2>2. QED
    BY <2>1 DEF OutcomeStep
<1>5. QED
  BY <1>1, <1>2, <1>3, <1>4 DEF Outcome

(* execute refuses only what cannot run, and ends nobody but its caller, that *)
(* one only for a command that begins with a blank.                           *)
THEOREM OutcomeFitsCommandCorrect == Spec => OutcomeFitsCommand
<1>1. ASSUME CommandLineInv, Next PROVE OutcomeStep
  <2>1. CASE \E c \in Commands : Execute(c)
    BY <1>1, <2>1, ExecuteOutcomeFits
  <2>2. CASE \/ \E nbytes \in -1 .. MAX_NBYTES : GetArgs(nbytes)
             \/ Halt
             \/ \E t \in Terms : SwitchTerminal(t)
    <3>1. result'.call \in {"getargs", "none"}
      BY <2>2 DEF GetArgs, Halt, SwitchTerminal, Nothing
    <3>2. QED
      BY <3>1 DEF OutcomeStep
  <2>3. QED
    BY <1>1, <2>1, <2>2 DEF Next
<1>2. CommandLineInv /\ [Next]_vars => [OutcomeStep]_vars
  BY <1>1
<1>3. QED
  BY <1>2, CommandLineInvariant, PTL DEF Spec, OutcomeFitsCommand, OutcomeStep
=============================================================================
