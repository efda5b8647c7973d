---------------------------- MODULE ScreenProofs ----------------------------
(* Theorems about Screen, for screens and lines of any size, any number of    *)
(* terminals, and whether torn terminals are followed or not.                 *)
EXTENDS Screen, WellFoundedInduction, SequenceTheorems, TLAPS

-----------------------------------------------------------------------------
(* Cells, columns and rows.                                                   *)

LEMMA LessThanIsWellFounded ==
    IsWellFoundedOn({ss \in Nat \X Nat : ss[1] < ss[2]}, Nat)
  BY NatLessThanWellFounded DEF OpToRel

LEMMA LeastExists ==
    ASSUME NEW S \in SUBSET Nat, S # {}
    PROVE  \E s \in S : \A r \in S : s <= r
<1> DEFINE Below == {ss \in Nat \X Nat : ss[1] < ss[2]}
<1> HIDE DEF Below
<1>1. PICK s \in S : \A r \in S : ~ (<<r, s>> \in Below)
  BY LessThanIsWellFounded, WFMin DEF Below
<1>2. \A r \in S : ~ (r < s)
  BY <1>1 DEF Below
<1>3. QED
  BY <1>2

LEMMA Quotient ==
    ASSUME NEW d \in Nat \ {0}, NEW q \in Nat, NEW r \in 0 .. d - 1
    PROVE  (d * q + r) \div d = q /\ (d * q + r) % d = r
<1> DEFINE n == d * q + r
           p == n \div d
           m == n % d
<1>1. n \in Nat
  OBVIOUS
<1>2. p \in Nat /\ m \in 0 .. d - 1 /\ n = d * p + m
  BY <1>1
<1> HIDE DEF p, m
<1>3. d * q + r = d * p + m
  BY <1>2
<1> HIDE DEF n
<1>4. ~ (p < q)
  <2> SUFFICES ASSUME p < q PROVE FALSE
    OBVIOUS
  <2> DEFINE e == q - p - 1
  <2>1. e \in Nat /\ q = p + 1 + e
    BY <1>2
  <2> HIDE DEF e
  <2>2. d * q = d * p + d + d * e
    BY <1>2, <2>1
  <2>3. d * e \in Nat /\ d * p \in Nat
    BY <1>2, <2>1
  <2> DEFINE x == d * p
             y == d * e
  <2>4. x + d + y + r = x + m /\ x \in Nat /\ y \in Nat /\ m < d
    BY <1>2, <1>3, <2>2, <2>3
  <2> HIDE DEF x, y
  <2>5. QED
    BY <1>2, <2>4
<1>5. ~ (q < p)
  <2> SUFFICES ASSUME q < p PROVE FALSE
    OBVIOUS
  <2> DEFINE e == p - q - 1
  <2>1. e \in Nat /\ p = q + 1 + e
    BY <1>2
  <2> HIDE DEF e
  <2>2. d * p = d * q + d + d * e
    BY <1>2, <2>1
  <2>3. d * e \in Nat /\ d * q \in Nat
    BY <1>2, <2>1
  <2> DEFINE x == d * q
             y == d * e
  <2>4. x + r = x + d + y + m /\ x \in Nat /\ y \in Nat /\ m \in Nat
    BY <1>2, <1>3, <2>2, <2>3
  <2> HIDE DEF x, y
  <2>5. QED
    BY <1>2, <2>4
<1>6. p = q
  BY <1>2, <1>4, <1>5
<1>7. m = r
  <2> DEFINE x == d * q
  <2>1. x + r = x + m /\ x \in Nat
    BY <1>2, <1>3, <1>6
  <2> HIDE DEF x
  <2>2. QED
    BY <1>2, <2>1
<1>8. QED
  BY <1>6, <1>7 DEF p, m, n

Cols == 0 .. NUM_COLS - 1
RowNos == 0 .. NUM_ROWS - 1

(* The highest count: one character too many, let in by a race.               *)
MostCounted == MAX_CHARS_IN_BUF + 1

LEMMA Sizes ==
    /\ NUM_COLS \in Nat /\ NUM_COLS > 1 /\ NUM_ROWS \in Nat /\ NUM_ROWS > 1
    /\ PAGE_CELLS \in Nat /\ NUM_ROWS * NUM_COLS \in Nat
    /\ MAX_CHARS_IN_BUF \in Nat /\ MAX_CHARS_IN_BUF > 0
    /\ MostCounted \in Nat /\ MostCounted = MAX_CHARS_IN_BUF + 1
    /\ NUM_COLS * (NUM_ROWS - 1) \in Nat
    /\ MostCounted <= NUM_COLS * (NUM_ROWS - 1)
    /\ 0 \in Terms
<1>1. /\ NUM_COLS \in Nat \ {0, 1} /\ NUM_ROWS \in Nat \ {0, 1} /\ PAGE_CELLS \in Nat
      /\ MAX_CHARS_IN_BUF \in Nat \ {0}
      /\ MAX_CHARS_IN_BUF < (NUM_ROWS - 1) * NUM_COLS
      /\ NUM_TERMINALS \in Nat \ {0}
  BY ScreenAssumption
<1>2. NUM_ROWS * NUM_COLS \in Nat
  BY <1>1
<1>3. NUM_COLS * (NUM_ROWS - 1) \in Nat /\ NUM_COLS * (NUM_ROWS - 1) = (NUM_ROWS - 1) * NUM_COLS
  BY <1>1
<1>4. QED
  BY <1>1, <1>2, <1>3 DEF Terms, MostCounted

LEMMA CellOf ==
    ASSUME NEW x \in Cols, NEW y \in RowNos
    PROVE  /\ At(x, y) \in ScreenCells /\ At(x, y) \in Cells
           /\ At(x, y) \in Nat
           /\ At(x, y) \div NUM_COLS = y /\ At(x, y) % NUM_COLS = x
<1>1. /\ NUM_COLS \in Nat \ {0} /\ y \in Nat /\ x \in 0 .. NUM_COLS - 1
      /\ NUM_ROWS \in Nat
  BY Sizes DEF Cols, RowNos
<1>2. At(x, y) \div NUM_COLS = y /\ At(x, y) % NUM_COLS = x
  BY <1>1, Quotient DEF At
<1> DEFINE e == NUM_ROWS - 1 - y
<1>3. e \in Nat /\ NUM_ROWS = y + 1 + e
  BY <1>1 DEF RowNos
<1> HIDE DEF e
<1>4. NUM_ROWS * NUM_COLS = NUM_COLS * y + NUM_COLS + NUM_COLS * e
  BY <1>1, <1>3
<1> DEFINE p == NUM_COLS * y
           q == NUM_COLS * e
<1>5. p \in Nat /\ q \in Nat /\ NUM_ROWS * NUM_COLS = p + NUM_COLS + q
  BY <1>1, <1>3, <1>4
<1>6. At(x, y) = p + x
  BY DEF At
<1> HIDE DEF p, q
<1>7. At(x, y) \in Nat /\ At(x, y) < NUM_ROWS * NUM_COLS
  BY <1>1, <1>5, <1>6
<1>8. NUM_ROWS * NUM_COLS \in Nat /\ PAGE_CELLS \in Nat /\ NUM_ROWS * NUM_COLS <= PAGE_CELLS
  BY Sizes, ScreenAssumption
<1>9. QED
  BY <1>2, <1>7, <1>8 DEF ScreenCells, Cells

LEMMA CellsDiffer ==
    ASSUME NEW x \in Cols, NEW y \in RowNos, NEW u \in Cols, NEW v \in RowNos,
           At(x, y) = At(u, v)
    PROVE  x = u /\ y = v
  BY CellOf

LEMMA CellBelow ==
    ASSUME NEW x \in Cols, NEW y \in RowNos
    PROVE  /\ At(x, y) + NUM_COLS = At(x, y + 1)
           /\ At(x, y + 1) \in ScreenCells <=> y + 1 \in RowNos
<1>1. /\ NUM_COLS \in Nat /\ y \in Nat /\ x \in Nat /\ y < NUM_ROWS /\ NUM_ROWS \in Nat
  BY Sizes DEF Cols, RowNos
<1>2. NUM_COLS * (y + 1) = NUM_COLS * y + NUM_COLS
  BY <1>1
<1> DEFINE p == NUM_COLS * y
<1>3. p \in Nat /\ NUM_COLS * (y + 1) = p + NUM_COLS /\ At(x, y) = p + x
      /\ At(x, y + 1) = NUM_COLS * (y + 1) + x
  BY <1>1, <1>2 DEF At
<1> HIDE DEF p
<1>4. At(x, y) + NUM_COLS = At(x, y + 1)
  BY <1>1, <1>3
<1>5. y + 1 \in RowNos => At(x, y + 1) \in ScreenCells
  BY CellOf
<1>6. y + 1 \notin RowNos => At(x, y + 1) \notin ScreenCells
  <2> SUFFICES ASSUME y + 1 \notin RowNos PROVE At(x, y + 1) \notin ScreenCells
    OBVIOUS
  <2>1. y + 1 = NUM_ROWS
    BY <1>1 DEF RowNos
  <2>2. NUM_COLS * (y + 1) = NUM_ROWS * NUM_COLS
    BY <1>1, <2>1
  <2>3. At(x, y + 1) >= NUM_ROWS * NUM_COLS
    BY <1>1, <1>3, <2>2, Sizes
  <2>4. QED
    BY <1>1, <1>3, <2>3, Sizes DEF ScreenCells
<1>7. QED
  BY <1>4, <1>5, <1>6

LEMMA CellHasPlace ==
    ASSUME NEW i \in ScreenCells
    PROVE  \E x \in Cols, y \in RowNos : i = At(x, y)
<1> DEFINE y == i \div NUM_COLS
           x == i % NUM_COLS
<1>1. i \in Nat /\ i < NUM_ROWS * NUM_COLS /\ NUM_COLS \in Nat \ {0} /\ NUM_ROWS \in Nat
  BY Sizes DEF ScreenCells
<1>2. y \in Nat /\ x \in 0 .. NUM_COLS - 1 /\ i = NUM_COLS * y + x
  BY <1>1
<1> HIDE DEF x, y
<1>3. y < NUM_ROWS
  <2> SUFFICES ASSUME ~ (y < NUM_ROWS) PROVE FALSE
    OBVIOUS
  <2> DEFINE e == y - NUM_ROWS
  <2>1. e \in Nat /\ y = NUM_ROWS + e
    BY <1>1, <1>2
  <2> HIDE DEF e
  <2>2. NUM_COLS * y = NUM_ROWS * NUM_COLS + NUM_COLS * e
    BY <1>1, <2>1
  <2> DEFINE p == NUM_COLS * e
             q == NUM_ROWS * NUM_COLS
  <2>3. p \in Nat /\ q \in Nat /\ NUM_COLS * y = q + p /\ i < q
    BY <1>1, <2>1, <2>2, Sizes
  <2> HIDE DEF p, q
  <2>4. QED
    BY <1>1, <1>2, <2>3
<1>4. x \in Cols /\ y \in RowNos /\ i = At(x, y)
  BY <1>1, <1>2, <1>3 DEF Cols, RowNos, At
<1>5. QED
  BY <1>4

-----------------------------------------------------------------------------
(* The text of a terminal.                                                    *)

RowChars == Chars \cup {BLANK}

WellFormed(rows) ==
    /\ rows \in Seq(Seq(RowChars))
    /\ Len(rows) \in 1 .. NUM_ROWS
    /\ \A r \in 1 .. Len(rows) : Len(rows[r]) <= NUM_COLS
    /\ Len(LastRow(rows)) < NUM_COLS

(* What a text has in a column and row of the screen.                         *)
Char(rows, y, x) ==
    IF y + 1 <= Len(rows) /\ x + 1 <= Len(rows[y + 1]) THEN rows[y + 1][x + 1] ELSE BLANK

(* How far behind the start of the screen it ends.                            *)
Pos(rows) == NUM_COLS * (Len(rows) - 1) + Len(LastRow(rows))

LEMMA ShownIsChar ==
    ASSUME NEW rows, NEW x \in Cols, NEW y \in RowNos
    PROVE  Shown(rows, At(x, y)) = Char(rows, y, x)
  BY CellOf DEF Shown, Char

LEMMA RowFacts ==
    ASSUME NEW rows, rows \in Seq(Seq(RowChars)), NEW r \in 1 .. Len(rows)
    PROVE  /\ rows[r] \in Seq(RowChars)
           /\ Len(rows[r]) \in Nat
           /\ DOMAIN rows[r] = 1 .. Len(rows[r])
           /\ \A k \in 1 .. Len(rows[r]) : rows[r][k] \in RowChars
<1>1. rows[r] \in Seq(RowChars)
  BY ElementOfSeq
<1>2. QED
  BY <1>1, LenProperties, ElementOfSeq

LEMMA TextFacts ==
    ASSUME NEW rows, WellFormed(rows)
    PROVE  /\ rows \in Seq(Seq(RowChars))
           /\ Len(rows) \in Nat /\ Len(rows) >= 1 /\ Len(rows) <= NUM_ROWS
           /\ DOMAIN rows = 1 .. Len(rows)
           /\ LastRow(rows) \in Seq(RowChars)
           /\ Len(LastRow(rows)) \in Nat /\ Len(LastRow(rows)) < NUM_COLS
           /\ \A r \in 1 .. Len(rows) : rows[r] \in Seq(RowChars) /\ Len(rows[r]) \in 0 .. NUM_COLS
<1>1. rows \in Seq(Seq(RowChars)) /\ Len(rows) \in 1 .. NUM_ROWS
  BY DEF WellFormed
<1>2. Len(rows) \in Nat /\ Len(rows) >= 1 /\ Len(rows) <= NUM_ROWS
  BY <1>1, LenProperties
<1>3. DOMAIN rows = 1 .. Len(rows)
  BY <1>1, LenProperties
<1>4. \A r \in 1 .. Len(rows) : rows[r] \in Seq(RowChars) /\ Len(rows[r]) \in 0 .. NUM_COLS
  <2>1. \A r \in 1 .. Len(rows) :
            rows[r] \in Seq(RowChars) /\ Len(rows[r]) \in Nat /\ Len(rows[r]) <= NUM_COLS
    BY <1>1, RowFacts DEF WellFormed
  <2>2. QED
    BY <2>1, Sizes
<1>5. Len(rows) \in 1 .. Len(rows)
  BY <1>2
<1>6. LastRow(rows) \in Seq(RowChars) /\ Len(LastRow(rows)) \in Nat
  BY <1>1, <1>5, RowFacts DEF LastRow
<1>7. QED
  BY <1>1, <1>2, <1>3, <1>4, <1>6 DEF WellFormed

LEMMA CharIsRowChar ==
    ASSUME NEW rows, rows \in Seq(Seq(RowChars)), NEW x \in Cols, NEW y \in RowNos
    PROVE  Char(rows, y, x) \in RowChars
<1>1. x \in Nat /\ y \in Nat
  BY DEF Cols, RowNos
<1>2. CASE y + 1 <= Len(rows) /\ x + 1 <= Len(rows[y + 1])
  <2>1. Len(rows) \in Nat
    BY LenProperties
  <2>2. y + 1 \in 1 .. Len(rows)
    BY <1>1, <1>2, <2>1
  <2>3. x + 1 \in 1 .. Len(rows[y + 1])
    <3>1. Len(rows[y + 1]) \in Nat
      BY <2>2, RowFacts
    <3>2. QED
      BY <1>1, <1>2, <3>1
  <2>4. QED
    BY <1>2, <2>2, <2>3, RowFacts DEF Char
<1>3. CASE ~ (y + 1 <= Len(rows) /\ x + 1 <= Len(rows[y + 1]))
  BY <1>3 DEF Char, RowChars
<1>4. QED
  BY <1>2, <1>3

LEMMA EmptyText ==
    /\ WellFormed(Empty)
    /\ Len(Empty) = 1 /\ Len(LastRow(Empty)) = 0 /\ Pos(Empty) = 0
    /\ \A x \in Cols, y \in RowNos : Char(Empty, y, x) = BLANK
<1>1. Len(Empty) = 1 /\ Empty[1] = <<>> /\ Empty \in Seq(Seq(RowChars))
  BY DEF Empty
<1>2. LastRow(Empty) = <<>> /\ Len(LastRow(Empty)) = 0
  BY <1>1 DEF LastRow
<1>3. WellFormed(Empty)
  BY <1>1, <1>2, Sizes DEF WellFormed
<1>4. ASSUME NEW x \in Cols, NEW y \in RowNos PROVE Char(Empty, y, x) = BLANK
  <2>1. x \in Nat /\ y \in Nat
    BY DEF Cols, RowNos
  <2>2. y + 1 <= 1 => y + 1 = 1
    BY <2>1
  <2>3. ~ (x + 1 <= 0)
    BY <2>1
  <2>4. QED
    BY <1>1, <1>2, <2>2, <2>3 DEF Char, LastRow
<1>5. Pos(Empty) = 0
  BY <1>1, <1>2, Sizes DEF Pos
<1>6. QED
  BY <1>1, <1>2, <1>3, <1>4, <1>5

(* A character behind the last row, which may fill it.                        *)
Longer(rows, c) == [rows EXCEPT ![Len(rows)] = Append(@, c)]

LEMMA LongerFacts ==
    ASSUME NEW rows, WellFormed(rows), NEW c \in Chars
    PROVE  LET longer == Longer(rows, c)
               r == Len(rows)
               n == Len(LastRow(rows))
           IN  /\ longer \in Seq(Seq(RowChars))
               /\ Len(longer) = r
               /\ \A k \in 1 .. r : Len(longer[k]) <= NUM_COLS
               /\ Len(LastRow(longer)) = n + 1
               /\ \A x \in Cols, y \in RowNos :
                     Char(longer, y, x) = IF y = r - 1 /\ x = n THEN c ELSE Char(rows, y, x)
<1> DEFINE longer == Longer(rows, c)
           r == Len(rows)
           n == Len(LastRow(rows))
           last == Append(LastRow(rows), c)
<1>1. /\ rows \in Seq(Seq(RowChars))
      /\ r \in Nat /\ r >= 1
      /\ LastRow(rows) \in Seq(RowChars)
      /\ n \in Nat /\ n < NUM_COLS
      /\ \A k \in 1 .. r : rows[k] \in Seq(RowChars) /\ Len(rows[k]) \in 0 .. NUM_COLS
  BY TextFacts
<1>2. /\ last \in Seq(RowChars) /\ Len(last) = n + 1
      /\ \A i \in 1 .. n : last[i] = LastRow(rows)[i]
      /\ last[n + 1] = c
  <2>1. c \in RowChars
    BY DEF RowChars
  <2>2. QED
    BY <1>1, <2>1, AppendProperties
<1>3. longer = [rows EXCEPT ![r] = last]
  BY DEF Longer, LastRow
<1> HIDE DEF longer, last
<1>4. r \in 1 .. Len(rows)
  BY <1>1
<1>5. /\ longer \in Seq(Seq(RowChars)) /\ Len(longer) = r
      /\ \A k \in 1 .. r : longer[k] = IF k = r THEN last ELSE rows[k]
  BY <1>1, <1>2, <1>3, <1>4, ExceptSeq
<1>6. LastRow(longer) = last
  BY <1>4, <1>5 DEF LastRow
<1>7. \A k \in 1 .. r : Len(longer[k]) <= NUM_COLS
  BY <1>1, <1>2, <1>5, Sizes
<1>8. ASSUME NEW x \in Cols, NEW y \in RowNos
      PROVE  Char(longer, y, x) = IF y = r - 1 /\ x = n THEN c ELSE Char(rows, y, x)
  <2>1. x \in Nat /\ y \in Nat
    BY DEF Cols, RowNos
  <2>2. CASE y = r - 1
    <3>1. y + 1 = r /\ longer[y + 1] = last /\ rows[y + 1] = LastRow(rows)
      BY <1>1, <1>4, <1>5, <2>2 DEF LastRow
    <3>2. Char(longer, y, x) = IF x + 1 <= n + 1 THEN last[x + 1] ELSE BLANK
      BY <1>1, <1>2, <1>5, <3>1 DEF Char
    <3>3. Char(rows, y, x) = IF x + 1 <= n THEN LastRow(rows)[x + 1] ELSE BLANK
      BY <1>1, <3>1 DEF Char
    <3>4. CASE x = n
      BY <1>1, <1>2, <2>1, <2>2, <3>2, <3>4
    <3>5. CASE x < n
      <4>1. x + 1 \in 1 .. n
        BY <1>1, <2>1, <3>5
      <4>2. QED
        BY <1>1, <1>2, <2>1, <3>2, <3>3, <3>5, <4>1
    <3>6. CASE x > n
      BY <1>1, <2>1, <3>2, <3>3, <3>6
    <3>7. QED
      BY <1>1, <2>1, <3>4, <3>5, <3>6
  <2>3. CASE y # r - 1
    <3>1. y + 1 <= r => y + 1 \in 1 .. r /\ y + 1 # r
      BY <1>1, <2>1, <2>3
    <3>2. QED
      BY <1>5, <2>3, <3>1 DEF Char
  <2>4. QED
    BY <2>2, <2>3
<1>9. QED
  BY <1>2, <1>5, <1>6, <1>7, <1>8 DEF longer


(* A new row: below the last one, or, on a full screen, when the first one is *)
(* gone.  The row before it may be full.                                      *)
LEMMA BrokenFacts ==
    ASSUME NEW rows, rows \in Seq(Seq(RowChars)), Len(rows) \in 1 .. NUM_ROWS,
           \A k \in 1 .. Len(rows) : Len(rows[k]) <= NUM_COLS
    PROVE  /\ WellFormed(Broken(rows))
           /\ Len(LastRow(Broken(rows))) = 0
           /\ Len(Broken(rows)) = IF Len(rows) = NUM_ROWS THEN NUM_ROWS ELSE Len(rows) + 1
           /\ Len(rows) # NUM_ROWS =>
                 \A x \in Cols, y \in RowNos : Char(Broken(rows), y, x) = Char(rows, y, x)
           /\ Len(rows) = NUM_ROWS =>
                 \A x \in Cols, y \in RowNos :
                    Char(Broken(rows), y, x) =
                        IF y = NUM_ROWS - 1 THEN BLANK ELSE Char(rows, y + 1, x)
<1> DEFINE r == Len(rows)
           broken == Broken(rows)
<1>1. /\ r \in Nat /\ r >= 1 /\ r <= NUM_ROWS
      /\ NUM_ROWS \in Nat /\ NUM_ROWS > 1 /\ NUM_COLS \in Nat /\ NUM_COLS > 1
  BY Sizes
<1>2. <<>> \in Seq(RowChars) /\ Len(<<>>) = 0
  OBVIOUS
<1>3. ASSUME NEW x \in Cols, NEW y \in RowNos
      PROVE  x \in Nat /\ y \in Nat /\ y < NUM_ROWS /\ ~ (x + 1 <= 0)
  BY <1>1 DEF Cols, RowNos
<1>4. CASE r # NUM_ROWS
  <2>1. broken = Append(rows, <<>>)
    BY <1>4 DEF Broken
  <2> HIDE DEF broken
  <2>2. /\ broken \in Seq(Seq(RowChars)) /\ Len(broken) = r + 1
        /\ \A k \in 1 .. r : broken[k] = rows[k]
        /\ broken[r + 1] = <<>>
    BY <1>2, <2>1, AppendProperties
  <2>3. LastRow(broken) = <<>>
    BY <2>2 DEF LastRow
  <2>4. \A k \in 1 .. r + 1 : Len(broken[k]) <= NUM_COLS
    <3> SUFFICES ASSUME NEW k \in 1 .. r + 1 PROVE Len(broken[k]) <= NUM_COLS
      OBVIOUS
    <3>1. CASE k = r + 1
      BY <1>1, <1>2, <2>2, <3>1
    <3>2. CASE k # r + 1
      <4>1. k \in 1 .. r
        BY <1>1, <3>2
      <4>2. QED
        BY <2>2, <4>1
    <3>3. QED
      BY <3>1, <3>2
  <2>5. WellFormed(broken)
    BY <1>1, <1>2, <1>4, <2>2, <2>3, <2>4 DEF WellFormed
  <2>6. ASSUME NEW x \in Cols, NEW y \in RowNos
        PROVE  Char(broken, y, x) = Char(rows, y, x)
    <3>1. x \in Nat /\ y \in Nat /\ ~ (x + 1 <= 0)
      BY <1>3
    <3>2. CASE y + 1 <= r
      <4>1. y + 1 \in 1 .. r /\ y + 1 <= r + 1
        BY <1>1, <3>1, <3>2
      <4>2. QED
        BY <2>2, <4>1 DEF Char
    <3>3. CASE y + 1 = r + 1
      <4>1. ~ (y + 1 <= r)
        BY <1>1, <3>1, <3>3
      <4>2. Char(broken, y, x) = BLANK
        BY <1>2, <2>2, <3>1, <3>3 DEF Char
      <4>3. QED
        BY <4>1, <4>2 DEF Char
    <3>4. CASE ~ (y + 1 <= r + 1)
      <4>1. ~ (y + 1 <= r)
        BY <1>1, <3>1, <3>4
      <4>2. QED
        BY <2>2, <3>4, <4>1 DEF Char
    <3>5. QED
      BY <1>1, <3>1, <3>2, <3>3, <3>4
  <2>7. QED
    BY <1>2, <1>4, <2>2, <2>3, <2>5, <2>6 DEF broken
<1>5. CASE r = NUM_ROWS
  <2>1. broken = Append(Tail(rows), <<>>)
    BY <1>5 DEF Broken
  <2> DEFINE tail == Tail(rows)
  <2>2. /\ tail \in Seq(Seq(RowChars)) /\ Len(tail) = r - 1
        /\ \A k \in 1 .. r - 1 : tail[k] = rows[k + 1]
    <3>1. rows # <<>>
      BY <1>1
    <3>2. QED
      BY <3>1, HeadTailProperties
  <2> HIDE DEF broken, tail
  <2>3. /\ broken \in Seq(Seq(RowChars)) /\ Len(broken) = r
        /\ \A k \in 1 .. r - 1 : broken[k] = rows[k + 1]
        /\ broken[r] = <<>>
    <3>1. /\ Append(tail, <<>>) \in Seq(Seq(RowChars))
          /\ Len(Append(tail, <<>>)) = Len(tail) + 1
          /\ \A k \in 1 .. Len(tail) : Append(tail, <<>>)[k] = tail[k]
          /\ Append(tail, <<>>)[Len(tail) + 1] = <<>>
      BY <1>2, <2>2, AppendProperties
    <3>2. Len(tail) + 1 = r /\ broken = Append(tail, <<>>)
      BY <1>1, <2>1, <2>2 DEF tail
    <3>3. QED
      BY <2>2, <3>1, <3>2
  <2>4. LastRow(broken) = <<>>
    BY <2>3 DEF LastRow
  <2>5. \A k \in 1 .. r : Len(broken[k]) <= NUM_COLS
    <3> SUFFICES ASSUME NEW k \in 1 .. r PROVE Len(broken[k]) <= NUM_COLS
      OBVIOUS
    <3>1. CASE k = r
      BY <1>1, <1>2, <2>3, <3>1
    <3>2. CASE k # r
      <4>1. k \in 1 .. r - 1 /\ k + 1 \in 1 .. r
        BY <1>1, <3>2
      <4>2. QED
        BY <2>3, <4>1
    <3>3. QED
      BY <3>1, <3>2
  <2>6. WellFormed(broken)
    BY <1>1, <1>2, <2>3, <2>4, <2>5 DEF WellFormed
  <2>7. ASSUME NEW x \in Cols, NEW y \in RowNos
        PROVE  Char(broken, y, x) =
                   IF y = NUM_ROWS - 1 THEN BLANK ELSE Char(rows, y + 1, x)
    <3>1. x \in Nat /\ y \in Nat /\ y < NUM_ROWS /\ ~ (x + 1 <= 0)
      BY <1>3
    <3>2. CASE y = NUM_ROWS - 1
      <4>1. broken[y + 1] = <<>>
        BY <1>1, <1>5, <2>3, <3>2
      <4>2. QED
        BY <1>2, <3>1, <3>2, <4>1 DEF Char
    <3>3. CASE y # NUM_ROWS - 1
      <4>1. /\ y + 1 \in 1 .. r - 1 /\ y + 1 <= r /\ y + 1 + 1 <= r
        BY <1>1, <1>5, <3>1, <3>3
      <4>2. broken[y + 1] = rows[y + 1 + 1]
        BY <2>3, <4>1
      <4>3. QED
        BY <2>3, <3>3, <4>1, <4>2 DEF Char
    <3>4. QED
      BY <3>2, <3>3
  <2>8. QED
    BY <1>2, <1>5, <2>3, <2>4, <2>6, <2>7 DEF broken
<1>6. QED
  BY <1>4, <1>5

(* The text rows, with c before the cursor is moved or brought to a new line. *)
Before(rows, c) == IF c = NL THEN rows ELSE Longer(rows, c)

LEMMA BeforeFacts ==
    ASSUME NEW rows, WellFormed(rows), NEW c \in Chars \cup {NL}
    PROVE  LET before == Before(rows, c)
               n == Len(LastRow(rows))
           IN  /\ before \in Seq(Seq(RowChars))
               /\ Len(before) = Len(rows)
               /\ \A k \in 1 .. Len(before) : Len(before[k]) <= NUM_COLS
               /\ Len(LastRow(before)) = IF c = NL THEN n ELSE n + 1
               /\ \A x \in Cols, y \in RowNos :
                     Char(before, y, x) = IF c # NL /\ y = Len(rows) - 1 /\ x = n THEN c
                                          ELSE Char(rows, y, x)
<1>1. CASE c = NL
  <2>1. \A k \in 1 .. Len(rows) : Len(rows[k]) <= NUM_COLS
    BY DEF WellFormed
  <2>2. QED
    BY <1>1, <2>1, TextFacts DEF Before
<1>2. CASE c # NL
  <2>1. c \in Chars
    BY <1>2
  <2>2. Before(rows, c) = Longer(rows, c)
    BY <1>2 DEF Before
  <2> DEFINE longer == Longer(rows, c)
             n == Len(LastRow(rows))
  <2>3. /\ longer \in Seq(Seq(RowChars)) /\ Len(longer) = Len(rows)
        /\ \A k \in 1 .. Len(rows) : Len(longer[k]) <= NUM_COLS
        /\ Len(LastRow(longer)) = n + 1
        /\ \A x \in Cols, y \in RowNos :
              Char(longer, y, x) = IF y = Len(rows) - 1 /\ x = n THEN c ELSE Char(rows, y, x)
    BY <2>1, LongerFacts
  <2> HIDE DEF longer
  <2>4. QED
    BY <1>2, <2>2, <2>3 DEF longer
<1>3. QED
  BY <1>1, <1>2

LEMMA TypedIsBroken ==
    ASSUME NEW rows, NEW c
    PROVE  Typed(rows, c) = IF c = NL \/ Len(LastRow(Before(rows, c))) = NUM_COLS
                            THEN Broken(Before(rows, c)) ELSE Before(rows, c)
  BY DEF Typed, Before, Longer

LEMMA TypedFacts ==
    ASSUME NEW rows, WellFormed(rows), NEW c \in Chars \cup {NL}
    PROVE  /\ WellFormed(Typed(rows, c))
           /\ \A k \in Nat : k <= Pos(rows) + 1 /\ k <= MostCounted
                                 => k <= Pos(Typed(rows, c))
<1> DEFINE before == Before(rows, c)
           typed == Typed(rows, c)
           r == Len(rows)
           n == Len(LastRow(rows))
           m == Len(LastRow(before))
<1>1. /\ r \in Nat /\ r >= 1 /\ r <= NUM_ROWS /\ n \in Nat /\ n < NUM_COLS
      /\ NUM_ROWS \in Nat /\ NUM_COLS \in Nat
  BY TextFacts, Sizes
<1>2. /\ before \in Seq(Seq(RowChars)) /\ Len(before) = r
      /\ \A k \in 1 .. Len(before) : Len(before[k]) <= NUM_COLS
      /\ m = IF c = NL THEN n ELSE n + 1
  BY BeforeFacts
<1>3. typed = IF c = NL \/ m = NUM_COLS THEN Broken(before) ELSE before
  BY TypedIsBroken
<1> HIDE DEF before, typed, m
<1>4. CASE c = NL \/ m = NUM_COLS
  <2>1. Len(before) \in 1 .. NUM_ROWS
    BY <1>1, <1>2
  <2>2. /\ WellFormed(typed) /\ Len(LastRow(typed)) = 0
        /\ Len(typed) = IF r = NUM_ROWS THEN NUM_ROWS ELSE r + 1
    BY <1>2, <1>3, <1>4, <2>1, BrokenFacts
  <2>3. ASSUME NEW k \in Nat, k <= Pos(rows) + 1, k <= MostCounted
        PROVE  k <= Pos(typed)
    <3>1. CASE r = NUM_ROWS
      <4>1. Pos(typed) = NUM_COLS * (NUM_ROWS - 1) + 0
        BY <2>2, <3>1 DEF Pos
      <4>2. QED
        BY <2>3, <4>1, Sizes
    <3>2. CASE r # NUM_ROWS
      <4>1. Pos(typed) = NUM_COLS * (r + 1 - 1) + 0
        BY <2>2, <3>2 DEF Pos
      <4>2. NUM_COLS * (r + 1 - 1) = NUM_COLS * (r - 1) + NUM_COLS
        BY <1>1
      <4>3. Pos(rows) = NUM_COLS * (r - 1) + n
        BY DEF Pos
      <4> DEFINE q == NUM_COLS * (r - 1)
      <4>4. q \in Nat /\ Pos(typed) = q + NUM_COLS /\ Pos(rows) = q + n
        BY <1>1, <4>1, <4>2, <4>3
      <4> HIDE DEF q, n, r
      <4>5. QED
        BY <1>1, <2>3, <4>4
    <3>3. QED
      BY <3>1, <3>2
  <2>4. QED
    BY <2>2, <2>3 DEF typed
<1>5. CASE ~ (c = NL \/ m = NUM_COLS)
  <2>1. typed = before /\ m = n + 1 /\ m < NUM_COLS
    BY <1>1, <1>2, <1>3, <1>5
  <2>2. WellFormed(typed)
    BY <1>1, <1>2, <2>1 DEF WellFormed, m
  <2>3. Pos(typed) = NUM_COLS * (r - 1) + (n + 1)
    BY <1>2, <2>1 DEF Pos, m
  <2>4. ASSUME NEW k \in Nat, k <= Pos(rows) + 1 PROVE k <= Pos(typed)
    <3> DEFINE q == NUM_COLS * (r - 1)
    <3>1. q \in Nat /\ Pos(typed) = q + (n + 1) /\ Pos(rows) = q + n
      BY <1>1, <2>3 DEF Pos
    <3> HIDE DEF q, n, r
    <3>2. QED
      BY <1>1, <2>4, <3>1
  <2>5. QED
    BY <2>2, <2>4 DEF typed
<1>6. QED
  BY <1>4, <1>5

LEMMA CutFacts ==
    ASSUME NEW row \in Seq(RowChars)
    PROVE  /\ Cut(row) \in Seq(RowChars) /\ Len(Cut(row)) = NUM_COLS - 1
           /\ \A k \in 1 .. NUM_COLS - 1 :
                 Cut(row)[k] = IF k <= Len(row) THEN row[k] ELSE BLANK
<1>1. NUM_COLS - 1 \in Nat /\ Len(row) \in Nat
  BY Sizes, LenProperties
<1>2. \A k \in 1 .. NUM_COLS - 1 : (IF k <= Len(row) THEN row[k] ELSE BLANK) \in RowChars
  <2> SUFFICES ASSUME NEW k \in 1 .. NUM_COLS - 1
               PROVE  (IF k <= Len(row) THEN row[k] ELSE BLANK) \in RowChars
    OBVIOUS
  <2>1. CASE k <= Len(row)
    <3>1. k \in 1 .. Len(row)
      BY <1>1, <2>1
    <3>2. QED
      BY <2>1, <3>1, ElementOfSeq
  <2>2. CASE ~ (k <= Len(row))
    BY <2>2 DEF RowChars
  <2>3. QED
    BY <2>1, <2>2
<1>3. Cut(row) \in [1 .. NUM_COLS - 1 -> RowChars]
  BY <1>2 DEF Cut
<1>4. Cut(row) \in Seq(RowChars)
  BY <1>1, <1>3, SeqDef
<1>5. Len(Cut(row)) = NUM_COLS - 1
  BY <1>1, <1>3, <1>4, LenProperties
<1>6. QED
  BY <1>4, <1>5 DEF Cut

(* A character taken back: the cursor goes one place back, and there is a     *)
(* blank where it is now.                                                     *)
LEMMA ErasedFacts ==
    ASSUME NEW rows, WellFormed(rows)
    PROVE  LET erased == Erased(rows)
               r == Len(rows)
               n == Len(LastRow(rows))
               v == IF n > 0 THEN r - 1 ELSE r - 2
               u == IF n > 0 THEN n - 1 ELSE NUM_COLS - 1
           IN  /\ WellFormed(erased)
               /\ Pos(rows) > 0 =>
                     /\ Len(erased) - 1 = v /\ Len(LastRow(erased)) = u
                     /\ v \in RowNos /\ u \in Cols
                     /\ Pos(erased) = Pos(rows) - 1
                     /\ \A x \in Cols, y \in RowNos :
                           Char(erased, y, x) = IF y = v /\ x = u THEN BLANK ELSE Char(rows, y, x)
<1> DEFINE erased == Erased(rows)
           r == Len(rows)
           n == Len(LastRow(rows))
<1>1. /\ rows \in Seq(Seq(RowChars))
      /\ r \in Nat /\ r >= 1 /\ r <= NUM_ROWS
      /\ LastRow(rows) \in Seq(RowChars) /\ n \in Nat /\ n < NUM_COLS
      /\ \A k \in 1 .. r : rows[k] \in Seq(RowChars) /\ Len(rows[k]) \in 0 .. NUM_COLS
  BY TextFacts
<1>2. NUM_ROWS \in Nat /\ NUM_COLS \in Nat /\ NUM_COLS > 1
  BY Sizes
<1>3. LastRow(rows) # <<>> <=> n > 0
  <2>1. LastRow(rows) # <<>> => n \in Nat \ {0}
    BY <1>1, EmptySeq
  <2>2. LastRow(rows) = <<>> => n = 0
    OBVIOUS
  <2>3. QED
    BY <2>1, <2>2
<1>4. ASSUME NEW x \in Cols, NEW y \in RowNos
      PROVE  x \in Nat /\ y \in Nat /\ y < NUM_ROWS /\ ~ (x + 1 <= 0) /\ x + 1 <= NUM_COLS
  BY <1>2 DEF Cols, RowNos
<1>5. CASE n > 0
  <2> DEFINE last == Front(LastRow(rows))
  <2>1. /\ last \in Seq(RowChars) /\ Len(last) = n - 1
        /\ \A k \in 1 .. n - 1 : last[k] = LastRow(rows)[k]
    <3>1. last = SubSeq(LastRow(rows), 1, n - 1)
      BY DEF Front
    <3>2. \A k \in 1 .. n - 1 : LastRow(rows)[k] \in RowChars
      <4> SUFFICES ASSUME NEW k \in 1 .. n - 1 PROVE LastRow(rows)[k] \in RowChars
        OBVIOUS
      <4>1. k \in 1 .. Len(LastRow(rows))
        BY <1>1
      <4>2. QED
        BY <1>1, <4>1, ElementOfSeq
    <3> DEFINE row == LastRow(rows)
               e == n - 1
    <3>3. 1 \in Int /\ e \in Int /\ \A k \in 1 .. e : row[k] \in RowChars
      BY <1>1, <3>2
    <3> HIDE DEF row, e
    <3>4. /\ SubSeq(row, 1, e) \in Seq(RowChars)
          /\ Len(SubSeq(row, 1, e)) = IF 1 <= e THEN e - 1 + 1 ELSE 0
          /\ \A k \in 1 .. e - 1 + 1 : SubSeq(row, 1, e)[k] = row[1 + k - 1]
      BY <3>3, SubSeqProperties
    <3>5. e \in Nat
      BY <1>1, <1>5 DEF e
    <3>6. /\ SubSeq(row, 1, e) \in Seq(RowChars)
          /\ Len(SubSeq(row, 1, e)) = e
          /\ \A k \in 1 .. e : SubSeq(row, 1, e)[k] = row[k]
      BY <3>4, <3>5
    <3>7. QED
      BY <3>1, <3>6 DEF row, e
  <2>2. erased = [rows EXCEPT ![r] = last]
    BY <1>3, <1>5 DEF Erased, LastRow
  <2> HIDE DEF erased, last
  <2>3. r \in 1 .. Len(rows)
    BY <1>1
  <2>4. /\ erased \in Seq(Seq(RowChars)) /\ Len(erased) = r
        /\ \A k \in 1 .. r : erased[k] = IF k = r THEN last ELSE rows[k]
    BY <1>1, <2>1, <2>2, <2>3, ExceptSeq
  <2>5. LastRow(erased) = last
    BY <2>3, <2>4 DEF LastRow
  <2>6. WellFormed(erased)
    <3>1. \A k \in 1 .. r : Len(erased[k]) <= NUM_COLS
      BY <1>1, <1>2, <2>1, <2>4
    <3>2. Len(erased) \in 1 .. NUM_ROWS
      BY <1>1, <1>2, <2>4
    <3>3. Len(LastRow(erased)) < NUM_COLS
      <4>1. Len(LastRow(erased)) = n - 1
        BY <2>1, <2>5
      <4> HIDE DEF n
      <4>2. QED
        BY <1>1, <1>2, <4>1
    <3>4. QED
      BY <2>4, <3>1, <3>2, <3>3 DEF WellFormed
  <2>7. r - 1 \in RowNos /\ n - 1 \in Cols
    BY <1>1, <1>2, <1>5 DEF RowNos, Cols
  <2>8. Pos(erased) = Pos(rows) - 1
    <3> DEFINE q == NUM_COLS * (r - 1)
    <3>1. q \in Nat /\ Pos(erased) = q + (n - 1) /\ Pos(rows) = q + n
      BY <1>1, <1>2, <2>1, <2>4, <2>5 DEF Pos
    <3> HIDE DEF q, n
    <3>2. QED
      BY <1>1, <3>1
  <2>9. ASSUME NEW x \in Cols, NEW y \in RowNos
        PROVE  Char(erased, y, x) = IF y = r - 1 /\ x = n - 1 THEN BLANK ELSE Char(rows, y, x)
    <3>1. x \in Nat /\ y \in Nat
      BY <1>4
    <3>2. CASE y = r - 1
      <4>1. /\ y + 1 = r /\ y + 1 <= r
            /\ erased[y + 1] = last /\ rows[y + 1] = LastRow(rows)
        BY <1>1, <2>3, <2>4, <3>2 DEF LastRow
      <4>2. Char(erased, y, x) = IF x + 1 <= n - 1 THEN last[x + 1] ELSE BLANK
        <5>1. Len(erased) = r /\ Len(last) = n - 1
          BY <2>1, <2>4
        <5> HIDE DEF n, r
        <5>2. QED
          BY <4>1, <5>1 DEF Char
      <4>3. Char(rows, y, x) = IF x + 1 <= n THEN LastRow(rows)[x + 1] ELSE BLANK
        BY <1>1, <4>1 DEF Char
      <4>4. CASE x + 1 <= n - 1
        <5>1. x + 1 \in 1 .. n - 1 /\ x + 1 <= n /\ x # n - 1
          BY <1>1, <3>1, <4>4
        <5>2. QED
          BY <2>1, <4>2, <4>3, <4>4, <5>1
      <4>5. CASE x = n - 1
        BY <1>1, <3>1, <3>2, <4>2, <4>5
      <4>6. CASE x >= n
        BY <1>1, <3>1, <4>2, <4>3, <4>6
      <4>7. QED
        BY <1>1, <3>1, <4>4, <4>5, <4>6
    <3>3. CASE y # r - 1
      <4>1. y + 1 <= r => y + 1 \in 1 .. r /\ y + 1 # r
        BY <1>1, <3>1, <3>3
      <4>2. QED
        BY <2>4, <3>3, <4>1 DEF Char
    <3>4. QED
      BY <3>2, <3>3
  <2>10. Len(erased) - 1 = r - 1 /\ Len(LastRow(erased)) = n - 1
    BY <2>1, <2>4, <2>5
  <2> HIDE DEF r, n
  <2>11. QED
    BY <1>5, <2>6, <2>7, <2>8, <2>9, <2>10 DEF erased, r, n
<1>6. CASE n = 0 /\ r = 1
  <2>1. erased = rows
    BY <1>3, <1>6 DEF Erased
  <2>2. Pos(rows) = NUM_COLS * (1 - 1) + 0
    BY <1>6 DEF Pos
  <2>3. Pos(rows) = 0
    BY <1>2, <2>2
  <2>4. QED
    BY <2>1, <2>3
<1>7. CASE n = 0 /\ r # 1
  <2> DEFINE above == Front(rows)
             e == r - 1
             last == Cut(rows[e])
  <2>1. e \in Nat /\ e >= 1 /\ e < r /\ e \in 1 .. r /\ e <= NUM_ROWS
    <3>1. r \in Nat /\ r >= 1 /\ r <= NUM_ROWS /\ r # 1 /\ NUM_ROWS \in Nat
      BY <1>1, <1>2, <1>7
    <3> HIDE DEF r
    <3>2. QED
      BY <3>1
  <2>2. /\ above \in Seq(Seq(RowChars)) /\ Len(above) = e
        /\ \A k \in 1 .. e : above[k] = rows[k]
    <3>1. above = SubSeq(rows, 1, e)
      BY DEF Front
    <3>2. \A k \in 1 .. e : rows[k] \in Seq(RowChars)
      BY <1>1
    <3> HIDE DEF above, e
    <3>3. /\ SubSeq(rows, 1, e) \in Seq(Seq(RowChars))
          /\ Len(SubSeq(rows, 1, e)) = IF 1 <= e THEN e - 1 + 1 ELSE 0
          /\ \A k \in 1 .. e - 1 + 1 : SubSeq(rows, 1, e)[k] = rows[1 + k - 1]
      <4>1. 1 \in Int /\ e \in Int
        BY <2>1
      <4>2. QED
        BY <3>2, <4>1, SubSeqProperties
    <3>4. QED
      BY <2>1, <3>1, <3>3
  <2>3. rows[e] \in Seq(RowChars)
    BY <1>1, <2>1
  <2>4. /\ last \in Seq(RowChars) /\ Len(last) = NUM_COLS - 1
        /\ \A k \in 1 .. NUM_COLS - 1 :
              last[k] = IF k <= Len(rows[e]) THEN rows[e][k] ELSE BLANK
    BY <2>3, CutFacts
  <2>5. erased = [above EXCEPT ![e] = last]
    <3>1. LastRow(rows) = <<>> /\ Len(rows) # 1
      BY <1>3, <1>7
    <3>2. erased = [above EXCEPT ![Len(above)] = Cut(above[Len(above)])]
      BY <3>1 DEF Erased
    <3>3. e \in 1 .. e
      BY <2>1
    <3>4. QED
      BY <2>2, <3>2, <3>3
  <2> HIDE DEF above, last, erased, e
  <2>6. /\ erased \in Seq(Seq(RowChars)) /\ Len(erased) = e
        /\ \A k \in 1 .. e : erased[k] = IF k = e THEN last ELSE rows[k]
    <3>1. e \in 1 .. Len(above)
      BY <2>1, <2>2
    <3>2. /\ [above EXCEPT ![e] = last] \in Seq(Seq(RowChars))
          /\ Len([above EXCEPT ![e] = last]) = Len(above)
          /\ \A k \in 1 .. Len(above) :
                [above EXCEPT ![e] = last][k] = IF k = e THEN last ELSE above[k]
      BY <2>2, <2>4, <3>1, ExceptSeq
    <3>3. QED
      BY <2>2, <2>5, <3>2
  <2>7. LastRow(erased) = last
    <3>1. e \in 1 .. e
      BY <2>1
    <3>2. QED
      BY <2>6, <3>1 DEF LastRow
  <2>8. \A k \in 1 .. e : Len(erased[k]) <= NUM_COLS
    <3> SUFFICES ASSUME NEW k \in 1 .. e PROVE Len(erased[k]) <= NUM_COLS
      OBVIOUS
    <3>1. k \in 1 .. r
      BY <2>1, <1>1
    <3>2. CASE k = e
      BY <1>2, <2>4, <2>6, <3>2
    <3>3. CASE k # e
      <4>1. erased[k] = rows[k] /\ Len(rows[k]) \in 0 .. NUM_COLS
        BY <1>1, <2>6, <3>1, <3>3
      <4>2. QED
        BY <1>2, <4>1
    <3>4. QED
      BY <3>2, <3>3
  <2>9. WellFormed(erased)
    BY <1>2, <2>1, <2>4, <2>6, <2>7, <2>8 DEF WellFormed
  <2>10. r - 2 \in RowNos /\ NUM_COLS - 1 \in Cols /\ e - 1 = r - 2
    BY <1>1, <1>2, <2>1 DEF RowNos, Cols, e
  <2>11. Pos(erased) = Pos(rows) - 1
    <3>1. Pos(erased) = NUM_COLS * (e - 1) + (NUM_COLS - 1)
      BY <2>4, <2>6, <2>7 DEF Pos
    <3>2. Pos(rows) = NUM_COLS * e + 0
      BY <1>7 DEF Pos, e
    <3>3. NUM_COLS * e = NUM_COLS * (e - 1) + NUM_COLS
      BY <1>2, <2>1
    <3> DEFINE q == NUM_COLS * (e - 1)
    <3>4. q \in Nat /\ Pos(erased) = q + (NUM_COLS - 1) /\ Pos(rows) = q + NUM_COLS + 0
      BY <1>2, <2>1, <3>1, <3>2, <3>3
    <3> HIDE DEF q
    <3>5. QED
      BY <1>2, <3>4
  <2>12. ASSUME NEW x \in Cols, NEW y \in RowNos
         PROVE  Char(erased, y, x) = IF y = e - 1 /\ x = NUM_COLS - 1 THEN BLANK
                                     ELSE Char(rows, y, x)
    <3>1. x \in Nat /\ y \in Nat /\ ~ (x + 1 <= 0) /\ x + 1 <= NUM_COLS
      BY <1>4
    <3>2. CASE y = e - 1
      <4>1. y + 1 = e /\ y + 1 <= e /\ y + 1 <= r /\ e \in 1 .. e
        BY <2>1, <3>2
      <4>2. Char(erased, y, x) = IF x + 1 <= NUM_COLS - 1 THEN last[x + 1] ELSE BLANK
        BY <2>4, <2>6, <4>1 DEF Char
      <4>3. Char(rows, y, x) = IF x + 1 <= Len(rows[e]) THEN rows[e][x + 1] ELSE BLANK
        BY <4>1 DEF Char
      <4>4. CASE x + 1 <= NUM_COLS - 1
        <5>1. x + 1 \in 1 .. NUM_COLS - 1 /\ x # NUM_COLS - 1
          BY <1>2, <3>1, <4>4
        <5>2. QED
          BY <2>4, <4>2, <4>3, <4>4, <5>1
      <4>5. CASE x = NUM_COLS - 1
        BY <1>2, <3>1, <3>2, <4>2, <4>5
      <4>6. QED
        BY <1>2, <3>1, <4>4, <4>5
    <3>3. CASE y # e - 1 /\ y + 1 <= e
      <4>1. y + 1 \in 1 .. e /\ y + 1 # e /\ y + 1 <= r
        BY <2>1, <3>1, <3>3
      <4>2. QED
        BY <2>6, <3>3, <4>1 DEF Char
    <3>4. CASE y + 1 = r
      <4>1. ~ (y + 1 <= e) /\ y # e - 1 /\ rows[y + 1] = LastRow(rows) /\ y + 1 <= r
        BY <2>1, <3>1, <3>4 DEF LastRow
      <4>2. QED
        BY <1>7, <2>6, <3>1, <4>1 DEF Char
    <3>5. CASE y + 1 > r
      <4>1. ~ (y + 1 <= e) /\ y # e - 1 /\ ~ (y + 1 <= r)
        BY <1>1, <2>1, <3>1, <3>5
      <4>2. QED
        BY <2>6, <4>1 DEF Char
    <3>6. y # e - 1 => y + 1 <= e \/ y + 1 = r \/ y + 1 > r
      BY <1>1, <2>1, <3>1 DEF e
    <3>7. QED
      BY <3>2, <3>3, <3>4, <3>5, <3>6
  <2>13. Len(LastRow(erased)) = NUM_COLS - 1 /\ Len(erased) - 1 = r - 2 /\ ~ (n > 0)
    BY <1>7, <2>4, <2>6, <2>7, <2>10
  <2>14. \A x \in Cols, y \in RowNos :
            Char(erased, y, x) = IF y = r - 2 /\ x = NUM_COLS - 1 THEN BLANK ELSE Char(rows, y, x)
    BY <2>10, <2>12
  <2> HIDE DEF r, n
  <2>15. QED
    BY <2>9, <2>10, <2>11, <2>13, <2>14 DEF erased, r, n
<1>8. QED
  BY <1>1, <1>5, <1>6, <1>7

-----------------------------------------------------------------------------
(* The page, and the functions of lib.c.                                      *)

ScreenChars == Chars \cup {BLANK, BLOCK}
Pages == [Cells -> ScreenChars]
Screens == [page : Pages, fault : BOOLEAN, x : Nat, y : Int]

(* A page that was drawn on since it showed the pointer at m, which hides c:  *)
(* the block may have been written over or scrolled up.                       *)
Traces(page, rows, pointed, m, c) ==
    \A x \in Cols, y \in RowNos :
        \/ page[At(x, y)] = Char(rows, y, x)
        \/ /\ pointed /\ page[At(x, y)] = BLOCK /\ At(x, y) <= m
           /\ At(x, y) = m => c = Char(rows, y, x)

Written(page, i, c) == [page EXCEPT ![i] = c]

LEMMA WrittenFacts ==
    ASSUME NEW page \in Pages, NEW i \in Cells, NEW c \in ScreenChars
    PROVE  /\ Written(page, i, c) \in Pages
           /\ \A j \in Cells : Written(page, i, c)[j] = IF j = i THEN c ELSE page[j]
  BY DEF Written, Pages

LEMMA PageFacts ==
    ASSUME NEW s \in Screens, NEW i, NEW c \in ScreenChars
    PROVE  /\ Page(s, i, c) \in Screens
           /\ Page(s, i, c).x = s.x /\ Page(s, i, c).y = s.y
           /\ i \in Cells => /\ Page(s, i, c).page = Written(s.page, i, c)
                             /\ Page(s, i, c).fault = s.fault
<1>1. CASE i \in Cells
  <2> DEFINE page == Written(s.page, i, c)
  <2>1. page \in Pages
    BY <1>1, WrittenFacts DEF Screens
  <2>2. Page(s, i, c) = [s EXCEPT !.page = page]
    BY <1>1 DEF Page, Written
  <2> HIDE DEF page
  <2>3. Page(s, i, c) \in Screens
    BY <2>1, <2>2 DEF Screens
  <2>4. Page(s, i, c).page = page
    BY <2>2 DEF Screens
  <2>5. Page(s, i, c).x = s.x /\ Page(s, i, c).y = s.y /\ Page(s, i, c).fault = s.fault
    BY <2>2 DEF Screens
  <2>6. QED
    BY <2>3, <2>4, <2>5 DEF page
<1>2. CASE i \notin Cells
  BY <1>2 DEF Page, Screens
<1>3. QED
  BY <1>1, <1>2

LEMMA ScrolledFacts ==
    ASSUME NEW page \in Pages
    PROVE  /\ Scrolled(page) \in Pages
           /\ \A x \in Cols, y \in RowNos :
                 Scrolled(page)[At(x, y)] =
                     IF y = NUM_ROWS - 1 THEN BLANK ELSE page[At(x, y + 1)]
<1>1. ScreenCells \subseteq Cells
  BY Sizes, ScreenAssumption DEF ScreenCells, Cells
<1>2. Scrolled(page) \in Pages
  <2>1. \A i \in Cells : (IF i + NUM_COLS \in ScreenCells THEN page[i + NUM_COLS]
                          ELSE IF i \in ScreenCells THEN BLANK ELSE page[i]) \in ScreenChars
    BY <1>1 DEF Pages, ScreenChars
  <2>2. QED
    BY <2>1 DEF Scrolled, Pages
<1>3. ASSUME NEW x \in Cols, NEW y \in RowNos
      PROVE  Scrolled(page)[At(x, y)] =
                 IF y = NUM_ROWS - 1 THEN BLANK ELSE page[At(x, y + 1)]
  <2>1. /\ At(x, y) \in ScreenCells /\ At(x, y) \in Cells
        /\ At(x, y) + NUM_COLS = At(x, y + 1)
        /\ At(x, y + 1) \in ScreenCells <=> y + 1 \in RowNos
    BY CellOf, CellBelow
  <2>2. y + 1 \in RowNos <=> y # NUM_ROWS - 1
    BY Sizes DEF RowNos
  <2>3. QED
    BY <2>1, <2>2 DEF Scrolled
<1>4. QED
  BY <1>2, <1>3

(* A scroll of the page and one of the text.                                  *)
LEMMA ScrolledTraces ==
    ASSUME NEW page \in Pages, NEW rows, rows \in Seq(Seq(RowChars)), Len(rows) = NUM_ROWS,
           \A k \in 1 .. Len(rows) : Len(rows[k]) <= NUM_COLS,
           NEW pointed, NEW m \in Nat, NEW c, Traces(page, rows, pointed, m, c)
    PROVE  Traces(Scrolled(page), Broken(rows), pointed, m, c)
<1> SUFFICES ASSUME NEW x \in Cols, NEW y \in RowNos
             PROVE  \/ Scrolled(page)[At(x, y)] = Char(Broken(rows), y, x)
                    \/ /\ pointed /\ Scrolled(page)[At(x, y)] = BLOCK /\ At(x, y) <= m
                       /\ At(x, y) = m => c = Char(Broken(rows), y, x)
  BY DEF Traces
<1>1. Len(rows) \in 1 .. NUM_ROWS
  BY Sizes
<1>2. Char(Broken(rows), y, x) = IF y = NUM_ROWS - 1 THEN BLANK ELSE Char(rows, y + 1, x)
  BY <1>1, BrokenFacts
<1>3. Scrolled(page)[At(x, y)] = IF y = NUM_ROWS - 1 THEN BLANK ELSE page[At(x, y + 1)]
  BY ScrolledFacts
<1>4. CASE y = NUM_ROWS - 1
  BY <1>2, <1>3, <1>4
<1>5. CASE y # NUM_ROWS - 1
  <2>1. y + 1 \in RowNos
    BY <1>5, Sizes DEF RowNos
  <2>2. \/ page[At(x, y + 1)] = Char(rows, y + 1, x)
        \/ pointed /\ page[At(x, y + 1)] = BLOCK /\ At(x, y + 1) <= m
    BY <2>1 DEF Traces
  <2>3. At(x, y) < At(x, y + 1) /\ At(x, y) \in Nat /\ At(x, y + 1) \in Nat
    BY <2>1, CellOf, CellBelow, Sizes
  <2>4. At(x, y + 1) <= m => At(x, y) <= m /\ At(x, y) # m
    BY <2>3
  <2>5. QED
    BY <1>2, <1>3, <1>5, <2>2, <2>4
<1>6. QED
  BY <1>4, <1>5

(* What the assignments in putc, new_line and del_last_char leave.            *)
WithPageX(s, p, x) == [s EXCEPT !.page = p, !.x = x]

LEMMA WithPageXFacts ==
    ASSUME NEW s \in Screens, NEW p \in Pages, NEW x \in Nat
    PROVE  LET r == WithPageX(s, p, x)
           IN  /\ r \in Screens
               /\ r.page = p /\ r.x = x
               /\ r.y = s.y /\ r.fault = s.fault
<1> DEFINE r == WithPageX(s, p, x)
<1>1. r \in Screens
  BY DEF Screens, WithPageX
<1>2. r.page = p
  BY DEF Screens, WithPageX
<1>3. r.x = x
  BY DEF Screens, WithPageX
<1>4. r.y = s.y /\ r.fault = s.fault
  BY DEF Screens, WithPageX
<1>5. QED
  BY <1>1, <1>2, <1>3, <1>4

WithPlace(s, x, y) == [s EXCEPT !.x = x, !.y = y]

LEMMA WithPlaceFacts ==
    ASSUME NEW s \in Screens, NEW x \in Nat, NEW y \in Int
    PROVE  LET r == WithPlace(s, x, y)
           IN  /\ r \in Screens
               /\ r.x = x /\ r.y = y
               /\ r.page = s.page /\ r.fault = s.fault
<1> DEFINE r == WithPlace(s, x, y)
<1>1. r \in Screens
  BY DEF Screens, WithPlace
<1>2. r.x = x
  BY DEF Screens, WithPlace
<1>3. r.y = y
  BY DEF Screens, WithPlace
<1>4. r.page = s.page /\ r.fault = s.fault
  BY DEF Screens, WithPlace
<1>5. QED
  BY <1>1, <1>2, <1>3, <1>4

WithX(s, x) == [s EXCEPT !.x = x]

LEMMA WithXFacts ==
    ASSUME NEW s \in Screens, NEW x \in Nat
    PROVE  LET r == WithX(s, x)
           IN  r \in Screens /\ r.x = x /\ r.page = s.page /\ r.y = s.y /\ r.fault = s.fault
<1> DEFINE r == WithX(s, x)
<1>1. r \in Screens
  BY DEF Screens, WithX
<1>2. r.x = x
  BY DEF Screens, WithX
<1>3. r.page = s.page /\ r.y = s.y /\ r.fault = s.fault
  BY DEF Screens, WithX
<1>4. QED
  BY <1>1, <1>2, <1>3

LEMMA NewLineScreen ==
    ASSUME NEW s \in Screens
    PROVE  /\ new_line(s) \in Screens
           /\ new_line(s).page = IF s.y = NUM_ROWS - 1 THEN Scrolled(s.page) ELSE s.page
           /\ new_line(s).x = 0
           /\ new_line(s).y = IF s.y = NUM_ROWS - 1 THEN s.y ELSE s.y + 1
           /\ new_line(s).fault = s.fault
<1>1. s.page \in Pages /\ s.y \in Int /\ Scrolled(s.page) \in Pages
  BY ScrolledFacts DEF Screens
<1>2. CASE s.y = NUM_ROWS - 1
  <2>1. new_line(s) = WithPageX(s, Scrolled(s.page), 0)
    BY <1>2 DEF new_line, WithPageX
  <2>2. QED
    BY <1>1, <1>2, <2>1, WithPageXFacts
<1>3. CASE s.y # NUM_ROWS - 1
  <2>1. new_line(s) = WithPlace(s, 0, s.y + 1)
    BY <1>3 DEF new_line, WithPlace
  <2> DEFINE y == s.y + 1
  <2>2. y \in Int /\ 0 \in Nat
    BY <1>1
  <2> HIDE DEF y
  <2>3. LET r == WithPlace(s, 0, y)
        IN  r \in Screens /\ r.x = 0 /\ r.y = y /\ r.page = s.page /\ r.fault = s.fault
    BY <2>2, WithPlaceFacts
  <2>4. QED
    BY <1>3, <2>1, <2>3 DEF y
<1>4. QED
  BY <1>2, <1>3

LEMMA NewLineKeeps ==
    ASSUME NEW s \in Screens, NEW rows, rows \in Seq(Seq(RowChars)), Len(rows) \in 1 .. NUM_ROWS,
           \A k \in 1 .. Len(rows) : Len(rows[k]) <= NUM_COLS
    PROVE  /\ new_line(s) \in Screens /\ new_line(s).x = 0 /\ new_line(s).fault = s.fault
           /\ s.y = Len(rows) - 1 =>
                 /\ new_line(s).y = Len(Broken(rows)) - 1
                 /\ \A pointed, c : \A m \in Nat :
                       Traces(s.page, rows, pointed, m, c)
                           => Traces(new_line(s).page, Broken(rows), pointed, m, c)
<1>1. s.page \in Pages /\ s.y \in Int /\ Scrolled(s.page) \in Pages
  BY ScrolledFacts DEF Screens
<1>2. Len(rows) \in Nat /\ NUM_ROWS \in Nat
  BY Sizes
<1>3. Len(Broken(rows)) = IF Len(rows) = NUM_ROWS THEN NUM_ROWS ELSE Len(rows) + 1
  BY BrokenFacts
<1>4. CASE s.y = NUM_ROWS - 1
  <2>2. new_line(s).y = s.y /\ new_line(s).page = Scrolled(s.page)
    BY <1>4, NewLineScreen
  <2>3. s.y = Len(rows) - 1 => Len(rows) = NUM_ROWS
    BY <1>2, <1>4
  <2>4. s.y = Len(rows) - 1 =>
            \A pointed, c : \A m \in Nat :
                Traces(s.page, rows, pointed, m, c)
                    => Traces(Scrolled(s.page), Broken(rows), pointed, m, c)
    BY <1>1, <2>3, ScrolledTraces
  <2>5. s.y = Len(rows) - 1 => new_line(s).y = Len(Broken(rows)) - 1
    BY <1>3, <2>2, <2>3
  <2>6. QED
    BY <2>2, <2>4, <2>5, NewLineScreen
<1>5. CASE s.y # NUM_ROWS - 1
  <2>2. new_line(s).y = s.y + 1 /\ new_line(s).page = s.page
    BY <1>5, NewLineScreen
  <2>3. s.y = Len(rows) - 1 => Len(rows) # NUM_ROWS /\ s.y + 1 = Len(Broken(rows)) - 1
    BY <1>2, <1>3, <1>5
  <2>4. ASSUME s.y = Len(rows) - 1, NEW pointed, NEW c, NEW m \in Nat,
               Traces(s.page, rows, pointed, m, c)
        PROVE  Traces(s.page, Broken(rows), pointed, m, c)
    <3>1. \A x \in Cols, y \in RowNos : Char(Broken(rows), y, x) = Char(rows, y, x)
      BY <2>3, <2>4, BrokenFacts
    <3>2. QED
      BY <2>4, <3>1 DEF Traces
  <2>5. QED
    BY <2>2, <2>3, <2>4, NewLineScreen
<1>6. QED
  BY <1>4, <1>5

(* Screen and text together, and the cursor behind the text.                  *)
Sound(b) == b.screen \in Screens /\ WellFormed(b.rows)

AtEnd(b) ==
    /\ b.screen.x = Len(LastRow(b.rows)) /\ b.screen.y = Len(b.rows) - 1
    /\ ~ b.screen.fault

LEMMA PlaceIsCell ==
    ASSUME NEW b, Sound(b), AtEnd(b)
    PROVE  /\ b.screen.x \in Cols /\ b.screen.y \in RowNos
           /\ At(b.screen.x, b.screen.y) \in Cells
<1>1. /\ Len(b.rows) \in Nat /\ Len(b.rows) >= 1 /\ Len(b.rows) <= NUM_ROWS
      /\ Len(LastRow(b.rows)) \in Nat /\ Len(LastRow(b.rows)) < NUM_COLS
  BY TextFacts DEF Sound
<1>2. b.screen.x \in Cols /\ b.screen.y \in RowNos
  BY <1>1, Sizes DEF AtEnd, Cols, RowNos
<1>3. QED
  BY <1>2, CellOf

LEMMA SmallMod ==
    ASSUME NEW d \in Nat \ {0}, NEW k \in 0 .. d - 1
    PROVE  k % d = k /\ k \div d = 0
<1>1. (d * 0 + k) \div d = 0 /\ (d * 0 + k) % d = k
  BY Quotient
<1>2. d * 0 + k = k
  OBVIOUS
<1>3. QED
  BY <1>1, <1>2

LEMMA PutcScreen ==
    ASSUME NEW s \in Screens, NEW c \in Chars
    PROVE  LET stored == WithX(Page(s, At(s.x, s.y), c), s.x + 1)
               wrapped == IF stored.x = NUM_COLS THEN new_line(stored) ELSE stored
           IN  /\ stored \in Screens /\ wrapped \in Screens
               /\ stored.x = s.x + 1 /\ stored.y = s.y
               /\ At(s.x, s.y) \in Cells => /\ stored.page = Written(s.page, At(s.x, s.y), c)
                                            /\ stored.fault = s.fault
               /\ putc(s, c) \in Screens
               /\ putc(s, c).page = wrapped.page /\ putc(s, c).fault = wrapped.fault
               /\ putc(s, c).x = wrapped.x % NUM_COLS /\ putc(s, c).y = wrapped.y % NUM_ROWS
<1> DEFINE p == Page(s, At(s.x, s.y), c)
           stored == WithX(p, s.x + 1)
           wrapped == IF stored.x = NUM_COLS THEN new_line(stored) ELSE stored
<1>1. s.x \in Nat /\ s.x + 1 \in Nat /\ c \in ScreenChars /\ c # NL
  BY ScreenAssumption DEF Screens, ScreenChars
<1>2. /\ p \in Screens /\ p.x = s.x /\ p.y = s.y
      /\ At(s.x, s.y) \in Cells => /\ p.page = Written(s.page, At(s.x, s.y), c)
                                   /\ p.fault = s.fault
  BY <1>1, PageFacts
<1>3. putc(s, c) = [wrapped EXCEPT !.x = @ % NUM_COLS, !.y = @ % NUM_ROWS]
  BY <1>1, <1>2 DEF putc, WithX
<1> HIDE DEF p
<1>4. /\ stored \in Screens /\ stored.x = s.x + 1 /\ stored.y = p.y
      /\ stored.page = p.page /\ stored.fault = p.fault
  BY <1>1, <1>2, WithXFacts
<1> HIDE DEF stored
<1>5. wrapped \in Screens
  BY <1>4, NewLineScreen
<1> HIDE DEF wrapped
<1>6. putc(s, c) = WithPlace(wrapped, wrapped.x % NUM_COLS, wrapped.y % NUM_ROWS)
  BY <1>3 DEF WithPlace
<1>7. wrapped.x % NUM_COLS \in Nat /\ wrapped.y % NUM_ROWS \in Int
  BY <1>5, Sizes DEF Screens
<1>8. /\ putc(s, c) \in Screens
      /\ putc(s, c).page = wrapped.page /\ putc(s, c).fault = wrapped.fault
      /\ putc(s, c).x = wrapped.x % NUM_COLS /\ putc(s, c).y = wrapped.y % NUM_ROWS
  <2> DEFINE x == wrapped.x % NUM_COLS
             y == wrapped.y % NUM_ROWS
  <2>1. x \in Nat /\ y \in Int /\ putc(s, c) = WithPlace(wrapped, x, y)
    BY <1>6, <1>7
  <2> HIDE DEF x, y
  <2>2. /\ putc(s, c) \in Screens
        /\ putc(s, c).page = wrapped.page /\ putc(s, c).fault = wrapped.fault
        /\ putc(s, c).x = x /\ putc(s, c).y = y
    BY <1>5, <2>1, WithPlaceFacts
  <2>3. QED
    BY <2>2 DEF x, y
<1>9. /\ stored.y = s.y
      /\ At(s.x, s.y) \in Cells => /\ stored.page = Written(s.page, At(s.x, s.y), c)
                                   /\ stored.fault = s.fault
  BY <1>2, <1>4
<1>10. QED
  BY <1>4, <1>5, <1>8, <1>9 DEF wrapped, stored, p

LEMMA WrittenTraces ==
    ASSUME NEW page \in Pages, NEW u \in Cols, NEW v \in RowNos, NEW c \in ScreenChars,
           NEW rows, NEW after,
           \A x \in Cols, y \in RowNos :
               Char(after, y, x) = IF y = v /\ x = u THEN c ELSE Char(rows, y, x),
           NEW pointed, NEW m, NEW h, Traces(page, rows, pointed, m, h)
    PROVE  Traces(Written(page, At(u, v), c), after, pointed, m, h)
<1> DEFINE written == Written(page, At(u, v), c)
<1> SUFFICES ASSUME NEW x \in Cols, NEW y \in RowNos
             PROVE  \/ written[At(x, y)] = Char(after, y, x)
                    \/ /\ pointed /\ written[At(x, y)] = BLOCK /\ At(x, y) <= m
                       /\ At(x, y) = m => h = Char(after, y, x)
  BY DEF Traces
<1>1. At(u, v) \in Cells /\ At(x, y) \in Cells
  BY CellOf
<1>2. written[At(x, y)] = IF At(x, y) = At(u, v) THEN c ELSE page[At(x, y)]
  BY <1>1, WrittenFacts
<1>3. Char(after, y, x) = IF y = v /\ x = u THEN c ELSE Char(rows, y, x)
  OBVIOUS
<1> HIDE DEF written
<1>4. CASE y = v /\ x = u
  BY <1>2, <1>3, <1>4
<1>5. CASE ~ (y = v /\ x = u)
  <2>1. At(x, y) # At(u, v)
    BY <1>5, CellsDiffer
  <2>2. written[At(x, y)] = page[At(x, y)] /\ Char(after, y, x) = Char(rows, y, x)
    BY <1>2, <1>3, <1>5, <2>1
  <2>3. \/ page[At(x, y)] = Char(rows, y, x)
        \/ /\ pointed /\ page[At(x, y)] = BLOCK /\ At(x, y) <= m
           /\ At(x, y) = m => h = Char(rows, y, x)
    BY DEF Traces
  <2>4. QED
    BY <2>2, <2>3
<1>6. QED
  BY <1>4, <1>5

(* putc keeps a screen and its text together.                                 *)
LEMMA PutKeeps ==
    ASSUME NEW b, Sound(b), NEW c \in Chars \cup {NL}
    PROVE  /\ Sound(Put(b, c))
           /\ AtEnd(b) =>
                 /\ AtEnd(Put(b, c))
                 /\ \A pointed, h : \A m \in Nat :
                       Traces(b.screen.page, b.rows, pointed, m, h)
                           => Traces(Put(b, c).screen.page, Put(b, c).rows, pointed, m, h)
<1> DEFINE s == b.screen
           rows == b.rows
<1>1. s \in Screens /\ WellFormed(rows)
  BY DEF Sound
<1>2. Put(b, c).screen = putc(s, c) /\ Put(b, c).rows = Typed(rows, c)
  BY DEF Put
<1>3. WellFormed(Typed(rows, c))
  BY <1>1, TypedFacts
<1>4. /\ rows \in Seq(Seq(RowChars)) /\ Len(rows) \in 1 .. NUM_ROWS
      /\ \A k \in 1 .. Len(rows) : Len(rows[k]) <= NUM_COLS
      /\ Len(LastRow(rows)) < NUM_COLS /\ Len(LastRow(rows)) \in Nat
  BY <1>1, TextFacts DEF WellFormed
<1>5. AtEnd(b) => s.x = Len(LastRow(rows)) /\ s.y = Len(rows) - 1 /\ ~ s.fault
  BY DEF AtEnd
<1>6. AtEnd(b) => s.x \in Cols /\ s.y \in RowNos /\ At(s.x, s.y) \in Cells
  BY PlaceIsCell
<1>7. \/ Put(b, c) = [screen |-> putc(s, c), rows |-> Typed(rows, c)]
  BY DEF Put
<1> HIDE DEF s, rows
<1>8. CASE c = NL
  <2>1. putc(s, c) = new_line(s) /\ Typed(rows, c) = Broken(rows)
    BY <1>8 DEF putc, Typed
  <2>2. /\ new_line(s) \in Screens /\ new_line(s).x = 0 /\ new_line(s).fault = s.fault
        /\ s.y = Len(rows) - 1 =>
                 /\ new_line(s).y = Len(Broken(rows)) - 1
                 /\ \A pointed, h : \A m \in Nat :
                       Traces(s.page, rows, pointed, m, h)
                           => Traces(new_line(s).page, Broken(rows), pointed, m, h)
    BY <1>1, <1>4, NewLineKeeps
  <2>3. Len(LastRow(Broken(rows))) = 0
    BY <1>4, BrokenFacts
  <2>4. Sound(Put(b, c))
    BY <1>2, <1>3, <2>1, <2>2 DEF Sound
  <2>5. ASSUME AtEnd(b) PROVE AtEnd(Put(b, c))
    BY <1>2, <1>5, <2>1, <2>2, <2>3, <2>5 DEF AtEnd
  <2>6. ASSUME AtEnd(b), NEW pointed, NEW h, NEW m \in Nat, Traces(s.page, rows, pointed, m, h)
        PROVE  Traces(Put(b, c).screen.page, Put(b, c).rows, pointed, m, h)
    BY <1>2, <1>5, <2>1, <2>2, <2>6
  <2>7. QED
    BY <2>4, <2>5, <2>6 DEF s, rows
<1>9. CASE c # NL
  <2> DEFINE before == Before(rows, c)
             n == Len(LastRow(rows))
             stored == WithX(Page(s, At(s.x, s.y), c), s.x + 1)
             wrapped == IF stored.x = NUM_COLS THEN new_line(stored) ELSE stored
  <2>1. c \in Chars /\ c \in ScreenChars
    BY <1>9 DEF ScreenChars
  <2>2. /\ stored \in Screens /\ wrapped \in Screens
        /\ stored.x = s.x + 1 /\ stored.y = s.y
        /\ At(s.x, s.y) \in Cells => /\ stored.page = Written(s.page, At(s.x, s.y), c)
                                     /\ stored.fault = s.fault
        /\ putc(s, c) \in Screens
        /\ putc(s, c).page = wrapped.page /\ putc(s, c).fault = wrapped.fault
        /\ putc(s, c).x = wrapped.x % NUM_COLS /\ putc(s, c).y = wrapped.y % NUM_ROWS
    BY <1>1, <2>1, PutcScreen
  <2>3. wrapped = IF stored.x = NUM_COLS THEN new_line(stored) ELSE stored
    OBVIOUS
  <2>4. /\ before \in Seq(Seq(RowChars)) /\ Len(before) = Len(rows)
        /\ \A k \in 1 .. Len(before) : Len(before[k]) <= NUM_COLS
        /\ Len(LastRow(before)) = n + 1
        /\ \A x \in Cols, y \in RowNos :
              Char(before, y, x) = IF y = Len(rows) - 1 /\ x = n THEN c ELSE Char(rows, y, x)
    <3>1. /\ before \in Seq(Seq(RowChars)) /\ Len(before) = Len(rows)
          /\ \A k \in 1 .. Len(before) : Len(before[k]) <= NUM_COLS
          /\ Len(LastRow(before)) = IF c = NL THEN n ELSE n + 1
          /\ \A x \in Cols, y \in RowNos :
                Char(before, y, x) = IF c # NL /\ y = Len(rows) - 1 /\ x = n THEN c
                                     ELSE Char(rows, y, x)
      BY <1>1, BeforeFacts
    <3> HIDE DEF before, n
    <3>2. QED
      BY <1>9, <3>1
  <2>5. Typed(rows, c) = IF n + 1 = NUM_COLS THEN Broken(before) ELSE before
    BY <1>9, <2>4, TypedIsBroken
  <2> HIDE DEF before, stored, wrapped
  <2>6. Sound(Put(b, c))
    BY <1>2, <1>3, <2>2 DEF Sound
  <2>7. SUFFICES ASSUME AtEnd(b)
                 PROVE  /\ AtEnd(Put(b, c))
                        /\ \A pointed, h : \A m \in Nat :
                              Traces(s.page, rows, pointed, m, h)
                                  => Traces(Put(b, c).screen.page, Put(b, c).rows, pointed, m, h)
    BY <2>6 DEF s, rows
  <2>8. /\ s.x = n /\ s.y = Len(rows) - 1 /\ ~ s.fault /\ s.x \in Cols /\ s.y \in RowNos
        /\ stored.page = Written(s.page, At(s.x, s.y), c) /\ ~ stored.fault
        /\ s.page \in Pages
    BY <1>1, <1>5, <1>6, <2>2, <2>7 DEF Screens
  <2>9. ASSUME NEW pointed, NEW h, NEW m \in Nat, Traces(s.page, rows, pointed, m, h)
        PROVE  Traces(stored.page, before, pointed, m, h)
    <3>1. \A x \in Cols, y \in RowNos :
              Char(before, y, x) = IF y = s.y /\ x = s.x THEN c ELSE Char(rows, y, x)
      BY <2>4, <2>8
    <3>2. Traces(Written(s.page, At(s.x, s.y), c), before, pointed, m, h)
      BY <2>1, <2>8, <2>9, <3>1, WrittenTraces
    <3>3. QED
      BY <2>8, <3>2
  <2>10. /\ ~ wrapped.fault
         /\ wrapped.x = Len(LastRow(Typed(rows, c))) /\ wrapped.y = Len(Typed(rows, c)) - 1
         /\ \A pointed, h : \A m \in Nat :
               Traces(s.page, rows, pointed, m, h)
                   => Traces(wrapped.page, Typed(rows, c), pointed, m, h)
    <3>1. CASE n + 1 = NUM_COLS
      <4>1. wrapped = new_line(stored) /\ Typed(rows, c) = Broken(before)
        BY <2>2, <2>3, <2>5, <2>8, <3>1
      <4>2. stored.y = Len(before) - 1 /\ Len(before) \in 1 .. NUM_ROWS
        BY <1>4, <2>2, <2>4, <2>8
      <4>3. /\ new_line(stored).x = 0 /\ new_line(stored).fault = stored.fault
            /\ new_line(stored).y = Len(Broken(before)) - 1
            /\ \A pointed, h : \A m \in Nat :
                  Traces(stored.page, before, pointed, m, h)
                      => Traces(new_line(stored).page, Broken(before), pointed, m, h)
        BY <2>2, <2>4, <4>2, NewLineKeeps
      <4>4. Len(LastRow(Broken(before))) = 0
        BY <2>4, <4>2, BrokenFacts
      <4>5. QED
        BY <2>8, <2>9, <4>1, <4>3, <4>4
    <3>2. CASE n + 1 # NUM_COLS
      <4>1. wrapped = stored /\ Typed(rows, c) = before
        BY <2>2, <2>3, <2>5, <2>8, <3>2
      <4>2. QED
        BY <2>2, <2>4, <2>8, <2>9, <4>1
    <3>3. QED
      BY <3>1, <3>2
  <2>11. wrapped.x \in 0 .. NUM_COLS - 1 /\ wrapped.y \in 0 .. NUM_ROWS - 1
    <3>1. /\ Len(Typed(rows, c)) \in Nat /\ Len(Typed(rows, c)) >= 1
          /\ Len(Typed(rows, c)) <= NUM_ROWS
          /\ Len(LastRow(Typed(rows, c))) \in Nat /\ Len(LastRow(Typed(rows, c))) < NUM_COLS
      BY <1>3, TextFacts
    <3>2. QED
      BY <2>10, <3>1, Sizes
  <2>12. wrapped.x % NUM_COLS = wrapped.x /\ wrapped.y % NUM_ROWS = wrapped.y
    <3>1. NUM_COLS \in Nat \ {0} /\ NUM_ROWS \in Nat \ {0}
      BY Sizes
    <3>2. wrapped.x % NUM_COLS = wrapped.x
      BY <2>11, <3>1, SmallMod
    <3>3. wrapped.y % NUM_ROWS = wrapped.y
      BY <2>11, <3>1, SmallMod
    <3>4. QED
      BY <3>2, <3>3
  <2>13. AtEnd(Put(b, c))
    BY <1>2, <2>2, <2>10, <2>12 DEF AtEnd
  <2>14. QED
    BY <1>2, <2>2, <2>10, <2>13
<1>10. QED
  BY <1>8, <1>9

LEMMA BackScreen ==
    ASSUME NEW s \in Screens
    PROVE  /\ Back(s) \in Screens /\ Back(s).page = s.page /\ Back(s).fault = s.fault
           /\ Back(s).x = IF s.x = 0 THEN NUM_COLS - 1 ELSE s.x - 1
           /\ Back(s).y = IF s.x = 0 THEN s.y - 1 ELSE s.y
<1>1. s.x \in Nat /\ s.y \in Int /\ NUM_COLS - 1 \in Nat
  BY Sizes DEF Screens
<1>2. CASE s.x = 0
  <2> DEFINE x == NUM_COLS - 1
             y == s.y - 1
  <2>1. x \in Nat /\ y \in Int /\ Back(s) = WithPlace(s, x, y)
    BY <1>1, <1>2 DEF Back, WithPlace
  <2> HIDE DEF x, y
  <2>2. /\ Back(s) \in Screens /\ Back(s).page = s.page /\ Back(s).fault = s.fault
        /\ Back(s).x = x /\ Back(s).y = y
    BY <2>1, WithPlaceFacts
  <2>3. QED
    BY <1>2, <2>2 DEF x, y
<1>3. CASE s.x # 0
  <2> DEFINE x == s.x - 1
  <2>1. x \in Nat /\ Back(s) = WithX(s, x)
    BY <1>1, <1>3 DEF Back, WithX
  <2> HIDE DEF x
  <2>2. /\ Back(s) \in Screens /\ Back(s).page = s.page /\ Back(s).fault = s.fault
        /\ Back(s).x = x /\ Back(s).y = s.y
    BY <2>1, WithXFacts
  <2>3. QED
    BY <1>3, <2>2 DEF x
<1>4. QED
  BY <1>2, <1>3

(* del_last_char does, as long as there is something on the screen to erase.  *)
LEMMA EraseKeeps ==
    ASSUME NEW b, Sound(b)
    PROVE  /\ Sound(Erase(b))
           /\ AtEnd(b) /\ Pos(b.rows) > 0 =>
                 /\ AtEnd(Erase(b))
                 /\ Pos(Erase(b).rows) = Pos(b.rows) - 1
                 /\ \A pointed, h : \A m \in Nat :
                       Traces(b.screen.page, b.rows, pointed, m, h)
                           => Traces(Erase(b).screen.page, Erase(b).rows, pointed, m, h)
<1> DEFINE s == b.screen
           rows == b.rows
           erased == Erased(rows)
           r == Len(rows)
           n == Len(LastRow(rows))
           v == IF n > 0 THEN r - 1 ELSE r - 2
           u == IF n > 0 THEN n - 1 ELSE NUM_COLS - 1
           back == Back(s)
           i == At(back.x, back.y)
<1>1. s \in Screens /\ WellFormed(rows) /\ BLANK \in ScreenChars
  BY DEF Sound, ScreenChars
<1>2. Erase(b).screen = Page(back, i, BLANK) /\ Erase(b).rows = erased
  BY DEF Erase, del_last_char
<1>3. /\ WellFormed(erased)
      /\ Pos(rows) > 0 =>
            /\ Len(erased) - 1 = v /\ Len(LastRow(erased)) = u
            /\ v \in RowNos /\ u \in Cols
            /\ Pos(erased) = Pos(rows) - 1
            /\ \A x \in Cols, y \in RowNos :
                  Char(erased, y, x) = IF y = v /\ x = u THEN BLANK ELSE Char(rows, y, x)
  BY <1>1, ErasedFacts
<1>4. AtEnd(b) => s.x = n /\ s.y = r - 1 /\ ~ s.fault
  BY DEF AtEnd
<1>5. r \in Nat /\ n \in Nat
  BY <1>1, TextFacts
<1> HIDE DEF s, rows, erased, n, r
<1>6. /\ back \in Screens /\ back.page = s.page /\ back.fault = s.fault
      /\ back.x = IF s.x = 0 THEN NUM_COLS - 1 ELSE s.x - 1
      /\ back.y = IF s.x = 0 THEN s.y - 1 ELSE s.y
  BY <1>1, BackScreen
<1>7. AtEnd(b) => back.x = u /\ back.y = v
  BY <1>4, <1>5, <1>6
<1> HIDE DEF back, u, v
<1>8. /\ Page(back, i, BLANK) \in Screens
      /\ Page(back, i, BLANK).x = back.x /\ Page(back, i, BLANK).y = back.y
      /\ i \in Cells => /\ Page(back, i, BLANK).page = Written(s.page, i, BLANK)
                        /\ Page(back, i, BLANK).fault = s.fault
  BY <1>1, <1>6, PageFacts
<1>9. Sound(Erase(b))
  BY <1>2, <1>3, <1>8 DEF Sound
<1>10. SUFFICES ASSUME AtEnd(b), Pos(rows) > 0
                PROVE  /\ AtEnd(Erase(b))
                       /\ Pos(Erase(b).rows) = Pos(rows) - 1
                       /\ \A pointed, h : \A m \in Nat :
                             Traces(s.page, rows, pointed, m, h)
                                 => Traces(Erase(b).screen.page, Erase(b).rows, pointed, m, h)
  BY <1>9 DEF s, rows
<1>11. i \in Cells /\ i = At(u, v)
  BY <1>3, <1>7, <1>10, CellOf
<1>12. AtEnd(Erase(b))
  BY <1>2, <1>3, <1>4, <1>7, <1>8, <1>10, <1>11 DEF AtEnd
<1>13. ASSUME NEW pointed, NEW h, NEW m \in Nat, Traces(s.page, rows, pointed, m, h)
       PROVE  Traces(Erase(b).screen.page, Erase(b).rows, pointed, m, h)
  <2>1. s.page \in Pages
    BY <1>1 DEF Screens
  <2>2. Traces(Written(s.page, At(u, v), BLANK), erased, pointed, m, h)
    BY <1>1, <1>3, <1>10, <1>13, <2>1, WrittenTraces
  <2>3. QED
    BY <1>2, <1>8, <1>11, <2>2
<1>14. QED
  BY <1>2, <1>3, <1>10, <1>12, <1>13

-----------------------------------------------------------------------------
(* The loops of puts and reset_curr_command: the recursive functions that     *)
(* stand for them exist, since a longer one extends a shorter one.            *)

LEMMA ErasureSteps ==
    ASSUME NEW b, NEW n \in Nat
    PROVE  \E f : /\ reset_curr_command(b, n) = f[n] /\ f[0] = b
                  /\ \A k \in 1 .. n : f[k] = Erase(f[k - 1])
<1> DEFINE IsLoop(f, e) == f = [k \in 0 .. e |-> IF k = 0 THEN b ELSE Erase(f[k - 1])]
           Wrong == {e \in Nat : ~ \E f : IsLoop(f, e)}
           found == CHOOSE f : IsLoop(f, n)
<1>1. Wrong = {}
  <2> SUFFICES ASSUME Wrong # {} PROVE FALSE
    OBVIOUS
  <2>1. PICK e \in Wrong : \A d \in Wrong : e <= d
    BY LeastExists
  <2>2. e # 0
    <3> DEFINE f == [k \in 0 .. 0 |-> b]
    <3>1. IsLoop(f, 0)
      OBVIOUS
    <3>2. QED
      BY <2>1, <3>1
  <2>3. e - 1 \in Nat /\ e \in Nat /\ e > 0 /\ e - 1 \notin Wrong
    <3>1. e \in Nat /\ Wrong \subseteq Nat
      OBVIOUS
    <3> HIDE DEF Wrong
    <3>2. QED
      BY <2>1, <2>2, <3>1
  <2>4. PICK f : IsLoop(f, e - 1)
    BY <2>3
  <2> DEFINE g == [k \in 0 .. e |-> IF k = e THEN Erase(f[e - 1]) ELSE f[k]]
  <2>5. \A k \in 0 .. e : g[k] = IF k = 0 THEN b ELSE Erase(g[k - 1])
    <3> SUFFICES ASSUME NEW k \in 0 .. e
                 PROVE  g[k] = IF k = 0 THEN b ELSE Erase(g[k - 1])
      OBVIOUS
    <3>1. k # 0 => k - 1 \in 0 .. e /\ k - 1 # e
      BY <2>3
    <3>2. k # 0 => g[k - 1] = f[k - 1]
      BY <3>1
    <3>3. k # e => k \in 0 .. e - 1
      BY <2>3
    <3>4. k # e => f[k] = IF k = 0 THEN b ELSE Erase(f[k - 1])
      BY <2>4, <3>3
    <3>5. QED
      BY <2>3, <3>2, <3>4
  <2>6. IsLoop(g, e)
    BY <2>5
  <2>7. QED
    BY <2>1, <2>6
<1>2. IsLoop(found, n)
  BY <1>1
<1>3. reset_curr_command(b, n) = found[n]
  BY DEF reset_curr_command
<1> HIDE DEF found
<1>4. \A k \in 0 .. n : found[k] = IF k = 0 THEN b ELSE Erase(found[k - 1])
  BY <1>2
<1>5. found[0] = b
  BY <1>4
<1>6. \A k \in 1 .. n : found[k] = Erase(found[k - 1])
  BY <1>4
<1>7. QED
  BY <1>3, <1>5, <1>6

LEMMA PutSteps ==
    ASSUME NEW b, NEW w, Len(w) \in Nat
    PROVE  \E f : /\ puts(b, w) = f[Len(w)] /\ f[0] = b
                  /\ \A k \in 1 .. Len(w) : f[k] = Put(f[k - 1], w[k])
<1> DEFINE IsLoop(f, e) == f = [k \in 0 .. e |-> IF k = 0 THEN b ELSE Put(f[k - 1], w[k])]
           Wrong == {e \in Nat : ~ \E f : IsLoop(f, e)}
           n == Len(w)
           found == CHOOSE f : IsLoop(f, n)
<1>1. Wrong = {}
  <2> SUFFICES ASSUME Wrong # {} PROVE FALSE
    OBVIOUS
  <2>1. PICK e \in Wrong : \A d \in Wrong : e <= d
    BY LeastExists
  <2>2. e # 0
    <3> DEFINE f == [k \in 0 .. 0 |-> b]
    <3>1. IsLoop(f, 0)
      OBVIOUS
    <3>2. QED
      BY <2>1, <3>1
  <2>3. e - 1 \in Nat /\ e \in Nat /\ e > 0 /\ e - 1 \notin Wrong
    <3>1. e \in Nat /\ Wrong \subseteq Nat
      OBVIOUS
    <3> HIDE DEF Wrong
    <3>2. QED
      BY <2>1, <2>2, <3>1
  <2>4. PICK f : IsLoop(f, e - 1)
    BY <2>3
  <2> DEFINE g == [k \in 0 .. e |-> IF k = e THEN Put(f[e - 1], w[e]) ELSE f[k]]
  <2>5. \A k \in 0 .. e : g[k] = IF k = 0 THEN b ELSE Put(g[k - 1], w[k])
    <3> SUFFICES ASSUME NEW k \in 0 .. e
                 PROVE  g[k] = IF k = 0 THEN b ELSE Put(g[k - 1], w[k])
      OBVIOUS
    <3>1. k # 0 => k - 1 \in 0 .. e /\ k - 1 # e
      BY <2>3
    <3>2. k # 0 => g[k - 1] = f[k - 1]
      BY <3>1
    <3>3. k # e => k \in 0 .. e - 1
      BY <2>3
    <3>4. k # e => f[k] = IF k = 0 THEN b ELSE Put(f[k - 1], w[k])
      BY <2>4, <3>3
    <3>5. QED
      BY <2>3, <3>2, <3>4
  <2>6. IsLoop(g, e)
    BY <2>5
  <2>7. QED
    BY <2>1, <2>6
<1>2. IsLoop(found, n)
  BY <1>1
<1>3. puts(b, w) = found[n]
  BY DEF puts
<1> HIDE DEF found
<1>4. \A k \in 0 .. n : found[k] = IF k = 0 THEN b ELSE Put(found[k - 1], w[k])
  BY <1>2
<1>5. found[0] = b
  BY <1>4
<1>6. \A k \in 1 .. n : found[k] = Put(found[k - 1], w[k])
  BY <1>4
<1>7. QED
  BY <1>3, <1>5, <1>6

LEMMA PosIsNat ==
    ASSUME NEW rows, WellFormed(rows)
    PROVE  Pos(rows) \in Nat
<1>1. /\ Len(rows) \in Nat /\ Len(rows) >= 1 /\ Len(LastRow(rows)) \in Nat
      /\ NUM_COLS \in Nat
  BY TextFacts, Sizes
<1>2. NUM_COLS * (Len(rows) - 1) \in Nat
  BY <1>1
<1>3. QED
  BY <1>1, <1>2 DEF Pos

(* Whatever traces of its text the page of b has, that of d has of its own.   *)
KeepsTraces(b, d) ==
    \A pointed, h : \A m \in Nat :
        Traces(b.screen.page, b.rows, pointed, m, h)
            => Traces(d.screen.page, d.rows, pointed, m, h)

LEMMA ErasuresKeep ==
    ASSUME NEW b, Sound(b), NEW n \in Nat
    PROVE  /\ Sound(reset_curr_command(b, n))
           /\ AtEnd(b) /\ n <= Pos(b.rows) =>
                 /\ AtEnd(reset_curr_command(b, n))
                 /\ KeepsTraces(b, reset_curr_command(b, n))
<1>1. PICK f : /\ reset_curr_command(b, n) = f[n] /\ f[0] = b
               /\ \A k \in 1 .. n : f[k] = Erase(f[k - 1])
  BY ErasureSteps
<1> DEFINE Good(k) == /\ Sound(f[k])
                      /\ AtEnd(b) /\ n <= Pos(b.rows) =>
                            /\ AtEnd(f[k]) /\ KeepsTraces(b, f[k])
                            /\ Pos(f[k].rows) = Pos(b.rows) - k
           Wrong == {k \in 0 .. n : ~ Good(k)}
<1>2. Pos(b.rows) \in Nat
  BY PosIsNat DEF Sound
<1>3. Good(0)
  BY <1>1, <1>2 DEF KeepsTraces
<1>4. ASSUME NEW k \in 1 .. n, Good(k - 1) PROVE Good(k)
  <2>1. f[k] = Erase(f[k - 1]) /\ Sound(f[k - 1])
    BY <1>1, <1>4
  <2>2. Sound(f[k])
    BY <2>1, EraseKeeps
  <2>3. ASSUME AtEnd(b), n <= Pos(b.rows)
        PROVE  AtEnd(f[k]) /\ KeepsTraces(b, f[k]) /\ Pos(f[k].rows) = Pos(b.rows) - k
    <3>1. /\ AtEnd(f[k - 1]) /\ KeepsTraces(b, f[k - 1])
          /\ Pos(f[k - 1].rows) = Pos(b.rows) - (k - 1)
      BY <1>4, <2>3
    <3>2. Pos(f[k - 1].rows) > 0
      BY <1>2, <2>3, <3>1
    <3>3. /\ AtEnd(Erase(f[k - 1])) /\ Pos(Erase(f[k - 1]).rows) = Pos(f[k - 1].rows) - 1
          /\ KeepsTraces(f[k - 1], Erase(f[k - 1]))
      BY <2>1, <3>1, <3>2, EraseKeeps DEF KeepsTraces
    <3>4. KeepsTraces(b, f[k])
      BY <2>1, <3>1, <3>3 DEF KeepsTraces
    <3>5. Pos(f[k].rows) = Pos(b.rows) - k
      BY <1>2, <2>1, <3>1, <3>3
    <3>6. QED
      BY <2>1, <3>3, <3>4, <3>5
  <2>4. QED
    BY <2>2, <2>3
<1>5. Wrong = {}
  <2> SUFFICES ASSUME Wrong # {} PROVE FALSE
    OBVIOUS
  <2>1. Wrong \in SUBSET Nat /\ \A e \in Wrong : e \in 0 .. n /\ ~ Good(e)
    OBVIOUS
  <2>2. \A e \in 0 .. n : e \notin Wrong => Good(e)
    OBVIOUS
  <2> HIDE DEF Wrong, Good
  <2>3. PICK k \in Wrong : \A e \in Wrong : k <= e
    BY <2>1, LeastExists
  <2>4. k # 0
    BY <1>3, <2>1, <2>3
  <2>5. k \in 1 .. n /\ k - 1 \in 0 .. n /\ k - 1 \notin Wrong
    BY <2>1, <2>3, <2>4
  <2>6. QED
    BY <1>4, <2>1, <2>2, <2>3, <2>5
<1>6. n \in 0 .. n
  OBVIOUS
<1>7. Good(n)
  BY <1>5, <1>6
<1>8. QED
  BY <1>1, <1>7

LEMMA PutsKeep ==
    ASSUME NEW b, Sound(b), NEW w \in Seq(Chars \cup {NL})
    PROVE  /\ Sound(puts(b, w))
           /\ AtEnd(b) => AtEnd(puts(b, w)) /\ KeepsTraces(b, puts(b, w))
           /\ \A e \in Nat : e <= MostCounted /\ e <= Pos(b.rows) => e <= Pos(puts(b, w).rows)
           /\ Len(w) <= MostCounted => Len(w) <= Pos(puts(b, w).rows)
<1> DEFINE n == Len(w)
<1>1. n \in Nat
  BY LenProperties
<1>2. PICK f : /\ puts(b, w) = f[n] /\ f[0] = b
               /\ \A k \in 1 .. n : f[k] = Put(f[k - 1], w[k])
  BY <1>1, PutSteps
<1>3. \A k \in 1 .. n : w[k] \in Chars \cup {NL}
  BY ElementOfSeq
<1> HIDE DEF n
<1> DEFINE Good(k) == /\ Sound(f[k])
                      /\ AtEnd(b) => AtEnd(f[k]) /\ KeepsTraces(b, f[k])
                      /\ \A e \in Nat : e <= MostCounted /\ e <= Pos(b.rows)
                                            => e <= Pos(f[k].rows)
                      /\ k <= MostCounted => k <= Pos(f[k].rows)
           Wrong == {k \in 0 .. n : ~ Good(k)}
<1>4. Pos(b.rows) \in Nat
  BY PosIsNat DEF Sound
<1>5. Good(0)
  BY <1>2, <1>4 DEF KeepsTraces
<1>6. ASSUME NEW k \in 1 .. n, Good(k - 1) PROVE Good(k)
  <2> DEFINE d == f[k - 1]
             c == w[k]
  <2>1. f[k] = Put(d, c) /\ Sound(d) /\ c \in Chars \cup {NL}
    BY <1>2, <1>3, <1>6
  <2>2. /\ AtEnd(b) => AtEnd(d) /\ KeepsTraces(b, d)
        /\ \A e \in Nat : e <= MostCounted /\ e <= Pos(b.rows) => e <= Pos(d.rows)
        /\ k - 1 <= MostCounted => k - 1 <= Pos(d.rows)
    BY <1>6
  <2> HIDE DEF d, c
  <2>3. /\ Sound(f[k])
        /\ AtEnd(d) => AtEnd(f[k]) /\ KeepsTraces(d, f[k])
    BY <2>1, PutKeeps DEF KeepsTraces
  <2>4. AtEnd(b) => AtEnd(f[k]) /\ KeepsTraces(b, f[k])
    BY <2>2, <2>3 DEF KeepsTraces
  <2>5. /\ WellFormed(d.rows) /\ f[k].rows = Typed(d.rows, c)
        /\ Pos(d.rows) \in Nat
    BY <2>1, PosIsNat DEF Sound, Put
  <2>6. \A e \in Nat : e <= Pos(d.rows) + 1 /\ e <= MostCounted => e <= Pos(f[k].rows)
    BY <2>1, <2>5, TypedFacts
  <2>7. \A e \in Nat : e <= MostCounted /\ e <= Pos(b.rows) => e <= Pos(f[k].rows)
    BY <2>2, <2>5, <2>6
  <2>8. k <= MostCounted => k <= Pos(f[k].rows)
    <3>1. k \in Nat /\ k - 1 \in Nat /\ MostCounted \in Nat
      BY Sizes
    <3>2. k <= MostCounted => k <= Pos(d.rows) + 1
      BY <2>2, <2>5, <3>1
    <3>3. QED
      BY <2>6, <3>1, <3>2
  <2>9. QED
    BY <2>3, <2>4, <2>7, <2>8
<1>7. Wrong = {}
  <2> SUFFICES ASSUME Wrong # {} PROVE FALSE
    OBVIOUS
  <2>1. Wrong \in SUBSET Nat /\ \A e \in Wrong : e \in 0 .. n /\ ~ Good(e)
    BY <1>1
  <2>2. \A e \in 0 .. n : e \notin Wrong => Good(e)
    OBVIOUS
  <2> HIDE DEF Wrong, Good
  <2>3. PICK k \in Wrong : \A e \in Wrong : k <= e
    BY <2>1, LeastExists
  <2>4. k # 0
    BY <1>5, <2>1, <2>3
  <2>5. k \in 1 .. n /\ k - 1 \in 0 .. n /\ k - 1 \notin Wrong
    BY <1>1, <2>1, <2>3, <2>4
  <2>6. QED
    BY <1>6, <2>1, <2>2, <2>3, <2>5
<1>8. n \in 0 .. n
  BY <1>1
<1>9. Good(n)
  BY <1>7, <1>8
<1>10. QED
  BY <1>2, <1>9 DEF n

-----------------------------------------------------------------------------
(* The invariant.                                                             *)

Places == [pc : Labels, call : {"none", "read", "write"}, char : Chars \cup {NL},
           loaded : 0 .. MAX_CHARS_IN_BUF]

(* Behind these labels putc is past its test for a newline.                   *)
Printing == {"load", "incr", "store", "advance", "wrap", "mod_x", "mod_y"}

CursorTypes ==
    /\ active_terminal \in Terms /\ lib_active \in Terms
    /\ screen_x \in [Terms -> Nat] /\ screen_y \in [Terms -> Int]
    /\ num_chars_in_buf \in [Terms -> 0 .. MostCounted] /\ miscounted \in SUBSET Terms

PageTypes ==
    /\ video_mem \in Pages /\ term_vid_mem \in [Terms -> Pages]
    /\ mouse_at \in PointerCells /\ prev_char \in ScreenChars

ProgTypes ==
    /\ prog \in [Terms -> Places]
    /\ \A t \in Terms : prog[t].pc \in Printing => prog[t].char # NL

HistTypes ==
    /\ torn \in SUBSET Terms /\ raw \in SUBSET Terms /\ drawn \in BOOLEAN
    /\ DOMAIN text = Terms /\ \A t \in Terms : WellFormed(text[t])

(* The program of t is in new_line, or in putc behind its first statement.    *)
Inner(t) == prog[t].pc \notin {"user", "load", "incr", "next", "begin"}

(* It moves the cursor of its own terminal, or those of torn ones.            *)
OwnCursor == \A t \in Terms : Inner(t) =>
    lib_active = t \/ (t \in torn /\ lib_active \in torn)

(* Between terminal_write's test and its load the count has not passed MAX.   *)
LoadSafe == \A t \in Terms :
    prog[t].pc = "load" => num_chars_in_buf[t] <= MAX_CHARS_IN_BUF

(* What the page shows at the place p in the call.                            *)
Printed(rows, p) ==
    IF p.pc \in {"user", "load", "incr", "next", "begin", "store"} THEN rows
    ELSE IF p.pc \in {"bottom", "home", "mod_x", "mod_y"} THEN Typed(rows, p.char)
    ELSE Before(rows, p.char)

(* Where the cursor is there.                                                 *)
Placed(rows, p, x, y) ==
    /\ p.pc \in {"user", "load", "incr", "next", "begin", "store", "advance"} =>
          x = Len(LastRow(rows)) /\ y = Len(rows) - 1
    /\ p.pc \in {"wrap", "last_row", "scroll", "down", "bottom"} =>
          x = Len(LastRow(Before(rows, p.char))) /\ y = Len(rows) - 1
    /\ p.pc \in {"last_row", "scroll", "down", "bottom"} /\ p.char # NL => x = NUM_COLS
    /\ p.pc \in {"scroll", "bottom"} => Len(rows) = NUM_ROWS
    /\ p.pc = "down" => Len(rows) # NUM_ROWS
    /\ p.pc = "home" =>
          /\ x \in 0 .. NUM_COLS /\ y = Len(Typed(rows, p.char)) - 1
          /\ p.char # NL => Len(LastRow(Before(rows, p.char))) = NUM_COLS
    /\ p.pc \in {"mod_x", "mod_y"} =>
          x = Len(LastRow(Typed(rows, p.char))) /\ y = Len(Typed(rows, p.char)) - 1

(* What may be erased is on the screen: the characters in the buffer, one of  *)
(* which is perhaps still to be printed, if the count is not too high.        *)
Erasable(rows, p, n, t, wrong) ==
    t \notin wrong =>
        n <= Pos(rows) + (IF p.pc \notin {"user", "load", "incr", "next"} /\ p.char # NL
                          THEN 1 ELSE 0)

Followed(t) ==
    /\ Placed(text[t], prog[t], screen_x[t], screen_y[t])
    /\ Erasable(text[t], prog[t], num_chars_in_buf[t], t, miscounted)

(* A page shows rows, but for the pointer at m, which hides c.                *)
Shows(page, rows, pointed, m, c) ==
    \A x \in Cols, y \in RowNos :
        IF pointed /\ At(x, y) = m THEN page[At(x, y)] = BLOCK /\ c = Char(rows, y, x)
        ELSE page[At(x, y)] = Char(rows, y, x)

PageShown(t) ==
    IF t = active_terminal
    THEN Shows(video_mem, Printed(text[t], prog[t]), drawn, mouse_at, prev_char)
    ELSE Shows(term_vid_mem[t], Printed(text[t], prog[t]), FALSE, mouse_at, prev_char)

ScreenInv ==
    /\ CursorTypes /\ PageTypes /\ ProgTypes /\ HistTypes
    /\ OwnCursor /\ LoadSafe
    /\ \A t \in Terms \ torn : Followed(t)
    /\ \A t \in Terms \ (torn \cup raw) : PageShown(t)
    /\ FaultOnlyWhenTorn

LEMMA ShownIsTraced ==
    ASSUME NEW page, NEW rows, NEW pointed, NEW m \in Nat, NEW c,
           Shows(page, rows, pointed, m, c)
    PROVE  Traces(page, rows, pointed, m, c)
<1> SUFFICES ASSUME NEW x \in Cols, NEW y \in RowNos
             PROVE  \/ page[At(x, y)] = Char(rows, y, x)
                    \/ /\ pointed /\ page[At(x, y)] = BLOCK /\ At(x, y) <= m
                       /\ At(x, y) = m => c = Char(rows, y, x)
  BY DEF Traces
<1>1. IF pointed /\ At(x, y) = m THEN page[At(x, y)] = BLOCK /\ c = Char(rows, y, x)
      ELSE page[At(x, y)] = Char(rows, y, x)
  BY DEF Shows
<1>2. At(x, y) \in Nat
  BY CellOf
<1>3. QED
  BY <1>1, <1>2

(* Two texts with the same characters show alike.                             *)
LEMMA SameShows ==
    ASSUME NEW page, NEW rows, NEW after, NEW pointed, NEW m, NEW c,
           \A x \in Cols, y \in RowNos : Char(after, y, x) = Char(rows, y, x),
           Shows(page, rows, pointed, m, c)
    PROVE  Shows(page, after, pointed, m, c)
  BY DEF Shows

LEMMA UnpointedShows ==
    ASSUME NEW page, NEW rows, NEW m, NEW c, NEW k, NEW d, Shows(page, rows, FALSE, m, c)
    PROVE  Shows(page, rows, FALSE, k, d)
  BY DEF Shows

LEMMA PrintedFacts ==
    ASSUME NEW rows, WellFormed(rows), NEW p \in Places
    PROVE  Printed(rows, p) \in Seq(Seq(RowChars))
<1>1. p.char \in Chars \cup {NL}
  BY DEF Places
<1>2. rows \in Seq(Seq(RowChars)) /\ Typed(rows, p.char) \in Seq(Seq(RowChars))
  BY <1>1, TypedFacts DEF WellFormed
<1>3. Before(rows, p.char) \in Seq(Seq(RowChars))
  BY <1>1, BeforeFacts
<1>4. QED
  BY <1>2, <1>3 DEF Printed

LEMMA MouseFacts ==
    ASSUME PageTypes
    PROVE  mouse_at \in Nat /\ mouse_at \in ScreenCells /\ mouse_at \in Cells
<1>1. mouse_at \in ScreenCells
  BY ScreenAssumption DEF PageTypes
<1>2. QED
  BY <1>1, Sizes, ScreenAssumption DEF ScreenCells, Cells

(* A step on the screen of t: what Follow leaves of the history.              *)
LEMMA FollowFacts ==
    ASSUME HistTypes, NEW t \in Terms, NEW rows, WellFormed(rows),
           NEW ts \in SUBSET Terms, Follow(t, rows, ts), raw' = raw
    PROVE  /\ HistTypes'
           /\ torn \subseteq torn' /\ ts \subseteq torn'
           /\ \A u \in Terms \ torn' : text'[u] = IF u = t THEN rows ELSE text[u]
<1>1. torn' = torn \cup ts \cup (IF Ghost THEN {t} ELSE {})
  BY DEF Follow
<1>2. torn' \in SUBSET Terms
  BY <1>1 DEF HistTypes
<1>3. torn \subseteq torn' /\ ts \subseteq torn'
  BY <1>1
<1>4. text' = [u \in Terms |-> IF u \in torn' THEN Empty ELSE IF u = t THEN rows ELSE text[u]]
  BY DEF Follow
<1>5. DOMAIN text' = Terms /\ \A u \in Terms : WellFormed(text'[u])
  BY <1>4, EmptyText DEF HistTypes
<1>6. drawn' \in BOOLEAN
  BY DEF Follow
<1>7. HistTypes'
  BY <1>2, <1>5, <1>6 DEF HistTypes
<1>8. QED
  BY <1>3, <1>4, <1>7

LEMMA FollowShows ==
    ASSUME NEW t, NEW rows, NEW ts, Follow(t, rows, ts), t \notin torn',
           PageTypes, NEW after, after \in Seq(Seq(RowChars)),
           Traces(video_mem', after, drawn, mouse_at, prev_char)
    PROVE  Shows(video_mem', after, drawn', mouse_at, prev_char)
<1>1. ~ Ghost
  BY DEF Follow
<1>2. drawn' <=> drawn /\ video_mem'[mouse_at] = BLOCK
  BY <1>1 DEF Follow
<1> SUFFICES ASSUME NEW x \in Cols, NEW y \in RowNos
             PROVE  IF drawn' /\ At(x, y) = mouse_at
                    THEN video_mem'[At(x, y)] = BLOCK /\ prev_char = Char(after, y, x)
                    ELSE video_mem'[At(x, y)] = Char(after, y, x)
  BY DEF Shows
<1>3. At(x, y) \in ScreenCells
  BY CellOf
<1>4. Char(after, y, x) # BLOCK
  <2>1. Char(after, y, x) \in RowChars
    BY CharIsRowChar
  <2>2. QED
    BY <2>1, ScreenAssumption DEF RowChars
<1>5. \/ video_mem'[At(x, y)] = Char(after, y, x)
      \/ /\ drawn /\ video_mem'[At(x, y)] = BLOCK
         /\ At(x, y) = mouse_at => prev_char = Char(after, y, x)
  BY DEF Traces
<1>6. At(x, y) # mouse_at => video_mem'[At(x, y)] # BLOCK
  BY <1>1, <1>3 DEF Ghost
<1>7. QED
  BY <1>2, <1>4, <1>5, <1>6

-----------------------------------------------------------------------------
(* Each step of a key, of the kernel or of the program changes the terminal   *)
(* on the screen, and leaves the others that are followed as they were.       *)

LEMMA StepKeeps ==
    ASSUME ScreenInv, NEW t \in Terms, t = active_terminal, active_terminal' = active_terminal,
           NEW p \in Places, p.pc \in Printing => p.char # NL,
           prog' = [prog EXCEPT ![t] = p],
           \A u \in Terms \ {t} : num_chars_in_buf'[u] = num_chars_in_buf[u],
           p.pc = "load" => num_chars_in_buf'[t] <= MAX_CHARS_IN_BUF,
           CursorTypes', PageTypes', HistTypes', OwnCursor', FaultOnlyWhenTorn',
           term_vid_mem' = term_vid_mem,
           \A u \in Terms \ torn' : u # t =>
               /\ u \notin torn /\ text'[u] = text[u]
               /\ screen_x'[u] = screen_x[u] /\ screen_y'[u] = screen_y[u]
               /\ num_chars_in_buf'[u] = num_chars_in_buf[u] /\ (u \in miscounted' <=> u \in miscounted),
           \A u \in Terms \ raw' : u # t => u \notin raw,
           t \notin torn' => /\ Placed(text'[t], p, screen_x'[t], screen_y'[t])
                             /\ Erasable(text'[t], p, num_chars_in_buf'[t], t, miscounted'),
           t \notin torn' \cup raw' =>
               Shows(video_mem', Printed(text'[t], p), drawn', mouse_at', prev_char')
    PROVE  ScreenInv'
<1>1. /\ ProgTypes /\ \A u \in Terms \ torn : Followed(u)
      /\ \A u \in Terms \ (torn \cup raw) : PageShown(u)
  BY DEF ScreenInv
<1>2. \A u \in Terms : prog'[u] = IF u = t THEN p ELSE prog[u]
  BY <1>1 DEF ProgTypes
<1>3. ProgTypes'
  <2>1. prog' \in [Terms -> Places]
    BY <1>1 DEF ProgTypes
  <2>2. \A u \in Terms : prog'[u].pc \in Printing => prog'[u].char # NL
    BY <1>1, <1>2 DEF ProgTypes
  <2>3. QED
    BY <2>1, <2>2 DEF ProgTypes
<1>4. ASSUME NEW u \in Terms \ torn' PROVE Followed(u)'
  <2>1. CASE u = t
    BY <1>2, <1>4, <2>1 DEF Followed
  <2>2. CASE u # t
    BY <1>1, <1>2, <1>4, <2>2 DEF Followed, Erasable
  <2>3. QED
    BY <2>1, <2>2
<1>5. ASSUME NEW u \in Terms \ (torn' \cup raw') PROVE PageShown(u)'
  <2>1. CASE u = t
    BY <1>2, <1>5, <2>1 DEF PageShown
  <2>2. CASE u # t
    <3>1. PageShown(u) /\ text'[u] = text[u] /\ prog'[u] = prog[u]
      BY <1>1, <1>2, <1>5, <2>2
    <3>2. Shows(term_vid_mem[u], Printed(text[u], prog[u]), FALSE, mouse_at, prev_char)
      BY <2>2, <3>1 DEF PageShown
    <3>3. Shows(term_vid_mem[u], Printed(text[u], prog[u]), FALSE, mouse_at', prev_char')
      BY <3>2, UnpointedShows
    <3>4. QED
      BY <2>2, <3>1, <3>3 DEF PageShown
  <2>3. QED
    BY <2>1, <2>2
<1>6. LoadSafe'
  BY <1>2 DEF ScreenInv, LoadSafe
<1>7. QED
  BY <1>3, <1>4, <1>5, <1>6 DEF ScreenInv

(* The same for a step that Follow describes.                                 *)
LEMMA FollowKeeps ==
    ASSUME ScreenInv, NEW t \in Terms, t = active_terminal, active_terminal' = active_terminal,
           NEW p \in Places, p.pc \in Printing => p.char # NL,
           prog' = [prog EXCEPT ![t] = p],
           \A u \in Terms \ {t} : num_chars_in_buf'[u] = num_chars_in_buf[u],
           p.pc = "load" => num_chars_in_buf'[t] <= MAX_CHARS_IN_BUF,
           CursorTypes', video_mem' \in Pages, OwnCursor', FaultOnlyWhenTorn',
           UNCHANGED <<term_vid_mem, mouseVars, raw>>,
           NEW rows, WellFormed(rows), NEW ts \in SUBSET Terms, Follow(t, rows, ts),
           \A u \in Terms \ torn : u # t /\ u \notin torn' =>
               /\ screen_x'[u] = screen_x[u] /\ screen_y'[u] = screen_y[u]
               /\ num_chars_in_buf'[u] = num_chars_in_buf[u] /\ (u \in miscounted' <=> u \in miscounted),
           t \notin torn' => /\ Placed(rows, p, screen_x'[t], screen_y'[t])
                             /\ Erasable(rows, p, num_chars_in_buf'[t], t, miscounted'),
           t \notin torn' \cup raw =>
               Traces(video_mem', Printed(rows, p), drawn, mouse_at, prev_char)
    PROVE  ScreenInv'
<1>1. HistTypes /\ PageTypes
  BY DEF ScreenInv
<1>2. term_vid_mem' = term_vid_mem /\ mouse_at' = mouse_at /\ prev_char' = prev_char /\ raw' = raw
  BY DEF mouseVars
<1>3. /\ HistTypes'
      /\ torn \subseteq torn' /\ ts \subseteq torn'
      /\ \A u \in Terms \ torn' : text'[u] = IF u = t THEN rows ELSE text[u]
  BY <1>1, <1>2, FollowFacts
<1>4. PageTypes'
  BY <1>1, <1>2 DEF PageTypes
<1>5. t \notin torn' => text'[t] = rows
  BY <1>3
<1>6. t \notin torn' \cup raw' =>
          Shows(video_mem', Printed(text'[t], p), drawn', mouse_at', prev_char')
  <2> SUFFICES ASSUME t \notin torn' \cup raw'
               PROVE  Shows(video_mem', Printed(text'[t], p), drawn', mouse_at', prev_char')
    OBVIOUS
  <2> DEFINE after == Printed(rows, p)
  <2>1. after \in Seq(Seq(RowChars)) /\ Traces(video_mem', after, drawn, mouse_at, prev_char)
    BY <1>2, PrintedFacts
  <2> HIDE DEF after
  <2>2. Shows(video_mem', after, drawn', mouse_at, prev_char)
    BY <1>1, <2>1, FollowShows
  <2> USE DEF after
  <2>3. QED
    BY <1>2, <1>5, <2>2
<1>7. \A u \in Terms \ torn' : u # t =>
          /\ u \notin torn /\ text'[u] = text[u]
          /\ screen_x'[u] = screen_x[u] /\ screen_y'[u] = screen_y[u]
          /\ num_chars_in_buf'[u] = num_chars_in_buf[u] /\ (u \in miscounted' <=> u \in miscounted)
  BY <1>3
<1>8. \A u \in Terms \ raw' : u # t => u \notin raw
  BY <1>2
<1>9. t \notin torn' => /\ Placed(text'[t], p, screen_x'[t], screen_y'[t])
                        /\ Erasable(text'[t], p, num_chars_in_buf'[t], t, miscounted')
  BY <1>5
<1>10. QED
  BY <1>2, <1>3, <1>4, <1>6, <1>7, <1>8, <1>9, StepKeeps

-----------------------------------------------------------------------------
(* Handlers with interrupts off.                                              *)

LEMMA NotInside ==
    ASSUME ProgTypes, NEW t \in Terms
    PROVE  /\ ~ Inside(t) <=> \/ prog[t].pc \in {"user", "load", "incr", "next"}
                              \/ prog[t].pc = "begin" /\ prog[t].char = NL
           /\ Inner(t) => Inside(t)
  BY DEF Inside, Inner

LEMMA BothFacts ==
    ASSUME ScreenInv
    PROVE  /\ Sound(Both) /\ Both.rows = text[active_terminal]
           /\ Both.screen.page = video_mem /\ Both.screen = Visible
           /\ active_terminal \notin torn /\ ~ Inside(active_terminal) =>
                 /\ AtEnd(Both)
                 /\ active_terminal \notin miscounted =>
                        num_chars_in_buf[active_terminal] <= Pos(text[active_terminal])
           /\ active_terminal \notin torn \cup raw /\ ~ Inside(active_terminal) =>
                 Traces(video_mem, text[active_terminal], drawn, mouse_at, prev_char)
<1> DEFINE t == active_terminal
<1>1. CursorTypes /\ PageTypes /\ ProgTypes /\ HistTypes
  BY DEF ScreenInv
<1>2. t \in Terms /\ screen_x[t] \in Nat /\ screen_y[t] \in Int
      /\ num_chars_in_buf[t] \in Nat
  BY <1>1, Sizes DEF CursorTypes
<1>3. Both.rows = text[t] /\ Both.screen = Visible
  BY DEF Both
<1>4. Visible = [page |-> video_mem, fault |-> FALSE, x |-> screen_x[t], y |-> screen_y[t]]
  BY DEF Visible
<1>5. Visible \in Screens
  BY <1>1, <1>2, <1>4 DEF Screens, PageTypes
<1>6. Visible.page = video_mem /\ Visible.fault = FALSE
      /\ Visible.x = screen_x[t] /\ Visible.y = screen_y[t]
  BY <1>4
<1>7. Sound(Both)
  BY <1>1, <1>2, <1>3, <1>5 DEF Sound, HistTypes
<1>8. ASSUME t \notin torn, ~ Inside(t)
      PROVE  AtEnd(Both) /\ (t \notin miscounted => num_chars_in_buf[t] <= Pos(text[t]))
  <2>1. Followed(t)
    BY <1>2, <1>8 DEF ScreenInv
  <2>2. \/ prog[t].pc \in {"user", "load", "incr", "next"}
        \/ prog[t].pc = "begin" /\ prog[t].char = NL
    BY <1>1, <1>2, <1>8, NotInside
  <2>3. screen_x[t] = Len(LastRow(text[t])) /\ screen_y[t] = Len(text[t]) - 1
    BY <2>1, <2>2 DEF Followed, Placed
  <2>4. Pos(text[t]) \in Nat
    BY <1>1, <1>2, PosIsNat DEF HistTypes
  <2>5. t \notin miscounted => num_chars_in_buf[t] <= Pos(text[t])
    BY <1>2, <2>1, <2>2, <2>4 DEF Followed, Erasable
  <2>6. QED
    BY <1>3, <1>6, <2>3, <2>5 DEF AtEnd
<1>9. ASSUME t \notin torn \cup raw, ~ Inside(t)
      PROVE  Traces(video_mem, text[t], drawn, mouse_at, prev_char)
  <2>1. PageShown(t)
    BY <1>2, <1>9 DEF ScreenInv
  <2>2. prog[t].pc \in {"user", "load", "incr", "next", "begin"}
    BY <1>1, <1>2, <1>9, NotInside
  <2>3. Shows(video_mem, text[t], drawn, mouse_at, prev_char)
    BY <2>1, <2>2 DEF PageShown, Printed
  <2>4. QED
    BY <1>1, <2>3, MouseFacts, ShownIsTraced
<1>10. QED
  BY <1>3, <1>6, <1>7, <1>8, <1>9

LEMMA EditsKeep ==
    ASSUME ScreenInv, NEW b, Sound(b), NEW more \in SUBSET Terms, Edits(b, more),
           prog' = prog, miscounted' = miscounted,
           prog[active_terminal].pc = "load" =>
               num_chars_in_buf'[active_terminal] <= MAX_CHARS_IN_BUF,
           num_chars_in_buf' \in [Terms -> 0 .. MostCounted],
           \A u \in Terms \ {active_terminal} : num_chars_in_buf'[u] = num_chars_in_buf[u],
           active_terminal \notin torn \cup more /\ ~ Inside(active_terminal) =>
               /\ AtEnd(b) /\ KeepsTraces(Both, b)
               /\ active_terminal \notin miscounted =>
                      num_chars_in_buf'[active_terminal] <= Pos(b.rows)
    PROVE  ScreenInv'
<1> DEFINE t == active_terminal
           ts == TornBy(t, Terms) \cup more
           p == prog[t]
<1>1. CursorTypes /\ PageTypes /\ ProgTypes /\ HistTypes /\ OwnCursor
  BY DEF ScreenInv
<1>2. t \in Terms /\ p \in Places /\ (p.pc \in Printing => p.char # NL)
  BY <1>1 DEF CursorTypes, ProgTypes
<1>3. b.screen \in Screens /\ WellFormed(b.rows)
  BY DEF Sound
<1>4. /\ b.screen.page \in Pages /\ b.screen.x \in Nat /\ b.screen.y \in Int
  BY <1>3 DEF Screens
<1>5. /\ video_mem' = b.screen.page /\ faulted' = b.screen.fault
      /\ screen_x' = [screen_x EXCEPT ![t] = b.screen.x]
      /\ screen_y' = [screen_y EXCEPT ![t] = b.screen.y]
      /\ lib_active' = t /\ active_terminal' = active_terminal
      /\ Follow(t, b.rows, ts)
      /\ UNCHANGED <<term_vid_mem, mouseVars, raw>>
  BY DEF Edits
<1>6. ts \in SUBSET Terms /\ raw' = raw
  BY <1>2, <1>5 DEF TornBy
<1>7. /\ torn \subseteq torn' /\ ts \subseteq torn'
  BY <1>1, <1>2, <1>3, <1>5, <1>6, FollowFacts
<1>8. \A u \in Terms : Inside(u) => u \in torn' /\ t \in torn'
  BY <1>7 DEF TornBy
<1>9. t \notin torn' => t \notin torn \cup more /\ ~ Inside(t)
  BY <1>2, <1>7, <1>8
<1>10. CursorTypes'
  BY <1>1, <1>2, <1>4, <1>5 DEF CursorTypes
<1>11. OwnCursor'
  <2>1. \A u \in Terms : Inner(u)' => Inner(u)
    BY DEF Inner
  <2>2. \A u \in Terms : Inner(u)' => u \in torn' /\ t \in torn'
    BY <1>1, <1>8, <2>1, NotInside
  <2>3. QED
    BY <1>5, <2>2 DEF OwnCursor
<1>12. FaultOnlyWhenTorn'
  BY <1>5, <1>9 DEF FaultOnlyWhenTorn, AtEnd
<1>13. video_mem' \in Pages
  BY <1>4, <1>5
<1>14. \A u \in Terms \ torn : u # t /\ u \notin torn' =>
           /\ screen_x'[u] = screen_x[u] /\ screen_y'[u] = screen_y[u]
           /\ num_chars_in_buf'[u] = num_chars_in_buf[u] /\ (u \in miscounted' <=> u \in miscounted)
  BY <1>1, <1>2, <1>5 DEF CursorTypes
<1>15. ASSUME t \notin torn'
       PROVE  /\ Placed(b.rows, p, screen_x'[t], screen_y'[t])
              /\ Erasable(b.rows, p, num_chars_in_buf'[t], t, miscounted')
  <2>1. AtEnd(b) /\ (t \notin miscounted => num_chars_in_buf'[t] <= Pos(b.rows))
    BY <1>9, <1>15
  <2>2. screen_x'[t] = Len(LastRow(b.rows)) /\ screen_y'[t] = Len(b.rows) - 1
    BY <1>1, <1>2, <1>5, <2>1 DEF CursorTypes, AtEnd
  <2>3. \/ p.pc \in {"user", "load", "incr", "next"}
        \/ p.pc = "begin" /\ p.char = NL
    BY <1>1, <1>2, <1>9, <1>15, NotInside
  <2>4. Placed(b.rows, p, screen_x'[t], screen_y'[t])
    BY <2>2, <2>3 DEF Placed
  <2>5. Pos(b.rows) \in Nat
    BY <1>3, PosIsNat
  <2>6. Erasable(b.rows, p, num_chars_in_buf'[t], t, miscounted')
    BY <2>1, <2>3, <2>5 DEF Erasable
  <2>7. QED
    BY <2>4, <2>6
<1>16. ASSUME t \notin torn' \cup raw
       PROVE  Traces(video_mem', Printed(b.rows, p), drawn, mouse_at, prev_char)
  <2>1. t \notin torn \cup more /\ ~ Inside(t) /\ t \notin raw
    BY <1>9, <1>16
  <2>2. p.pc \in {"user", "load", "incr", "next", "begin"}
    BY <1>1, <1>2, <2>1, NotInside
  <2>3. Traces(Both.screen.page, Both.rows, drawn, mouse_at, prev_char)
    BY <2>1, BothFacts
  <2>4. Traces(b.screen.page, b.rows, drawn, mouse_at, prev_char)
    BY <1>1, <2>1, <2>3, MouseFacts DEF KeepsTraces
  <2>5. QED
    BY <1>5, <2>2, <2>4 DEF Printed
<1>17. prog' = [prog EXCEPT ![t] = p]
  BY <1>1, <1>2 DEF ProgTypes
<1>18. QED
  BY <1>2, <1>3, <1>5, <1>6, <1>10, <1>11, <1>12, <1>13, <1>14, <1>15, <1>16, <1>17, FollowKeeps

LEMMA KeyCharKeeps ==
    ASSUME ScreenInv, NEW c \in Chars, KeyChar(c)
    PROVE  ScreenInv'
<1> DEFINE t == active_terminal
           b == Put(Both, c)
           n == num_chars_in_buf[t]
<1>1. CursorTypes /\ t \in Terms /\ n \in Nat /\ n < MAX_CHARS_IN_BUF /\ MAX_CHARS_IN_BUF \in Nat
  BY Sizes DEF ScreenInv, CursorTypes, KeyChar, HasRoom
<1>2. /\ Edits(b, {}) /\ prog' = prog /\ miscounted' = miscounted
      /\ num_chars_in_buf' = [num_chars_in_buf EXCEPT ![t] = n + 1]
  BY DEF KeyChar
<1>3. Sound(Both) /\ Both.rows = text[t]
  BY BothFacts
<1>4. Sound(b) /\ (AtEnd(Both) => AtEnd(b) /\ KeepsTraces(Both, b))
  BY <1>3, PutKeeps DEF KeepsTraces
<1>5. WellFormed(text[t]) /\ b.rows = Typed(text[t], c)
  BY <1>3 DEF Sound, Put
<1> HIDE DEF n, b
<1>6. num_chars_in_buf' \in [Terms -> 0 .. MostCounted]
  BY <1>1, <1>2, Sizes DEF CursorTypes
<1>7. ASSUME t \notin torn, ~ Inside(t)
      PROVE  /\ AtEnd(b) /\ KeepsTraces(Both, b)
             /\ t \notin miscounted => num_chars_in_buf'[t] <= Pos(b.rows)
  <2>1. AtEnd(Both) /\ (t \notin miscounted => n <= Pos(text[t]))
    BY <1>7, BothFacts DEF n
  <2>2. Pos(text[t]) \in Nat
    BY <1>5, PosIsNat
  <2>3. /\ t \notin miscounted => n + 1 <= Pos(text[t]) + 1
        /\ n + 1 <= MostCounted /\ n + 1 \in Nat
    BY <1>1, <2>1, <2>2, Sizes
  <2>4. t \notin miscounted => n + 1 <= Pos(b.rows)
    BY <1>5, <2>3, TypedFacts
  <2>5. QED
    BY <1>1, <1>2, <1>4, <2>1, <2>4 DEF CursorTypes
<1>8. \A u \in Terms \ {t} : num_chars_in_buf'[u] = num_chars_in_buf[u]
  BY <1>1, <1>2 DEF CursorTypes
<1>9. num_chars_in_buf'[t] <= MAX_CHARS_IN_BUF /\ {} \in SUBSET Terms
  BY <1>1, <1>2 DEF CursorTypes
<1>10. QED
  BY <1>2, <1>4, <1>6, <1>7, <1>8, <1>9, EditsKeep

LEMMA BackspaceKeeps ==
    ASSUME ScreenInv, Backspace
    PROVE  ScreenInv'
<1> DEFINE t == active_terminal
           b == Erase(Both)
           n == num_chars_in_buf[t]
<1>1. CursorTypes /\ t \in Terms /\ n \in Nat /\ n > 0 /\ n <= MostCounted
      /\ MostCounted \in Nat
  BY Sizes DEF ScreenInv, CursorTypes, Backspace, MayErase
<1>2. /\ Edits(b, Misled) /\ prog' = prog /\ miscounted' = miscounted
      /\ num_chars_in_buf' = [num_chars_in_buf EXCEPT ![t] = n - 1]
  BY <1>1 DEF Backspace
<1>3. Sound(Both) /\ Both.rows = text[t] /\ Pos(text[t]) \in Nat
  BY BothFacts, PosIsNat DEF Sound
<1>4. /\ Sound(b)
      /\ AtEnd(Both) /\ Pos(text[t]) > 0 =>
            AtEnd(b) /\ KeepsTraces(Both, b) /\ Pos(b.rows) = Pos(text[t]) - 1
  BY <1>3, EraseKeeps DEF KeepsTraces
<1> HIDE DEF n, b
<1>5. num_chars_in_buf' \in [Terms -> 0 .. MostCounted]
  BY <1>1, <1>2 DEF CursorTypes
<1>6. ASSUME t \notin torn \cup Misled, ~ Inside(t)
      PROVE  AtEnd(b) /\ KeepsTraces(Both, b) /\ num_chars_in_buf'[t] <= Pos(b.rows)
  <2>1. AtEnd(Both) /\ n <= Pos(text[t])
    BY <1>6, BothFacts DEF n, Misled
  <2>2. num_chars_in_buf'[t] = n - 1
    BY <1>1, <1>2 DEF CursorTypes
  <2>3. QED
    BY <1>1, <1>3, <1>4, <2>1, <2>2
<1>7. \A u \in Terms \ {t} : num_chars_in_buf'[u] = num_chars_in_buf[u]
  BY <1>1, <1>2 DEF CursorTypes
<1>8. /\ prog[t].pc = "load" => num_chars_in_buf'[t] <= MAX_CHARS_IN_BUF
      /\ Misled \in SUBSET Terms
  <2>1. prog[t].pc = "load" => n <= MAX_CHARS_IN_BUF
    BY <1>1 DEF ScreenInv, LoadSafe, n
  <2>2. num_chars_in_buf'[t] = n - 1
    BY <1>1, <1>2 DEF CursorTypes
  <2>3. QED
    BY <1>1, <2>1, <2>2, Sizes DEF Misled
<1>9. QED
  BY <1>2, <1>4, <1>5, <1>6, <1>7, <1>8, EditsKeep

LEMMA TabKeeps ==
    ASSUME ScreenInv, Tab
    PROVE  ScreenInv'
<1> DEFINE t == active_terminal
           n == num_chars_in_buf[t]
<1>1. PICK w \in Completions :
          LET k == IF Len(w) < MAX_CHARS_IN_BUF THEN Len(w) ELSE MAX_CHARS_IN_BUF
              name == SubSeq(w, 1, k)
          IN  /\ Edits(puts(reset_curr_command(Both, n), name), Misled)
              /\ num_chars_in_buf' = [num_chars_in_buf EXCEPT ![t] = Len(name)]
              /\ prog' = prog /\ miscounted' = miscounted
  BY DEF Tab
<1> DEFINE k == IF Len(w) < MAX_CHARS_IN_BUF THEN Len(w) ELSE MAX_CHARS_IN_BUF
           name == SubSeq(w, 1, k)
           e == reset_curr_command(Both, n)
           b == puts(e, name)
<1>2. /\ Edits(b, Misled) /\ prog' = prog /\ miscounted' = miscounted
      /\ num_chars_in_buf' = [num_chars_in_buf EXCEPT ![t] = Len(name)]
  BY <1>1
<1>3. CursorTypes /\ t \in Terms /\ n \in Nat /\ MAX_CHARS_IN_BUF \in Nat /\ MostCounted = MAX_CHARS_IN_BUF + 1
  BY Sizes DEF ScreenInv, CursorTypes
<1>4. w \in Seq(Chars) /\ Len(w) \in Nat
  BY ScreenAssumption, LenProperties
<1>5. k \in Nat /\ k <= MAX_CHARS_IN_BUF /\ k <= MostCounted /\ k <= Len(w)
  BY <1>3, <1>4
<1> HIDE DEF k
<1>6. name \in Seq(Chars \cup {NL}) /\ Len(name) = k
  <2>1. \A i \in 1 .. k : w[i] \in Chars \cup {NL}
    <3> SUFFICES ASSUME NEW i \in 1 .. k PROVE w[i] \in Chars \cup {NL}
      OBVIOUS
    <3>1. i \in 1 .. Len(w)
      BY <1>4, <1>5
    <3>2. w[i] \in Chars
      BY <1>4, <3>1, ElementOfSeq
    <3>3. QED
      BY <3>2
  <2>2. 1 \in Int /\ k \in Int
    BY <1>5
  <2>3. name \in Seq(Chars \cup {NL}) /\ Len(name) = IF 1 <= k THEN k - 1 + 1 ELSE 0
    BY <2>1, <2>2, SubSeqProperties
  <2>4. QED
    BY <1>5, <2>3
<1> HIDE DEF name
<1>7. Sound(Both) /\ Both.rows = text[t]
  BY BothFacts
<1>8. /\ Sound(e)
      /\ AtEnd(Both) /\ n <= Pos(text[t]) => AtEnd(e) /\ KeepsTraces(Both, e)
  BY <1>3, <1>7, ErasuresKeep
<1> HIDE DEF e
<1>9. /\ Sound(b)
      /\ AtEnd(e) => AtEnd(b) /\ KeepsTraces(e, b)
      /\ Len(name) <= MostCounted => Len(name) <= Pos(b.rows)
  BY <1>6, <1>8, PutsKeep
<1> HIDE DEF b
<1>10. num_chars_in_buf' \in [Terms -> 0 .. MostCounted]
  BY <1>2, <1>3, <1>5, <1>6 DEF CursorTypes
<1>11. ASSUME t \notin torn \cup Misled, ~ Inside(t)
       PROVE  AtEnd(b) /\ KeepsTraces(Both, b) /\ num_chars_in_buf'[t] <= Pos(b.rows)
  <2>1. AtEnd(Both) /\ n <= Pos(text[t])
    BY <1>3, <1>11, BothFacts DEF Misled
  <2>2. AtEnd(b) /\ KeepsTraces(Both, b)
    BY <1>8, <1>9, <2>1 DEF KeepsTraces
  <2>3. num_chars_in_buf'[t] <= Pos(b.rows)
    BY <1>2, <1>3, <1>5, <1>6, <1>9 DEF CursorTypes
  <2>4. QED
    BY <2>2, <2>3
<1>12. \A u \in Terms \ {t} : num_chars_in_buf'[u] = num_chars_in_buf[u]
  BY <1>2, <1>3 DEF CursorTypes
<1>13. num_chars_in_buf'[t] <= MAX_CHARS_IN_BUF /\ Misled \in SUBSET Terms
  BY <1>2, <1>3, <1>5, <1>6 DEF CursorTypes, Misled
<1>14. QED
  BY <1>2, <1>9, <1>10, <1>11, <1>12, <1>13, EditsKeep

LEMMA KernelPrintsKeeps ==
    ASSUME ScreenInv, KernelPrints
    PROVE  ScreenInv'
<1> DEFINE t == active_terminal
           n == num_chars_in_buf[t]
<1>1. PICK w \in Messages : Edits(puts(Both, w), {}) /\ UNCHANGED <<num_chars_in_buf, miscounted, prog>>
  BY DEF KernelPrints, countVars
<1> DEFINE b == puts(Both, w)
<1>2. CursorTypes /\ t \in Terms /\ n \in Nat /\ n <= MostCounted
  BY Sizes DEF ScreenInv, CursorTypes
<1>3. w \in Seq(Chars \cup {NL})
  BY ScreenAssumption
<1>4. Sound(Both) /\ Both.rows = text[t]
  BY BothFacts
<1>5. /\ Sound(b)
      /\ AtEnd(Both) => AtEnd(b) /\ KeepsTraces(Both, b)
      /\ n <= Pos(text[t]) => n <= Pos(b.rows)
  BY <1>2, <1>3, <1>4, PutsKeep
<1> HIDE DEF b
<1>6. t \notin torn /\ ~ Inside(t) =>
          /\ AtEnd(b) /\ KeepsTraces(Both, b)
          /\ t \notin miscounted => num_chars_in_buf'[t] <= Pos(b.rows)
  BY <1>1, <1>5, BothFacts
<1>7. Edits(b, {}) /\ prog' = prog /\ num_chars_in_buf' = num_chars_in_buf /\ miscounted' = miscounted
  BY <1>1 DEF b
<1>8. /\ prog[t].pc = "load" => num_chars_in_buf'[t] <= MAX_CHARS_IN_BUF
      /\ {} \in SUBSET Terms
  BY <1>2, <1>7 DEF ScreenInv, LoadSafe
<1>9. QED
  BY <1>2, <1>5, <1>6, <1>7, <1>8, EditsKeep DEF CursorTypes

LEMMA CtrlCKeeps ==
    ASSUME ScreenInv, CtrlC
    PROVE  ScreenInv'
<1> DEFINE t == active_terminal
           ts == IF Inside(t) THEN {t} ELSE {}
<1>1. CursorTypes /\ PageTypes /\ ProgTypes /\ HistTypes /\ OwnCursor /\ FaultOnlyWhenTorn
  BY DEF ScreenInv
<1>2. /\ prog' = [prog EXCEPT ![t] = Idle]
      /\ active_terminal' = active_terminal /\ lib_active' = lib_active
      /\ screen_x' = screen_x /\ screen_y' = screen_y /\ video_mem' = video_mem
      /\ term_vid_mem' = term_vid_mem /\ faulted' = faulted
      /\ num_chars_in_buf' = num_chars_in_buf /\ miscounted' = miscounted
      /\ UNCHANGED mouseVars /\ raw' = raw
      /\ Follow(t, text[t], ts)
  BY DEF CtrlC, posVars, countVars
<1>3. t \in Terms /\ WellFormed(text[t]) /\ ts \in SUBSET Terms
  BY <1>1 DEF CursorTypes, HistTypes
<1>4. Idle \in Places /\ Idle.pc = "user" /\ Idle.char = NL
  BY Sizes DEF Idle, Place, Places, Labels
<1>5. torn \subseteq torn' /\ ts \subseteq torn'
  BY <1>1, <1>2, <1>3, FollowFacts
<1>6. CursorTypes'
  BY <1>1, <1>2 DEF CursorTypes
<1>7. OwnCursor'
  <2>1. \A u \in Terms : Inner(u)' => Inner(u) /\ u # t
    BY <1>1, <1>2, <1>4 DEF Inner, ProgTypes
  <2>2. QED
    BY <1>1, <1>2, <1>5, <2>1 DEF OwnCursor
<1>8. FaultOnlyWhenTorn'
  BY <1>1, <1>2, <1>5 DEF FaultOnlyWhenTorn
<1>9. t \notin torn' => t \notin torn /\ ~ Inside(t)
  BY <1>5
<1>10. ASSUME t \notin torn'
       PROVE  /\ Placed(text[t], Idle, screen_x'[t], screen_y'[t])
              /\ Erasable(text[t], Idle, num_chars_in_buf'[t], t, miscounted')
  <2>1. /\ AtEnd(Both) /\ (t \notin miscounted => num_chars_in_buf[t] <= Pos(text[t]))
        /\ Both.rows = text[t] /\ Both.screen = Visible
    BY <1>9, <1>10, BothFacts
  <2>2. screen_x[t] = Len(LastRow(text[t])) /\ screen_y[t] = Len(text[t]) - 1
    BY <2>1 DEF AtEnd, Visible
  <2>3. Placed(text[t], Idle, screen_x'[t], screen_y'[t])
    BY <1>2, <1>4, <2>2 DEF Placed
  <2>4. Pos(text[t]) \in Nat
    BY <1>3, PosIsNat
  <2>5. Erasable(text[t], Idle, num_chars_in_buf'[t], t, miscounted')
    BY <1>2, <1>4, <2>1, <2>4 DEF Erasable
  <2>6. QED
    BY <2>3, <2>5
<1>11. t \notin torn' \cup raw =>
           Traces(video_mem', Printed(text[t], Idle), drawn, mouse_at, prev_char)
  BY <1>2, <1>4, <1>9, BothFacts DEF Printed
<1>12. video_mem' \in Pages
  BY <1>1, <1>2 DEF PageTypes
<1>13. Idle.pc \in Printing => Idle.char # NL
  BY <1>4 DEF Printing
<1>14. \A u \in Terms \ {t} : num_chars_in_buf'[u] = num_chars_in_buf[u]
  BY <1>2
<1>15. QED
  BY <1>2, <1>3, <1>4, <1>6, <1>7, <1>8, <1>10, <1>11, <1>12, <1>13, <1>14, FollowKeeps

LEMMA ClearKeeps ==
    ASSUME ScreenInv, ~ faulted, clear_screen,
           num_chars_in_buf' \in [Terms -> 0 .. MostCounted],
           \A u \in Terms \ {active_terminal} : num_chars_in_buf'[u] = num_chars_in_buf[u],
           num_chars_in_buf'[active_terminal] \in {0, num_chars_in_buf[active_terminal]}
    PROVE  ScreenInv'
<1> DEFINE t == active_terminal
           inside == {u \in Terms : Inside(u)}
           p == prog[t]
<1>1. CursorTypes /\ PageTypes /\ ProgTypes /\ HistTypes /\ OwnCursor
  BY DEF ScreenInv
<1>2. t \in Terms /\ lib_active \in Terms
      /\ p \in Places /\ (p.pc \in Printing => p.char # NL)
  BY <1>1 DEF CursorTypes, ProgTypes
<1>3. /\ video_mem' = [i \in Cells |-> IF i \in ScreenCells THEN BLANK ELSE video_mem[i]]
      /\ screen_x' = [screen_x EXCEPT ![lib_active] = 0]
      /\ screen_y' = [screen_y EXCEPT ![lib_active] = 0]
      /\ active_terminal' = active_terminal /\ lib_active' = lib_active
      /\ term_vid_mem' = term_vid_mem /\ UNCHANGED mouseVars /\ prog' = prog /\ faulted' = faulted
      /\ mouse_at' = mouse_at /\ prev_char' = prev_char
  BY DEF clear_screen, mouseVars
<1>4. prog' = [prog EXCEPT ![t] = p]
  BY <1>1, <1>2, <1>3 DEF ProgTypes
<1>5. video_mem' \in Pages
  <2>1. \A i \in Cells : (IF i \in ScreenCells THEN BLANK ELSE video_mem[i]) \in ScreenChars
    BY <1>1 DEF PageTypes, Pages, ScreenChars
  <2>2. QED
    BY <1>3, <2>1 DEF Pages
<1>6. CursorTypes'
  <2>1. miscounted' \in SUBSET Terms
    BY <1>1, <1>2 DEF clear_screen, CursorTypes
  <2>2. QED
    BY <1>1, <1>3, <2>1 DEF CursorTypes
<1>7. PageTypes'
  BY <1>1, <1>3, <1>5 DEF PageTypes
<1>8. FaultOnlyWhenTorn'
  BY <1>3 DEF FaultOnlyWhenTorn
<1>12. p.pc = "load" => num_chars_in_buf'[t] <= MAX_CHARS_IN_BUF
  BY <1>2, Sizes DEF ScreenInv, LoadSafe
<1>9. CASE lib_active = t /\ inside = {} /\ num_chars_in_buf'[t] = 0
  <2>1. /\ torn' = torn \ {t} /\ raw' = raw \ {t} /\ drawn' = FALSE
        /\ text' = [text EXCEPT ![t] = Empty] /\ miscounted' = miscounted \ {t}
    BY <1>9 DEF clear_screen
  <2>2. HistTypes'
    BY <1>1, <1>2, <2>1, EmptyText DEF HistTypes
  <2>3. ~ Inside(t) /\ \A u \in Terms : ~ Inner(u)
    BY <1>1, <1>2, <1>9, NotInside
  <2>4. OwnCursor'
    BY <1>3, <2>3 DEF OwnCursor, Inner
  <2>5. text'[t] = Empty /\ screen_x'[t] = 0 /\ screen_y'[t] = 0
    BY <1>1, <1>2, <1>3, <1>9, <2>1 DEF HistTypes, CursorTypes
  <2>6. p.pc \in {"user", "load", "incr", "next", "begin"} /\ (p.pc = "begin" => p.char = NL)
    BY <1>1, <1>2, <2>3, NotInside
  <2>7. Placed(text'[t], p, screen_x'[t], screen_y'[t])
    BY <2>5, <2>6, EmptyText DEF Placed
  <2>8. Erasable(text'[t], p, num_chars_in_buf'[t], t, miscounted')
    BY <1>9, <2>5, EmptyText DEF Erasable
  <2>9. Shows(video_mem', Printed(text'[t], p), drawn', mouse_at', prev_char')
    <3>1. Printed(text'[t], p) = Empty
      BY <2>5, <2>6 DEF Printed
    <3>2. ASSUME NEW x \in Cols, NEW y \in RowNos
          PROVE  video_mem'[At(x, y)] = Char(Empty, y, x)
      BY <1>3, CellOf, EmptyText
    <3>3. QED
      BY <2>1, <3>1, <3>2 DEF Shows
  <2>10. \A u \in Terms \ torn' : u # t =>
             /\ u \notin torn /\ text'[u] = text[u]
             /\ screen_x'[u] = screen_x[u] /\ screen_y'[u] = screen_y[u]
             /\ num_chars_in_buf'[u] = num_chars_in_buf[u] /\ (u \in miscounted' <=> u \in miscounted)
    BY <1>1, <1>3, <1>9, <2>1 DEF CursorTypes, HistTypes
  <2>11. \A u \in Terms \ raw' : u # t => u \notin raw
    BY <2>1
  <2>12. QED
    BY <1>2, <1>3, <1>4, <1>6, <1>7, <1>8, <1>12, <2>2, <2>4, <2>7, <2>8, <2>9, <2>10, <2>11, StepKeeps
<1>10. CASE ~ (lib_active = t /\ inside = {} /\ num_chars_in_buf'[t] = 0)
  <2> DEFINE ts == {t, lib_active} \cup inside
  <2>1. Follow(t, Empty, ts) /\ raw' = raw /\ miscounted' = miscounted
    BY <1>10 DEF clear_screen
  <2>2. ts \in SUBSET Terms /\ WellFormed(Empty)
    BY <1>2, EmptyText
  <2>3. torn \subseteq torn' /\ ts \subseteq torn'
    BY <1>1, <1>2, <2>1, <2>2, FollowFacts
  <2>4. OwnCursor'
    BY <1>1, <1>3, <2>3 DEF OwnCursor, Inner
  <2>5. \A u \in Terms \ torn : u # t /\ u \notin torn' =>
            /\ screen_x'[u] = screen_x[u] /\ screen_y'[u] = screen_y[u]
            /\ num_chars_in_buf'[u] = num_chars_in_buf[u] /\ (u \in miscounted' <=> u \in miscounted)
    BY <1>1, <1>3, <2>1, <2>3 DEF CursorTypes
  <2>6. t \in torn'
    BY <2>3
  <2>7. QED
    BY <1>2, <1>3, <1>4, <1>5, <1>6, <1>8, <1>12, <2>1, <2>2, <2>4, <2>5, <2>6, FollowKeeps
<1>11. QED
  BY <1>9, <1>10

LEMMA CtrlLKeeps ==
    ASSUME ScreenInv, ~ faulted, CtrlL
    PROVE  ScreenInv'
<1>1. CursorTypes /\ active_terminal \in Terms /\ 0 \in 0 .. MostCounted
  BY Sizes DEF ScreenInv, CursorTypes
<1>2. clear_screen /\ num_chars_in_buf' = [num_chars_in_buf EXCEPT ![active_terminal] = 0]
  BY DEF CtrlL
<1>3. num_chars_in_buf'[active_terminal] = 0
  BY <1>1, <1>2 DEF CursorTypes
<1>4. QED
  BY <1>1, <1>2, <1>3, ClearKeeps DEF CursorTypes

LEMMA ClearCommandKeeps ==
    ASSUME ScreenInv, ~ faulted, ClearCommand
    PROVE  ScreenInv'
<1>1. clear_screen /\ num_chars_in_buf' = num_chars_in_buf
  BY DEF ClearCommand
<1>2. QED
  BY <1>1, ClearKeeps DEF ScreenInv, CursorTypes

LEMMA FunctionKeyKeeps ==
    ASSUME ScreenInv, NEW t \in Terms, FunctionKey(t)
    PROVE  ScreenInv'
<1> DEFINE o == active_terminal
           ts == IF drawn /\ t # o THEN {o} ELSE {}
           kept == [term_vid_mem EXCEPT ![o] = video_mem]
<1>1. /\ CursorTypes /\ PageTypes /\ ProgTypes /\ HistTypes /\ OwnCursor /\ LoadSafe /\ FaultOnlyWhenTorn
      /\ \A u \in Terms \ torn : Followed(u)
      /\ \A u \in Terms \ (torn \cup raw) : PageShown(u)
  BY DEF ScreenInv
<1>2. o \in Terms /\ WellFormed(text[o]) /\ ts \in SUBSET Terms
  BY <1>1 DEF CursorTypes, HistTypes
<1>3. /\ video_mem' = kept[t] /\ term_vid_mem' = [kept EXCEPT ![t] = Filled(BLANK)]
      /\ active_terminal' = t
      /\ Follow(o, text[o], ts)
      /\ lib_active' = lib_active /\ screen_x' = screen_x /\ screen_y' = screen_y
      /\ num_chars_in_buf' = num_chars_in_buf /\ miscounted' = miscounted /\ mouse_at' = mouse_at /\ prev_char' = prev_char
      /\ prog' = prog /\ faulted' = faulted /\ raw' = raw
  BY DEF FunctionKey, update_screen, posVars, mouseVars, countVars
<1>4. kept \in [Terms -> Pages]
  BY <1>1 DEF PageTypes
<1>5. Filled(BLANK) \in Pages
  BY DEF Filled, Pages, ScreenChars
<1>6. PageTypes'
  BY <1>1, <1>3, <1>4, <1>5 DEF PageTypes
<1>7. CursorTypes' /\ ProgTypes'
  BY <1>1, <1>3 DEF CursorTypes, ProgTypes
<1>8. /\ HistTypes' /\ torn \subseteq torn' /\ ts \subseteq torn'
      /\ \A u \in Terms \ torn' : text'[u] = IF u = o THEN text[o] ELSE text[u]
  BY <1>1, <1>2, <1>3, FollowFacts
<1>9. \A u \in Terms \ torn' : text'[u] = text[u] /\ u \notin torn
  BY <1>8
<1>10. OwnCursor' /\ LoadSafe' /\ FaultOnlyWhenTorn'
  BY <1>1, <1>3, <1>8 DEF OwnCursor, Inner, LoadSafe, FaultOnlyWhenTorn
<1>11. \A u \in Terms \ torn' : Followed(u)'
  BY <1>1, <1>3, <1>9 DEF Followed
<1>12. \A u \in Terms : /\ video_mem' = IF t = o THEN video_mem ELSE term_vid_mem[t]
                        /\ u # t => term_vid_mem'[u] = IF u = o THEN video_mem ELSE term_vid_mem[u]
  BY <1>1, <1>2, <1>3, <1>4 DEF PageTypes
<1> HIDE DEF kept, ts
<1>13. ASSUME NEW u \in Terms \ (torn' \cup raw') PROVE PageShown(u)'
  <2> DEFINE rows == Printed(text[u], prog[u])
  <2>1. PageShown(u) /\ text'[u] = text[u] /\ prog'[u] = prog[u]
    BY <1>1, <1>3, <1>9, <1>13
  <2>2. rows \in Seq(Seq(RowChars))
    BY <1>1, PrintedFacts DEF HistTypes, ProgTypes
  <2>3. CASE u = t
    <3>1. CASE t = o
      <4>1. Shows(video_mem, rows, drawn, mouse_at, prev_char)
        BY <2>1, <2>3, <3>1 DEF PageShown
      <4> HIDE DEF rows
      <4>2. Traces(video_mem', rows, drawn, mouse_at, prev_char)
        BY <1>1, <1>12, <3>1, <4>1, MouseFacts, ShownIsTraced
      <4>3. o \notin torn'
        BY <1>13, <2>3, <3>1
      <4>4. Shows(video_mem', rows, drawn', mouse_at, prev_char)
        BY <1>1, <1>3, <2>2, <4>2, <4>3, FollowShows
      <4>5. QED
        BY <1>3, <2>1, <2>3, <4>4 DEF PageShown, rows
    <3>2. CASE t # o
      <4>1. Shows(term_vid_mem[t], rows, FALSE, mouse_at, prev_char)
        BY <2>1, <2>3, <3>2 DEF PageShown
      <4> HIDE DEF rows
      <4>2. video_mem' = term_vid_mem[t]
        BY <1>12, <3>2
      <4>3. \A x \in Cols, y \in RowNos :
                video_mem'[At(x, y)] = Char(rows, y, x) /\ Char(rows, y, x) # BLOCK
        <5>1. \A x \in Cols, y \in RowNos : Char(rows, y, x) \in RowChars
          BY <2>2, CharIsRowChar
        <5>2. BLOCK \notin RowChars
          BY ScreenAssumption DEF RowChars
        <5>3. QED
          BY <4>1, <4>2, <5>1, <5>2 DEF Shows
      <4>4. video_mem'[mouse_at] # BLOCK
        <5>1. mouse_at \in ScreenCells
          BY <1>1, MouseFacts
        <5>2. PICK x \in Cols, y \in RowNos : mouse_at = At(x, y)
          BY <5>1, CellHasPlace
        <5>3. QED
          BY <4>3, <5>2
      <4>5. drawn' = FALSE
        BY <1>3, <4>4 DEF Follow
      <4>6. Shows(video_mem', rows, drawn', mouse_at, prev_char)
        BY <4>3, <4>5 DEF Shows
      <4>7. QED
        BY <1>3, <2>1, <2>3, <4>6 DEF PageShown, rows
    <3>3. QED
      BY <3>1, <3>2
  <2>4. CASE u # t /\ u = o
    <3>1. ~ drawn
      BY <1>8, <1>13, <2>4 DEF ts
    <3>2. Shows(video_mem, rows, drawn, mouse_at, prev_char)
      BY <2>1, <2>4 DEF PageShown
    <3>3. Shows(video_mem, rows, FALSE, mouse_at, prev_char)
      BY <3>1, <3>2 DEF Shows
    <3>4. QED
      BY <1>3, <1>12, <2>1, <2>4, <3>3 DEF PageShown
  <2>5. CASE u # t /\ u # o
    <3>1. Shows(term_vid_mem[u], rows, FALSE, mouse_at, prev_char)
      BY <2>1, <2>5 DEF PageShown
    <3>2. QED
      BY <1>3, <1>12, <2>1, <2>5, <3>1 DEF PageShown
  <2>6. QED
    BY <2>3, <2>4, <2>5
<1>14. QED
  BY <1>6, <1>7, <1>8, <1>10, <1>11, <1>13 DEF ScreenInv

LEMMA MouseMoveKeeps ==
    ASSUME ScreenInv, ~ faulted, NEW to \in PointerCells, MouseMove(to)
    PROVE  ScreenInv'
<1> DEFINE t == active_terminal
           p == prog[t]
           m == mouse_at
           page == Written(video_mem, m, prev_char)
           rows == Printed(text[t], p)
<1>1. /\ CursorTypes /\ PageTypes /\ ProgTypes /\ HistTypes /\ OwnCursor
      /\ \A u \in Terms \ torn : Followed(u)
      /\ \A u \in Terms \ (torn \cup raw) : PageShown(u)
  BY DEF ScreenInv
<1>2. t \in Terms /\ p \in Places /\ (p.pc \in Printing => p.char # NL)
  BY <1>1 DEF CursorTypes, ProgTypes
<1>3. to \in Cells /\ to \in ScreenCells /\ m \in Cells /\ m \in ScreenCells
  <2>1. PointerCells \subseteq ScreenCells /\ ScreenCells \subseteq Cells
    BY ScreenAssumption, Sizes DEF ScreenCells, Cells
  <2>2. QED
    BY <1>1, <2>1 DEF PageTypes
<1>4. /\ page \in Pages
      /\ \A j \in Cells : page[j] = IF j = m THEN prev_char ELSE video_mem[j]
  BY <1>1, <1>3, WrittenFacts DEF PageTypes
<1>5. /\ prev_char' = page[to] /\ video_mem' = Written(page, to, BLOCK)
      /\ mouse_at' = to /\ drawn' = TRUE
      /\ torn' = IF drawn \/ video_mem[m] = prev_char THEN torn ELSE torn \cup {t}
      /\ text' = [u \in Terms |-> IF u \in torn' THEN Empty ELSE text[u]]
      /\ active_terminal' = active_terminal /\ lib_active' = lib_active
      /\ screen_x' = screen_x /\ screen_y' = screen_y /\ term_vid_mem' = term_vid_mem
      /\ num_chars_in_buf' = num_chars_in_buf /\ miscounted' = miscounted /\ prog' = prog /\ faulted' = faulted /\ raw' = raw
  BY DEF MouseMove, Hidden, Written, posVars, countVars
<1> HIDE DEF page
<1>6. BLOCK \in ScreenChars /\ page[to] \in ScreenChars
  BY <1>3, <1>4 DEF ScreenChars, Pages
<1>7. /\ video_mem' \in Pages
      /\ \A j \in Cells : video_mem'[j] = IF j = to THEN BLOCK ELSE page[j]
  <2>1. page \in Pages /\ to \in Cells /\ BLOCK \in ScreenChars
    BY <1>3, <1>4, <1>6
  <2>2. /\ Written(page, to, BLOCK) \in Pages
        /\ \A j \in Cells : Written(page, to, BLOCK)[j] = IF j = to THEN BLOCK ELSE page[j]
    BY <2>1, WrittenFacts
  <2>3. video_mem' = Written(page, to, BLOCK)
    BY <1>5
  <2>4. QED
    BY <2>2, <2>3
<1>8. PageTypes'
  BY <1>1, <1>5, <1>6, <1>7 DEF PageTypes
<1>9. CursorTypes'
  BY <1>1, <1>5 DEF CursorTypes
<1>10. torn' \in SUBSET Terms /\ torn \subseteq torn'
  BY <1>1, <1>2, <1>5 DEF HistTypes
<1>11. HistTypes'
  BY <1>1, <1>5, <1>10, EmptyText DEF HistTypes
<1>12. OwnCursor' /\ FaultOnlyWhenTorn'
  BY <1>1, <1>5, <1>10 DEF OwnCursor, Inner, FaultOnlyWhenTorn
<1>13. \A u \in Terms \ torn' : u \notin torn /\ text'[u] = text[u]
  BY <1>5, <1>10
<1>14. ASSUME t \notin torn'
       PROVE  /\ Placed(text'[t], p, screen_x'[t], screen_y'[t])
              /\ Erasable(text'[t], p, num_chars_in_buf'[t], t, miscounted')
  BY <1>1, <1>2, <1>5, <1>13, <1>14 DEF Followed
<1>15. ASSUME t \notin torn' \cup raw'
       PROVE  Shows(video_mem', Printed(text'[t], p), drawn', mouse_at', prev_char')
  <2>1. text'[t] = text[t] /\ t \notin torn \cup raw
    BY <1>2, <1>5, <1>13, <1>15
  <2>2. Shows(video_mem, rows, drawn, m, prev_char)
    BY <1>1, <1>2, <2>1 DEF PageShown
  <2>3. drawn \/ video_mem[m] = prev_char
    BY <1>5, <1>15
  <2> HIDE DEF rows, m
  <2>4. ASSUME NEW x \in Cols, NEW y \in RowNos
        PROVE  page[At(x, y)] = Char(rows, y, x)
    <3>1. At(x, y) \in Cells
      BY CellOf
    <3>2. page[At(x, y)] = IF At(x, y) = m THEN prev_char ELSE video_mem[At(x, y)]
      BY <1>4, <3>1
    <3>3. IF drawn /\ At(x, y) = m THEN video_mem[At(x, y)] = BLOCK /\ prev_char = Char(rows, y, x)
          ELSE video_mem[At(x, y)] = Char(rows, y, x)
      BY <2>2 DEF Shows
    <3>4. QED
      BY <2>3, <3>2, <3>3
  <2>5. ASSUME NEW x \in Cols, NEW y \in RowNos
        PROVE  IF At(x, y) = to THEN video_mem'[At(x, y)] = BLOCK /\ prev_char' = Char(rows, y, x)
               ELSE video_mem'[At(x, y)] = Char(rows, y, x)
    BY <1>5, <1>7, <2>4, CellOf
  <2>6. Shows(video_mem', rows, TRUE, to, prev_char')
    BY <2>5 DEF Shows
  <2>7. QED
    BY <1>5, <2>1, <2>6 DEF rows
<1>16. prog' = [prog EXCEPT ![t] = p]
  BY <1>1, <1>2, <1>5 DEF ProgTypes
<1>17. \A u \in Terms \ torn' : u # t =>
           /\ u \notin torn /\ text'[u] = text[u]
           /\ screen_x'[u] = screen_x[u] /\ screen_y'[u] = screen_y[u]
           /\ num_chars_in_buf'[u] = num_chars_in_buf[u] /\ (u \in miscounted' <=> u \in miscounted)
  BY <1>5, <1>13
<1>18. \A u \in Terms \ raw' : u # t => u \notin raw
  BY <1>5
<1>19. /\ p.pc = "load" => num_chars_in_buf'[t] <= MAX_CHARS_IN_BUF
       /\ \A u \in Terms \ {t} : num_chars_in_buf'[u] = num_chars_in_buf[u]
  BY <1>2, <1>5 DEF ScreenInv, LoadSafe
<1>20. QED
  BY <1>2, <1>19, <1>5, <1>8, <1>9, <1>11, <1>12, <1>14, <1>15, <1>16, <1>17, <1>18, StepKeeps

-----------------------------------------------------------------------------
(* The program of the terminal on the screen.                                 *)

LEMMA QuietKeeps ==
    ASSUME ScreenInv, NEW t \in Terms, t = active_terminal,
           NEW p \in Places, p.pc \in Printing => p.char # NL,
           prog' = [prog EXCEPT ![t] = p],
           \A u \in Terms \ {t} : num_chars_in_buf'[u] = num_chars_in_buf[u],
           p.pc = "load" => num_chars_in_buf'[t] <= MAX_CHARS_IN_BUF,
           p.pc \notin {"user", "load", "incr", "next", "begin"} => Inner(t),
           UNCHANGED <<active_terminal, term_vid_mem, mouseVars>>,
           lib_active' = lib_active, video_mem' = video_mem, faulted' = faulted, NoHistory,
           CursorTypes',
           \A u \in Terms \ torn : u # t =>
               /\ screen_x'[u] = screen_x[u] /\ screen_y'[u] = screen_y[u]
               /\ num_chars_in_buf'[u] = num_chars_in_buf[u] /\ (u \in miscounted' <=> u \in miscounted),
           t \notin torn => /\ Placed(text[t], p, screen_x'[t], screen_y'[t])
                            /\ Erasable(text[t], p, num_chars_in_buf'[t], t, miscounted'),
           t \notin torn => \A x \in Cols, y \in RowNos :
               Char(Printed(text[t], p), y, x) = Char(Printed(text[t], prog[t]), y, x)
    PROVE  ScreenInv'
<1>1. CursorTypes /\ PageTypes /\ ProgTypes /\ HistTypes /\ OwnCursor /\ FaultOnlyWhenTorn
  BY DEF ScreenInv
<1>2. /\ active_terminal' = active_terminal /\ term_vid_mem' = term_vid_mem
      /\ mouse_at' = mouse_at /\ prev_char' = prev_char
      /\ text' = text /\ torn' = torn /\ raw' = raw /\ drawn' = drawn
  BY DEF mouseVars, NoHistory, histVars
<1>3. PageTypes' /\ HistTypes' /\ FaultOnlyWhenTorn'
  BY <1>1, <1>2 DEF PageTypes, HistTypes, FaultOnlyWhenTorn
<1>4. OwnCursor'
  <2>1. \A u \in Terms : prog'[u] = IF u = t THEN p ELSE prog[u]
    BY <1>1 DEF ProgTypes
  <2>2. \A u \in Terms : Inner(u)' => Inner(u)
    BY <2>1 DEF Inner
  <2>3. QED
    BY <1>1, <1>2, <2>2 DEF OwnCursor
<1>5. ASSUME t \notin torn' \cup raw'
      PROVE  Shows(video_mem', Printed(text'[t], p), drawn', mouse_at', prev_char')
  <2>1. PageShown(t) /\ t \notin torn
    BY <1>2, <1>5 DEF ScreenInv
  <2>2. Shows(video_mem, Printed(text[t], prog[t]), drawn, mouse_at, prev_char)
    BY <2>1 DEF PageShown
  <2>3. Shows(video_mem, Printed(text[t], p), drawn, mouse_at, prev_char)
    BY <2>1, <2>2, SameShows
  <2>4. QED
    BY <1>2, <2>3
<1>6. \A u \in Terms \ torn' : u # t =>
          /\ u \notin torn /\ text'[u] = text[u]
          /\ screen_x'[u] = screen_x[u] /\ screen_y'[u] = screen_y[u]
          /\ num_chars_in_buf'[u] = num_chars_in_buf[u] /\ (u \in miscounted' <=> u \in miscounted)
  BY <1>2
<1>7. \A u \in Terms \ raw' : u # t => u \notin raw
  BY <1>2
<1>8. t \notin torn' => /\ Placed(text'[t], p, screen_x'[t], screen_y'[t])
                        /\ Erasable(text'[t], p, num_chars_in_buf'[t], t, miscounted')
  BY <1>2
<1>9. QED
  BY <1>2, <1>3, <1>4, <1>5, <1>6, <1>7, <1>8, StepKeeps

Moved(p, label) == [p EXCEPT !.pc = label]

LEMMA GotoFacts ==
    ASSUME ProgTypes, NEW t \in Terms, NEW label \in Labels, Goto(t, label),
           label \in Printing => prog[t].char # NL
    PROVE  LET p == Moved(prog[t], label)
           IN  /\ p \in Places /\ p.pc = label /\ p.char = prog[t].char
               /\ prog' = [prog EXCEPT ![t] = p]
               /\ p.pc \in Printing => p.char # NL
<1>1. prog[t] \in Places
  BY DEF ProgTypes
<1> DEFINE p == Moved(prog[t], label)
<1>2. p \in Places
  BY <1>1 DEF Moved, Places
<1>3. p.pc = label /\ p.char = prog[t].char
  BY <1>1 DEF Moved, Places
<1>4. prog' = [prog EXCEPT ![t] = p]
  BY DEF Goto, Moved
<1>5. QED
  BY <1>2, <1>3, <1>4

LEMMA MovesFacts ==
    ASSUME ScreenInv, NEW t \in Terms, t = active_terminal, Inner(t),
           NEW from, NEW x \in Nat, NEW y \in Int, Moves(t, from, x, y)
    PROVE  /\ CursorTypes'
           /\ UNCHANGED <<active_terminal, term_vid_mem, mouseVars>>
           /\ lib_active' = lib_active /\ video_mem' = video_mem /\ faulted' = faulted
           /\ num_chars_in_buf' = num_chars_in_buf /\ miscounted' = miscounted
           /\ \A u \in Terms \ torn : u # t =>
                  /\ screen_x'[u] = screen_x[u] /\ screen_y'[u] = screen_y[u]
                  /\ num_chars_in_buf'[u] = num_chars_in_buf[u] /\ (u \in miscounted' <=> u \in miscounted)
           /\ t \notin torn => lib_active = t /\ screen_x'[t] = x /\ screen_y'[t] = y
<1>1. CursorTypes /\ OwnCursor
  BY DEF ScreenInv
<1>2. /\ screen_x' = [screen_x EXCEPT ![lib_active] = x]
      /\ screen_y' = [screen_y EXCEPT ![lib_active] = y]
      /\ lib_active' = lib_active /\ video_mem' = video_mem /\ faulted' = faulted
      /\ num_chars_in_buf' = num_chars_in_buf /\ miscounted' = miscounted /\ active_terminal' = active_terminal
      /\ UNCHANGED <<active_terminal, term_vid_mem, mouseVars>>
  BY DEF Moves, StaysAt, countVars
<1>3. CursorTypes'
  BY <1>1, <1>2 DEF CursorTypes
<1>4. lib_active = t \/ (t \in torn /\ lib_active \in torn)
  BY <1>1 DEF OwnCursor
<1>5. QED
  BY <1>1, <1>2, <1>3, <1>4 DEF CursorTypes

(* What is known of the program's own terminal as long as it is not torn.     *)
LEMMA OwnFacts ==
    ASSUME ScreenInv, NEW t \in Terms
    PROVE  /\ prog[t] \in Places /\ prog[t].char \in Chars \cup {NL}
           /\ WellFormed(text[t])
           /\ screen_x[t] \in Nat /\ screen_y[t] \in Int
           /\ screen_x[lib_active] \in Nat /\ screen_y[lib_active] \in Int
           /\ num_chars_in_buf[t] \in Nat
           /\ t \notin torn => /\ Placed(text[t], prog[t], screen_x[t], screen_y[t])
                               /\ Erasable(text[t], prog[t], num_chars_in_buf[t], t, miscounted)
           /\ t \notin torn /\ Inner(t) => lib_active = t
<1>1. prog[t] \in Places /\ prog[t].char \in Chars \cup {NL}
  BY DEF ScreenInv, ProgTypes, Places
<1>2. WellFormed(text[t])
  BY DEF ScreenInv, HistTypes
<1>3. /\ screen_x[t] \in Nat /\ screen_y[t] \in Int
      /\ screen_x[lib_active] \in Nat /\ screen_y[lib_active] \in Int
      /\ num_chars_in_buf[t] \in Nat
  BY Sizes DEF ScreenInv, CursorTypes
<1>4. t \notin torn => /\ Placed(text[t], prog[t], screen_x[t], screen_y[t])
                       /\ Erasable(text[t], prog[t], num_chars_in_buf[t], t, miscounted)
  BY DEF ScreenInv, Followed
<1>5. t \notin torn /\ Inner(t) => lib_active = t
  BY DEF ScreenInv, OwnCursor
<1>6. QED
  BY <1>1, <1>2, <1>3, <1>4, <1>5

(* A statement of putc or new_line behind the first that leaves the page and  *)
(* its text alone.                                                            *)
LEMMA InnerStepKeeps ==
    ASSUME ScreenInv, NEW t \in Terms, t = active_terminal, Inner(t),
           NEW label \in Labels, label \notin {"user", "load", "incr", "next", "begin"}, Goto(t, label),
           label \in Printing => prog[t].char # NL,
           UNCHANGED <<active_terminal, term_vid_mem, mouseVars>>,
           lib_active' = lib_active, video_mem' = video_mem, faulted' = faulted, NoHistory,
           CursorTypes', num_chars_in_buf' = num_chars_in_buf /\ miscounted' = miscounted,
           \A u \in Terms \ torn : u # t =>
               screen_x'[u] = screen_x[u] /\ screen_y'[u] = screen_y[u],
           NEW p, p = Moved(prog[t], label),
           t \notin torn => Placed(text[t], p, screen_x'[t], screen_y'[t]),
           t \notin torn => \A x \in Cols, y \in RowNos :
               Char(Printed(text[t], p), y, x) = Char(Printed(text[t], prog[t]), y, x)
    PROVE  ScreenInv'
<1>1. /\ p \in Places /\ p.pc = label /\ p.char = prog[t].char
      /\ prog' = [prog EXCEPT ![t] = p]
      /\ p.pc \in Printing => p.char # NL
  BY GotoFacts DEF ScreenInv
<1>2. t \notin torn => Erasable(text[t], p, num_chars_in_buf'[t], t, miscounted')
  BY <1>1, OwnFacts DEF Erasable, Inner
<1>3. \A u \in Terms \ torn : u # t =>
          /\ screen_x'[u] = screen_x[u] /\ screen_y'[u] = screen_y[u]
          /\ num_chars_in_buf'[u] = num_chars_in_buf[u] /\ (u \in miscounted' <=> u \in miscounted)
  OBVIOUS
<1>4. p.pc # "load" /\ \A u \in Terms \ {t} : num_chars_in_buf'[u] = num_chars_in_buf[u]
  BY <1>1
<1>5. QED
  BY <1>1, <1>2, <1>3, <1>4, QuietKeeps

LEMMA TestsFacts ==
    ASSUME ScreenInv, NEW t \in Terms, NEW from, NEW label, Tests(t, from, label)
    PROVE  /\ prog[t].pc = from /\ Goto(t, label) /\ NoHistory
           /\ UNCHANGED <<active_terminal, term_vid_mem, mouseVars>>
           /\ lib_active' = lib_active /\ video_mem' = video_mem /\ faulted' = faulted
           /\ screen_x' = screen_x /\ screen_y' = screen_y
           /\ num_chars_in_buf' = num_chars_in_buf /\ miscounted' = miscounted
           /\ CursorTypes'
<1>1. /\ prog[t].pc = from /\ Goto(t, label) /\ NoHistory
      /\ UNCHANGED <<active_terminal, term_vid_mem, mouseVars>>
      /\ lib_active' = lib_active /\ video_mem' = video_mem /\ faulted' = faulted
      /\ screen_x' = screen_x /\ screen_y' = screen_y
      /\ num_chars_in_buf' = num_chars_in_buf /\ miscounted' = miscounted
      /\ active_terminal' = active_terminal
  BY DEF Tests, StaysAt, posVars, countVars
<1>2. CursorTypes'
  BY <1>1 DEF ScreenInv, CursorTypes
<1>3. QED
  BY <1>1, <1>2

LEMMA TestKeeps ==
    ASSUME ScreenInv, NEW t \in Terms, t = active_terminal,
           NEW from, from \notin {"user", "load", "incr", "next", "begin"},
           NEW label \in Labels, label \notin {"user", "load", "incr", "next", "begin"}, Tests(t, from, label),
           label \in Printing => prog[t].char # NL,
           NEW p, p = Moved(prog[t], label),
           t \notin torn => /\ Placed(text[t], p, screen_x[t], screen_y[t])
                            /\ Printed(text[t], p) = Printed(text[t], prog[t])
    PROVE  ScreenInv'
<1>1. /\ prog[t].pc = from /\ Goto(t, label) /\ NoHistory
      /\ UNCHANGED <<active_terminal, term_vid_mem, mouseVars>>
      /\ lib_active' = lib_active /\ video_mem' = video_mem /\ faulted' = faulted
      /\ screen_x' = screen_x /\ screen_y' = screen_y
      /\ num_chars_in_buf' = num_chars_in_buf /\ miscounted' = miscounted
      /\ CursorTypes'
  BY TestsFacts
<1>2. Inner(t)
  BY <1>1 DEF Inner
<1>3. t \notin torn => Placed(text[t], p, screen_x'[t], screen_y'[t])
  BY <1>1
<1>4. \A u \in Terms \ torn : u # t =>
          screen_x'[u] = screen_x[u] /\ screen_y'[u] = screen_y[u]
  BY <1>1
<1>5. t \notin torn => \A x \in Cols, y \in RowNos :
          Char(Printed(text[t], p), y, x) = Char(Printed(text[t], prog[t]), y, x)
  OBVIOUS
<1>6. QED
  BY <1>1, <1>2, <1>3, <1>4, <1>5, InnerStepKeeps

(* if (screen_x == NUM_COLS) is false, at the end of a row that goes on.      *)
LEMMA NoWrapKeeps ==
    ASSUME ScreenInv, NEW t \in Terms, t = active_terminal,
           screen_x[lib_active] # NUM_COLS, Tests(t, "wrap", "mod_x")
    PROVE  ScreenInv'
<1> DEFINE c == prog[t].char
           p == Moved(prog[t], "mod_x")
<1>1. prog[t].pc = "wrap" /\ c # NL /\ Goto(t, "mod_x") /\ Inner(t)
  BY TestsFacts DEF ScreenInv, ProgTypes, Printing, Inner
<1>2. p.pc = "mod_x" /\ p.char = c
  BY <1>1, GotoFacts DEF ScreenInv, Labels
<1>3. ASSUME t \notin torn
      PROVE  /\ Placed(text[t], p, screen_x[t], screen_y[t])
             /\ Printed(text[t], p) = Printed(text[t], prog[t])
  <2>1. /\ screen_x[t] = Len(LastRow(Before(text[t], c)))
        /\ screen_y[t] = Len(text[t]) - 1 /\ screen_x[t] # NUM_COLS
    BY <1>1, <1>3, OwnFacts DEF Placed
  <2>2. Typed(text[t], c) = Before(text[t], c)
    BY <1>1, <2>1, TypedIsBroken
  <2>3. Len(Before(text[t], c)) = Len(text[t])
    BY OwnFacts, BeforeFacts
  <2>4. Placed(text[t], p, screen_x[t], screen_y[t])
    BY <1>2, <2>1, <2>2, <2>3 DEF Placed
  <2>5. QED
    BY <1>1, <1>2, <2>2, <2>4 DEF Printed
<1>4. QED
  BY <1>1, <1>3, TestKeeps DEF Labels

(* if (screen_y == NUM_ROWS - 1), in new_line                                 *)
LEMMA LastRowKeeps ==
    ASSUME ScreenInv, NEW t \in Terms, t = active_terminal,
           Tests(t, "last_row", IF screen_y[lib_active] = NUM_ROWS - 1 THEN "scroll" ELSE "down")
    PROVE  ScreenInv'
<1> DEFINE c == prog[t].char
           label == IF screen_y[lib_active] = NUM_ROWS - 1 THEN "scroll" ELSE "down"
           p == Moved(prog[t], label)
<1>1. prog[t].pc = "last_row" /\ Goto(t, label) /\ Inner(t)
  BY TestsFacts DEF Inner
<1>2. label \in Labels /\ label \in {"scroll", "down"} /\ label \notin Printing
  BY DEF Labels, Printing
<1>3. p.pc = label /\ p.char = c
  BY <1>1, <1>2, GotoFacts DEF ScreenInv
<1>4. ASSUME t \notin torn
      PROVE  /\ Placed(text[t], p, screen_x[t], screen_y[t])
             /\ Printed(text[t], p) = Printed(text[t], prog[t])
  <2>1. /\ screen_x[t] = Len(LastRow(Before(text[t], c))) /\ screen_y[t] = Len(text[t]) - 1
        /\ c # NL => screen_x[t] = NUM_COLS
        /\ lib_active = t
    BY <1>1, <1>4, OwnFacts DEF Placed
  <2>2. Len(text[t]) \in Nat
    BY OwnFacts, TextFacts
  <2>3. IF label = "scroll" THEN Len(text[t]) = NUM_ROWS ELSE Len(text[t]) # NUM_ROWS
    BY <2>1, <2>2, Sizes
  <2> HIDE DEF label
  <2>4. Placed(text[t], p, screen_x[t], screen_y[t])
    BY <1>2, <1>3, <2>1, <2>3 DEF Placed
  <2>5. QED
    BY <1>1, <1>2, <1>3, <2>4 DEF Printed
<1> HIDE DEF label
<1>5. QED
  BY <1>1, <1>2, <1>4, TestKeeps DEF label

(* A statement that sets the position, with the text as it was.               *)
LEMMA MoveKeeps ==
    ASSUME ScreenInv, NEW t \in Terms, t = active_terminal,
           NEW from, from \notin {"user", "load", "incr", "next", "begin"},
           NEW label \in Labels, label \notin {"user", "load", "incr", "next", "begin"},
           NEW x \in Nat, NEW y \in Int, Moves(t, from, x, y), Goto(t, label), NoHistory,
           label \in Printing => prog[t].char # NL,
           NEW p, p = Moved(prog[t], label),
           t \notin torn => Placed(text[t], p, x, y),
           t \notin torn => \A u \in Cols, v \in RowNos :
               Char(Printed(text[t], p), v, u) = Char(Printed(text[t], prog[t]), v, u)
    PROVE  ScreenInv'
<1>1. Inner(t)
  BY DEF Moves, StaysAt, Inner
<1>2. /\ CursorTypes'
      /\ UNCHANGED <<active_terminal, term_vid_mem, mouseVars>>
      /\ lib_active' = lib_active /\ video_mem' = video_mem /\ faulted' = faulted
      /\ num_chars_in_buf' = num_chars_in_buf /\ miscounted' = miscounted
      /\ \A u \in Terms \ torn : u # t =>
             screen_x'[u] = screen_x[u] /\ screen_y'[u] = screen_y[u]
      /\ t \notin torn => screen_x'[t] = x /\ screen_y'[t] = y
  BY <1>1, MovesFacts
<1>3. t \notin torn => Placed(text[t], p, screen_x'[t], screen_y'[t])
  BY <1>2
<1>4. QED
  BY <1>1, <1>2, <1>3, InnerStepKeeps

(* screen_x++, in putc                                                        *)
LEMMA AdvanceKeeps ==
    ASSUME ScreenInv, NEW t \in Terms, t = active_terminal,
           Moves(t, "advance", screen_x[lib_active] + 1, screen_y[lib_active]),
           Goto(t, "wrap"), NoHistory
    PROVE  ScreenInv'
<1> DEFINE c == prog[t].char
           p == Moved(prog[t], "wrap")
<1>1. prog[t].pc = "advance" /\ c # NL /\ Inner(t)
  BY DEF Moves, StaysAt, ScreenInv, ProgTypes, Printing, Inner
<1>2. p.pc = "wrap" /\ p.char = c
  BY <1>1, GotoFacts DEF ScreenInv, Labels
<1>3. /\ screen_x[lib_active] + 1 \in Nat /\ screen_y[lib_active] \in Int
  BY OwnFacts
<1>4. ASSUME t \notin torn
      PROVE  Placed(text[t], p, screen_x[lib_active] + 1, screen_y[lib_active])
  <2>1. /\ lib_active = t /\ screen_x[t] = Len(LastRow(text[t])) /\ screen_y[t] = Len(text[t]) - 1
    BY <1>1, <1>4, OwnFacts DEF Placed
  <2>2. Len(LastRow(Before(text[t], c))) = Len(LastRow(text[t])) + 1
    BY <1>1, OwnFacts, BeforeFacts
  <2>3. QED
    BY <1>2, <2>1, <2>2 DEF Placed
<1>5. Printed(text[t], p) = Printed(text[t], prog[t])
  BY <1>1, <1>2 DEF Printed
<1>6. QED
  BY <1>1, <1>3, <1>4, <1>5, MoveKeeps DEF Labels

(* screen_y = NUM_ROWS - 1, behind the scroll                                 *)
LEMMA BottomKeeps ==
    ASSUME ScreenInv, NEW t \in Terms, t = active_terminal,
           Moves(t, "bottom", screen_x[lib_active], NUM_ROWS - 1),
           Goto(t, "home"), NoHistory
    PROVE  ScreenInv'
<1> DEFINE c == prog[t].char
           p == Moved(prog[t], "home")
           rows == text[t]
           before == Before(rows, c)
<1>1. prog[t].pc = "bottom" /\ Inner(t)
  BY DEF Moves, StaysAt, Inner
<1>2. p.pc = "home" /\ p.char = c
  BY <1>1, GotoFacts DEF ScreenInv, Labels, Printing
<1>3. screen_x[lib_active] \in Nat /\ NUM_ROWS - 1 \in Int /\ NUM_ROWS - 1 \in Nat
  BY OwnFacts, Sizes
<1>4. ASSUME t \notin torn
      PROVE  Placed(rows, p, screen_x[lib_active], NUM_ROWS - 1)
  <2>1. /\ lib_active = t /\ screen_x[t] = Len(LastRow(before)) /\ Len(rows) = NUM_ROWS
        /\ c # NL => screen_x[t] = NUM_COLS
    BY <1>1, <1>4, OwnFacts DEF Placed
  <2>2. /\ WellFormed(rows) /\ before \in Seq(Seq(RowChars)) /\ Len(before) = Len(rows)
        /\ \A k \in 1 .. Len(before) : Len(before[k]) <= NUM_COLS
        /\ c = NL => before = rows
    BY OwnFacts, BeforeFacts DEF Before
  <2>3. c = NL => Len(LastRow(before)) < NUM_COLS /\ Len(LastRow(before)) \in Nat
    BY <2>2, TextFacts
  <2>4. screen_x[t] \in 0 .. NUM_COLS
    BY <2>1, <2>3, Sizes
  <2>5. Typed(rows, c) = Broken(before)
    BY <2>1, TypedIsBroken
  <2>6. Len(before) \in 1 .. NUM_ROWS /\ Len(before) = NUM_ROWS
    BY <2>1, <2>2, Sizes
  <2> HIDE DEF before
  <2>7. Len(Broken(before)) = NUM_ROWS
    BY <2>2, <2>6, BrokenFacts
  <2>8. QED
    BY <1>2, <2>1, <2>4, <2>5, <2>7 DEF Placed, before
<1>5. Printed(rows, p) = Printed(rows, prog[t])
  BY <1>1, <1>2 DEF Printed
<1>6. QED
  BY <1>1, <1>3, <1>4, <1>5, MoveKeeps DEF Labels, Printing

(* screen_y++, in new_line                                                    *)
LEMMA DownKeeps ==
    ASSUME ScreenInv, NEW t \in Terms, t = active_terminal,
           Moves(t, "down", screen_x[lib_active], screen_y[lib_active] + 1),
           Goto(t, "home"), NoHistory
    PROVE  ScreenInv'
<1> DEFINE c == prog[t].char
           p == Moved(prog[t], "home")
           rows == text[t]
           before == Before(rows, c)
<1>1. prog[t].pc = "down" /\ Inner(t)
  BY DEF Moves, StaysAt, Inner
<1>2. p.pc = "home" /\ p.char = c
  BY <1>1, GotoFacts DEF ScreenInv, Labels, Printing
<1>3. screen_x[lib_active] \in Nat /\ screen_y[lib_active] + 1 \in Int
  BY OwnFacts
<1>4. ASSUME t \notin torn
      PROVE  /\ Placed(rows, p, screen_x[lib_active], screen_y[lib_active] + 1)
             /\ \A u \in Cols, v \in RowNos :
                   Char(Printed(rows, p), v, u) = Char(Printed(rows, prog[t]), v, u)
  <2>1. /\ lib_active = t /\ screen_x[t] = Len(LastRow(before)) /\ Len(rows) # NUM_ROWS
        /\ c # NL => screen_x[t] = NUM_COLS
        /\ screen_y[t] = Len(rows) - 1
    BY <1>1, <1>4, OwnFacts DEF Placed
  <2>2. /\ WellFormed(rows) /\ before \in Seq(Seq(RowChars)) /\ Len(before) = Len(rows)
        /\ \A k \in 1 .. Len(before) : Len(before[k]) <= NUM_COLS
        /\ c = NL => before = rows
        /\ Len(rows) \in 1 .. NUM_ROWS
    BY OwnFacts, BeforeFacts DEF Before, WellFormed
  <2>3. c = NL => Len(LastRow(before)) < NUM_COLS /\ Len(LastRow(before)) \in Nat
    BY <2>2, TextFacts
  <2>4. screen_x[t] \in 0 .. NUM_COLS
    BY <2>1, <2>3, Sizes
  <2>5. Typed(rows, c) = Broken(before)
    BY <2>1, TypedIsBroken
  <2>6. /\ Len(Broken(before)) = Len(rows) + 1
        /\ \A x \in Cols, y \in RowNos : Char(Broken(before), y, x) = Char(before, y, x)
    BY <2>1, <2>2, BrokenFacts, Sizes
  <2>7. Placed(rows, p, screen_x[lib_active], screen_y[lib_active] + 1)
    BY <1>2, <2>1, <2>2, <2>4, <2>5, <2>6 DEF Placed
  <2>8. Printed(rows, p) = Broken(before) /\ Printed(rows, prog[t]) = before
    BY <1>1, <1>2, <2>5 DEF Printed
  <2>9. QED
    BY <2>6, <2>7, <2>8
<1>5. QED
  BY <1>1, <1>3, <1>4, MoveKeeps DEF Labels, Printing

(* screen_x = 0, in a new_line that putc called                               *)
LEMMA HomeKeeps ==
    ASSUME ScreenInv, NEW t \in Terms, t = active_terminal,
           Moves(t, "home", 0, screen_y[lib_active]), prog[t].char # NL,
           Goto(t, "mod_x"), NoHistory
    PROVE  ScreenInv'
<1> DEFINE c == prog[t].char
           p == Moved(prog[t], "mod_x")
           rows == text[t]
           before == Before(rows, c)
<1>1. prog[t].pc = "home" /\ Inner(t)
  BY DEF Moves, StaysAt, Inner
<1>2. p.pc = "mod_x" /\ p.char = c
  BY <1>1, GotoFacts DEF ScreenInv, Labels
<1>3. 0 \in Nat /\ screen_y[lib_active] \in Int
  BY OwnFacts
<1>4. ASSUME t \notin torn
      PROVE  Placed(rows, p, 0, screen_y[lib_active])
  <2>1. /\ lib_active = t /\ screen_y[t] = Len(Typed(rows, c)) - 1
        /\ Len(LastRow(before)) = NUM_COLS
    BY <1>1, <1>4, OwnFacts DEF Placed
  <2>2. /\ WellFormed(rows) /\ before \in Seq(Seq(RowChars)) /\ Len(before) = Len(rows)
        /\ \A k \in 1 .. Len(before) : Len(before[k]) <= NUM_COLS
        /\ Len(before) \in 1 .. NUM_ROWS
    BY OwnFacts, BeforeFacts, ZenonT(30) DEF WellFormed
  <2>3. Typed(rows, c) = Broken(before)
    BY <2>1, TypedIsBroken
  <2>4. Len(LastRow(Typed(rows, c))) = 0
    BY <2>2, <2>3, BrokenFacts
  <2>5. QED
    BY <1>2, <2>1, <2>4 DEF Placed
<1>5. Printed(rows, p) = Printed(rows, prog[t])
  BY <1>1, <1>2 DEF Printed
<1>6. QED
  BY <1>1, <1>3, <1>4, <1>5, MoveKeeps DEF Labels

(* screen_x %= NUM_COLS                                                       *)
LEMMA ModXKeeps ==
    ASSUME ScreenInv, NEW t \in Terms, t = active_terminal,
           Moves(t, "mod_x", screen_x[lib_active] % NUM_COLS, screen_y[lib_active]),
           Goto(t, "mod_y"), NoHistory
    PROVE  ScreenInv'
<1> DEFINE c == prog[t].char
           p == Moved(prog[t], "mod_y")
           rows == text[t]
           n == Len(LastRow(Typed(rows, c)))
<1>1. prog[t].pc = "mod_x" /\ c # NL /\ Inner(t)
  BY DEF Moves, StaysAt, ScreenInv, ProgTypes, Printing, Inner
<1>2. p.pc = "mod_y" /\ p.char = c
  BY <1>1, GotoFacts DEF ScreenInv, Labels
<1>3. screen_x[lib_active] % NUM_COLS \in Nat /\ screen_y[lib_active] \in Int
  <2>1. screen_x[lib_active] \in Nat /\ NUM_COLS \in Nat /\ NUM_COLS > 0
    BY OwnFacts, Sizes
  <2>2. QED
    BY <2>1, OwnFacts
<1>4. ASSUME t \notin torn
      PROVE  Placed(rows, p, screen_x[lib_active] % NUM_COLS, screen_y[lib_active])
  <2>1. /\ lib_active = t /\ screen_x[t] = n /\ screen_y[t] = Len(Typed(rows, c)) - 1
    BY <1>1, <1>4, OwnFacts DEF Placed
  <2>2. WellFormed(Typed(rows, c))
    BY OwnFacts, TypedFacts
  <2>3. n \in Nat /\ n < NUM_COLS
    BY <2>2, TextFacts
  <2> HIDE DEF n
  <2>4. n \in 0 .. NUM_COLS - 1 /\ NUM_COLS \in Nat \ {0}
    BY <2>3, Sizes
  <2>5. n % NUM_COLS = n
    BY <2>4, SmallMod
  <2>6. QED
    BY <1>2, <2>1, <2>5 DEF Placed, n
<1>5. Printed(rows, p) = Printed(rows, prog[t])
  BY <1>1, <1>2 DEF Printed
<1>6. QED
  BY <1>1, <1>3, <1>4, <1>5, MoveKeeps DEF Labels

(* The steps of the calls outside putc and new_line: the count of t becomes n,*)
(* and the program goes to p.                                                 *)
LEMMA CallKeeps ==
    ASSUME ScreenInv, NEW t \in Terms, t = active_terminal,
           prog[t].pc \in {"user", "load", "incr", "next"},
           NEW p \in Places, p.pc \in {"user", "load", "incr", "next", "begin"},
           p.pc \in Printing => p.char # NL,
           NEW n \in 0 .. MostCounted, p.pc = "load" => n <= MAX_CHARS_IN_BUF,
           NEW wrong \in SUBSET Terms, miscounted' = wrong,
           \A u \in Terms \ {t} : u \in wrong <=> u \in miscounted,
           t \notin wrong =>
               \/ n = 0
               \/ /\ t \notin miscounted
                  /\ n <= num_chars_in_buf[t] + (IF p.pc = "begin" /\ p.char # NL THEN 1 ELSE 0),
           UNCHANGED <<active_terminal, term_vid_mem, mouseVars>>,
           UNCHANGED <<posVars, video_mem, faulted>>, NoHistory,
           prog' = [prog EXCEPT ![t] = p],
           num_chars_in_buf' = [num_chars_in_buf EXCEPT ![t] = n]
    PROVE  ScreenInv'
<1>1. CursorTypes /\ num_chars_in_buf \in [Terms -> 0 .. MostCounted]
  BY DEF ScreenInv, CursorTypes
<1>2. /\ active_terminal' = active_terminal /\ lib_active' = lib_active
      /\ screen_x' = screen_x /\ screen_y' = screen_y
      /\ video_mem' = video_mem /\ faulted' = faulted
  BY DEF posVars
<1>3. num_chars_in_buf'[t] = n /\ \A u \in Terms : u # t => num_chars_in_buf'[u] = num_chars_in_buf[u]
  BY <1>1
<1>4. CursorTypes'
  BY <1>1, <1>2 DEF CursorTypes
<1>5. ASSUME t \notin torn
      PROVE  /\ Placed(text[t], p, screen_x'[t], screen_y'[t])
             /\ Erasable(text[t], p, num_chars_in_buf'[t], t, miscounted')
  <2>1. /\ Placed(text[t], prog[t], screen_x[t], screen_y[t])
        /\ Erasable(text[t], prog[t], num_chars_in_buf[t], t, miscounted)
        /\ num_chars_in_buf[t] \in Nat
    BY <1>5, OwnFacts
  <2>2. Placed(text[t], p, screen_x'[t], screen_y'[t])
    BY <1>2, <2>1 DEF Placed
  <2>3. Pos(text[t]) \in Nat
    BY OwnFacts, PosIsNat
  <2>4. t \notin miscounted => num_chars_in_buf[t] <= Pos(text[t])
    BY <2>1, <2>3 DEF Erasable
  <2>5. n \in Nat
    BY Sizes
  <2>6. t \notin wrong => n <= Pos(text[t]) + (IF p.pc = "begin" /\ p.char # NL THEN 1 ELSE 0)
    BY <2>1, <2>3, <2>4, <2>5
  <2>7. Erasable(text[t], p, n, t, wrong)
    BY <2>6 DEF Erasable
  <2>8. QED
    BY <1>3, <2>2, <2>7
<1>6. \A u \in Terms \ torn : u # t =>
          /\ screen_x'[u] = screen_x[u] /\ screen_y'[u] = screen_y[u]
          /\ num_chars_in_buf'[u] = num_chars_in_buf[u] /\ (u \in miscounted' <=> u \in miscounted)
  BY <1>2, <1>3
<1>7. Printed(text[t], p) = Printed(text[t], prog[t])
  BY DEF Printed
<1>8. p.pc = "load" => num_chars_in_buf'[t] <= MAX_CHARS_IN_BUF
  BY <1>3
<1>9. p.pc \notin {"user", "load", "incr", "next", "begin"} => Inner(t)
  OBVIOUS
<1>10. QED
  BY <1>2, <1>3, <1>4, <1>5, <1>6, <1>7, <1>8, <1>9, QuietKeeps

(* The count stays as it is.                                                  *)
LEMMA SameCountKeeps ==
    ASSUME ScreenInv, NEW t \in Terms, t = active_terminal,
           prog[t].pc \in {"user", "load", "incr", "next"},
           NEW p \in Places, p.pc \in {"user", "load", "incr", "next", "begin"},
           p.pc \in Printing => p.char # NL,
           p.pc = "load" => num_chars_in_buf[t] < MAX_CHARS_IN_BUF,
           UNCHANGED <<active_terminal, term_vid_mem, mouseVars>>,
           UNCHANGED <<posVars, video_mem, faulted, countVars>>, NoHistory, Goes(t, p)
    PROVE  ScreenInv'
<1> DEFINE n == num_chars_in_buf[t]
<1>1. n \in 0 .. MostCounted /\ miscounted \in SUBSET Terms
      /\ num_chars_in_buf \in [Terms -> 0 .. MostCounted]
  BY DEF ScreenInv, CursorTypes
<1>2. num_chars_in_buf' = num_chars_in_buf /\ miscounted' = miscounted
  BY DEF countVars
<1>3. num_chars_in_buf' = [num_chars_in_buf EXCEPT ![t] = n]
  BY <1>1, <1>2
<1>4. prog' = [prog EXCEPT ![t] = p] /\ UNCHANGED <<posVars, video_mem, faulted>>
  BY DEF Goes
<1>5. n \in Int /\ MAX_CHARS_IN_BUF \in Int
  BY <1>1, Sizes
<1> HIDE DEF n
<1>6. n <= n + (IF p.pc = "begin" /\ p.char # NL THEN 1 ELSE 0)
  BY <1>5
<1>7. p.pc = "load" => n <= MAX_CHARS_IN_BUF
  BY <1>5 DEF n
<1>8. QED
  BY <1>1, <1>2, <1>3, <1>4, <1>6, <1>7, CallKeeps DEF n

LEMMA PlaceFacts ==
    ASSUME NEW pc \in Labels, NEW call \in {"none", "read", "write"},
           NEW c \in Chars \cup {NL}, NEW n \in 0 .. MAX_CHARS_IN_BUF
    PROVE  /\ Place(pc, call, c, n) \in Places
           /\ Place(pc, call, c, n).pc = pc /\ Place(pc, call, c, n).char = c
  BY DEF Place, Places

(* The test of add_char_to_buffer                                             *)
LEMMA WriteTestKeeps ==
    ASSUME ScreenInv, NEW t \in Terms, t = active_terminal, WriteTest(t)
    PROVE  ScreenInv'
<1>1. /\ prog[t].pc \in {"user", "load", "incr", "next"}
      /\ UNCHANGED <<active_terminal, term_vid_mem, mouseVars>>
      /\ UNCHANGED <<posVars, video_mem, faulted, countVars>> /\ NoHistory
  BY DEF WriteTest, StaysAt
<1>2. PICK p : /\ Goes(t, p)
               /\ \/ /\ num_chars_in_buf[t] < MAX_CHARS_IN_BUF
                     /\ \E c \in Chars : p = Place("load", "write", c, 0)
                  \/ p = Place("begin", "write", NL, 0)
                  \/ p = Place("next", "write", NL, 0)
  BY DEF WriteTest, HasRoom
<1>3. 0 \in 0 .. MAX_CHARS_IN_BUF /\ {"load", "begin", "next"} \subseteq Labels
      /\ NL \notin Chars
  BY Sizes, ScreenAssumption DEF Labels
<1>4. CASE num_chars_in_buf[t] < MAX_CHARS_IN_BUF /\ \E c \in Chars : p = Place("load", "write", c, 0)
  <2>1. PICK c \in Chars : p = Place("load", "write", c, 0)
    BY <1>4
  <2>2. p \in Places /\ p.pc = "load" /\ p.char = c /\ c # NL
    BY <1>3, <2>1, PlaceFacts
  <2>3. QED
    BY <1>1, <1>2, <1>4, <2>2, SameCountKeeps
<1>5. CASE p = Place("begin", "write", NL, 0)
  <2>1. p \in Places /\ p.pc = "begin"
    BY <1>3, <1>5, PlaceFacts
  <2>2. QED
    BY <1>1, <1>2, <2>1, SameCountKeeps DEF Printing
<1>6. CASE p = Place("next", "write", NL, 0)
  <2>1. p \in Places /\ p.pc = "next"
    BY <1>3, <1>6, PlaceFacts
  <2>2. QED
    BY <1>1, <1>2, <2>1, SameCountKeeps DEF Printing
<1>7. QED
  BY <1>2, <1>4, <1>5, <1>6

(* The load of num_chars_in_buf[term]++                                       *)
LEMMA WriteLoadKeeps ==
    ASSUME ScreenInv, NEW t \in Terms, t = active_terminal, WriteLoad(t)
    PROVE  ScreenInv'
<1> DEFINE c == prog[t].char
           n == num_chars_in_buf[t]
           p == Place("incr", "write", c, n)
<1>1. /\ prog[t].pc = "load" /\ Goes(t, p)
      /\ UNCHANGED <<active_terminal, term_vid_mem, mouseVars>>
      /\ UNCHANGED <<posVars, video_mem, faulted, countVars>> /\ NoHistory
  BY DEF WriteLoad, StaysAt
<1>2. c \in Chars \cup {NL} /\ n \in Nat /\ c # NL
  BY <1>1, OwnFacts DEF ScreenInv, ProgTypes, Printing
<1>3. n \in 0 .. MAX_CHARS_IN_BUF
  BY <1>1, <1>2, Sizes DEF ScreenInv, LoadSafe
<1> HIDE DEF n, c
<1>4. p \in Places /\ p.pc = "incr" /\ p.char = c
  BY <1>2, <1>3, PlaceFacts DEF Labels
<1> HIDE DEF p
<1>5. QED
  BY <1>1, <1>2, <1>4, SameCountKeeps

(* The store of num_chars_in_buf[term]++                                      *)
LEMMA WriteIncrementKeeps ==
    ASSUME ScreenInv, NEW t \in Terms, t = active_terminal, WriteIncrement(t)
    PROVE  ScreenInv'
<1> DEFINE c == prog[t].char
           k == prog[t].loaded
           n == k + 1
           p == Place("begin", "write", c, 0)
           wrong == miscounted \cup (IF num_chars_in_buf[t] < k THEN {t} ELSE {})
<1>1. /\ prog[t].pc = "incr" /\ Goes(t, p)
      /\ num_chars_in_buf' = [num_chars_in_buf EXCEPT ![t] = n] /\ miscounted' = wrong
      /\ UNCHANGED <<active_terminal, term_vid_mem, mouseVars>>
      /\ UNCHANGED <<posVars, video_mem, faulted>> /\ NoHistory
  BY DEF WriteIncrement, StaysAt
<1>2. prog[t] \in Places /\ c \in Chars \cup {NL} /\ num_chars_in_buf[t] \in Nat
  BY OwnFacts
<1>3. k \in 0 .. MAX_CHARS_IN_BUF /\ c # NL
  BY <1>1, <1>2 DEF Places, ScreenInv, ProgTypes, Printing
<1>4. wrong \in SUBSET Terms /\ \A u \in Terms \ {t} : u \in wrong <=> u \in miscounted
  BY DEF ScreenInv, CursorTypes
<1>5. t \notin wrong => t \notin miscounted /\ ~ num_chars_in_buf[t] < k
  OBVIOUS
<1> HIDE DEF k, c, wrong
<1>6. p \in Places /\ p.pc = "begin" /\ p.char = c
  <2>1. 0 \in 0 .. MAX_CHARS_IN_BUF /\ "begin" \in Labels
    BY Sizes DEF Labels
  <2>2. QED
    BY <1>2, <2>1, PlaceFacts
<1>7. n \in 0 .. MostCounted
  BY <1>3, Sizes
<1> HIDE DEF p
<1>8. t \notin wrong =>
          /\ t \notin miscounted
          /\ n <= num_chars_in_buf[t] + (IF p.pc = "begin" /\ p.char # NL THEN 1 ELSE 0)
  BY <1>2, <1>3, <1>5, <1>6, Sizes
<1> HIDE DEF n
<1>9. prog' = [prog EXCEPT ![t] = p]
  BY <1>1 DEF Goes
<1>10. QED
  BY <1>1, <1>3, <1>4, <1>6, <1>7, <1>8, <1>9, CallKeeps

LEMMA ReadReturnsKeeps ==
    ASSUME ScreenInv, NEW t \in Terms, t = active_terminal, ReadReturns(t)
    PROVE  ScreenInv'
<1> DEFINE p == Place("begin", "read", NL, 0)
<1>1. p \in Places /\ p.pc = "begin"
  BY Sizes, PlaceFacts DEF Labels
<1>2. /\ prog[t].pc = "user" /\ Goes(t, p)
      /\ UNCHANGED <<active_terminal, term_vid_mem, mouseVars>>
      /\ UNCHANGED <<posVars, video_mem, faulted, countVars>> /\ NoHistory
  BY DEF ReadReturns, StaysAt
<1> HIDE DEF p
<1>3. QED
  BY <1>1, <1>2, SameCountKeeps DEF Printing

LEMMA CallReturnsKeeps ==
    ASSUME ScreenInv, NEW t \in Terms, t = active_terminal, CallReturns(t)
    PROVE  ScreenInv'
<1> DEFINE wrong == miscounted \ {t}
<1>1. Idle \in Places /\ Idle.pc = "user"
  BY Sizes, PlaceFacts DEF Idle, Labels
<1>2. /\ prog[t].pc \in {"user", "load", "incr", "next"}
      /\ UNCHANGED <<active_terminal, term_vid_mem, mouseVars>>
      /\ UNCHANGED <<posVars, video_mem, faulted>> /\ NoHistory
      /\ prog' = [prog EXCEPT ![t] = Idle] /\ miscounted' = wrong
      /\ num_chars_in_buf' = [num_chars_in_buf EXCEPT ![t] = 0]
  BY DEF CallReturns, StaysAt, Goes
<1>3. 0 \in 0 .. MostCounted /\ Idle.pc \notin Printing
  BY <1>1, Sizes DEF Printing
<1>4. wrong \in SUBSET Terms /\ \A u \in Terms \ {t} : u \in wrong <=> u \in miscounted
  BY DEF ScreenInv, CursorTypes
<1> HIDE DEF wrong
<1>5. QED
  BY <1>1, <1>2, <1>3, <1>4, CallKeeps

(* The variable of lib.c stays, or is that of a torn terminal.                *)
LEMMA CursorKept ==
    ASSUME ScreenInv, NEW t \in Terms, NEW p, prog' = [prog EXCEPT ![t] = p], Inner(t),
           lib_active' = lib_active, NEW rows, NEW ts, Follow(t, rows, ts)
    PROVE  OwnCursor' /\ torn \subseteq torn'
<1>1. torn \subseteq torn'
  BY DEF Follow
<1>2. \A u \in Terms : Inner(u)' => Inner(u)
  BY DEF ScreenInv, ProgTypes, Inner
<1>3. QED
  BY <1>1, <1>2 DEF ScreenInv, OwnCursor

(* What the page shows while the program is in putc.                          *)
LEMMA OwnTraces ==
    ASSUME ScreenInv, NEW t \in Terms, t = active_terminal, t \notin torn \cup raw
    PROVE  Traces(video_mem, Printed(text[t], prog[t]), drawn, mouse_at, prev_char)
<1>1. Shows(video_mem, Printed(text[t], prog[t]), drawn, mouse_at, prev_char)
  BY DEF ScreenInv, PageShown
<1>2. mouse_at \in Nat
  BY MouseFacts DEF ScreenInv
<1>3. QED
  BY <1>1, <1>2, ShownIsTraced

(* active_terminal = get_active_terminal()                                    *)
LEMMA SetTerminalKeeps ==
    ASSUME ScreenInv, NEW t \in Terms, t = active_terminal, ~ faulted, SetTerminal(t)
    PROVE  ScreenInv'
<1> DEFINE c == prog[t].char
           rows == text[t]
           ts == TornBy(t, Terms \ {t})
           label == IF prog[t].pc = "begin" /\ c # NL THEN "store" ELSE "last_row"
           p == Moved(prog[t], label)
<1>1. /\ \/ prog[t].pc = "begin"
         \/ prog[t].pc = "wrap" /\ screen_x[lib_active] = NUM_COLS
      /\ Goto(t, label)
  BY DEF SetTerminal, StaysAt
<1>2. /\ lib_active' = t /\ Follow(t, rows, ts)
      /\ screen_x' = screen_x /\ screen_y' = screen_y /\ video_mem' = video_mem
      /\ faulted' = faulted /\ num_chars_in_buf' = num_chars_in_buf /\ miscounted' = miscounted
      /\ active_terminal' = active_terminal
      /\ UNCHANGED <<term_vid_mem, mouseVars, raw>>
  BY DEF SetTerminal, StaysAt, countVars
<1>3. label \in Labels /\ (label \in Printing => c # NL)
  BY DEF Labels, Printing
<1>4. /\ p \in Places /\ p.pc = label /\ p.char = c
      /\ prog' = [prog EXCEPT ![t] = p] /\ (p.pc \in Printing => p.char # NL)
  BY <1>1, <1>3, GotoFacts DEF ScreenInv
<1>5. WellFormed(rows) /\ c \in Chars \cup {NL}
  BY OwnFacts
<1>6. ts \in SUBSET Terms
  BY DEF TornBy
<1>7. HistTypes' /\ torn \subseteq torn' /\ ts \subseteq torn'
  BY <1>2, <1>5, <1>6, FollowFacts DEF ScreenInv
<1>8. CursorTypes' /\ FaultOnlyWhenTorn' /\ video_mem' \in Pages
  BY <1>2 DEF ScreenInv, CursorTypes, PageTypes, FaultOnlyWhenTorn
<1>9. OwnCursor'
  <2>1. \A u \in Terms \ {t} : prog'[u] = prog[u]
    BY <1>4 DEF ScreenInv, ProgTypes
  <2>2. ASSUME NEW u \in Terms, u # t, Inner(u)'
        PROVE  u \in torn' /\ t \in torn'
    <3>1. Inside(u)
      BY <2>1, <2>2, NotInside DEF Inner, ScreenInv
    <3>2. QED
      BY <1>7, <2>2, <3>1 DEF TornBy
  <2>3. QED
    BY <1>2, <2>2 DEF OwnCursor
<1>10. \/ prog[t].pc = "begin" /\ c # NL /\ label = "store"
       \/ prog[t].pc = "begin" /\ c = NL /\ label = "last_row"
       \/ prog[t].pc = "wrap" /\ screen_x[lib_active] = NUM_COLS /\ label = "last_row"
  BY <1>1
<1> HIDE DEF label, p
<1>11. ASSUME t \notin torn
       PROVE  /\ Placed(rows, p, screen_x[t], screen_y[t])
              /\ Erasable(rows, p, num_chars_in_buf[t], t, miscounted)
              /\ Printed(rows, p) = Printed(rows, prog[t])
  <2>1. /\ Placed(rows, prog[t], screen_x[t], screen_y[t])
        /\ Erasable(rows, prog[t], num_chars_in_buf[t], t, miscounted)
        /\ Inner(t) => lib_active = t
    BY <1>11, OwnFacts
  <2>2. Erasable(rows, p, num_chars_in_buf[t], t, miscounted)
    BY <1>4, <1>10, <2>1 DEF Erasable
  <2>3. CASE prog[t].pc = "begin" /\ c # NL /\ label = "store"
    BY <1>4, <2>1, <2>2, <2>3 DEF Placed, Printed
  <2>4. CASE prog[t].pc = "begin" /\ c = NL /\ label = "last_row"
    <3>1. Before(rows, c) = rows
      BY <2>4 DEF Before
    <3>2. QED
      BY <1>4, <2>1, <2>2, <2>4, <3>1 DEF Placed, Printed
  <2>5. CASE prog[t].pc = "wrap" /\ screen_x[lib_active] = NUM_COLS /\ label = "last_row"
    <3>1. screen_x[t] = NUM_COLS
      BY <2>1, <2>5 DEF Inner
    <3>2. QED
      BY <1>4, <2>1, <2>2, <2>5, <3>1 DEF Placed, Printed
  <2>6. QED
    BY <1>10, <2>3, <2>4, <2>5
<1>12. t \notin torn' => /\ Placed(rows, p, screen_x'[t], screen_y'[t])
                         /\ Erasable(rows, p, num_chars_in_buf'[t], t, miscounted')
  BY <1>2, <1>7, <1>11
<1>13. t \notin torn' \cup raw =>
           Traces(video_mem', Printed(rows, p), drawn, mouse_at, prev_char)
  BY <1>2, <1>7, <1>11, OwnTraces
<1>14. \A u \in Terms \ torn : u # t /\ u \notin torn' =>
           /\ screen_x'[u] = screen_x[u] /\ screen_y'[u] = screen_y[u]
           /\ num_chars_in_buf'[u] = num_chars_in_buf[u] /\ (u \in miscounted' <=> u \in miscounted)
  BY <1>2
<1>15. p.pc # "load" /\ \A u \in Terms \ {t} : num_chars_in_buf'[u] = num_chars_in_buf[u]
  BY <1>2, <1>4, <1>10
<1>16. QED
  BY <1>2, <1>4, <1>5, <1>6, <1>8, <1>9, <1>12, <1>13, <1>14, <1>15, FollowKeeps

(* *(video_mem + position) = c, in putc                                       *)
LEMMA StoreKeeps ==
    ASSUME ScreenInv, NEW t \in Terms, t = active_terminal, Store(t)
    PROVE  ScreenInv'
<1> DEFINE c == prog[t].char
           rows == text[t]
           x == screen_x[lib_active]
           y == screen_y[lib_active]
           s == Page(Visible, At(x, y), c)
           p == Moved(prog[t], "advance")
           after == Before(rows, c)
<1>1. /\ prog[t].pc = "store" /\ Goto(t, "advance")
      /\ video_mem' = s.page /\ faulted' = s.fault
      /\ Follow(t, rows, {})
      /\ active_terminal' = active_terminal
      /\ lib_active' = lib_active /\ screen_x' = screen_x /\ screen_y' = screen_y
      /\ num_chars_in_buf' = num_chars_in_buf /\ miscounted' = miscounted
      /\ UNCHANGED <<term_vid_mem, mouseVars, raw>>
  BY DEF Store, StaysAt, posVars, countVars
<1>2. c # NL /\ c \in Chars /\ c \in ScreenChars /\ Inner(t) /\ "advance" \in Labels
  BY <1>1, OwnFacts DEF ScreenInv, ProgTypes, Printing, Inner, ScreenChars, Labels
<1>3. /\ p \in Places /\ p.pc = "advance" /\ p.char = c
      /\ prog' = [prog EXCEPT ![t] = p] /\ (p.pc \in Printing => p.char # NL)
  BY <1>1, <1>2, GotoFacts DEF ScreenInv
<1>4. WellFormed(rows)
  BY OwnFacts
<1>5. OwnCursor' /\ torn \subseteq torn'
  BY <1>1, <1>2, <1>3, CursorKept
<1>6. Visible \in Screens /\ Visible.page = video_mem /\ Visible.fault = FALSE
  <2>1. Visible \in Screens /\ Visible.page = video_mem
    BY BothFacts DEF Sound
  <2>2. QED
    BY <2>1 DEF Visible
<1>7. /\ s \in Screens
      /\ At(x, y) \in Cells => s.page = Written(video_mem, At(x, y), c) /\ s.fault = FALSE
  BY <1>2, <1>6, PageFacts
<1> HIDE DEF s
<1>8. video_mem' \in Pages /\ CursorTypes'
  BY <1>1, <1>7 DEF Screens, ScreenInv, CursorTypes
<1>9. ASSUME t \notin torn
      PROVE  /\ lib_active = t /\ x = Len(LastRow(rows)) /\ y = Len(rows) - 1
             /\ x \in Cols /\ y \in RowNos /\ At(x, y) \in Cells
             /\ Erasable(rows, p, num_chars_in_buf[t], t, miscounted)
  <2>1. /\ lib_active = t /\ x = Len(LastRow(rows)) /\ y = Len(rows) - 1
        /\ Erasable(rows, prog[t], num_chars_in_buf[t], t, miscounted)
    BY <1>1, <1>2, <1>9, OwnFacts DEF Placed
  <2>2. /\ Len(rows) \in Nat /\ Len(rows) >= 1 /\ Len(rows) <= NUM_ROWS
        /\ Len(LastRow(rows)) \in Nat /\ Len(LastRow(rows)) < NUM_COLS
    BY <1>4, TextFacts
  <2>3. x \in Cols /\ y \in RowNos
    BY <2>1, <2>2, Sizes DEF Cols, RowNos
  <2>4. At(x, y) \in Cells
    BY <2>3, CellOf
  <2>5. Erasable(rows, p, num_chars_in_buf[t], t, miscounted)
    BY <1>1, <1>3, <2>1 DEF Erasable
  <2>6. QED
    BY <2>1, <2>3, <2>4, <2>5
<1>10. FaultOnlyWhenTorn'
  BY <1>1, <1>5, <1>7, <1>9 DEF FaultOnlyWhenTorn
<1>11. ASSUME t \notin torn'
       PROVE  /\ Placed(rows, p, screen_x'[t], screen_y'[t])
              /\ Erasable(rows, p, num_chars_in_buf'[t], t, miscounted')
  <2>1. /\ screen_x'[t] = Len(LastRow(rows)) /\ screen_y'[t] = Len(rows) - 1
        /\ Erasable(rows, p, num_chars_in_buf'[t], t, miscounted')
    BY <1>1, <1>5, <1>9, <1>11
  <2>2. QED
    BY <1>3, <2>1 DEF Placed
<1>12. ASSUME t \notin torn' \cup raw
       PROVE  Traces(video_mem', Printed(rows, p), drawn, mouse_at, prev_char)
  <2>1. t \notin torn
    BY <1>5, <1>12
  <2>2. /\ video_mem' = Written(video_mem, At(x, y), c)
        /\ x = Len(LastRow(rows)) /\ y = Len(rows) - 1 /\ x \in Cols /\ y \in RowNos
    BY <1>1, <1>7, <1>9, <2>1
  <2>3. Printed(rows, prog[t]) = rows /\ Printed(rows, p) = after
    BY <1>1, <1>3 DEF Printed
  <2>4. Traces(video_mem, rows, drawn, mouse_at, prev_char)
    BY <1>12, <2>1, <2>3, OwnTraces
  <2> HIDE DEF x, y
  <2>5. \A u \in Cols, v \in RowNos :
            Char(after, v, u) = IF v = y /\ u = x THEN c ELSE Char(rows, v, u)
    BY <1>2, <1>4, <2>2, BeforeFacts
  <2>6. video_mem \in Pages
    BY DEF ScreenInv, PageTypes
  <2> HIDE DEF after, c
  <2>7. Traces(Written(video_mem, At(x, y), c), after, drawn, mouse_at, prev_char)
    BY <1>2, <2>2, <2>4, <2>5, <2>6, WrittenTraces
  <2>8. QED
    BY <2>2, <2>3, <2>7
<1>13. \A u \in Terms \ torn : u # t /\ u \notin torn' =>
           /\ screen_x'[u] = screen_x[u] /\ screen_y'[u] = screen_y[u]
           /\ num_chars_in_buf'[u] = num_chars_in_buf[u] /\ (u \in miscounted' <=> u \in miscounted)
  BY <1>1
<1>14. {} \in SUBSET Terms
  OBVIOUS
<1>15. p.pc # "load" /\ \A u \in Terms \ {t} : num_chars_in_buf'[u] = num_chars_in_buf[u]
  BY <1>1, <1>3
<1> HIDE DEF p, rows, c
<1>16. QED
  BY <1>1, <1>3, <1>4, <1>5, <1>8, <1>10, <1>11, <1>12, <1>13, <1>14, <1>15, FollowKeeps

(* The loops of new_line that move the rows up.                               *)
LEMMA ScrollKeeps ==
    ASSUME ScreenInv, NEW t \in Terms, t = active_terminal, Scroll(t)
    PROVE  ScreenInv'
<1> DEFINE c == prog[t].char
           rows == text[t]
           before == Before(rows, c)
           p == Moved(prog[t], "bottom")
<1>1. /\ prog[t].pc = "scroll" /\ Goto(t, "bottom")
      /\ video_mem' = Scrolled(video_mem) /\ faulted' = faulted
      /\ Follow(t, rows, {})
      /\ active_terminal' = active_terminal
      /\ lib_active' = lib_active /\ screen_x' = screen_x /\ screen_y' = screen_y
      /\ num_chars_in_buf' = num_chars_in_buf /\ miscounted' = miscounted
      /\ UNCHANGED <<term_vid_mem, mouseVars, raw>>
  BY DEF Scroll, StaysAt, posVars, countVars
<1>2. Inner(t) /\ "bottom" \in Labels /\ "bottom" \notin Printing
  BY <1>1 DEF Inner, Labels, Printing
<1>3. /\ p \in Places /\ p.pc = "bottom" /\ p.char = c
      /\ prog' = [prog EXCEPT ![t] = p] /\ (p.pc \in Printing => p.char # NL)
  BY <1>1, <1>2, GotoFacts DEF ScreenInv
<1>4. WellFormed(rows) /\ c \in Chars \cup {NL}
  BY OwnFacts
<1>5. OwnCursor' /\ torn \subseteq torn'
  BY <1>1, <1>2, <1>3, CursorKept
<1>6. video_mem \in Pages
  BY DEF ScreenInv, PageTypes
<1>7. video_mem' \in Pages /\ CursorTypes'
  BY <1>1, <1>6, ScrolledFacts DEF ScreenInv, CursorTypes
<1>8. FaultOnlyWhenTorn'
  BY <1>1, <1>5 DEF ScreenInv, FaultOnlyWhenTorn
<1>9. ASSUME t \notin torn
      PROVE  /\ Placed(rows, prog[t], screen_x[t], screen_y[t])
             /\ Placed(rows, p, screen_x[t], screen_y[t])
             /\ Erasable(rows, p, num_chars_in_buf[t], t, miscounted)
  <2>1. /\ Placed(rows, prog[t], screen_x[t], screen_y[t])
        /\ Erasable(rows, prog[t], num_chars_in_buf[t], t, miscounted)
    BY <1>9, OwnFacts
  <2>2. QED
    BY <1>1, <1>3, <2>1 DEF Placed, Erasable
<1>10. t \notin torn' => /\ Placed(rows, p, screen_x'[t], screen_y'[t])
                         /\ Erasable(rows, p, num_chars_in_buf'[t], t, miscounted')
  BY <1>1, <1>5, <1>9
<1>11. ASSUME t \notin torn' \cup raw
       PROVE  Traces(video_mem', Printed(rows, p), drawn, mouse_at, prev_char)
  <2>1. t \notin torn
    BY <1>5, <1>11
  <2>2. /\ Len(rows) = NUM_ROWS
        /\ c = NL \/ Len(LastRow(before)) = NUM_COLS
    BY <1>1, <1>9, <2>1 DEF Placed
  <2>3. Typed(rows, c) = Broken(before)
    BY <2>2, TypedIsBroken
  <2>4. Printed(rows, prog[t]) = before /\ Printed(rows, p) = Broken(before)
    BY <1>1, <1>3, <2>3 DEF Printed
  <2>5. Traces(video_mem, before, drawn, mouse_at, prev_char)
    BY <1>11, <2>1, <2>4, OwnTraces
  <2>6. /\ before \in Seq(Seq(RowChars)) /\ Len(before) = NUM_ROWS
        /\ \A k \in 1 .. Len(before) : Len(before[k]) <= NUM_COLS
    BY <1>4, <2>2, BeforeFacts
  <2>7. mouse_at \in Nat
    BY MouseFacts DEF ScreenInv
  <2> HIDE DEF before
  <2>8. Traces(Scrolled(video_mem), Broken(before), drawn, mouse_at, prev_char)
    BY <1>6, <2>5, <2>6, <2>7, ScrolledTraces
  <2>9. QED
    BY <1>1, <2>4, <2>8
<1>12. \A u \in Terms \ torn : u # t /\ u \notin torn' =>
           /\ screen_x'[u] = screen_x[u] /\ screen_y'[u] = screen_y[u]
           /\ num_chars_in_buf'[u] = num_chars_in_buf[u] /\ (u \in miscounted' <=> u \in miscounted)
  BY <1>1
<1>13. {} \in SUBSET Terms
  OBVIOUS
<1>14. p.pc # "load" /\ \A u \in Terms \ {t} : num_chars_in_buf'[u] = num_chars_in_buf[u]
  BY <1>1, <1>3
<1> HIDE DEF p, rows, c
<1>15. QED
  BY <1>1, <1>3, <1>4, <1>5, <1>7, <1>8, <1>10, <1>11, <1>12, <1>13, <1>14, FollowKeeps

(* The last statement of putc or of a new_line that was asked for.            *)
LEMMA DoneKeeps ==
    ASSUME ScreenInv, NEW t \in Terms, t = active_terminal,
           NEW from \in {"home", "mod_y"}, NEW x \in Nat, NEW y \in Int,
           Moves(t, from, x, y), Done(t),
           t \notin torn => /\ x = Len(LastRow(Typed(text[t], prog[t].char)))
                            /\ y = Len(Typed(text[t], prog[t].char)) - 1
    PROVE  ScreenInv'
<1> DEFINE c == prog[t].char
           rows == text[t]
           typed == Typed(rows, c)
           p == Moved(prog[t], "next")
<1>1. prog[t].pc = from /\ Goto(t, "next") /\ Follow(t, typed, {}) /\ raw' = raw
  BY DEF Moves, StaysAt, Done
<1>2. Inner(t) /\ "next" \in Labels /\ "next" \notin Printing
  BY <1>1 DEF Inner, Labels, Printing
<1>3. /\ p \in Places /\ p.pc = "next" /\ p.char = c
      /\ prog' = [prog EXCEPT ![t] = p] /\ (p.pc \in Printing => p.char # NL)
  BY <1>1, <1>2, GotoFacts DEF ScreenInv
<1>4. /\ CursorTypes'
      /\ UNCHANGED <<active_terminal, term_vid_mem, mouseVars>>
      /\ active_terminal' = active_terminal
      /\ lib_active' = lib_active /\ video_mem' = video_mem /\ faulted' = faulted
      /\ num_chars_in_buf' = num_chars_in_buf /\ miscounted' = miscounted
      /\ \A u \in Terms \ torn : u # t =>
             /\ screen_x'[u] = screen_x[u] /\ screen_y'[u] = screen_y[u]
             /\ num_chars_in_buf'[u] = num_chars_in_buf[u] /\ (u \in miscounted' <=> u \in miscounted)
      /\ t \notin torn => screen_x'[t] = x /\ screen_y'[t] = y
  BY <1>2, MovesFacts
<1>5. OwnCursor' /\ torn \subseteq torn'
  BY <1>1, <1>2, <1>3, <1>4, CursorKept
<1>6. WellFormed(rows) /\ c \in Chars \cup {NL} /\ num_chars_in_buf[t] \in Nat
  BY OwnFacts
<1>7. WellFormed(typed)
  BY <1>6, TypedFacts
<1>8. video_mem' \in Pages /\ FaultOnlyWhenTorn'
  BY <1>4, <1>5 DEF ScreenInv, PageTypes, FaultOnlyWhenTorn
<1>9. ASSUME t \notin torn'
      PROVE  /\ Placed(typed, p, screen_x'[t], screen_y'[t])
             /\ Erasable(typed, p, num_chars_in_buf'[t], t, miscounted')
  <2>1. /\ t \notin torn /\ Erasable(rows, prog[t], num_chars_in_buf[t], t, miscounted)
        /\ screen_x'[t] = Len(LastRow(typed)) /\ screen_y'[t] = Len(typed) - 1
    BY <1>4, <1>5, <1>9, OwnFacts
  <2>2. Pos(rows) \in Nat /\ Pos(typed) \in Nat
    BY <1>6, <1>7, PosIsNat
  <2>3. /\ t \notin miscounted => num_chars_in_buf[t] <= Pos(rows) + 1
        /\ num_chars_in_buf[t] <= MostCounted
    <3>1. num_chars_in_buf[t] <= MostCounted
      BY Sizes DEF ScreenInv, CursorTypes
    <3>2. QED
      BY <1>6, <2>1, <2>2, <3>1 DEF Erasable
  <2>4. t \notin miscounted => num_chars_in_buf[t] <= Pos(typed)
    BY <1>6, <2>3, TypedFacts
  <2> HIDE DEF typed
  <2>5. Erasable(typed, p, num_chars_in_buf'[t], t, miscounted')
    BY <1>3, <1>4, <1>6, <2>2, <2>4 DEF Erasable
  <2>6. QED
    BY <1>3, <2>1, <2>5 DEF Placed
<1>10. ASSUME t \notin torn' \cup raw
       PROVE  Traces(video_mem', Printed(typed, p), drawn, mouse_at, prev_char)
  <2>1. Printed(rows, prog[t]) = typed /\ Printed(typed, p) = typed
    BY <1>1, <1>3 DEF Printed
  <2>2. QED
    BY <1>4, <1>5, <1>10, <2>1, OwnTraces
<1>11. \A u \in Terms \ torn : u # t /\ u \notin torn' =>
           /\ screen_x'[u] = screen_x[u] /\ screen_y'[u] = screen_y[u]
           /\ num_chars_in_buf'[u] = num_chars_in_buf[u] /\ (u \in miscounted' <=> u \in miscounted)
  BY <1>4
<1>12. UNCHANGED <<term_vid_mem, mouseVars, raw>>
  BY <1>1, <1>4
<1>13. p.pc # "load" /\ \A u \in Terms \ {t} : num_chars_in_buf'[u] = num_chars_in_buf[u]
  BY <1>3, <1>4
<1> HIDE DEF p, typed
<1>14. QED
  BY <1>1, <1>3, <1>4, <1>5, <1>7, <1>8, <1>9, <1>10, <1>11, <1>12, <1>13, FollowKeeps

(* screen_x = 0 at the end of a newline                                       *)
LEMMA NewlineDoneKeeps ==
    ASSUME ScreenInv, NEW t \in Terms, t = active_terminal,
           Moves(t, "home", 0, screen_y[lib_active]), prog[t].char = NL, Done(t)
    PROVE  ScreenInv'
<1> DEFINE rows == text[t]
<1>1. prog[t].pc = "home" /\ Inner(t)
  BY DEF Moves, StaysAt, Inner
<1>2. 0 \in Nat /\ screen_y[lib_active] \in Int
  BY OwnFacts
<1>3. ASSUME t \notin torn
      PROVE  /\ 0 = Len(LastRow(Typed(rows, prog[t].char)))
             /\ screen_y[lib_active] = Len(Typed(rows, prog[t].char)) - 1
  <2>1. lib_active = t /\ screen_y[t] = Len(Typed(rows, prog[t].char)) - 1
    BY <1>1, <1>3, OwnFacts DEF Placed
  <2>2. Typed(rows, prog[t].char) = Broken(rows)
    BY DEF Typed
  <2>3. Len(LastRow(Broken(rows))) = 0
    BY OwnFacts, BrokenFacts DEF WellFormed
  <2>4. QED
    BY <2>1, <2>2, <2>3
<1>4. QED
  BY <1>2, <1>3, DoneKeeps

(* screen_y = (screen_y + screen_x / NUM_COLS) % NUM_ROWS, the end of putc    *)
LEMMA ModYKeeps ==
    ASSUME ScreenInv, NEW t \in Terms, t = active_terminal,
           Moves(t, "mod_y", screen_x[lib_active],
                 (screen_y[lib_active] + (screen_x[lib_active] \div NUM_COLS)) % NUM_ROWS),
           Done(t)
    PROVE  ScreenInv'
<1> DEFINE x == screen_x[lib_active]
           y == screen_y[lib_active]
           typed == Typed(text[t], prog[t].char)
           row == (y + (x \div NUM_COLS)) % NUM_ROWS
<1>1. prog[t].pc = "mod_y" /\ Inner(t)
  BY DEF Moves, StaysAt, Inner
<1>2. x \in Nat /\ y \in Int /\ NUM_COLS \in Nat \ {0} /\ NUM_ROWS \in Nat \ {0}
  BY OwnFacts, Sizes
<1>3. row \in Int
  <2>1. x \div NUM_COLS \in Int
    BY <1>2
  <2>2. QED
    BY <1>2, <2>1
<1>4. ASSUME t \notin torn PROVE x = Len(LastRow(typed)) /\ row = Len(typed) - 1
  <2>1. lib_active = t /\ x = Len(LastRow(typed)) /\ y = Len(typed) - 1
    BY <1>1, <1>4, OwnFacts DEF Placed
  <2>2. WellFormed(typed)
    BY OwnFacts, TypedFacts
  <2>3. /\ Len(typed) \in Nat /\ Len(typed) >= 1 /\ Len(typed) <= NUM_ROWS
        /\ Len(LastRow(typed)) \in Nat /\ Len(LastRow(typed)) < NUM_COLS
    BY <2>2, TextFacts
  <2> HIDE DEF typed, x, y
  <2>4. x \in 0 .. NUM_COLS - 1 /\ y \in 0 .. NUM_ROWS - 1
    BY <1>2, <2>1, <2>3
  <2>5. x \div NUM_COLS = 0 /\ y % NUM_ROWS = y
    BY <1>2, <2>4, SmallMod
  <2>6. row = y
    BY <1>2, <2>5
  <2>7. QED
    BY <2>1, <2>6
<1>5. "mod_y" \in {"home", "mod_y"}
  OBVIOUS
<1>6. QED
  BY <1>2, <1>3, <1>4, <1>5, DoneKeeps

LEMMA PrintsKeeps ==
    ASSUME ScreenInv, ~ faulted, NEW t \in Terms, t = active_terminal, Prints(t)
    PROVE  ScreenInv'
<1> DEFINE x == screen_x[lib_active]
           y == screen_y[lib_active]
<1>1. CASE SetTerminal(t)
  BY <1>1, SetTerminalKeeps
<1>2. CASE Store(t)
  BY <1>2, StoreKeeps
<1>3. CASE Moves(t, "advance", x + 1, y) /\ Goto(t, "wrap") /\ NoHistory
  BY <1>3, AdvanceKeeps
<1>4. CASE x # NUM_COLS /\ Tests(t, "wrap", "mod_x")
  BY <1>4, NoWrapKeeps
<1>5. CASE Tests(t, "last_row", IF y = NUM_ROWS - 1 THEN "scroll" ELSE "down")
  BY <1>5, LastRowKeeps
<1>6. CASE Scroll(t)
  BY <1>6, ScrollKeeps
<1>7. CASE Moves(t, "bottom", x, NUM_ROWS - 1) /\ Goto(t, "home") /\ NoHistory
  BY <1>7, BottomKeeps
<1>8. CASE Moves(t, "down", x, y + 1) /\ Goto(t, "home") /\ NoHistory
  BY <1>8, DownKeeps
<1>9. CASE Moves(t, "home", 0, y) /\ prog[t].char = NL /\ Done(t)
  BY <1>9, NewlineDoneKeeps
<1>10. CASE Moves(t, "home", 0, y) /\ prog[t].char # NL /\ Goto(t, "mod_x") /\ NoHistory
  BY <1>10, HomeKeeps
<1>11. CASE Moves(t, "mod_x", x % NUM_COLS, y) /\ Goto(t, "mod_y") /\ NoHistory
  BY <1>11, ModXKeeps
<1>12. CASE Moves(t, "mod_y", x, (y + (x \div NUM_COLS)) % NUM_ROWS) /\ Done(t)
  BY <1>12, ModYKeeps
<1>13. QED
  BY <1>1, <1>2, <1>3, <1>4, <1>5, <1>6, <1>7, <1>8, <1>9, <1>10, <1>11, <1>12 DEF Prints

-----------------------------------------------------------------------------
(* The invariant holds in every state.                                        *)

LEMMA InitKeeps ==
    ASSUME Init
    PROVE  ScreenInv
<1>1. PICK old \in Chars \cup {BLANK} :
          /\ term_vid_mem = [t \in Terms |-> Filled(IF t = 0 THEN BLANK ELSE old)]
          /\ raw = IF old = BLANK THEN {} ELSE Terms \ {0}
  BY DEF Init
<1>2. \A c \in ScreenChars : Filled(c) \in Pages /\ \A i \in Cells : Filled(c)[i] = c
  BY DEF Filled, Pages
<1>3. BLANK \in ScreenChars /\ old \in ScreenChars
  BY DEF ScreenChars
<1>4. 0 \in Terms /\ 0 \in Nat /\ 0 \in Int /\ 0 \in 0 .. MostCounted
  BY Sizes
<1>5. CursorTypes
  BY <1>4 DEF Init, CursorTypes
<1>6. PageTypes
  BY <1>1, <1>2, <1>3 DEF Init, PageTypes
<1>7. Idle \in Places /\ Idle.pc = "user" /\ Idle.char = NL
  BY Sizes, PlaceFacts DEF Idle, Place, Labels
<1>8. /\ \A t \in Terms : prog[t] = Idle /\ text[t] = Empty
      /\ \A t \in Terms : screen_x[t] = 0 /\ screen_y[t] = 0 /\ num_chars_in_buf[t] = 0
  BY DEF Init
<1>9. ProgTypes /\ OwnCursor /\ LoadSafe
  BY <1>7, <1>8 DEF Init, ProgTypes, Printing, OwnCursor, LoadSafe, Inner
<1>10. HistTypes
  BY <1>1, <1>8, EmptyText DEF Init, HistTypes
<1>11. ASSUME NEW t \in Terms PROVE Followed(t)
  <2>1. Placed(Empty, Idle, 0, 0)
    BY <1>7, EmptyText DEF Placed
  <2>2. Erasable(Empty, Idle, 0, t, miscounted)
    BY <1>7, EmptyText DEF Erasable
  <2>3. QED
    BY <1>8, <2>1, <2>2 DEF Followed
<1>12. ASSUME NEW t \in Terms \ (torn \cup raw)
       PROVE  PageShown(t)
  <2>1. Printed(text[t], prog[t]) = Empty
    BY <1>7, <1>8 DEF Printed
  <2>2. \A m, c : Shows(Filled(BLANK), Empty, FALSE, m, c)
    BY <1>2, <1>3, CellOf, EmptyText DEF Shows
  <2>3. active_terminal = 0 /\ video_mem = Filled(BLANK) /\ drawn = FALSE
    BY DEF Init
  <2>4. t # 0 => term_vid_mem[t] = Filled(BLANK)
    BY <1>1, <1>12
  <2>5. QED
    BY <2>1, <2>2, <2>3, <2>4 DEF PageShown
<1>13. FaultOnlyWhenTorn
  BY DEF Init, FaultOnlyWhenTorn
<1>14. QED
  BY <1>5, <1>6, <1>9, <1>10, <1>11, <1>12, <1>13 DEF ScreenInv

LEMMA NextKeeps ==
    ASSUME ScreenInv, [Next]_vars
    PROVE  ScreenInv'
<1>1. CASE Next
  <2>1. ~ faulted
    BY <1>1 DEF Next
  <2>2. CASE Key
    <3>1. CASE \E c \in Chars : KeyChar(c)
      BY <3>1, KeyCharKeeps
    <3>2. CASE Backspace
      BY <3>2, BackspaceKeeps
    <3>3. CASE Tab
      BY <3>3, TabKeeps
    <3>4. CASE CtrlC
      BY <3>4, CtrlCKeeps
    <3>5. CASE CtrlL
      BY <2>1, <3>5, CtrlLKeeps
    <3>6. CASE \E t \in Terms : FunctionKey(t)
      BY <3>6, FunctionKeyKeeps
    <3>7. QED
      BY <2>2, <3>1, <3>2, <3>3, <3>4, <3>5, <3>6 DEF Key
  <2>3. CASE KernelPrints
    BY <2>3, KernelPrintsKeeps
  <2>4. CASE ClearCommand
    BY <2>1, <2>4, ClearCommandKeeps
  <2>5. CASE \E to \in PointerCells : MouseMove(to)
    BY <2>1, <2>5, MouseMoveKeeps
  <2>6. ASSUME NEW t \in Printers, Program(t) PROVE ScreenInv'
    <3>1. t \in Terms /\ t = active_terminal
      BY <2>6, ScreenAssumption DEF Program
    <3>2. CASE WriteTest(t) \/ WriteLoad(t) \/ WriteIncrement(t)
      BY <3>1, <3>2, WriteTestKeeps, WriteLoadKeeps, WriteIncrementKeeps
    <3>3. CASE ReadReturns(t)
      BY <3>1, <3>3, ReadReturnsKeeps
    <3>4. CASE Prints(t)
      BY <2>1, <3>1, <3>4, PrintsKeeps
    <3>5. CASE CallReturns(t)
      BY <3>1, <3>5, CallReturnsKeeps
    <3>6. QED
      BY <2>6, <3>2, <3>3, <3>4, <3>5 DEF Program
  <2>7. QED
    BY <1>1, <2>2, <2>3, <2>4, <2>5, <2>6 DEF Next
<1>2. CASE UNCHANGED vars
  <2>1. /\ UNCHANGED <<active_terminal, lib_active, screen_x, screen_y, video_mem>>
        /\ UNCHANGED <<term_vid_mem, num_chars_in_buf, mouse_at, prev_char, prog>>
        /\ UNCHANGED <<faulted, text, torn, miscounted, raw, drawn>>
    BY <1>2 DEF vars, posVars, countVars, mouseVars, histVars
  <2>2. CursorTypes' /\ PageTypes' /\ ProgTypes' /\ HistTypes'
    BY <2>1 DEF ScreenInv, CursorTypes, PageTypes, ProgTypes, HistTypes
  <2>3. OwnCursor' /\ LoadSafe' /\ FaultOnlyWhenTorn'
    BY <2>1 DEF ScreenInv, OwnCursor, LoadSafe, Inner, FaultOnlyWhenTorn
  <2>4. /\ \A t \in Terms \ torn' : Followed(t)'
        /\ \A t \in Terms \ (torn' \cup raw') : PageShown(t)'
    BY <2>1 DEF ScreenInv, Followed, PageShown
  <2>5. QED
    BY <2>2, <2>3, <2>4 DEF ScreenInv
<1>3. QED
  BY <1>1, <1>2

LEMMA InvariantHolds == Spec => []ScreenInv
  BY InitKeeps, NextKeeps, PTL DEF Spec

-----------------------------------------------------------------------------
(* What follows from it.                                                      *)

LEMMA PlacedBounds ==
    ASSUME NEW rows, WellFormed(rows), NEW p \in Places, NEW x, NEW y, Placed(rows, p, x, y)
    PROVE  x \in 0 .. NUM_COLS /\ y \in 0 .. NUM_ROWS - 1
<1> DEFINE r == Len(rows)
           n == Len(LastRow(rows))
           before == Before(rows, p.char)
           typed == Typed(rows, p.char)
<1>1. p.pc \in Labels /\ p.char \in Chars \cup {NL}
  BY DEF Places
<1>2. r \in Nat /\ r >= 1 /\ r <= NUM_ROWS /\ n \in Nat /\ n < NUM_COLS
  BY TextFacts
<1>3. Len(LastRow(before)) = n \/ Len(LastRow(before)) = n + 1
  BY <1>1, BeforeFacts
<1>4. WellFormed(typed)
  BY <1>1, TypedFacts
<1>5. /\ Len(typed) \in Nat /\ Len(typed) >= 1 /\ Len(typed) <= NUM_ROWS
      /\ Len(LastRow(typed)) \in Nat /\ Len(LastRow(typed)) < NUM_COLS
  BY <1>4, TextFacts
<1> HIDE DEF r, n, before, typed
<1>6. CASE p.pc \in {"user", "load", "incr", "next", "begin", "store", "advance"}
  BY <1>2, <1>6, Sizes DEF Placed, r, n
<1>7. CASE p.pc \in {"wrap", "last_row", "scroll", "down", "bottom"}
  <2>1. x = Len(LastRow(before)) /\ y = r - 1
    BY <1>7 DEF Placed, r, before
  <2>2. QED
    BY <1>2, <1>3, <2>1, Sizes
<1>8. CASE p.pc = "home"
  <2>1. x \in 0 .. NUM_COLS /\ y = Len(typed) - 1
    BY <1>8 DEF Placed, typed
  <2>2. QED
    BY <1>5, <2>1, Sizes
<1>9. CASE p.pc \in {"mod_x", "mod_y"}
  <2>1. x = Len(LastRow(typed)) /\ y = Len(typed) - 1
    BY <1>9 DEF Placed, typed
  <2>2. QED
    BY <1>5, <2>1, Sizes
<1>10. QED
  BY <1>1, <1>6, <1>7, <1>8, <1>9 DEF Labels

LEMMA InvariantImpliesTypeOK ==
    ASSUME ScreenInv
    PROVE  TypeOK
<1>1. CursorTypes /\ PageTypes /\ ProgTypes /\ HistTypes
  BY DEF ScreenInv
<1>2. \A t \in Terms \ torn :
          screen_x[t] \in 0 .. NUM_COLS /\ screen_y[t] \in 0 .. NUM_ROWS - 1
  BY OwnFacts, PlacedBounds
<1>3. \A t \in Terms : Len(text[t]) \in 1 .. NUM_ROWS
  BY <1>1 DEF HistTypes, WellFormed
<1>4. {active_terminal, lib_active} \subseteq Terms /\ {torn, miscounted, raw} \subseteq SUBSET Terms
  BY <1>1 DEF CursorTypes, HistTypes
<1>5. num_chars_in_buf \in [Terms -> 0 .. MAX_CHARS_IN_BUF + 1]
  BY <1>1 DEF CursorTypes, MostCounted
<1>6. QED
  BY <1>1, <1>2, <1>3, <1>4, <1>5
  DEF TypeOK, CursorTypes, PageTypes, ProgTypes, Pages, ScreenChars, Places

LEMMA InvariantImpliesTextShown ==
    ASSUME ScreenInv
    PROVE  TextShown
<1> SUFFICES ASSUME NEW t \in Terms \ (torn \cup raw), ~ Inside(t), NEW i \in ScreenCells
             PROVE  IF t # active_terminal THEN term_vid_mem[t][i] = Shown(text[t], i)
                    ELSE video_mem[i] = IF drawn /\ i = mouse_at THEN BLOCK
                                        ELSE Shown(text[t], i)
  BY DEF TextShown
<1>1. PICK x \in Cols : \E y \in RowNos : i = At(x, y)
  BY CellHasPlace
<1>2. PICK y \in RowNos : i = At(x, y)
  BY <1>1
<1>3. Shown(text[t], i) = Char(text[t], y, x)
  BY <1>2, ShownIsChar
<1>4. prog[t].pc \in {"user", "load", "incr", "next", "begin"}
  BY NotInside DEF ScreenInv
<1>5. Printed(text[t], prog[t]) = text[t]
  BY <1>4 DEF Printed
<1>6. PageShown(t)
  BY DEF ScreenInv
<1>7. CASE t = active_terminal
  <2>1. Shows(video_mem, text[t], drawn, mouse_at, prev_char)
    BY <1>5, <1>6, <1>7 DEF PageShown
  <2>2. QED
    BY <1>2, <1>3, <1>7, <2>1 DEF Shows
<1>8. CASE t # active_terminal
  <2>1. Shows(term_vid_mem[t], text[t], FALSE, mouse_at, prev_char)
    BY <1>5, <1>6, <1>8 DEF PageShown
  <2>2. QED
    BY <1>2, <1>3, <1>8, <2>1 DEF Shows
<1>9. QED
  BY <1>7, <1>8

LEMMA InvariantImpliesCursorAtEnd ==
    ASSUME ScreenInv
    PROVE  CursorAtEnd
<1> SUFFICES ASSUME NEW t \in Terms \ torn, ~ Inside(t)
             PROVE  /\ screen_x[t] = Len(LastRow(text[t]))
                    /\ screen_y[t] = Len(text[t]) - 1
  BY DEF CursorAtEnd
<1>1. prog[t].pc \in {"user", "load", "incr", "next", "begin"}
  BY NotInside DEF ScreenInv
<1>2. Placed(text[t], prog[t], screen_x[t], screen_y[t])
  BY OwnFacts
<1>3. QED
  BY <1>1, <1>2 DEF Placed

(* Every variable has its type, num_chars_in_buf passes MAX_CHARS_IN_BUF by   *)
(* one at most, and the cursor of a terminal that is followed                 *)
(* is on the screen or one column behind it, wherever in putc and new_line    *)
(* its program was when a key, a message or the mouse came.                   *)
THEOREM TypeCorrect == Spec => []TypeOK
  BY InvariantHolds, InvariantImpliesTypeOK, PTL

(* A terminal shows its text: whatever putc, new_line and del_last_char store *)
(* and scroll from the interrupts and between the statements of a program,    *)
(* whatever update_screen keeps and brings back, and wherever the mouse has   *)
(* put its block and the character below it.                                  *)
THEOREM TextShownCorrect == Spec => []TextShown
  BY InvariantHolds, InvariantImpliesTextShown, PTL

(* Between two calls of putc the cursor is behind the last character: where   *)
(* the next one goes, and whence Backspace takes one away.                    *)
THEOREM CursorAtEndCorrect == Spec => []CursorAtEnd
  BY InvariantHolds, InvariantImpliesCursorAtEnd, PTL

(* del_last_char, putc and the keys write inside the page until a terminal is *)
(* torn: num_chars_in_buf promises Backspace and Tab more characters than     *)
(* there are before the cursor only while a program is inside putc, and after *)
(* an increment in terminal_write undid what a key had erased.                *)
THEOREM FaultOnlyWhenTornCorrect == Spec => []FaultOnlyWhenTorn
<1>1. ScreenInv => FaultOnlyWhenTorn
  BY DEF ScreenInv
<1>2. QED
  BY <1>1, InvariantHolds, PTL

=============================================================================
