------------------------- MODULE DescriptorsProofs -------------------------
(* Theorems about Descriptors and the file system under it, for any image     *)
(* that ImageAssumption describes, any number of programs and descriptors,    *)
(* and reads of any sizes.                                                    *)
EXTENDS Descriptors, WellFoundedInduction, SequenceTheorems, TLAPS

-----------------------------------------------------------------------------
(* The invariant.                                                             *)

DescriptorType ==
    [operations_pointer : FileTypes \cup {"none", "stdin", "stdout"},
     file_name : Names \cup {""}, file_position : 0 .. WORD - 1, flags : BOOLEAN]

Types ==
    /\ running \in alive
    /\ Shells \subseteq alive /\ alive \subseteq Slots
    /\ fds \in [Slots -> [Fds -> DescriptorType]]
    /\ pc \in [Slots -> Places]
    /\ intr_occ \in BOOLEAN
    /\ rtc_frequency \in PowersOfTwo
    /\ cut_off \in BOOLEAN
    /\ DOMAIN image = Slots
    /\ DOMAIN delivered = Slots
    /\ \A p \in Slots : DOMAIN delivered[p] = Fds

InodeOf(name) == DentryOf(name).inode_num

(* A file open on fd is read up to its position, one byte behind the end of   *)
(* the file at most.                                                          *)
FileInv(p, fd) ==
    OpenAs(p, fd, "file") =>
        /\ fds[p][fd].file_name \in Names
        /\ fds[p][fd].file_position <= Size(InodeOf(fds[p][fd].file_name)) + 1
        /\ delivered[p][fd] = BytesRead(InodeOf(fds[p][fd].file_name), 0,
                                        fds[p][fd].file_position)

Listed(n) == [i \in 1 .. n |-> Dentries[i].file_name]

(* A directory open on fd is listed up to its position.                       *)
DirInv(p, fd) ==
    OpenAs(p, fd, "dir") =>
        /\ fds[p][fd].file_position <= Len(Dentries)
        /\ delivered[p][fd] = Listed(fds[p][fd].file_position)

DescriptorsInv ==
    /\ Types
    /\ StandardStreams
    /\ DefaultWhenClosed
    /\ ImageIsWhole
    /\ \A p \in Slots : \A fd \in Fds : FileInv(p, fd) /\ DirInv(p, fd)

-----------------------------------------------------------------------------
(* The file system.                                                           *)

LEMMA DivMonotone ==
    ASSUME NEW a \in Nat, NEW b \in Nat, NEW d \in Nat \ {0}, a <= b
    PROVE  a \div d \in 0 .. (b \div d)
<1> DEFINE p == a \div d
           q == b \div d
<1>1. p \in Nat /\ d * p <= a /\ a < d * p + d
  OBVIOUS
<1>2. q \in Nat /\ d * q <= b /\ b < d * q + d
  OBVIOUS
<1> HIDE DEF p, q
<1>3. SUFFICES ASSUME q < p PROVE FALSE
  BY <1>1, <1>2 DEF p, q
<1> DEFINE e == p - q - 1
<1>4. e \in Nat /\ p = q + 1 + e
  BY <1>1, <1>2, <1>3
<1> HIDE DEF e
<1>5. d * p = d * q + d + d * e
  BY <1>2, <1>4
<1>6. d * e \in Nat /\ d * q \in Int
  BY <1>2, <1>4
<1> DEFINE x == d * q
           y == d * e
<1>7. x \in Int /\ y \in Nat /\ x + d + y <= a /\ b < x + d
  BY <1>1, <1>2, <1>5, <1>6
<1> HIDE DEF x, y
<1>8. QED
  BY <1>7

LEMMA LessThanIsWellFounded ==
    IsWellFoundedOn({ss \in Nat \X Nat : ss[1] < ss[2]}, Nat)
  BY NatLessThanWellFounded DEF OpToRel

(* read_dentry_by_name finds an entry of that name whenever there is one.     *)
LEMMA NameFound ==
    ASSUME NEW fname, Exists(fname)
    PROVE  /\ fname \in Names
           /\ \E i \in 1 .. Len(Dentries) : DentryOf(fname) = Dentries[i]
<1> DEFINE Below == {ss \in Nat \X Nat : ss[1] < ss[2]}
           Found == ReadDentryByName(fname)
<1>1. Found \subseteq 1 .. Len(Dentries) /\ Found \subseteq Nat /\ Found # {}
      /\ \A i \in Found : Dentries[i].file_name = fname
  BY FileSystemAssumption DEF ReadDentryByName, Exists
<1> HIDE DEF Below, Found
<1>2. PICK s \in Found : \A r \in Found : ~ (<<r, s>> \in Below)
  BY <1>1, LessThanIsWellFounded, WFMin DEF Below
<1>3. \A r \in Found : s <= r
  <2>1. \A r \in Found : ~ (r < s)
    BY <1>1, <1>2 DEF Below
  <2>2. QED
    BY <1>1, <2>1
<1>4. Min(Found) \in Found
  BY <1>3 DEF Min
<1>5. QED
  BY <1>1, <1>4 DEF DentryOf, Found, Names

LEMMA LeastIsMin ==
    ASSUME NEW S, NEW x \in S, \A y \in S : y \in Int /\ x <= y
    PROVE  Min(S) = x
<1>1. Min(S) \in S /\ \A y \in S : Min(S) <= y
  BY DEF Min
<1>2. QED
  BY <1>1

LEMMA NameFacts ==
    ASSUME NEW fname \in Names
    PROVE  LET inode == InodeOf(fname)
           IN  /\ Exists(fname)
               /\ DentryOf(fname).file_type \in FileTypes
               /\ inode \in Nat /\ inode < Len(Inodes) /\ Len(Inodes) \in Nat
               /\ Size(inode) \in Nat /\ Size(inode) + 1 < WORD
               /\ \A k \in 0 .. (Size(inode) \div BLOCK_SIZE) :
                     BlockOf(inode, k) \in 0 .. N_DATA_BLOCKS - 1
<1>1. Exists(fname)
  BY DEF Exists, ReadDentryByName, Names
<1>2. PICK i \in 1 .. Len(Dentries) : DentryOf(fname) = Dentries[i]
  BY <1>1, NameFound
<1> DEFINE inode == Dentries[i].inode_num
<1>3. /\ inode \in Nat /\ inode < Len(Inodes) /\ Len(Inodes) \in Nat
      /\ DentryOf(fname).file_type \in FileTypes
      /\ \A k \in 0 .. (Size(inode) \div BLOCK_SIZE) :
            BlockOf(inode, k) \in 0 .. N_DATA_BLOCKS - 1
  BY <1>2, FileSystemAssumption, ImageAssumption
<1>4. inode + 1 \in 1 .. Len(Inodes)
  BY <1>3
<1>5. Size(inode) \in Nat /\ Size(inode) + 1 < WORD
  BY <1>4, FileSystemAssumption, DescriptorsAssumption DEF Size
<1>6. QED
  BY <1>1, <1>2, <1>3, <1>5 DEF InodeOf

LEMMA NoBlockMissing ==
    ASSUME NEW fname \in Names, NEW offset \in Nat, NEW n \in Nat,
           ~ PastEnd(InodeOf(fname), offset, n)
    PROVE  ~ NoNextBlock(InodeOf(fname), offset, n)
<1> DEFINE inode == InodeOf(fname)
           k == (offset + n) \div BLOCK_SIZE
<1>1. BLOCK_SIZE \in Nat \ {0} /\ N_DATA_BLOCKS \in Nat
  BY FileSystemAssumption
<1>2. Size(inode) \in Nat
      /\ \A j \in 0 .. (Size(inode) \div BLOCK_SIZE) :
            BlockOf(inode, j) \in 0 .. N_DATA_BLOCKS - 1
  BY NameFacts
<1>3. offset + n \in Nat /\ offset + n <= Size(inode)
  BY <1>2 DEF PastEnd
<1>4. k \in 0 .. (Size(inode) \div BLOCK_SIZE)
  BY <1>1, <1>2, <1>3, DivMonotone
<1> HIDE DEF k
<1>5. BlockOf(inode, k) \in 0 .. N_DATA_BLOCKS - 1
  BY <1>2, <1>4
<1>6. ~ (BlockOf(inode, k) >= N_DATA_BLOCKS)
  BY <1>1, <1>5
<1>7. QED
  BY <1>6 DEF NoNextBlock, k

(* read_data delivers the bytes from offset on, one behind the end of the     *)
(* file at most, and returns how many.                                        *)
LEMMA ReadDataResult ==
    ASSUME NEW fname \in Names, NEW offset \in Nat, NEW length \in Nat \ {0},
           offset <= Size(InodeOf(fname)) + 1
    PROVE  LET result == ReadData(InodeOf(fname), offset, length)
           IN  \E n \in 0 .. length :
                  /\ offset + n <= Size(InodeOf(fname)) + 1
                  /\ result.ret = n
                  /\ result.buf = BytesRead(InodeOf(fname), offset, n)
<1> DEFINE inode == InodeOf(fname)
           size == Size(inode)
           stops == {n \in 1 .. length : PastEnd(inode, offset, n)
                                          \/ NoNextBlock(inode, offset, n)}
           last == size + 1 - offset
<1>1. size \in Nat /\ ~ (inode >= Len(Inodes))
  BY NameFacts
<1>2. stops = {n \in 1 .. length : PastEnd(inode, offset, n)}
  BY NoBlockMissing
<1>3. CASE offset >= size
  <2>1. ReadData(inode, offset, length) = [ret |-> 0, buf |-> <<>>]
    BY <1>1, <1>3 DEF ReadData
  <2>2. BytesRead(inode, offset, 0) = <<>>
    BY DEF BytesRead
  <2>3. 0 \in 0 .. length /\ offset + 0 <= size + 1
    BY <1>1
  <2>4. QED
    BY <2>1, <2>2, <2>3
<1>4. CASE offset < size /\ stops = {}
  <2>1. ReadData(inode, offset, length) =
            [ret |-> length, buf |-> BytesRead(inode, offset, length)]
    BY <1>1, <1>4 DEF ReadData
  <2>2. ~ PastEnd(inode, offset, length)
    BY <1>2, <1>4
  <2>3. offset + length <= size + 1 /\ length \in 0 .. length
    BY <1>1, <2>2 DEF PastEnd
  <2>4. QED
    BY <2>1, <2>3
<1>5. CASE offset < size /\ stops # {}
  <2>1. last \in stops /\ last \in Nat /\ \A n \in stops : n \in Int /\ last <= n
    BY <1>1, <1>2, <1>5, SMTT(20) DEF PastEnd
  <2> HIDE DEF stops, last
  <2>2. Min(stops) = last
    BY <2>1, LeastIsMin, Zenon
  <2>3. PastEnd(inode, offset, last)
    BY <1>2, <2>1
  <2>4. ReadData(inode, offset, length) =
            [ret |-> last, buf |-> BytesRead(inode, offset, last)]
    BY <1>1, <1>5, <2>1, <2>2, <2>3 DEF ReadData, stops
  <2>5. last \in 0 .. length /\ offset + last <= size + 1
    BY <1>1, <2>1 DEF stops, last
  <2>6. QED
    BY <2>4, <2>5
<1>6. QED
  BY <1>1, <1>3, <1>4, <1>5

(* copy_file_to_addr copies the whole file.                                   *)
LEMMA CopyIsWhole ==
    ASSUME NEW fname \in Names
    PROVE  CopyFileToAddr(fname).buf = Contents(InodeOf(fname))
<1> DEFINE inode == InodeOf(fname)
           size == Size(inode)
           stops == {n \in 1 .. size : PastEnd(inode, 0, n) \/ NoNextBlock(inode, 0, n)}
<1>1. size \in Nat /\ ~ (inode >= Len(Inodes)) /\ Exists(fname)
  BY NameFacts
<1>2. CopyFileToAddr(fname).buf = ReadData(inode, 0, size).buf
  BY <1>1 DEF CopyFileToAddr, InodeOf
<1>3. \A n \in 1 .. size : ~ PastEnd(inode, 0, n)
  BY <1>1 DEF PastEnd
<1>4. stops = {}
  BY <1>3, NoBlockMissing
<1>5. Contents(inode) = BytesRead(inode, 0, size)
  BY <1>1 DEF Contents, BytesRead
<1>6. CASE size = 0
  <2>1. ReadData(inode, 0, size).buf = <<>>
    BY <1>1, <1>6 DEF ReadData
  <2>2. BytesRead(inode, 0, size) = <<>>
    BY <1>6 DEF BytesRead
  <2>3. QED
    BY <1>2, <1>5, <2>1, <2>2
<1>7. CASE size # 0
  <2>1. ReadData(inode, 0, size).buf = BytesRead(inode, 0, size)
    BY <1>1, <1>4, <1>7 DEF ReadData
  <2>2. QED
    BY <1>2, <1>5, <2>1
<1>8. QED
  BY <1>6, <1>7

(* Two reads, one behind the other, are one read.                             *)
LEMMA ReadsJoin ==
    ASSUME NEW inode, NEW m \in Nat, NEW n \in Nat
    PROVE  BytesRead(inode, 0, m) \o BytesRead(inode, m, n) = BytesRead(inode, 0, m + n)
<1> DEFINE S == {ByteAt(inode, k) : k \in Int}
           a == BytesRead(inode, 0, m)
           b == BytesRead(inode, m, n)
           c == BytesRead(inode, 0, m + n)
<1>1. a \in Seq(S) /\ Len(a) = m /\ \A k \in 1 .. m : a[k] = ByteAt(inode, k - 1)
  BY DEF BytesRead
<1>2. b \in Seq(S) /\ Len(b) = n /\ \A k \in 1 .. n : b[k] = ByteAt(inode, m + k - 1)
  BY DEF BytesRead
<1>3. c \in Seq(S) /\ Len(c) = m + n /\ \A k \in 1 .. m + n : c[k] = ByteAt(inode, k - 1)
  BY DEF BytesRead
<1> HIDE DEF S, a, b, c
<1>4. /\ a \o b \in Seq(S) /\ Len(a \o b) = m + n
      /\ \A k \in 1 .. m + n :
            (a \o b)[k] = IF k <= m THEN a[k] ELSE b[k - m]
  BY <1>1, <1>2, ConcatProperties
<1>5. ASSUME NEW k \in 1 .. m + n PROVE (a \o b)[k] = c[k]
  <2>1. CASE k <= m
    <3>1. k \in 1 .. m
      BY <2>1
    <3>2. QED
      BY <1>1, <1>3, <1>4, <2>1, <3>1
  <2>2. CASE k > m
    <3>1. (a \o b)[k] = b[k - m] /\ k - m \in 1 .. n /\ m + (k - m) - 1 = k - 1
      BY <1>4, <2>2
    <3>2. QED
      BY <1>2, <1>3, <3>1
  <2>3. k <= m \/ k > m
    OBVIOUS
  <2>4. QED
    BY <2>1, <2>2, <2>3
<1>6. a \o b = c
  BY <1>3, <1>4, <1>5, SeqEqual
<1>7. QED
  BY <1>6 DEF a, b, c

-----------------------------------------------------------------------------
(* The steps.                                                                 *)

FilesInv == \A p \in Slots : \A fd \in Fds : FileInv(p, fd) /\ DirInv(p, fd)

LEMMA ConstantFacts ==
    /\ MAX_FILES \in Nat /\ MAX_FILES > 2
    /\ 0 \in Fds /\ 1 \in Fds /\ \A fd \in Fds : fd \in Nat /\ fd < MAX_FILES
    /\ WORD \in Nat \ {0} /\ 0 \in 0 .. WORD - 1
    /\ Shells \subseteq Slots
    /\ Len(Dentries) \in Nat /\ Len(Dentries) < WORD
BY DescriptorsAssumption, FileSystemAssumption DEF Fds

(* A step that is about one descriptor leaves the others as they were.        *)
LEMMA OtherDescriptors ==
    ASSUME FilesInv, NEW p \in Slots, NEW fd \in Fds,
           \A q \in Slots : \A g \in Fds : q # p \/ g # fd =>
               fds'[q][g] = fds[q][g] /\ delivered'[q][g] = delivered[q][g],
           FileInv(p, fd)', DirInv(p, fd)'
    PROVE  FilesInv'
<1>1. ASSUME NEW q \in Slots, NEW g \in Fds, q # p \/ g # fd
      PROVE  FileInv(q, g)' /\ DirInv(q, g)'
  <2>1. fds'[q][g] = fds[q][g] /\ delivered'[q][g] = delivered[q][g]
    BY <1>1
  <2>2. FileInv(q, g) /\ DirInv(q, g)
    BY DEF FilesInv
  <2>3. QED
    BY <2>1, <2>2 DEF FileInv, DirInv, OpenAs, Opened
<1>2. QED
  BY <1>1 DEF FilesInv

(* A step that leaves descriptors, programs and the rate alone, and settles no *)
(* close of the clock.                                                        *)
LEMMA QuietStep ==
    ASSUME DescriptorsInv, UNCHANGED <<alive, fds, rtc_frequency, image, delivered>>,
           running' \in alive, pc' \in [Slots -> Places], intr_occ' \in BOOLEAN,
           cut_off' \in BOOLEAN, HalfClosed => HalfClosed'
    PROVE  DescriptorsInv'
<1>1. Types' /\ StandardStreams' /\ ImageIsWhole'
  BY DEF DescriptorsInv, Types, StandardStreams, ImageIsWhole, OpenAs, Opened
<1>2. DefaultWhenClosed'
  BY DEF DescriptorsInv, DefaultWhenClosed, OpenAs, Opened
<1>3. \A p \in Slots : \A fd \in Fds : FileInv(p, fd)' /\ DirInv(p, fd)'
  BY DEF DescriptorsInv, FileInv, DirInv, OpenAs, Opened
<1>4. QED
  BY <1>1, <1>2, <1>3 DEF DescriptorsInv

(* A close of the clock that waits for its rtc_close goes on waiting while no *)
(* program moves, and what was cut off stays so.                              *)
LEMMA HalfClosedStays ==
    ASSUME cut_off => cut_off', \A p \in Slots : pc[p] = "rtc_close" => pc'[p] = "rtc_close"
    PROVE  HalfClosed => HalfClosed'
BY Zenon DEF HalfClosed

(* The clock after rtc_open and rtc_close.                                    *)
LEMMA DefaultRate ==
    ASSUME ResetRate
    PROVE  /\ rtc_frequency' = RTC_DEFAULT_HZ /\ rtc_frequency' \in PowersOfTwo
           /\ cut_off' = FALSE
BY DescriptorsAssumption DEF ResetRate, SetFrequency, MaySet

LEMMA PositionType ==
    ASSUME Types, NEW p \in Slots, NEW fd \in Fds
    PROVE  fds[p][fd] \in DescriptorType /\ fds[p][fd].file_position \in Nat
<1>1. fds[p][fd] \in DescriptorType
  BY DEF Types
<1>2. fds[p][fd].file_position \in 0 .. WORD - 1
  BY <1>1 DEF DescriptorType
<1>3. QED
  BY <1>1, <1>2, ConstantFacts

LEMMA SmallModulus ==
    ASSUME NEW w \in Nat \ {0}, NEW x \in Nat, x < w
    PROVE  x % w = x
OBVIOUS

LEMMA OpenStep ==
    ASSUME DescriptorsInv, NEW p \in Slots, NEW name \in Names, Open(p, name)
    PROVE  DescriptorsInv'
<1> DEFINE type == DentryOf(name).file_type
           d == Descriptor(type, name, TRUE)
<1>1. PICK fd \in 2 .. MAX_FILES - 1 :
        /\ ~ Opened(p, fd)
        /\ fds' = [fds EXCEPT ![p][fd] = d]
        /\ delivered' = [delivered EXCEPT ![p][fd] = <<>>]
  BY DEF Open
<1>2. /\ IF type = "rtc" THEN ResetRate ELSE UNCHANGED <<rtc_frequency, cut_off>>
      /\ UNCHANGED <<running, alive, pc, intr_occ, image>>
      /\ p \in alive
  BY DEF Open, Calls
<1>3. Types /\ StandardStreams /\ DefaultWhenClosed /\ ImageIsWhole /\ FilesInv
  BY DEF DescriptorsInv, FilesInv
<1>4. fd \in Fds /\ fd # 0 /\ fd # 1
  BY ConstantFacts DEF Fds
<1>5. d \in DescriptorType
  BY ConstantFacts, NameFacts DEF DescriptorType, Descriptor
<1>6. /\ fds' \in [Slots -> [Fds -> DescriptorType]]
      /\ \A q \in Slots : \A g \in Fds :
            fds'[q][g] = IF q = p /\ g = fd THEN d ELSE fds[q][g]
  BY <1>1, <1>3, <1>4, <1>5 DEF Types
<1>7. /\ DOMAIN delivered' = Slots /\ \A q \in Slots : DOMAIN delivered'[q] = Fds
      /\ \A q \in Slots : \A g \in Fds :
            delivered'[q][g] = IF q = p /\ g = fd THEN <<>> ELSE delivered[q][g]
  BY <1>1, <1>3, <1>4 DEF Types
<1>8. d.flags = TRUE /\ d.operations_pointer = type /\ d.file_position = 0
      /\ d.file_name = name
  BY DEF Descriptor
<1> HIDE DEF d, type
<1>9. rtc_frequency' \in PowersOfTwo /\ cut_off' \in BOOLEAN
  BY <1>2, <1>3, DefaultRate DEF Types
<1>10. Types'
  BY <1>2, <1>3, <1>6, <1>7, <1>9 DEF Types
<1>11. StandardStreams'
  BY <1>2, <1>3, <1>4, <1>6, ConstantFacts DEF StandardStreams, OpenAs, Opened
<1>12. DefaultWhenClosed'
  <2> SUFFICES ASSUME \A q \in Slots : \A g \in Fds : ~ OpenAs(q, g, "rtc")',
                      ~ HalfClosed'
               PROVE  rtc_frequency' = RTC_DEFAULT_HZ
    BY DEF DefaultWhenClosed
  <2>1. type # "rtc"
    BY <1>4, <1>6, <1>8 DEF OpenAs, Opened
  <2>2. \A q \in Slots : \A g \in Fds : ~ OpenAs(q, g, "rtc")
    BY <1>1, <1>6 DEF OpenAs, Opened
  <2>3. ~ HalfClosed
    BY <1>2, <2>1 DEF HalfClosed
  <2>4. QED
    BY <1>2, <1>3, <2>1, <2>2, <2>3 DEF DefaultWhenClosed
<1>13. ImageIsWhole'
  BY <1>2, <1>3 DEF ImageIsWhole
<1>14. FilesInv'
  <2>1. FileInv(p, fd)'
    <3>1. BytesRead(InodeOf(name), 0, 0) = <<>>
      BY DEF BytesRead
    <3>2. Size(InodeOf(name)) \in Nat
      BY NameFacts
    <3>3. QED
      BY <1>4, <1>6, <1>7, <1>8, <3>1, <3>2 DEF FileInv
  <2>2. DirInv(p, fd)'
    <3>1. Listed(0) = <<>>
      BY DEF Listed
    <3>2. QED
      BY <1>4, <1>6, <1>7, <1>8, <3>1, ConstantFacts DEF DirInv
  <2>3. QED
    BY <1>3, <1>4, <1>6, <1>7, <2>1, <2>2, OtherDescriptors
<1>15. QED
  BY <1>10, <1>11, <1>12, <1>13, <1>14 DEF DescriptorsInv, FilesInv

(* A descriptor that has been moved, closed or dropped by halt.               *)
LEMMA MovedType ==
    ASSUME NEW x \in DescriptorType, NEW position \in 0 .. WORD - 1
    PROVE  /\ LET d == [x EXCEPT !.file_position = position]
              IN  /\ d \in DescriptorType /\ d.flags = x.flags
                  /\ d.file_position = position /\ d.file_name = x.file_name
                  /\ d.operations_pointer = x.operations_pointer
           /\ LET d == [x EXCEPT !.flags = FALSE, !.file_position = position]
              IN  d \in DescriptorType /\ d.flags = FALSE
           /\ LET d == [x EXCEPT !.operations_pointer = "none", !.flags = FALSE]
              IN  d \in DescriptorType /\ d.flags = FALSE
<1> DEFINE Positions == 0 .. WORD - 1
           Operations == FileTypes \cup {"none", "stdin", "stdout"}
           FileNames == Names \cup {""}
<1>1. DescriptorType = [operations_pointer : Operations, file_name : FileNames,
                        file_position : Positions, flags : BOOLEAN]
  BY DEF DescriptorType
<1>2. position \in Positions /\ x \in DescriptorType /\ "none" \in Operations
  OBVIOUS
<1> HIDE DEF Positions, Operations, FileNames
<1>3. QED
  BY <1>1, <1>2

LEMMA CloseStep ==
    ASSUME DescriptorsInv, NEW p \in Slots, NEW fd \in Fds, Close(p, fd)
    PROVE  DescriptorsInv'
<1>1. /\ p \in alive /\ fd >= 2 /\ Opened(p, fd)
      /\ fds' = Closed(p, {fd})
      /\ delivered' = [delivered EXCEPT ![p][fd] = <<>>]
      /\ pc[p] = "user"
      /\ pc' = [pc EXCEPT ![p] = IF OpenAs(p, fd, "rtc") THEN "rtc_close" ELSE @]
      /\ UNCHANGED <<running, alive, rtcVars, image>>
  BY DEF Close, Calls, MayClose
<1>2. Types /\ StandardStreams /\ DefaultWhenClosed /\ ImageIsWhole /\ FilesInv
  BY DEF DescriptorsInv, FilesInv
<1>3. fd # 0 /\ fd # 1
  BY <1>1
<1> DEFINE d == [fds[p][fd] EXCEPT !.flags = FALSE, !.file_position = 0]
<1>4. d \in DescriptorType /\ d.flags = FALSE
  <2>1. fds[p][fd] \in DescriptorType
    BY <1>2 DEF Types
  <2>2. QED
    BY <2>1, ConstantFacts, MovedType
<1>5. /\ fds' \in [Slots -> [Fds -> DescriptorType]]
      /\ \A q \in Slots : \A g \in Fds :
            fds'[q][g] = IF q = p /\ g = fd THEN d ELSE fds[q][g]
  <2>1. fds' = [fds EXCEPT ![p] = [g \in Fds |-> IF g = fd THEN d ELSE fds[p][g]]]
    BY <1>1, <1>2 DEF Closed, Types
  <2> HIDE DEF d
  <2>2. QED
    BY <1>2, <1>4, <2>1 DEF Types
<1>6. /\ DOMAIN delivered' = Slots /\ \A q \in Slots : DOMAIN delivered'[q] = Fds
      /\ \A q \in Slots : \A g \in Fds :
            delivered'[q][g] = IF q = p /\ g = fd THEN <<>> ELSE delivered[q][g]
  BY <1>1, <1>2 DEF Types
<1> HIDE DEF d
<1>7. pc' \in [Slots -> Places]
  BY <1>1, <1>2 DEF Types, Places
<1>8. Types'
  BY <1>1, <1>2, <1>5, <1>6, <1>7 DEF Types, rtcVars
<1>9. StandardStreams'
  BY <1>1, <1>2, <1>3, <1>5, ConstantFacts, ZenonT(30) DEF StandardStreams, OpenAs, Opened
<1>10. DefaultWhenClosed'
  <2> SUFFICES ASSUME \A q \in Slots : \A g \in Fds : ~ OpenAs(q, g, "rtc")',
                      ~ HalfClosed'
               PROVE  rtc_frequency' = RTC_DEFAULT_HZ
    BY DEF DefaultWhenClosed
  <2>1. ~ OpenAs(p, fd, "rtc")
    <3>1. SUFFICES ASSUME OpenAs(p, fd, "rtc") PROVE FALSE
      OBVIOUS
    <3>2. pc'[p] = "rtc_close"
      BY <1>1, <1>2, <3>1 DEF Types
    <3>3. QED
      BY <3>2 DEF HalfClosed
  <2>2. pc' = pc
    BY <1>1, <1>2, <2>1 DEF Types
  <2>3. ~ HalfClosed
    BY <1>1, <2>2 DEF HalfClosed, rtcVars
  <2>4. \A q \in Slots : \A g \in Fds : ~ OpenAs(q, g, "rtc")
    BY <1>5, <2>1 DEF OpenAs, Opened
  <2>5. QED
    BY <1>1, <1>2, <2>3, <2>4 DEF DefaultWhenClosed, rtcVars
<1>11. ImageIsWhole'
  BY <1>1, <1>2 DEF ImageIsWhole
<1>12. FilesInv'
  <2>1. FileInv(p, fd)' /\ DirInv(p, fd)'
    BY <1>4, <1>5 DEF FileInv, DirInv, OpenAs, Opened
  <2>2. QED
    BY <1>2, <1>5, <1>6, <2>1, OtherDescriptors
<1>13. QED
  BY <1>8, <1>9, <1>10, <1>11, <1>12 DEF DescriptorsInv, FilesInv

(* A read moves one position and delivers something: everything but the       *)
(* invariant of that descriptor is as before.                                 *)
LEMMA ReadStep ==
    ASSUME DescriptorsInv, NEW p \in Slots, NEW fd \in Fds,
           NEW position \in 0 .. WORD - 1, NEW got,
           fds' = [fds EXCEPT ![p][fd].file_position = position],
           delivered' = [delivered EXCEPT ![p][fd] = got],
           UNCHANGED <<running, alive, pc, rtcVars, image>>,
           OpenAs(p, fd, "file") =>
               /\ position <= Size(InodeOf(fds[p][fd].file_name)) + 1
               /\ got = BytesRead(InodeOf(fds[p][fd].file_name), 0, position),
           OpenAs(p, fd, "dir") => position <= Len(Dentries) /\ got = Listed(position)
    PROVE  DescriptorsInv'
<1>1. Types /\ StandardStreams /\ DefaultWhenClosed /\ ImageIsWhole /\ FilesInv
  BY DEF DescriptorsInv, FilesInv
<1> DEFINE d == [fds[p][fd] EXCEPT !.file_position = position]
<1>2. d \in DescriptorType /\ d.flags = fds[p][fd].flags /\ d.file_position = position
      /\ d.operations_pointer = fds[p][fd].operations_pointer
      /\ d.file_name = fds[p][fd].file_name
  <2>1. fds[p][fd] \in DescriptorType
    BY <1>1 DEF Types
  <2>2. QED
    BY <2>1, MovedType
<1>3. /\ fds' \in [Slots -> [Fds -> DescriptorType]]
      /\ \A q \in Slots : \A g \in Fds :
            fds'[q][g] = IF q = p /\ g = fd THEN d ELSE fds[q][g]
  <2>1. fds' = [fds EXCEPT ![p][fd] = d]
    BY <1>1 DEF Types
  <2>2. fds \in [Slots -> [Fds -> DescriptorType]]
    BY <1>1 DEF Types
  <2>3. d \in DescriptorType
    BY <1>2
  <2> HIDE DEF d
  <2>4. fds' \in [Slots -> [Fds -> DescriptorType]]
    BY <2>1, <2>2, <2>3
  <2>5. \A q \in Slots : \A g \in Fds :
            fds'[q][g] = IF q = p /\ g = fd THEN d ELSE fds[q][g]
    BY <2>1, <2>2, <2>3
  <2>6. QED
    BY <2>4, <2>5
<1>4. /\ DOMAIN delivered' = Slots /\ \A q \in Slots : DOMAIN delivered'[q] = Fds
      /\ \A q \in Slots : \A g \in Fds :
            delivered'[q][g] = IF q = p /\ g = fd THEN got ELSE delivered[q][g]
  BY <1>1 DEF Types
<1> HIDE DEF d
<1>5. \A q \in Slots : \A g \in Fds :
         /\ Opened(q, g)' <=> Opened(q, g)
         /\ \A ops : OpenAs(q, g, ops)' <=> OpenAs(q, g, ops)
  BY <1>2, <1>3 DEF OpenAs, Opened
<1>6. Types'
  BY <1>1, <1>3, <1>4 DEF Types, rtcVars
<1>7. StandardStreams' /\ DefaultWhenClosed' /\ ImageIsWhole'
  BY <1>1, <1>5, ConstantFacts
     DEF StandardStreams, DefaultWhenClosed, HalfClosed, ImageIsWhole, rtcVars
<1>8. FilesInv'
  <2>1. FileInv(p, fd)'
    <3>1. fds[p][fd].file_name \in Names \/ ~ OpenAs(p, fd, "file")
      BY <1>1 DEF FilesInv, FileInv
    <3>2. QED
      BY <1>2, <1>3, <1>4, <1>5, <3>1 DEF FileInv
  <2>2. DirInv(p, fd)'
    BY <1>2, <1>3, <1>4, <1>5 DEF DirInv
  <2>3. QED
    BY <1>1, <1>3, <1>4, <2>1, <2>2, OtherDescriptors
<1>9. QED
  BY <1>6, <1>7, <1>8 DEF DescriptorsInv, FilesInv

LEMMA ReadFileStep ==
    ASSUME DescriptorsInv, NEW p \in Slots, NEW fd \in Fds, NEW n \in NBytes,
           ReadFile(p, fd, n)
    PROVE  DescriptorsInv'
<1> DEFINE position == fds[p][fd].file_position
           inode == InodeOf(fds[p][fd].file_name)
           result == ReadData(inode, position, n)
           moved == Moved(position, result.ret)
           got == delivered[p][fd] \o result.buf
<1>1. /\ OpenAs(p, fd, "file")
      /\ fds' = [fds EXCEPT ![p][fd].file_position = moved]
      /\ delivered' = [delivered EXCEPT ![p][fd] = got]
      /\ UNCHANGED <<running, alive, pc, rtcVars, image>>
  <2>1. Types
    BY DEF DescriptorsInv
  <2>2. QED
    BY <2>1 DEF ReadFile, InodeOf, Types
<1>2. fds[p][fd].file_name \in Names /\ position <= Size(inode) + 1
      /\ delivered[p][fd] = BytesRead(inode, 0, position)
  BY <1>1 DEF DescriptorsInv, FileInv
<1>3. position \in Nat /\ n \in Nat \ {0}
  BY PositionType, DescriptorsAssumption DEF DescriptorsInv
<1>4. PICK m \in 0 .. n :
        /\ position + m <= Size(inode) + 1
        /\ result.ret = m /\ result.buf = BytesRead(inode, position, m)
  BY <1>2, <1>3, ReadDataResult
<1>5. Size(inode) \in Nat /\ Size(inode) + 1 < WORD
  BY <1>2, NameFacts
<1> HIDE DEF position, inode, result, moved, got
<1>6. moved = position + m /\ position + m \in 0 .. WORD - 1
  <2>1. m \in Nat /\ WORD \in Nat \ {0} /\ position + m \in Nat /\ position + m < WORD
    BY <1>3, <1>4, <1>5, ConstantFacts
  <2>2. (position + m) % WORD = position + m
    BY <2>1, SmallModulus
  <2>3. QED
    BY <1>4, <2>1, <2>2 DEF moved, Moved
<1>7. got = BytesRead(inode, 0, position + m)
  <2>1. m \in Nat
    BY <1>3, <1>4
  <2>2. QED
    BY <1>2, <1>3, <1>4, <2>1, ReadsJoin, ZenonT(30) DEF got
<1>8. ~ OpenAs(p, fd, "dir")
  BY <1>1 DEF OpenAs
<1>9. QED
  BY <1>1, <1>4, <1>6, <1>7, <1>8, ReadStep DEF inode

LEMMA ReadDirectoryStep ==
    ASSUME DescriptorsInv, NEW p \in Slots, NEW fd \in Fds, ReadDirectory(p, fd)
    PROVE  DescriptorsInv'
<1> DEFINE position == fds[p][fd].file_position
<1>1. /\ OpenAs(p, fd, "dir")
      /\ UNCHANGED <<running, alive, pc, rtcVars, image>>
      /\ ~ OpenAs(p, fd, "file")
  BY DEF ReadDirectory, OpenAs
<1>2. position <= Len(Dentries) /\ delivered[p][fd] = Listed(position)
  BY <1>1 DEF DescriptorsInv, DirInv
<1>3. position \in Nat /\ Len(Dentries) \in Nat /\ Len(Dentries) < WORD
      /\ WORD \in Nat \ {0}
  BY ConstantFacts, PositionType DEF DescriptorsInv
<1>4. CASE EndOfDirectory(position)
  <2>1. fds' = [fds EXCEPT ![p][fd].file_position = 0]
        /\ delivered' = [delivered EXCEPT ![p][fd] = <<>>]
    BY <1>4 DEF ReadDirectory
  <2>2. <<>> = Listed(0) /\ 0 \in 0 .. WORD - 1 /\ 0 <= Len(Dentries)
    BY <1>3 DEF Listed
  <2>3. QED
    BY <1>1, <2>1, <2>2, ReadStep
<1>5. CASE ~ EndOfDirectory(position)
  <2> DEFINE name == Dentries[position + 1].file_name
             got == Append(delivered[p][fd], name)
  <2>1. fds' = [fds EXCEPT ![p][fd].file_position = position + 1]
        /\ delivered' = [delivered EXCEPT ![p][fd] = got]
    BY <1>5 DEF ReadDirectory, DescriptorsInv, Types
  <2>2. position + 1 \in 0 .. WORD - 1 /\ position + 1 <= Len(Dentries)
    BY <1>3, <1>5 DEF EndOfDirectory
  <2>3. got = Listed(position + 1)
    BY <1>2, <1>3 DEF Listed
  <2> HIDE DEF position, got
  <2>4. QED
    BY <1>1, <2>1, <2>2, <2>3, ReadStep
<1>6. QED
  BY <1>4, <1>5

LEMMA RtcWriteStep ==
    ASSUME DescriptorsInv, NEW p \in Slots, NEW fd \in Fds, NEW hz,
           RtcWrite(p, fd, hz)
    PROVE  DescriptorsInv'
<1>1. /\ OpenAs(p, fd, "rtc") /\ SetFrequency(hz)
      /\ UNCHANGED <<running, alive, fds, pc, intr_occ, image, delivered, cut_off>>
  BY DEF RtcWrite
<1>2. rtc_frequency' \in PowersOfTwo
  BY <1>1 DEF DescriptorsInv, Types, SetFrequency, MaySet
<1>3. Types' /\ StandardStreams' /\ ImageIsWhole'
  BY <1>1, <1>2
     DEF DescriptorsInv, Types, StandardStreams, ImageIsWhole, OpenAs, Opened
<1>4. DefaultWhenClosed'
  BY <1>1 DEF DefaultWhenClosed, OpenAs, Opened
<1>5. \A q \in Slots : \A g \in Fds : FileInv(q, g)' /\ DirInv(q, g)'
  BY <1>1 DEF DescriptorsInv, FileInv, DirInv, OpenAs, Opened
<1>6. QED
  BY <1>3, <1>4, <1>5 DEF DescriptorsInv

(* The steps of a program that move no descriptor.                            *)
LEMMA RtcReadCallStep ==
    ASSUME DescriptorsInv, NEW p \in Slots, NEW fd \in Fds, RtcReadCall(p, fd)
    PROVE  DescriptorsInv'
<1>1. /\ pc[p] = "user" /\ pc' = [pc EXCEPT ![p] = "rtc_read"]
      /\ UNCHANGED <<running, alive, fds, rtcVars, image, delivered>>
  BY DEF RtcReadCall, Calls
<1>2. Types
  BY DEF DescriptorsInv
<1>3. pc' \in [Slots -> Places]
      /\ \A q \in Slots : pc[q] = "rtc_close" => pc'[q] = "rtc_close"
  BY <1>1, <1>2 DEF Types, Places
<1>4. HalfClosed => HalfClosed'
  BY <1>1, <1>3, HalfClosedStays DEF rtcVars
<1>5. QED
  BY <1>1, <1>2, <1>3, <1>4, QuietStep DEF rtcVars, Types

LEMMA RtcReadReturnStep ==
    ASSUME DescriptorsInv, NEW p \in Slots, RtcReadReturn(p)
    PROVE  DescriptorsInv'
<1>1. /\ pc[p] = "rtc_read" /\ pc' = [pc EXCEPT ![p] = "user"] /\ intr_occ' = FALSE
      /\ UNCHANGED <<running, alive, fds, rtc_frequency, image, delivered, cut_off>>
  BY DEF RtcReadReturn
<1>2. Types
  BY DEF DescriptorsInv
<1>3. pc' \in [Slots -> Places]
      /\ \A q \in Slots : pc[q] = "rtc_close" => pc'[q] = "rtc_close"
  BY <1>1, <1>2 DEF Types, Places
<1>4. HalfClosed => HalfClosed'
  BY <1>1, <1>3, HalfClosedStays
<1>5. QED
  BY <1>1, <1>2, <1>3, <1>4, QuietStep DEF Types

LEMMA RtcCloseStep ==
    ASSUME DescriptorsInv, NEW p \in Slots, RtcClose(p)
    PROVE  DescriptorsInv'
<1>1. /\ ResetRate /\ pc' = [pc EXCEPT ![p] = "user"]
      /\ UNCHANGED <<running, alive, fds, intr_occ, image, delivered>>
  BY DEF RtcClose
<1>2. /\ rtc_frequency' = RTC_DEFAULT_HZ /\ rtc_frequency' \in PowersOfTwo
      /\ cut_off' = FALSE
  BY <1>1, DefaultRate
<1>3. Types'
  BY <1>1, <1>2 DEF DescriptorsInv, Types, Places
<1>4. DefaultWhenClosed'
  BY <1>2 DEF DefaultWhenClosed
<1>5. StandardStreams' /\ ImageIsWhole'
      /\ \A q \in Slots : \A g \in Fds : FileInv(q, g)' /\ DirInv(q, g)'
  BY <1>1 DEF DescriptorsInv, StandardStreams, ImageIsWhole, FileInv, DirInv, OpenAs,
              Opened
<1>6. QED
  BY <1>3, <1>4, <1>5 DEF DescriptorsInv

(* Ctrl+C on a base shell: a close it ends before its rtc_close is cut off.   *)
LEMMA RestartStep ==
    ASSUME DescriptorsInv, NEW p \in Slots, Restart(p)
    PROVE  DescriptorsInv'
<1>1. /\ pc' = [pc EXCEPT ![p] = "user"] /\ cut_off' = CutOffAfter(p)
      /\ UNCHANGED <<running, alive, fds, intr_occ, rtc_frequency, image, delivered>>
  BY DEF Restart
<1>2. Types
  BY DEF DescriptorsInv
<1>3. pc' \in [Slots -> Places] /\ cut_off' \in BOOLEAN
  BY <1>1, <1>2 DEF Types, Places, CutOffAfter
<1>4. HalfClosed => HalfClosed'
  <2>1. ASSUME NEW q \in Slots, pc[q] = "rtc_close", q # p PROVE pc'[q] = "rtc_close"
    BY <1>1, <1>2, <2>1 DEF Types
  <2>2. cut_off \/ pc[p] = "rtc_close" => cut_off'
    BY <1>1, Zenon DEF CutOffAfter
  <2>3. QED
    BY <2>1, <2>2, Zenon DEF HalfClosed
<1>5. QED
  BY <1>1, <1>2, <1>3, <1>4, QuietStep DEF Types

LEMMA SwitchTerminalStep ==
    ASSUME DescriptorsInv, NEW p \in Slots, SwitchTerminal(p)
    PROVE  DescriptorsInv'
<1>1. /\ p \in alive /\ running' = p
      /\ UNCHANGED <<alive, fds, pc, rtcVars, image, delivered>>
  BY DEF SwitchTerminal
<1>2. HalfClosed => HalfClosed'
  BY <1>1, HalfClosedStays DEF rtcVars
<1>3. QED
  BY <1>1, <1>2, QuietStep DEF DescriptorsInv, Types, rtcVars

LEMMA NewDescriptors ==
    /\ NewFds \in [Fds -> DescriptorType]
    /\ NewFds[0].flags /\ NewFds[0].operations_pointer = "stdin"
    /\ NewFds[1].flags /\ NewFds[1].operations_pointer = "stdout"
    /\ \A fd \in Fds : NewFds[fd].flags =>
          NewFds[fd].operations_pointer \in {"stdin", "stdout"}
    /\ Unused \in DescriptorType /\ ~ Unused.flags
<1> DEFINE in == Descriptor("stdin", "", TRUE)
           out == Descriptor("stdout", "", TRUE)
<1>1. /\ in \in DescriptorType /\ in.flags /\ in.operations_pointer = "stdin"
      /\ out \in DescriptorType /\ out.flags /\ out.operations_pointer = "stdout"
      /\ Unused \in DescriptorType /\ ~ Unused.flags
  BY ConstantFacts DEF Descriptor, Unused, DescriptorType
<1>2. NewFds = [fd \in Fds |-> CASE fd = 0 -> in [] fd = 1 -> out [] OTHER -> Unused]
  BY DEF NewFds
<1> HIDE DEF in, out
<1>3. \A fd \in Fds :
         /\ fd = 0 => NewFds[fd] = in
         /\ fd = 1 => NewFds[fd] = out
         /\ fd # 0 /\ fd # 1 => NewFds[fd] = Unused
  BY <1>2
<1>4. NewFds \in [Fds -> DescriptorType]
  BY <1>1, <1>2
<1>5. NewFds[0] = in /\ NewFds[1] = out
  BY <1>3, ConstantFacts
<1>6. \A fd \in Fds : NewFds[fd].flags =>
         NewFds[fd].operations_pointer \in {"stdin", "stdout"}
  BY <1>1, <1>3
<1>7. QED
  BY <1>1, <1>4, <1>5, <1>6

LEMMA ExecuteStep ==
    ASSUME DescriptorsInv, NEW p \in Slots, NEW name \in Programs, Execute(p, name)
    PROVE  DescriptorsInv'
<1> DEFINE copy == CopyFileToAddr(name).buf
<1>1. /\ p \in Slots /\ p \notin alive
      /\ Exists(name)
      /\ image' = [image EXCEPT ![p] = copy]
      /\ alive' = alive \cup {p}
      /\ running' = p
      /\ fds' = [fds EXCEPT ![p] = NewFds]
      /\ UNCHANGED <<pc, rtcVars, delivered>>
  BY DEF Execute
<1>2. Types /\ StandardStreams /\ DefaultWhenClosed /\ ImageIsWhole /\ FilesInv
  BY DEF DescriptorsInv, FilesInv
<1>3. copy = Contents(DentryOf(name).inode_num)
  BY <1>1, NameFound, CopyIsWhole DEF InodeOf
<1> HIDE DEF copy
<1>4. /\ fds' \in [Slots -> [Fds -> DescriptorType]]
      /\ \A q \in Slots : fds'[q] = IF q = p THEN NewFds ELSE fds[q]
  BY <1>1, <1>2, NewDescriptors DEF Types
<1>5. DOMAIN image' = Slots /\ \A q \in Slots :
          image'[q] = IF q = p THEN copy ELSE image[q]
  BY <1>1, <1>2 DEF Types
<1>6. Types'
  BY <1>1, <1>2, <1>4, <1>5 DEF Types, rtcVars
<1>7. \A fd \in Fds : ~ OpenAs(p, fd, "file")' /\ ~ OpenAs(p, fd, "dir")'
  BY <1>4, NewDescriptors DEF OpenAs, Opened
<1>8. StandardStreams'
  <2>1. OpenAs(p, 0, "stdin")' /\ OpenAs(p, 1, "stdout")'
    BY <1>4, NewDescriptors, ConstantFacts DEF OpenAs, Opened
  <2>2. QED
    BY <1>1, <1>2, <1>4, <2>1 DEF StandardStreams, OpenAs, Opened
<1>9. DefaultWhenClosed'
  <2> SUFFICES ASSUME \A q \in Slots : \A g \in Fds : ~ OpenAs(q, g, "rtc")',
                      ~ HalfClosed'
               PROVE  rtc_frequency' = RTC_DEFAULT_HZ
    BY DEF DefaultWhenClosed
  <2>1. \A q \in Slots : \A g \in Fds : ~ OpenAs(q, g, "rtc")
    BY <1>1, <1>2, <1>4 DEF OpenAs, Opened, StandardStreams
  <2>2. ~ HalfClosed
    BY <1>1 DEF HalfClosed, rtcVars
  <2>3. QED
    BY <1>1, <1>2, <2>1, <2>2 DEF DefaultWhenClosed, rtcVars
<1>10. ImageIsWhole'
  BY <1>1, <1>2, <1>3, <1>5 DEF ImageIsWhole, Types
<1>11. FilesInv'
  <2>1. ASSUME NEW q \in Slots, NEW fd \in Fds PROVE FileInv(q, fd)' /\ DirInv(q, fd)'
    <3>1. CASE q = p
      BY <1>7, <3>1 DEF FileInv, DirInv
    <3>2. CASE q # p
      <4>1. fds'[q] = fds[q] /\ delivered'[q] = delivered[q]
        BY <1>1, <1>4, <3>2
      <4>2. FileInv(q, fd) /\ DirInv(q, fd)
        BY <1>2 DEF FilesInv
      <4>3. QED
        BY <4>1, <4>2 DEF FileInv, DirInv, OpenAs, Opened
    <3>3. QED
      BY <3>1, <3>2
  <2>2. QED
    BY <2>1 DEF FilesInv
<1>12. QED
  BY <1>6, <1>8, <1>9, <1>10, <1>11 DEF DescriptorsInv, FilesInv

LEMMA HaltStep ==
    ASSUME DescriptorsInv, NEW p \in Slots, NEW next \in Slots, Halt(p, next)
    PROVE  DescriptorsInv'
<1>1. /\ p \in alive /\ p \notin Shells
      /\ alive' = alive \ {p} /\ next \in alive' /\ running' = next
      /\ AfterHalt(p)
      /\ fds' = [Closed(p, HaltCloses) EXCEPT ![p] = [fd \in Fds |->
             IF fd < 2 THEN [@[fd] EXCEPT !.operations_pointer = "none", !.flags = FALSE]
             ELSE @[fd]]]
      /\ image' = [image EXCEPT ![p] = <<>>]
      /\ delivered' = [delivered EXCEPT ![p] = [fd \in Fds |-> <<>>]]
      /\ pc' = [pc EXCEPT ![p] = "user"]
      /\ UNCHANGED intr_occ
  BY DEF Halt
<1>2. Types /\ StandardStreams /\ DefaultWhenClosed /\ ImageIsWhole /\ FilesInv
  BY DEF DescriptorsInv, FilesInv
<1> DEFINE ended(fd) ==
               IF fd < 2
               THEN [fds[p][fd] EXCEPT !.operations_pointer = "none", !.flags = FALSE]
               ELSE [fds[p][fd] EXCEPT !.flags = FALSE, !.file_position = 0]
<1>3. fds' = [fds EXCEPT ![p] = [fd \in Fds |-> ended(fd)]]
  <2> DEFINE closed == [fd \in Fds |->
                 IF fd \in HaltCloses
                 THEN [fds[p][fd] EXCEPT !.flags = FALSE, !.file_position = 0]
                 ELSE fds[p][fd]]
  <2>1. Closed(p, HaltCloses) = [fds EXCEPT ![p] = closed]
    BY DEF Closed
  <2>2. fds' = [fds EXCEPT ![p] = [fd \in Fds |->
             IF fd < 2
             THEN [closed[fd] EXCEPT !.operations_pointer = "none", !.flags = FALSE]
             ELSE closed[fd]]]
    BY <1>1, <1>2, <2>1 DEF Types
  <2>3. \A fd \in Fds : fd \in HaltCloses <=> ~ (fd < 2)
    BY ConstantFacts DEF HaltCloses
  <2>4. QED
    BY <2>2, <2>3
<1>4. \A fd \in Fds : ended(fd) \in DescriptorType /\ ended(fd).flags = FALSE
  <2> SUFFICES ASSUME NEW fd \in Fds
               PROVE  ended(fd) \in DescriptorType /\ ended(fd).flags = FALSE
    OBVIOUS
  <2>1. fds[p][fd] \in DescriptorType
    BY <1>2 DEF Types
  <2>2. [fds[p][fd] EXCEPT !.operations_pointer = "none", !.flags = FALSE] \in DescriptorType
        /\ [fds[p][fd] EXCEPT !.operations_pointer = "none", !.flags = FALSE].flags = FALSE
    BY <2>1, ConstantFacts, MovedType
  <2>3. [fds[p][fd] EXCEPT !.flags = FALSE, !.file_position = 0] \in DescriptorType
        /\ [fds[p][fd] EXCEPT !.flags = FALSE, !.file_position = 0].flags = FALSE
    BY <2>1, ConstantFacts, MovedType
  <2>4. QED
    BY <2>2, <2>3
<1> HIDE DEF ended
<1>5. fds' \in [Slots -> [Fds -> DescriptorType]]
  BY <1>2, <1>3, <1>4 DEF Types
<1>6. \A q \in Slots : fds'[q] = IF q = p THEN [fd \in Fds |-> ended(fd)] ELSE fds[q]
  BY <1>2, <1>3 DEF Types
<1>7. \A fd \in Fds : ~ Opened(p, fd)'
  BY <1>4, <1>6 DEF Opened
<1>8. /\ DOMAIN delivered' = Slots /\ \A q \in Slots : DOMAIN delivered'[q] = Fds
      /\ \A q \in Slots : q # p => delivered'[q] = delivered[q] /\ image'[q] = image[q]
      /\ DOMAIN image' = Slots
  BY <1>1, <1>2 DEF Types
<1>9. rtc_frequency' \in PowersOfTwo /\ cut_off' \in BOOLEAN
  BY <1>1, <1>2, DefaultRate DEF AfterHalt, CutOffAfter, Types
<1>10. Types'
  BY <1>1, <1>2, <1>5, <1>8, <1>9 DEF Types, Places
<1>11. StandardStreams'
  <2>1. ASSUME NEW q \in Slots, q # p
        PROVE  IF q \in alive' THEN OpenAs(q, 0, "stdin")' /\ OpenAs(q, 1, "stdout")'
               ELSE \A fd \in Fds : ~ Opened(q, fd)'
    BY <1>1, <1>2, <1>6, <2>1 DEF StandardStreams, OpenAs, Opened
  <2>2. QED
    BY <1>1, <1>7, <2>1 DEF StandardStreams
<1>12. DefaultWhenClosed'
  <2> SUFFICES ASSUME \A q \in Slots : \A g \in Fds : ~ OpenAs(q, g, "rtc")',
                      ~ HalfClosed'
               PROVE  rtc_frequency' = RTC_DEFAULT_HZ
    BY DEF DefaultWhenClosed
  <2>1. CASE \E fd \in HaltCloses : OpenAs(p, fd, "rtc")
    BY <1>1, <2>1, DefaultRate DEF AfterHalt
  <2>2. CASE \A fd \in HaltCloses : ~ OpenAs(p, fd, "rtc")
    <3>1. rtc_frequency' = rtc_frequency /\ cut_off' = CutOffAfter(p)
      BY <1>1, <2>2 DEF AfterHalt
    <3>2. \A fd \in Fds : ~ OpenAs(p, fd, "rtc")
      <4>1. OpenAs(p, 0, "stdin") /\ OpenAs(p, 1, "stdout")
        BY <1>1, <1>2 DEF StandardStreams
      <4>2. \A fd \in Fds : fd = 0 \/ fd = 1 \/ fd \in HaltCloses
        BY ConstantFacts DEF HaltCloses
      <4>3. QED
        BY <2>2, <4>1, <4>2 DEF OpenAs
    <3>3. \A q \in Slots : \A g \in Fds : ~ OpenAs(q, g, "rtc")
      BY <1>6, <3>2 DEF OpenAs, Opened
    <3>4. ~ HalfClosed
      BY <1>1, <1>2, <3>1, Zenon DEF HalfClosed, CutOffAfter, Types
    <3>5. QED
      BY <1>2, <3>1, <3>3, <3>4 DEF DefaultWhenClosed
  <2>3. QED
    BY <2>1, <2>2
<1>13. ImageIsWhole'
  <2>1. \A q \in alive' \ Shells : q \in alive \ Shells /\ q # p /\ q \in Slots
    BY <1>1, <1>2 DEF Types
  <2>2. QED
    BY <1>2, <1>8, <2>1 DEF ImageIsWhole
<1>14. FilesInv'
  <2>1. ASSUME NEW q \in Slots, NEW fd \in Fds PROVE FileInv(q, fd)' /\ DirInv(q, fd)'
    <3>1. CASE q = p
      BY <1>7, <3>1 DEF FileInv, DirInv, OpenAs
    <3>2. CASE q # p
      <4>1. fds'[q] = fds[q] /\ delivered'[q] = delivered[q]
        BY <1>6, <1>8, <3>2
      <4>2. FileInv(q, fd) /\ DirInv(q, fd)
        BY <1>2 DEF FilesInv
      <4>3. QED
        BY <4>1, <4>2 DEF FileInv, DirInv, OpenAs, Opened
    <3>3. QED
      BY <3>1, <3>2
  <2>2. QED
    BY <2>1 DEF FilesInv
<1>15. QED
  BY <1>10, <1>11, <1>12, <1>13, <1>14 DEF DescriptorsInv, FilesInv

-----------------------------------------------------------------------------
(* The theorems.                                                              *)

LEMMA InitInv == Init => DescriptorsInv
<1> SUFFICES ASSUME Init PROVE DescriptorsInv
  OBVIOUS
<1>1. fds \in [Slots -> [Fds -> DescriptorType]]
      /\ \A p \in Slots : fds[p] = IF p \in Shells THEN NewFds
                                  ELSE [fd \in Fds |-> Unused]
  BY NewDescriptors DEF Init
<1>2. Types
  BY <1>1, ConstantFacts, DescriptorsAssumption DEF Init, Types, Places
<1>3. \A p \in Slots : \A fd \in Fds :
         ~ OpenAs(p, fd, "file") /\ ~ OpenAs(p, fd, "dir")
  BY <1>1, NewDescriptors DEF OpenAs, Opened
<1>4. StandardStreams
  BY <1>1, NewDescriptors, ConstantFacts DEF Init, StandardStreams, OpenAs, Opened
<1>5. DefaultWhenClosed /\ ImageIsWhole
  BY DEF Init, DefaultWhenClosed, ImageIsWhole
<1>6. QED
  BY <1>2, <1>3, <1>4, <1>5 DEF DescriptorsInv, FileInv, DirInv

LEMMA NextInv == DescriptorsInv /\ [Next]_vars => DescriptorsInv'
<1> SUFFICES ASSUME DescriptorsInv, [Next]_vars PROVE DescriptorsInv'
  OBVIOUS
<1>1. Types
  BY DEF DescriptorsInv
<1>2. CASE RtcInterrupt
  BY <1>1, <1>2, QuietStep, HalfClosedStays DEF RtcInterrupt, Types
<1>3. CASE UNCHANGED vars
  BY <1>1, <1>3, QuietStep, HalfClosedStays DEF vars, rtcVars, Types
<1>4. ASSUME NEW p \in Slots, NEW name \in Names, Open(p, name) PROVE DescriptorsInv'
  BY <1>4, OpenStep
<1>5. ASSUME NEW p \in Slots, NEW fd \in Fds,
             \/ Close(p, fd)
             \/ \E n \in NBytes : ReadFile(p, fd, n)
             \/ ReadDirectory(p, fd)
             \/ \E hz \in Frequencies : RtcWrite(p, fd, hz)
      PROVE  DescriptorsInv'
  BY <1>5, CloseStep, ReadFileStep, ReadDirectoryStep, RtcWriteStep
<1>6. ASSUME NEW p \in Slots, NEW fd \in Fds, RtcReadCall(p, fd) PROVE DescriptorsInv'
  BY <1>6, RtcReadCallStep
<1>7. ASSUME NEW p \in Slots,
             RtcReadReturn(p) \/ RtcClose(p) \/ Restart(p) \/ SwitchTerminal(p)
      PROVE  DescriptorsInv'
  BY <1>7, RtcReadReturnStep, RtcCloseStep, RestartStep, SwitchTerminalStep
<1>8. ASSUME NEW p \in Slots, NEW name \in Programs, Execute(p, name)
      PROVE  DescriptorsInv'
  BY <1>8, ExecuteStep
<1>9. ASSUME NEW p \in Slots, NEW next \in Slots, Halt(p, next) PROVE DescriptorsInv'
  BY <1>9, HaltStep
<1>10. QED
  BY <1>2, <1>3, <1>4, <1>5, <1>6, <1>7, <1>8, <1>9 DEF Next

LEMMA DescriptorsInvariant == Spec => []DescriptorsInv
BY InitInv, NextInv, PTL DEF Spec

(* Only dir_read at the end of the directory takes an open directory back to  *)
(* its beginning.                                                             *)
LEMMA DirectoryRewound ==
    ASSUME DescriptorsInv, [Next]_vars, NEW p \in Slots, NEW fd \in Fds,
           OpenAs(p, fd, "dir"), OpenAs(p, fd, "dir")',
           fds[p][fd].file_position # 0, fds'[p][fd].file_position = 0
    PROVE  fds[p][fd].file_position = Len(Dentries)
<1>1. Types /\ StandardStreams /\ fds[p][fd].file_position <= Len(Dentries)
      /\ Len(Dentries) \in Nat /\ fds[p][fd].file_position \in Nat
  BY PositionType, ConstantFacts DEF DescriptorsInv, DirInv
<1>2. fds'[p][fd] # fds[p][fd]
  OBVIOUS
<1>3. ASSUME NEW q \in Slots, NEW name \in Names, Open(q, name) PROVE FALSE
  <2>1. PICK e \in 2 .. MAX_FILES - 1 :
            ~ Opened(q, e) /\ \E d : fds' = [fds EXCEPT ![q][e] = d]
    BY <1>3 DEF Open
  <2>2. q = p /\ e = fd
    BY <1>1, <1>2, <2>1 DEF Types
  <2>3. QED
    BY <2>1, <2>2 DEF OpenAs
<1>4. ASSUME NEW q \in Slots, NEW e \in Fds, Close(q, e) PROVE FALSE
  <2>1. fds' = [fds EXCEPT ![q] = [g \in Fds |->
            IF g = e THEN [fds[q][g] EXCEPT !.flags = FALSE, !.file_position = 0]
            ELSE fds[q][g]]]
    BY <1>1, <1>4 DEF Close, Closed, Types
  <2>2. q = p /\ e = fd
    <3>1. q = p
      BY <1>1, <1>2, <2>1 DEF Types
    <3>2. e = fd
      BY <1>1, <1>2, <2>1, <3>1, ZenonT(30) DEF Types
    <3>3. QED
      BY <3>1, <3>2
  <2>3. fds[p][fd] \in DescriptorType
    BY <1>1 DEF Types
  <2>4. fds'[p][fd] = [fds[p][fd] EXCEPT !.flags = FALSE, !.file_position = 0]
    BY <1>1, <2>1, <2>2 DEF Types
  <2>5. fds'[p][fd].flags = FALSE
    <3>1. [fds[p][fd] EXCEPT !.flags = FALSE, !.file_position = 0].flags = FALSE
      BY <2>3, ConstantFacts, MovedType
    <3>2. QED
      BY <2>4, <3>1
  <2>6. QED
    BY <2>5 DEF OpenAs, Opened
<1>5. ASSUME NEW q \in Slots, NEW e \in Fds, NEW n \in NBytes, ReadFile(q, e, n)
      PROVE  FALSE
  <2>1. PICK x : fds' = [fds EXCEPT ![q][e].file_position = x]
    BY <1>5 DEF ReadFile
  <2>2. q = p /\ e = fd
    BY <1>1, <1>2, <2>1 DEF Types
  <2>3. QED
    BY <1>5, <2>2 DEF ReadFile, OpenAs
<1>6. ASSUME NEW q \in Slots, NEW e \in Fds, ReadDirectory(q, e)
      PROVE  fds[p][fd].file_position = Len(Dentries)
  <2>1. PICK x : fds' = [fds EXCEPT ![q][e].file_position = x]
    BY <1>6 DEF ReadDirectory
  <2>2. q = p /\ e = fd
    BY <1>1, <1>2, <2>1 DEF Types
  <2>3. CASE EndOfDirectory(fds[p][fd].file_position)
    BY <1>1, <2>3 DEF EndOfDirectory
  <2>4. CASE ~ EndOfDirectory(fds[p][fd].file_position)
    <3> DEFINE y == fds[p][fd].file_position + 1
    <3>1. fds' = [fds EXCEPT ![p][fd].file_position = y]
      BY <1>1, <1>6, <2>2, <2>4 DEF ReadDirectory, Types
    <3>2. fds[p][fd] \in DescriptorType
      BY <1>1 DEF Types
    <3>3. fds'[p][fd].file_position = y
      <4> HIDE DEF y
      <4>1. fds'[p][fd] = [fds[p][fd] EXCEPT !.file_position = y]
        BY <1>1, <3>1 DEF Types
      <4>2. QED
        BY <3>2, <4>1 DEF DescriptorType
    <3>4. QED
      BY <1>1, <3>3
  <2>5. QED
    BY <2>3, <2>4
<1>7. ASSUME NEW q \in Slots, NEW name \in Programs, Execute(q, name) PROVE FALSE
  <2>1. q \notin alive /\ fds' = [fds EXCEPT ![q] = NewFds]
    BY <1>7 DEF Execute
  <2>2. q = p
    BY <1>1, <1>2, <2>1 DEF Types
  <2>3. QED
    BY <1>1, <2>1, <2>2 DEF StandardStreams, OpenAs
<1>8. ASSUME NEW q \in Slots, NEW next \in Slots, Halt(q, next) PROVE FALSE
  <2>1. q = p
    BY <1>1, <1>2, <1>8 DEF Halt, Closed, Types
  <2>2. DescriptorsInv' /\ p \notin alive'
    BY <1>8, <2>1, HaltStep DEF Halt
  <2>3. QED
    BY <2>2 DEF DescriptorsInv, StandardStreams, OpenAs
<1>9. ~ UNCHANGED fds
  BY <1>2
<1>10. QED
  BY <1>3, <1>4, <1>5, <1>6, <1>7, <1>8, <1>9
     DEF Next, vars, rtcVars, RtcInterrupt, RtcReadCall, RtcReadReturn, RtcWrite,
         RtcClose, Restart, SwitchTerminal

(* Every variable keeps its type; file_position does not wrap.                *)
THEOREM TypeCorrect == Spec => []TypeOK
<1>1. DescriptorsInv => TypeOK
  <2> SUFFICES ASSUME DescriptorsInv PROVE TypeOK
    OBVIOUS
  <2>1. Types
    BY DEF DescriptorsInv
  <2>2. ASSUME NEW p \in Slots, NEW fd \in Fds
        PROVE  /\ fds[p][fd].operations_pointer \in FileTypes \cup {"none", "stdin", "stdout"}
               /\ fds[p][fd].file_name \in Names \cup {""}
               /\ fds[p][fd].file_position \in 0 .. WORD - 1
               /\ fds[p][fd].flags \in BOOLEAN
    BY <2>1, PositionType DEF DescriptorType
  <2>3. QED
    BY <2>1, <2>2 DEF Types, TypeOK
<1>2. QED
  BY <1>1, DescriptorsInvariant, PTL

(* close and halt leave a running program its terminal on descriptors 0 and   *)
(* 1, and a program that has ended no descriptor.                             *)
THEOREM StandardStreamsCorrect == Spec => []StandardStreams
<1>1. DescriptorsInv => StandardStreams
  BY DEF DescriptorsInv
<1>2. QED
  BY <1>1, DescriptorsInvariant, PTL

(* rtc_open and rtc_close, from close or from halt, set the clock back to its *)
(* default rate when the last descriptor of it is gone, unless a close is     *)
(* between its two halves or was ended there.                                 *)
THEOREM DefaultWhenClosedCorrect == Spec => []DefaultWhenClosed
<1>1. DescriptorsInv => DefaultWhenClosed
  BY DEF DescriptorsInv
<1>2. QED
  BY <1>1, DescriptorsInvariant, PTL

(* copy_file_to_addr gives execute the whole file, whatever it returns.       *)
THEOREM ImageIsWholeCorrect == Spec => []ImageIsWhole
<1>1. DescriptorsInv => ImageIsWhole
  BY DEF DescriptorsInv
<1>2. QED
  BY <1>1, DescriptorsInvariant, PTL

(* Reads of a file, of whatever sizes, deliver its bytes in order, none twice *)
(* and none left out.                                                         *)
THEOREM ContentsInOrderCorrect == Spec => []ContentsInOrder
<1>1. DescriptorsInv => ContentsInOrder
  <2> SUFFICES ASSUME DescriptorsInv, NEW p \in Slots, NEW fd \in Fds,
                      OpenAs(p, fd, "file"),
                      NEW k \in 1 .. Len(delivered[p][fd]),
                      k <= Len(Contents(InodeOf(fds[p][fd].file_name)))
               PROVE  delivered[p][fd][k] = Contents(InodeOf(fds[p][fd].file_name))[k]
    BY DEF ContentsInOrder, InodeOf
  <2> DEFINE inode == InodeOf(fds[p][fd].file_name)
             position == fds[p][fd].file_position
  <2>1. fds[p][fd].file_name \in Names /\ delivered[p][fd] = BytesRead(inode, 0, position)
    BY DEF DescriptorsInv, FileInv
  <2>2. position \in Nat /\ Size(inode) \in Nat
    BY <2>1, PositionType, NameFacts DEF DescriptorsInv
  <2> HIDE DEF inode, position
  <2>3. k \in 1 .. position /\ delivered[p][fd][k] = ByteAt(inode, k - 1)
    BY <2>1, <2>2 DEF BytesRead
  <2>4. k \in 1 .. Size(inode) /\ Contents(inode)[k] = ByteAt(inode, k - 1)
    BY <2>2, <2>3 DEF Contents, inode
  <2>5. QED
    BY <2>3, <2>4 DEF inode
<1>2. QED
  BY <1>1, DescriptorsInvariant, PTL

(* When dir_read reports the end, the listing is complete.                    *)
THEOREM ListingCompleteCorrect == Spec => ListingComplete
<1>1. ASSUME DescriptorsInv, [Next]_vars, NEW p \in Slots, NEW fd \in Fds,
             OpenAs(p, fd, "dir"), OpenAs(p, fd, "dir")',
             fds[p][fd].file_position # 0, fds'[p][fd].file_position = 0
      PROVE  delivered[p][fd] = [i \in 1 .. Len(Dentries) |-> Dentries[i].file_name]
  <2>1. fds[p][fd].file_position = Len(Dentries)
    BY <1>1, DirectoryRewound
  <2>2. QED
    BY <1>1, <2>1 DEF DescriptorsInv, DirInv, Listed
<1>2. DescriptorsInv /\ [Next]_vars =>
        [\A p \in Slots : \A fd \in Fds :
            /\ OpenAs(p, fd, "dir") /\ OpenAs(p, fd, "dir")'
            /\ fds[p][fd].file_position # 0 /\ fds'[p][fd].file_position = 0
            => delivered[p][fd] = [i \in 1 .. Len(Dentries) |->
                                      Dentries[i].file_name]]_vars
  BY <1>1
<1>3. QED
  BY <1>2, DescriptorsInvariant, PTL DEF Spec, ListingComplete
=============================================================================
