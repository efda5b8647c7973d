---------------------------- MODULE Descriptors ----------------------------
(* File descriptors (kernel/syscall.c) of the programs of gyaradOS, over the  *)
(* files and directories of module FileSystem and the one real-time clock     *)
(* they all share (drivers/rtc.c).                                            *)
(*                                                                            *)
(* A slot is a place for a program: Shells are the base shells of terminals,  *)
(* which halt restarts, the others hold programs that execute starts and halt *)
(* ends.  The program of the terminal on the screen runs (module Processes);  *)
(* the user changes the terminal, or halts the program by Ctrl+C, at any      *)
(* point where interrupts are on: in user code, in the busy-wait of rtc_read  *)
(* and in close, which has given the descriptor back and turned interrupts on *)
(* by the time it calls rtc_close.  The other calls change their state in one *)
(* piece: what interrupts them comes before or after it.                      *)
(* Descriptors 0 and 1 are the subject of module Terminal.                    *)
EXTENDS FileSystem

CONSTANTS
    Slots, Shells,
    MAX_FILES,          \* descriptors of a program, 8 in the code
    NBytes,             \* the nbytes of reads
    Programs,           \* the names execute is called with
    Frequencies,        \* what rtc_write is given, good and bad
    RTC_DEFAULT_HZ,
    WORD                \* file_position counts modulo WORD, 2^32 in the code

Fds == 0 .. MAX_FILES - 1
Names == {Dentries[i].file_name : i \in 1 .. Len(Dentries)}

(* The rates rtc_set_frequency accepts.                                       *)
PowersOfTwo == {2, 4, 8, 16, 32, 64, 128, 256, 512, 1024}

ASSUME DescriptorsAssumption ==
    /\ Shells \subseteq Slots /\ Shells # {}
    /\ MAX_FILES \in Nat /\ MAX_FILES > 2
    /\ NBytes \subseteq Nat \ {0}
    /\ WORD \in Nat \ {0} /\ Len(Dentries) < WORD
    /\ RTC_DEFAULT_HZ \in PowersOfTwo
    /\ \A i \in 1 .. Len(Inodes) : Inodes[i].file_size + 1 < WORD

VARIABLES
    running,            \* the slot of the program on the screen
    alive,              \* the slots that hold a program
    fds,                \* [Slots -> [Fds -> descriptor]]
    pc,                 \* [Slots -> Places]
    intr_occ,           \* rtc.c's flag
    rtc_frequency,      \* register A of the clock
    image,              \* [Slots -> the bytes of the program in it]
    delivered,          \* history: what reads of each descriptor delivered
    cut_off             \* history: a close of the clock ended before its
                        \* rtc_close, and nothing has reset the rate since

rtcVars == <<intr_occ, rtc_frequency, cut_off>>

(* Where interrupts find a program.                                           *)
Places == {"user", "rtc_read", "rtc_close"}
vars == <<running, alive, fds, pc, rtcVars, image, delivered>>

Descriptor(ops, name, use) ==
    [operations_pointer |-> ops, file_name |-> name, file_position |-> 0,
     flags |-> use]

Unused == Descriptor("none", "", FALSE)

(* What execute puts into a new PCB.                                          *)
NewFds == [fd \in Fds |->
    CASE fd = 0 -> Descriptor("stdin", "", TRUE)
      [] fd = 1 -> Descriptor("stdout", "", TRUE)
      [] OTHER  -> Unused]

Init ==
    /\ running \in Shells
    /\ alive = Shells
    /\ fds = [p \in Slots |-> IF p \in Shells THEN NewFds
                              ELSE [fd \in Fds |-> Unused]]
    /\ pc = [p \in Slots |-> "user"]
    /\ intr_occ = FALSE
    /\ rtc_frequency = RTC_DEFAULT_HZ
    /\ image = [p \in Slots |-> <<>>]
    /\ delivered = [p \in Slots |-> [fd \in Fds |-> <<>>]]
    /\ cut_off = FALSE

Opened(p, fd) == fds[p][fd].flags
OpenAs(p, fd, ops) == Opened(p, fd) /\ fds[p][fd].operations_pointer = ops

-----------------------------------------------------------------------------
(* The clock.                                                                 *)

(* rtc_handle_interrupt                                                       *)
RtcInterrupt ==
    /\ intr_occ' = TRUE
    /\ UNCHANGED <<running, alive, fds, pc, rtc_frequency, image, delivered,
                   cut_off>>

(* Mutation: any rate between the bounds.                                     *)
MaySet_Between(hz) == hz \in 2 .. 1024
MaySet(hz) == hz \in PowersOfTwo

(* rtc_set_frequency                                                          *)
SetFrequency(hz) == rtc_frequency' = IF MaySet(hz) THEN hz ELSE rtc_frequency

(* rtc_open and rtc_close                                                     *)
ResetRate == SetFrequency(RTC_DEFAULT_HZ) /\ cut_off' = FALSE

-----------------------------------------------------------------------------
(* System calls of the running program p.                                     *)

Calls(p) == running = p /\ p \in alive /\ pc[p] = "user"

(* open takes the first unused descriptor; rtc_open sets the clock.           *)
Open(p, name) ==
    LET free == {fd \in 2 .. MAX_FILES - 1 : ~ Opened(p, fd)}
        type == DentryOf(name).file_type
    IN  /\ Calls(p)
        /\ Exists(name)
        /\ \E fd \in free :
              /\ \A other \in free : fd <= other
              /\ fds' = [fds EXCEPT ![p][fd] = Descriptor(type, name, TRUE)]
              /\ delivered' = [delivered EXCEPT ![p][fd] = <<>>]
        /\ IF type = "rtc" THEN ResetRate
           ELSE UNCHANGED <<rtc_frequency, cut_off>>
        /\ UNCHANGED <<running, alive, pc, intr_occ, image>>

(* Mutation: the standard streams can be closed.                              *)
MayClose_Any(p, fd) == Opened(p, fd)
MayClose(p, fd) == fd >= 2 /\ Opened(p, fd)

Closed(p, S) ==
    [fds EXCEPT ![p] = [fd \in Fds |->
        IF fd \in S THEN [@[fd] EXCEPT !.flags = FALSE, !.file_position = 0]
        ELSE @[fd]]]

(* close up to the point where it turns interrupts on again; what is left to  *)
(* do is the close of the driver, which does something for the clock alone.   *)
Close(p, fd) ==
    /\ Calls(p)
    /\ MayClose(p, fd)
    /\ fds' = Closed(p, {fd})
    /\ delivered' = [delivered EXCEPT ![p][fd] = <<>>]
    /\ pc' = [pc EXCEPT ![p] = IF OpenAs(p, fd, "rtc") THEN "rtc_close" ELSE @]
    /\ UNCHANGED <<running, alive, rtcVars, image>>

(* The rest of a close of the clock.                                          *)
RtcClose(p) ==
    /\ running = p /\ pc[p] = "rtc_close"
    /\ ResetRate
    /\ pc' = [pc EXCEPT ![p] = "user"]
    /\ UNCHANGED <<running, alive, fds, intr_occ, image, delivered>>

(* Mutation: the position is left where it was.                               *)
Moved_Not(position, ret) == position

(* `file_position += bytesRead`, unsigned, a failure's -1 included.           *)
Moved(position, ret) == (position + ret) % WORD

(* read of a file: fs_read finds the inode by the name again.                 *)
ReadFile(p, fd, n) ==
    LET d == fds[p][fd]
        result == ReadData(DentryOf(d.file_name).inode_num, d.file_position, n)
    IN  /\ Calls(p)
        /\ OpenAs(p, fd, "file")
        /\ fds' = [fds EXCEPT ![p][fd].file_position = Moved(@, result.ret)]
        /\ delivered' = [delivered EXCEPT ![p][fd] = @ \o result.buf]
        /\ UNCHANGED <<running, alive, pc, rtcVars, image>>

(* Mutation: the last name is taken for the end of the directory.             *)
EndOfDirectory_Last(position) == position >= Len(Dentries) - 1
EndOfDirectory(position) == position >= Len(Dentries)

(* read of the directory, dir_read: the next name, or the end and back to the *)
(* beginning.                                                                 *)
ReadDirectory(p, fd) ==
    LET position == fds[p][fd].file_position
    IN  /\ Calls(p)
        /\ OpenAs(p, fd, "dir")
        /\ IF EndOfDirectory(position)
           THEN /\ fds' = [fds EXCEPT ![p][fd].file_position = 0]
                /\ delivered' = [delivered EXCEPT ![p][fd] = <<>>]
           ELSE /\ fds' = [fds EXCEPT ![p][fd].file_position = @ + 1]
                /\ delivered' = [delivered EXCEPT ![p][fd] =
                       Append(@, Dentries[position + 1].file_name)]
        /\ UNCHANGED <<running, alive, pc, rtcVars, image>>

(* read of the clock, rtc_read: from the call to the end of its busy-wait.    *)
RtcReadCall(p, fd) ==
    /\ Calls(p)
    /\ OpenAs(p, fd, "rtc")
    /\ pc' = [pc EXCEPT ![p] = "rtc_read"]
    /\ UNCHANGED <<running, alive, fds, rtcVars, image, delivered>>

(* The busy-wait ends with the flag, which may be older than the call.        *)
RtcReadReturn(p) ==
    /\ running = p /\ pc[p] = "rtc_read"
    /\ intr_occ
    /\ intr_occ' = FALSE
    /\ pc' = [pc EXCEPT ![p] = "user"]
    /\ UNCHANGED <<running, alive, fds, rtc_frequency, image, delivered, cut_off>>

(* write of the clock, rtc_write                                              *)
RtcWrite(p, fd, hz) ==
    /\ Calls(p)
    /\ OpenAs(p, fd, "rtc")
    /\ SetFrequency(hz)
    /\ UNCHANGED <<running, alive, fds, pc, intr_occ, image, delivered, cut_off>>

-----------------------------------------------------------------------------
(* Programs come, go and change places.                                       *)

(* execute of a file, whose copy is not checked; the shells' own images are   *)
(* not followed.                                                              *)
Execute(p, name) ==
    /\ pc[running] = "user"
    /\ p \in Slots \ alive
    /\ Exists(name)
    /\ image' = [image EXCEPT ![p] = CopyFileToAddr(name).buf]
    /\ alive' = alive \cup {p}
    /\ running' = p
    /\ fds' = [fds EXCEPT ![p] = NewFds]
    /\ UNCHANGED <<pc, rtcVars, delivered>>

HaltCloses == {fd \in Fds : fd >= 2}

CutOffAfter(p) == cut_off \/ pc[p] = "rtc_close"

(* Mutation: the clock keeps the rate the program has set.                    *)
AfterHalt_Keeps(p) == UNCHANGED rtc_frequency /\ cut_off' = CutOffAfter(p)

(* halt closes with interrupts off, and only what is still marked as open: a  *)
(* close that Ctrl+C found before its rtc_close is not made up for.           *)
AfterHalt(p) ==
    IF \E fd \in HaltCloses : OpenAs(p, fd, "rtc") THEN ResetRate
    ELSE UNCHANGED rtc_frequency /\ cut_off' = CutOffAfter(p)

(* halt of a program, by itself or by Ctrl+C.                                 *)
Halt(p, next) ==
    /\ running = p /\ p \in alive \ Shells
    /\ alive' = alive \ {p}
    /\ next \in alive' /\ running' = next
    /\ AfterHalt(p)
    /\ fds' = [Closed(p, HaltCloses) EXCEPT ![p] = [fd \in Fds |->
           IF fd < 2 THEN [@[fd] EXCEPT !.operations_pointer = "none",
                                        !.flags = FALSE]
           ELSE @[fd]]]
    /\ image' = [image EXCEPT ![p] = <<>>]
    /\ delivered' = [delivered EXCEPT ![p] = [fd \in Fds |-> <<>>]]
    /\ pc' = [pc EXCEPT ![p] = "user"]
    /\ UNCHANGED intr_occ

(* halt of a base shell: back to its entry point, descriptors and all.        *)
Restart(p) ==
    /\ running = p /\ p \in Shells
    /\ pc' = [pc EXCEPT ![p] = "user"]
    /\ cut_off' = CutOffAfter(p)
    /\ UNCHANGED <<running, alive, fds, intr_occ, rtc_frequency, image, delivered>>

(* F1, F2, F3                                                                 *)
SwitchTerminal(p) ==
    /\ p \in alive
    /\ running' = p
    /\ UNCHANGED <<alive, fds, pc, rtcVars, image, delivered>>

Next ==
    \/ RtcInterrupt
    \/ \E p \in Slots :
          \/ \E name \in Names : Open(p, name)
          \/ \E fd \in Fds :
                \/ Close(p, fd)
                \/ \E n \in NBytes : ReadFile(p, fd, n)
                \/ ReadDirectory(p, fd)
                \/ RtcReadCall(p, fd)
                \/ \E hz \in Frequencies : RtcWrite(p, fd, hz)
          \/ RtcClose(p)
          \/ RtcReadReturn(p)
          \/ \E name \in Programs : Execute(p, name)
          \/ \E next \in Slots : Halt(p, next)
          \/ Restart(p)
          \/ SwitchTerminal(p)

Spec == Init /\ [][Next]_vars

-----------------------------------------------------------------------------
(* Properties.                                                                *)

TypeOK ==
    /\ running \in alive
    /\ Shells \subseteq alive /\ alive \subseteq Slots
    /\ \A p \in Slots : \A fd \in Fds :
          /\ fds[p][fd].operations_pointer \in
                FileTypes \cup {"none", "stdin", "stdout"}
          /\ fds[p][fd].file_name \in Names \cup {""}
          /\ fds[p][fd].file_position \in 0 .. WORD - 1
          /\ fds[p][fd].flags \in BOOLEAN
    /\ pc \in [Slots -> Places]
    /\ intr_occ \in BOOLEAN
    /\ rtc_frequency \in PowersOfTwo
    /\ cut_off \in BOOLEAN

(* Whatever a program opens and closes, its terminal stays on descriptors 0   *)
(* and 1, and a program that has ended holds no descriptor.                   *)
StandardStreams == \A p \in Slots :
    IF p \in alive THEN OpenAs(p, 0, "stdin") /\ OpenAs(p, 1, "stdout")
    ELSE \A fd \in Fds : ~ Opened(p, fd)

(* Reads of a file deliver its bytes in their order, none twice and none left *)
(* out, whatever the sizes of the reads.                                      *)
ContentsInOrder == \A p \in Slots : \A fd \in Fds :
    OpenAs(p, fd, "file") =>
        LET contents == Contents(DentryOf(fds[p][fd].file_name).inode_num)
            got == delivered[p][fd]
        IN  \A k \in 1 .. Len(got) : k <= Len(contents) => got[k] = contents[k]

(* A listing is complete when dir_read says so: it returned each name, in the *)
(* order of the directory.                                                    *)
ListingComplete ==
    [][\A p \in Slots : \A fd \in Fds :
          /\ OpenAs(p, fd, "dir") /\ OpenAs(p, fd, "dir")'
          /\ fds[p][fd].file_position # 0 /\ fds'[p][fd].file_position = 0
          => delivered[p][fd] = [i \in 1 .. Len(Dentries) |->
                                    Dentries[i].file_name]]_vars

(* A close of the clock that has given the descriptor back and has not        *)
(* reached rtc_close, or never will.                                          *)
HalfClosed == cut_off \/ \E p \in Slots : pc[p] = "rtc_close"

(* Whoever opens, sets, closes or is killed, and in whatever order, the clock *)
(* runs at its default rate when no program has it open.  The one exception   *)
(* is the gap in close: an F-key there delays the reset of the rate until the *)
(* program runs again, and Ctrl+C there cancels it until the next rtc_open or *)
(* rtc_close of anyone.                                                       *)
DefaultWhenClosed ==
    (\A p \in Slots : \A fd \in Fds : ~ OpenAs(p, fd, "rtc")) /\ ~ HalfClosed
        => rtc_frequency = RTC_DEFAULT_HZ

(* A program that runs is a whole file: copy_file_to_addr leaves no byte out  *)
(* and adds none, whatever it returns.                                        *)
ImageIsWhole == \A p \in alive \ Shells :
    \E name \in Programs :
        image[p] = Contents(DentryOf(name).inode_num)
=============================================================================
