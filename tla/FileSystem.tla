----------------------------- MODULE FileSystem -----------------------------
(* The read-only file system (fs/files.c), in memory since boot: a boot block *)
(* with the directory, the inodes and the data blocks.  The operators are     *)
(* the functions of files.c; a byte of the disk is named by its address, the  *)
(* data block it is in and its place there.                                   *)
EXTENDS Integers, Sequences, FiniteSetsExt

CONSTANTS
    BLOCK_SIZE,
    N_DATA_BLOCKS,      \* b.n_data_blocks
    Dentries,           \* sequence of [file_name, file_type, inode_num]
    Inodes              \* sequence of [file_size, blocks], inode 0 first;
                        \* blocks holds one entry more than the file fills

FileTypes == {"rtc", "dir", "file"}

ASSUME FileSystemAssumption ==
    /\ BLOCK_SIZE \in Nat \ {0}
    /\ N_DATA_BLOCKS \in Nat
    /\ Len(Dentries) \in Nat /\ Len(Inodes) \in Nat
    /\ \A i \in 1 .. Len(Dentries) :
          /\ Dentries[i].file_type \in FileTypes
          /\ Dentries[i].inode_num \in Nat
    /\ \A i \in 1 .. Len(Inodes) :
          /\ Inodes[i].file_size \in Nat
          /\ \A k \in 0 .. (Inodes[i].file_size \div BLOCK_SIZE) :
                k + 1 <= Len(Inodes[i].blocks)

Size(inode) == Inodes[inode + 1].file_size
BlockOf(inode, k) == Inodes[inode + 1].blocks[k + 1]

(* The image the kernel is built with, filesys_img: every file has an inode,  *)
(* and the block numbers of a file, the one read_data looks at behind the     *)
(* last of a file that ends with its block included, are blocks of the image. *)
ASSUME ImageAssumption ==
    \A i \in 1 .. Len(Dentries) :
        LET inode == Dentries[i].inode_num
        IN  /\ inode < Len(Inodes)
            /\ \A k \in 0 .. (Size(inode) \div BLOCK_SIZE) :
                  BlockOf(inode, k) \in 0 .. N_DATA_BLOCKS - 1

(* The address of a file's byte.                                              *)
ByteAt(inode, offset) ==
    [block |-> BlockOf(inode, offset \div BLOCK_SIZE),
     at    |-> offset % BLOCK_SIZE]

(* read_dentry_by_name: the entries that match.  Equal lengths and equal      *)
(* prefixes of that length are equal names.                                   *)
ReadDentryByName(fname) ==
    {i \in 1 .. Len(Dentries) : Dentries[i].file_name = fname}

Exists(fname) == ReadDentryByName(fname) # {}
DentryOf(fname) == Dentries[Min(ReadDentryByName(fname))]

(* read_data, the tests after its n-th byte: one byte behind the end has been *)
(* read; a block is finished and what follows is not a block.                 *)
PastEnd(inode, offset, n) == offset + n > Size(inode)
NoNextBlock(inode, offset, n) ==
    /\ (offset + n) % BLOCK_SIZE = 0
    /\ BlockOf(inode, (offset + n) \div BLOCK_SIZE) >= N_DATA_BLOCKS

(* Mutation: the read position is not recalculated at the end of a block.     *)
BytesRead_SameBlock(inode, offset, n) ==
    [k \in 1 .. n |->
        [block |-> BlockOf(inode, offset \div BLOCK_SIZE),
         at    |-> (offset + k - 1) % BLOCK_SIZE]]

(* The n bytes read_data has put into the caller's buffer.                    *)
BytesRead(inode, offset, n) == [k \in 1 .. n |-> ByteAt(inode, offset + k - 1)]

(* What read_data returns and what it leaves in the buffer.                   *)
ReadData(inode, offset, length) ==
    IF inode >= Len(Inodes) THEN [ret |-> -1, buf |-> <<>>]
    ELSE IF offset >= Size(inode) THEN [ret |-> 0, buf |-> <<>>]
    ELSE LET stops == {n \in 1 .. length : PastEnd(inode, offset, n)
                                          \/ NoNextBlock(inode, offset, n)}
             n == IF stops = {} THEN length ELSE Min(stops)
         IN  [ret |-> IF n \in stops /\ ~ PastEnd(inode, offset, n) THEN -1 ELSE n,
              buf |-> BytesRead(inode, offset, n)]

(* copy_file_to_addr                                                          *)
CopyFileToAddr(fname) ==
    IF ~ Exists(fname) THEN [ret |-> -1, buf |-> <<>>]
    ELSE LET inode == DentryOf(fname).inode_num
             read == ReadData(inode, 0, Size(inode))
         IN  [ret |-> IF read.ret = -1 THEN -1 ELSE 0, buf |-> read.buf]

-----------------------------------------------------------------------------
(* What a file is: its bytes, in order.                                       *)
Contents(inode) == [k \in 1 .. Size(inode) |-> ByteAt(inode, k - 1)]
=============================================================================
