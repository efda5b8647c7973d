--------------------------- MODULE MCDescriptors ---------------------------
(* Model-checking instance of Descriptors: a file of two and a half blocks, a *)
(* file that ends with its block, the directory and the clock.  The reads of  *)
(* the .cfg cross blocks, begin and end inside one and go past either end.    *)
EXTENDS Descriptors

MCDentries == <<
    [file_name |-> ".",   file_type |-> "dir",  inode_num |-> 0],
    [file_name |-> "f",   file_type |-> "file", inode_num |-> 1],
    [file_name |-> "rtc", file_type |-> "rtc",  inode_num |-> 0],
    [file_name |-> "g",   file_type |-> "file", inode_num |-> 2] >>

(* As in filesys_img: what follows a file's blocks is 0.                      *)
MCInodes == <<
    [file_size |-> 0, blocks |-> <<0>>],
    [file_size |-> 5, blocks |-> <<2, 1, 4, 0>>],
    [file_size |-> 2, blocks |-> <<3, 0>>] >>
=============================================================================
