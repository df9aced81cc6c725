---------------------------- MODULE MCFileSystem ----------------------------
(* Constants of the run of FileSystem. *)
EXTENDS FileSystem

CONSTANTS o1, o2, s1

==============================================================================
