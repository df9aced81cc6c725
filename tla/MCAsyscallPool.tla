--------------------------- MODULE MCAsyscallPool ---------------------------
(* Constants of the runs of AsyscallPool. *)
EXTENDS AsyscallPoolInv, TLC

ThreadSymmetry == Permutations(Threads)

=============================================================================
