------------------------------ MODULE MCRamFs ------------------------------
(***************************************************************************)
(* The file system with four nodes besides the root: a directory with a    *)
(* subdirectory and a file can be copied, moved and deleted.               *)
(***************************************************************************)
EXTENDS RamFs, TLC

CONSTANTS n1, n2, n3, n4

\* Blocks are alike.
BlockSymmetry == Permutations({n1, n2, n3, n4})
=============================================================================
