------------------------------ MODULE MCCleanup -------------------------------
(***************************************************************************)
(* Cleanup for TLC: a loop and a supervisor of a repository, and another   *)
(* loop and another supervisor of a second one.                            *)
(***************************************************************************)
EXTENDS Cleanup, TLC

CONSTANTS l1, l2, c1, c2, home, other

RepoValues == l1 :> home @@ c1 :> home @@ l2 :> other @@ c2 :> other

InodeSymmetry == Permutations(Inodes)
===============================================================================
