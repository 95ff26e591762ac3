-------------------------- MODULE MCKernelObjects --------------------------
(***************************************************************************)
(* Small instances of the kernel objects over the scheduler: three tasks   *)
(* besides kmain's and a clock of two ticks, enough for a joiner, the task *)
(* it joins and a bystander, for a dead task in the middle of the run      *)
(* list, for two waiters in a list and for sleepers that wake in either    *)
(* order.                                                                  *)
(***************************************************************************)
EXTENDS LockRefinement, TLC

CONSTANTS t1, t2, t3, m1, s1, e1

\* The tasks besides kmain's are alike.
TaskSymmetry == Permutations({t1, t2, t3})

\* Every semaphore starts with one permit.
OneEach == [s \in Semaphores |-> 1]
=============================================================================
