--------------------------- MODULE LockRefinement ---------------------------
(***************************************************************************)
(* One mutex, whichever it is, seen as the abstract lock: its holder is    *)
(* the task inside it and its waiting tasks are those of its list.         *)
(***************************************************************************)
EXTENDS KernelObjects

CONSTANT AnyMutex

ASSUME LockRefinementAssumption == AnyMutex \in Mutexes

\* The task that has the mutex, one handed the lock and not yet run included.
Holder(m) == IF Inside(m) = {} THEN NULL ELSE CHOOSE t \in Inside(m) : TRUE

Lock == INSTANCE AbstractLock
          WITH holder <- Holder(AnyMutex), waiting <- ToSet(waiters[AnyMutex])

\* The mutex implements the abstract lock: a release goes to a waiter in the
\* same step, so that no try_lock or lock slips in ahead of it (mutex.c:34).
ImplementsLock == Lock!LockSpec
=============================================================================
