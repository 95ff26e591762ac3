---------------------------- MODULE AbstractLock ----------------------------
(***************************************************************************)
(* What a mutex promises its callers: one holder at a time, and a release  *)
(* that passes the lock straight to one of the tasks that wait, if any     *)
(* does, so that no later caller gets in between.                          *)
(***************************************************************************)
CONSTANTS
  Tasks,
  NULL

VARIABLES
  holder,   \* the task that has the lock, or NULL
  waiting   \* the tasks whose call of lock has not been granted

lockVars == <<holder, waiting>>

Init ==
  /\ holder = NULL
  /\ waiting = {}

\* A call of lock or try_lock that finds the lock free.
Acquire(t) ==
  /\ holder = NULL
  /\ holder' = t
  /\ UNCHANGED waiting

\* A call of lock that does not.
Wait(t) ==
  /\ holder \notin {NULL, t}
  /\ t \notin waiting
  /\ waiting' = waiting \cup {t}
  /\ UNCHANGED holder

Release ==
  /\ holder # NULL
  /\ \/ /\ waiting = {}
        /\ holder' = NULL
        /\ UNCHANGED waiting
     \/ \E t \in waiting :
          /\ holder' = t
          /\ waiting' = waiting \ {t}

Next ==
  \/ \E t \in Tasks : Acquire(t) \/ Wait(t)
  \/ Release

LockSpec == Init /\ [][Next]_lockVars
=============================================================================
