--------------------------- MODULE KernelObjects ---------------------------
(***************************************************************************)
(* The kernel objects tasks wait on: sync/mutex.c, sync/semaphore.c and    *)
(* sync/event.c, over the scheduler.  Their waiters are linked through the *)
(* tasks themselves, last come first, and an unlock or a signal hands what *)
(* it gives up to the first of the list.                                   *)
(*                                                                         *)
(* The callers are arbitrary tasks that keep to the contract: a task locks *)
(* a mutex it is not already in, unlocks the one it is in, and does not    *)
(* exit inside.  Anyone may signal a semaphore or set and reset an event.  *)
(* kmain waits on nothing.  Definitions named Bad... are the buggy variants *)
(* of their neighbours, as in Scheduler.                                   *)
(***************************************************************************)
EXTENDS Scheduler

CONSTANTS
  Mutexes,
  Semaphores,
  Events,
  Initial,   \* semaphore_init's count
  MaxCount   \* bound: a semaphore is not signalled beyond this count

ASSUME KernelObjectsAssumption ==
  /\ Objects = Mutexes \cup Semaphores \cup Events
  /\ Objects \cap Tasks = {}
  /\ Mutexes \cap Semaphores = {}
  /\ Mutexes \cap Events = {}
  /\ Semaphores \cap Events = {}
  /\ MaxCount \in Nat
  /\ Initial \in [Semaphores -> 0..MaxCount]

VARIABLES
  locked,     \* mutex->locked
  count,      \* sem->count
  signaled,   \* event->signaled
  called,     \* mutex -> the tasks between their call of lock and of unlock
  balance     \* sem -> calls of signal less calls of wait, from Initial on

objectVars == <<locked, count, signaled, called, balance>>
vars == <<schedVars, objectVars>>

----------------------------------------------------------------------------
(* Mutexes                                                                 *)

\* The tasks in the critical section, those the lock was handed to included.
Inside(m) == called[m] \ ToSet(waiters[m])

BadMutexLock(m) ==
  /\ InTask
  /\ current \notin called[m]
  /\ called' = [called EXCEPT ![m] = @ \cup {current}]
  /\ UNCHANGED <<count, signaled, balance>>
  /\ IF locked[m] THEN UNCHANGED locked /\ TaskYield
     ELSE locked' = [locked EXCEPT ![m] = TRUE] /\ UNCHANGED schedVars

\* mutex_lock
MutexLock(m) ==
  /\ InTask
  /\ current \notin called[m]
  /\ called' = [called EXCEPT ![m] = @ \cup {current}]
  /\ UNCHANGED <<count, signaled, balance>>
  /\ \/ /\ ~locked[m]
        /\ locked' = [locked EXCEPT ![m] = TRUE]
        /\ UNCHANGED schedVars
     \/ /\ locked[m]
        /\ UNCHANGED locked
        /\ BlockOn(m)

\* mutex_try_lock, when it succeeds; it changes nothing when it does not.
MutexTryLock(m) ==
  /\ InTask
  /\ current \notin called[m]
  /\ ~locked[m]
  /\ locked' = [locked EXCEPT ![m] = TRUE]
  /\ called' = [called EXCEPT ![m] = @ \cup {current}]
  /\ UNCHANGED <<schedVars, count, signaled, balance>>

\* What mutex_unlock and semaphore_signal do when somebody waits.
WakeFirst(o) ==
  /\ waiters[o] # <<>>
  /\ state' = [state EXCEPT ![Head(waiters[o])] = "READY"]
  /\ waiters' = [waiters EXCEPT ![o] = Tail(@)]
  /\ UNCHANGED <<wake_tick, listVars, cpuVars>>

BadMutexUnlock(m) ==
  /\ current \in Inside(m)
  /\ called' = [called EXCEPT ![m] = @ \ {current}]
  /\ locked' = [locked EXCEPT ![m] = FALSE]
  /\ UNCHANGED <<count, signaled, balance>>
  /\ IF waiters[m] = <<>> THEN UNCHANGED schedVars ELSE WakeFirst(m)

\* An unlock that forgets to look at the list.
BadMutexUnlockKeeps(m) ==
  /\ current \in Inside(m)
  /\ called' = [called EXCEPT ![m] = @ \ {current}]
  /\ locked' = [locked EXCEPT ![m] = FALSE]
  /\ UNCHANGED <<schedVars, count, signaled, balance>>

\* mutex_unlock
MutexUnlock(m) ==
  /\ current \in Inside(m)
  /\ called' = [called EXCEPT ![m] = @ \ {current}]
  /\ UNCHANGED <<count, signaled, balance>>
  /\ \/ /\ waiters[m] = <<>>
        /\ locked' = [locked EXCEPT ![m] = FALSE]
        /\ UNCHANGED schedVars
     \/ /\ WakeFirst(m)
        /\ UNCHANGED locked

----------------------------------------------------------------------------
(* Semaphores                                                              *)

BadSemaphoreWait(s) ==
  /\ InTask
  /\ balance' = [balance EXCEPT ![s] = @ - 1]
  /\ count' = [count EXCEPT ![s] = @ - 1]
  /\ UNCHANGED <<schedVars, locked, signaled, called>>

\* semaphore_wait
SemaphoreWait(s) ==
  /\ InTask
  /\ balance' = [balance EXCEPT ![s] = @ - 1]
  /\ UNCHANGED <<locked, signaled, called>>
  /\ \/ /\ count[s] > 0
        /\ count' = [count EXCEPT ![s] = @ - 1]
        /\ UNCHANGED schedVars
     \/ /\ count[s] = 0
        /\ UNCHANGED count
        /\ BlockOn(s)

\* semaphore_try_wait, when it succeeds.
SemaphoreTryWait(s) ==
  /\ InTask
  /\ count[s] # 0
  /\ balance' = [balance EXCEPT ![s] = @ - 1]
  /\ count' = [count EXCEPT ![s] = @ - 1]
  /\ UNCHANGED <<schedVars, locked, signaled, called>>

BadSemaphoreSignal(s) ==
  /\ InTask
  /\ Initial[s] + balance[s] < MaxCount
  /\ balance' = [balance EXCEPT ![s] = @ + 1]
  /\ count' = [count EXCEPT ![s] = @ + 1]
  /\ UNCHANGED <<locked, signaled, called>>
  /\ IF waiters[s] = <<>> THEN UNCHANGED schedVars ELSE WakeFirst(s)

\* semaphore_signal
SemaphoreSignal(s) ==
  /\ InTask
  /\ Initial[s] + balance[s] < MaxCount
  /\ balance' = [balance EXCEPT ![s] = @ + 1]
  /\ UNCHANGED <<locked, signaled, called>>
  /\ \/ /\ WakeFirst(s)
        /\ UNCHANGED count
     \/ /\ waiters[s] = <<>>
        /\ count' = [count EXCEPT ![s] = @ + 1]
        /\ UNCHANGED schedVars

----------------------------------------------------------------------------
(* Events                                                                  *)

\* event_wait, when it has to wait; it does nothing when the event is set.
EventWait(e) ==
  /\ InTask
  /\ ~signaled[e]
  /\ BlockOn(e)
  /\ UNCHANGED objectVars

BadEventSet(e) ==
  /\ InTask
  /\ signaled' = [signaled EXCEPT ![e] = TRUE]
  /\ IF waiters[e] = <<>> THEN UNCHANGED schedVars ELSE WakeFirst(e)
  /\ UNCHANGED <<locked, count, called, balance>>

\* event_set
EventSet(e) ==
  /\ InTask
  /\ signaled' = [signaled EXCEPT ![e] = TRUE]
  /\ state' = Ready(state, waiters[e])
  /\ waiters' = [waiters EXCEPT ![e] = <<>>]
  /\ UNCHANGED <<wake_tick, listVars, cpuVars, locked, count, called, balance>>

\* event_reset
EventReset(e) ==
  /\ InTask
  /\ signaled' = [signaled EXCEPT ![e] = FALSE]
  /\ UNCHANGED <<schedVars, locked, count, called, balance>>

----------------------------------------------------------------------------
\* mutex_init, semaphore_init and event_init.
ObjectsInit ==
  /\ locked = [m \in Mutexes |-> FALSE]
  /\ count = Initial
  /\ signaled = [e \in Events |-> FALSE]
  /\ called = [m \in Mutexes |-> {}]
  /\ balance = [s \in Semaphores |-> 0]

Init == SchedulerInit /\ ObjectsInit

ExitsOutside == state'[current] = "DEAD" => \A m \in Mutexes : current \notin called[m]

SchedulerStep ==
  /\ SchedulerNext
  /\ ExitsOutside
  /\ UNCHANGED objectVars

Next ==
  \/ SchedulerStep
  \/ \E m \in Mutexes : MutexLock(m) \/ MutexTryLock(m) \/ MutexUnlock(m)
  \/ \E s \in Semaphores : SemaphoreWait(s) \/ SemaphoreTryWait(s) \/ SemaphoreSignal(s)
  \/ \E e \in Events : EventWait(e) \/ EventSet(e) \/ EventReset(e)

ObjectsSpec == Init /\ [][Next]_vars

(***************************************************************************)
(* Fairness: the timer fires (hardware); kmain goes on; a task entered     *)
(* with interrupts off, which nothing can preempt, gives up the CPU in the *)
(* end; and one that keeps getting the CPU inside a mutex comes to its     *)
(* call of unlock, joining no other task there.  A task with interrupts on *)
(* may compute for ever.                                                   *)
(***************************************************************************)
JoinsOutside ==
  \A m \in Mutexes :
    current \in Inside(m) => \A u \in Tasks : waiters'[u] # <<current>> \o waiters[u]

FairObjectsSpec ==
  /\ Init
  /\ [][Next /\ JoinsOutside]_vars
  /\ WF_vars(Timer /\ UNCHANGED objectVars)
  /\ WF_vars(KmainSchedule /\ UNCHANGED objectVars)
  /\ WF_vars(KmainHalt /\ UNCHANGED objectVars)
  /\ \A t \in Tasks :
       /\ WF_vars(current = t /\ ~interrupts /\ TaskYield /\ UNCHANGED objectVars)
       /\ \A m \in Mutexes : SF_vars(current = t /\ MutexUnlock(m))

----------------------------------------------------------------------------
(* Properties                                                              *)

ObjectsTypeOK ==
  /\ TypeOK
  /\ locked \in [Mutexes -> BOOLEAN]
  /\ count \in [Semaphores -> 0..MaxCount]
  /\ signaled \in [Events -> BOOLEAN]
  /\ called \in [Mutexes -> SUBSET Tasks]
  /\ balance \in [Semaphores -> Int]

\* At most one task is inside a mutex, counting one that has been handed the
\* lock and has not run since, and the lock is marked taken just when one is
\* (mutex.c:18 and :34: the flag stays set while the lock changes hands).
MutualExclusion ==
  \A m \in Mutexes :
    /\ \A t, u \in Inside(m) : t = u
    /\ locked[m] <=> Inside(m) # {}

\* A semaphore's count and its list account for every signal and every wait:
\* what is available when that is positive, who waits when it is negative, and
\* never both (semaphore.c:18 and :34).
SemaphoreBalance ==
  \A s \in Semaphores :
    /\ count[s] - Len(waiters[s]) = Initial[s] + balance[s]
    /\ count[s] = 0 \/ waiters[s] = <<>>

\* Nobody sleeps on what is there to be had: no waiter of a free mutex, nor of
\* an event that is set (event.c:10, :23).
NoLostWakeup ==
  /\ \A m \in Mutexes : waiters[m] # <<>> => locked[m]
  /\ \A e \in Events : signaled[e] => waiters[e] = <<>>

\* A waiter leaves a mutex only into it, and a semaphore or an event by one's
\* being signalled or set: nothing else that makes tasks ready (the timer,
\* another object's wakeup, an exit) cuts a wait short.
WaitsAreWhole ==
  [][\A t \in Tasks :
       /\ \A m \in Mutexes :
            t \in ToSet(waiters[m]) /\ state'[t] # "BLOCKED" =>
              /\ t \in Inside(m)'
              /\ \E u \in Inside(m) : u \notin Inside(m)'
       /\ \A s \in Semaphores :
            t \in ToSet(waiters[s]) /\ state'[t] # "BLOCKED" =>
              balance'[s] > balance[s]
       /\ \A e \in Events :
            t \in ToSet(waiters[e]) /\ state'[t] # "BLOCKED" => signaled'[e]]_vars

\* A task that calls mutex_lock gets the mutex.  The list is last come first
\* (mutex.c:28), so this holds of two contenders and fails of three.
LockersEnter ==
  \A t \in Tasks, m \in Mutexes : (t \in called[m]) ~> (t \in Inside(m))
=============================================================================
