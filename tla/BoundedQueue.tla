---------------------------- MODULE BoundedQueue ----------------------------
(***************************************************************************)
(* The bounded queue of sync/queue.c: a ring buffer under a mutex, with a  *)
(* semaphore for the items in it and one for the space left.               *)
(*                                                                         *)
(* Each step is one call of push or pop on a semaphore or the mutex, or    *)
(* the critical section in between; any task that is not blocked may take  *)
(* its next step.  That allows every interleaving preemptive tasks would   *)
(* have, and more than the scheduler, which never preempts them, produces. *)
(* A queue may be destroyed and made anew when no task is inside: one that *)
(* waits there would stay blocked, as queue_destroy wakes nobody.          *)
(***************************************************************************)
EXTENDS Integers, Sequences, FiniteSets, SequencesExt

CONSTANTS
  Producers,   \* the tasks that push
  Consumers,   \* the tasks that pop
  Items,       \* what is pushed: pointers other than NULL
  Capacity,
  NULL

ASSUME QueueAssumption ==
  /\ Producers \cap Consumers = {}
  /\ IsFiniteSet(Producers) /\ IsFiniteSet(Consumers)
  /\ NULL \notin Items
  /\ Capacity \in Nat \ {0}

Tasks == Producers \cup Consumers

VARIABLES
  pc,        \* the next step of each task
  arg,       \* the parameter `item` of queue_push
  got,       \* the local `item` of queue_pop
  buffer, head, tail,
  capacity,  \* 0 when the queue is destroyed
  size,      \* queue->size, less what queue_init finds there and leaves
  count,     \* items.count and space.count
  locked,    \* lock.locked
  waiters    \* the lists of the two semaphores and of the lock

ringVars == <<buffer, head, tail, size, capacity>>
syncVars == <<count, locked, waiters>>
vars == <<pc, arg, got, ringVars, syncVars>>

Blocked(t) == \E o \in {"items", "space", "lock"} : t \in ToSet(waiters[o])

\* Task t is at step `from` and goes on to step `to`.
Goes(t, from, to) ==
  /\ ~Blocked(t)
  /\ pc[t] = from
  /\ pc' = [pc EXCEPT ![t] = to]

----------------------------------------------------------------------------
(* The calls of the semaphores and the mutex; Bad... as in Scheduler       *)

\* The first of the list goes on with what it waited for.
Handover(o) ==
  /\ waiters[o] # <<>>
  /\ waiters' = [waiters EXCEPT ![o] = Tail(@)]
  /\ UNCHANGED <<count, locked>>

BadSemWait(t, s) == count' = [count EXCEPT ![s] = @ - 1] /\ UNCHANGED <<locked, waiters>>

\* semaphore_wait
SemWait(t, s) ==
  /\ UNCHANGED locked
  /\ \/ /\ count[s] > 0
        /\ count' = [count EXCEPT ![s] = @ - 1]
        /\ UNCHANGED waiters
     \/ /\ count[s] = 0
        /\ waiters' = [waiters EXCEPT ![s] = <<t>> \o @]
        /\ UNCHANGED count

BadSemSignalLost(s) ==
  \/ Handover(s)
  \/ waiters[s] = <<>> /\ UNCHANGED syncVars

\* semaphore_signal
SemSignal(s) ==
  \/ Handover(s)
  \/ /\ waiters[s] = <<>>
     /\ count' = [count EXCEPT ![s] = @ + 1]
     /\ UNCHANGED <<locked, waiters>>

BadLock(t) == locked' = TRUE /\ UNCHANGED <<count, waiters>>

\* mutex_lock
Lock(t) ==
  /\ UNCHANGED count
  /\ locked' = TRUE
  /\ waiters' = [waiters EXCEPT !["lock"] = IF locked THEN <<t>> \o @ ELSE @]

\* mutex_unlock
Unlock ==
  \/ Handover("lock")
  \/ /\ waiters["lock"] = <<>>
     /\ locked' = FALSE
     /\ UNCHANGED <<count, waiters>>

----------------------------------------------------------------------------
(* queue_push                                                              *)

PushCall(t, x) ==
  /\ capacity # 0
  /\ Goes(t, "idle", "push_wait")
  /\ arg' = [arg EXCEPT ![t] = x]
  /\ UNCHANGED <<got, ringVars, syncVars>>

PushWait(t) ==
  /\ Goes(t, "push_wait", "push_lock")
  /\ SemWait(t, "space")
  /\ UNCHANGED <<arg, got, ringVars>>

PushLock(t) ==
  /\ Goes(t, "push_lock", "push_store")
  /\ Lock(t)
  /\ UNCHANGED <<arg, got, ringVars>>

\* The index after i, brought back to 0 at the end of the buffer.
Advance(i) == IF i + 1 = capacity THEN 0 ELSE i + 1

PushStore(t) ==
  /\ Goes(t, "push_store", "push_unlock")
  /\ buffer' = [buffer EXCEPT ![tail] = arg[t]]
  /\ tail' = Advance(tail)
  /\ size' = size + 1
  /\ UNCHANGED <<head, capacity, arg, got, syncVars>>

PushUnlock(t) ==
  /\ Goes(t, "push_unlock", "push_signal")
  /\ Unlock
  /\ UNCHANGED <<arg, got, ringVars>>

PushSignal(t) ==
  /\ Goes(t, "push_signal", "idle")
  /\ SemSignal("items")
  /\ arg' = [arg EXCEPT ![t] = NULL]
  /\ UNCHANGED <<got, ringVars>>

----------------------------------------------------------------------------
(* queue_pop                                                               *)

PopWait(t) ==
  /\ capacity # 0
  /\ Goes(t, "idle", "pop_lock")
  /\ SemWait(t, "items")
  /\ UNCHANGED <<arg, got, ringVars>>

PopLock(t) ==
  /\ Goes(t, "pop_lock", "pop_load")
  /\ Lock(t)
  /\ UNCHANGED <<arg, got, ringVars>>

PopLoad(t) ==
  /\ Goes(t, "pop_load", "pop_unlock")
  /\ got' = [got EXCEPT ![t] = buffer[head]]
  /\ head' = Advance(head)
  /\ size' = size - 1
  /\ UNCHANGED <<buffer, tail, capacity, arg, syncVars>>

PopUnlock(t) ==
  /\ Goes(t, "pop_unlock", "pop_signal")
  /\ Unlock
  /\ UNCHANGED <<arg, got, ringVars>>

PopSignal(t) ==
  /\ Goes(t, "pop_signal", "idle")
  /\ SemSignal("space")
  /\ got' = [got EXCEPT ![t] = NULL]
  /\ UNCHANGED <<arg, ringVars>>

----------------------------------------------------------------------------
(* queue_destroy and queue_init                                            *)

Empty == [i \in 0..Capacity - 1 |-> NULL]

Permits == [s \in {"items", "space"} |-> IF s = "items" THEN 0 ELSE Capacity]

Nobody == [o \in {"items", "space", "lock"} |-> <<>>]

QueueDestroy ==
  /\ \A t \in Tasks : pc[t] = "idle"
  /\ buffer' = Empty
  /\ capacity' = 0
  /\ head' = 0
  /\ tail' = 0
  /\ UNCHANGED <<pc, arg, got, size, syncVars>>

\* One that leaves the semaphores and the lock as they are.
BadQueueInit ==
  /\ capacity = 0
  /\ capacity' = Capacity
  /\ size' = 0
  /\ UNCHANGED <<pc, arg, got, buffer, head, tail, syncVars>>

\* The indices are 0 already: queue_destroy sets them too.
QueueInit ==
  /\ capacity = 0
  /\ capacity' = Capacity
  /\ size' = 0
  /\ count' = Permits
  /\ locked' = FALSE
  /\ waiters' = Nobody
  /\ UNCHANGED <<pc, arg, got, buffer, head, tail>>

----------------------------------------------------------------------------
Init ==
  /\ pc = [t \in Tasks |-> "idle"]
  /\ arg = [t \in Tasks |-> NULL]
  /\ got = [t \in Tasks |-> NULL]
  /\ buffer = Empty
  /\ head = 0
  /\ tail = 0
  /\ size = 0
  /\ capacity = Capacity
  /\ count = Permits
  /\ locked = FALSE
  /\ waiters = Nobody

Pushing(t) == PushWait(t) \/ PushLock(t) \/ PushStore(t) \/ PushUnlock(t) \/ PushSignal(t)

Popping(t) == PopWait(t) \/ PopLock(t) \/ PopLoad(t) \/ PopUnlock(t) \/ PopSignal(t)

Next ==
  \/ \E t \in Producers : (\E x \in Items : PushCall(t, x)) \/ Pushing(t)
  \/ \E t \in Consumers : Popping(t)
  \/ QueueDestroy \/ QueueInit

QueueSpec == Init /\ [][Next]_vars

(***************************************************************************)
(* Fairness: every ready task gets the CPU (ReadyRuns in Scheduler), a     *)
(* producer finishes the push it has begun, and a consumer pops as long as *)
(* there is a queue.                                                       *)
(***************************************************************************)
FairQueueSpec ==
  /\ QueueSpec
  /\ \A t \in Producers : WF_vars(Pushing(t))
  /\ \A t \in Consumers : WF_vars(Popping(t))

----------------------------------------------------------------------------
(* Properties                                                              *)

PushSteps == {"push_wait", "push_lock", "push_store", "push_unlock", "push_signal"}
PopSteps  == {"pop_lock", "pop_load", "pop_unlock", "pop_signal"}

QueueTypeOK ==
  /\ pc \in [Tasks -> {"idle"} \cup PushSteps \cup PopSteps]
  /\ arg \in [Tasks -> Items \cup {NULL}]
  /\ got \in [Tasks -> Items \cup {NULL}]
  /\ buffer \in [0..Capacity - 1 -> Items \cup {NULL}]
  /\ head \in 0..Capacity - 1
  /\ tail \in 0..Capacity - 1
  /\ size \in Int
  /\ capacity \in {0, Capacity}
  /\ count \in [{"items", "space"} -> Nat]
  /\ locked \in BOOLEAN
  /\ waiters \in [{"items", "space", "lock"} -> Seq(Tasks)]

\* The tasks past their wait at one of the steps given.
At(steps) == {t \in Tasks : pc[t] \in steps /\ ~Blocked(t)}

\* The tasks that have called mutex_lock and not come back from it are at the
\* step after it.
InRing == At({"push_store", "push_unlock", "pop_load", "pop_unlock"})

\* The ring is one task's at a time; and the state is well-formed.
OneInRing ==
  /\ QueueTypeOK
  /\ \A t, u \in InRing : t = u

\* The tasks a semaphore's permit has been given to, blocked on the lock or not.
Holding(s, steps) == {t \in Tasks : pc[t] \in steps /\ t \notin ToSet(waiters[s])}

\* Every slot is accounted for by one of the semaphores or by a task on its way
\* from one to the other (queue.c:41, :56, :61, :76): none is lost when a permit
\* is handed over, and none is counted twice.  The two indices are as far apart as
\* there are items, and nobody waits for what is there.  Of a queue destroyed there
\* is nothing but its semaphores, made anew with it (queue.c:20).
SlotsAccounted ==
  capacity # 0 =>
    /\ count["space"]
         + Cardinality(Holding("space", {"push_lock", "push_store"}))
         + size
         + Cardinality(Holding("space", {"pop_unlock", "pop_signal"})) = Capacity
    /\ count["items"]
         + Cardinality(Holding("items", {"pop_lock", "pop_load"}))
         + Cardinality(Holding("items", {"push_unlock", "push_signal"})) = size
    /\ size \in 0..Capacity
    /\ tail = (head + size) % Capacity
    /\ \A s \in {"items", "space"} : count[s] = 0 \/ waiters[s] = <<>>

\* The items in the ring, oldest first, are those of a first-in first-out queue
\* that never overflows and never gives out a slot that holds none, and that is
\* empty when it is made anew (queue.c:15 to :21).
Contents == [i \in 1..(IF capacity = 0 THEN 0 ELSE size) |-> buffer[(head + i - 1) % Capacity]]

Fifo == INSTANCE FifoQueue WITH contents <- Contents

ImplementsFifo == Fifo!FifoSpec

\* What is stored is taken out, whatever the order in which tasks are woken, unless
\* it is still there when the queue is destroyed.  (One
\* of two producers may wait for ever: the list is last come first, semaphore.c:28,
\* and the other can always be ahead.)
StoredIsTaken ==
  \A x \in Items :
    (\E i \in DOMAIN Contents : Contents[i] = x)
      ~> (capacity = 0 \/ \E t \in Consumers : got[t] = x)
=============================================================================
