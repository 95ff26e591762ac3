----------------------------- MODULE TaskProofs -----------------------------
(***************************************************************************)
(* Proofs about the scheduler and the kernel objects that block on it, for *)
(* every set of tasks, mutexes, semaphores and events, and every bound on  *)
(* the clock.                                                              *)
(*                                                                         *)
(* First the safety invariants of Scheduler and the two properties of its  *)
(* steps.  The invariants are proved together, with what they need to be   *)
(* inductive: that the boot task can always run, and how each task that    *)
(* does not run will be resumed.                                           *)
(*                                                                         *)
(* Then the objects, in three parts: the scheduler's invariant survives    *)
(* what the objects do to the tasks; each step does to one object one of a *)
(* few things, listed as MutexMoves, SemaphoreMoves and EventMoves; and    *)
(* these few things keep the objects' invariants, cut no wait short and    *)
(* are steps of the abstract lock.                                         *)
(***************************************************************************)
EXTENDS LockRefinement, ListProofs

----------------------------------------------------------------------------
(* Lists                                                                   *)

\* The position of a task of a list is one where it is.
LEMMA PositionIsThere ==
  ASSUME NEW list \in Seq(Tasks), NEW t \in ToSet(list)
  PROVE  PositionOf(list, t) \in 1..Len(list) /\ list[PositionOf(list, t)] = t
BY DEF PositionOf, ToSet

\* Unlinking a task of a list takes that task out, and no other.
LEMMA UnlinkTakesOut ==
  ASSUME NEW list \in Seq(Tasks), NEW t \in ToSet(list), NoRepeat(list)
  PROVE  /\ Unlink(list, t) \in Seq(Tasks)
         /\ ToSet(Unlink(list, t)) = ToSet(list) \ {t}
         /\ NoRepeat(Unlink(list, t))
<1> DEFINE p == PositionOf(list, t)
           short == Unlink(list, t)
<1>1. p \in 1..Len(list) /\ list[p] = t
  BY PositionIsThere
<1>2. /\ short \in Seq(Tasks)
      /\ Len(short) = Len(list) - 1
      /\ \A i \in 1..Len(list) - 1 : short[i] = IF i < p THEN list[i] ELSE list[i + 1]
  BY <1>1, RemoveAtShifts DEF Unlink
<1> HIDE DEF p, short
<1>3. NoRepeat(short)
  <2> SUFFICES ASSUME NEW i \in 1..Len(short), NEW j \in 1..Len(short), short[i] = short[j]
               PROVE  i = j
    BY DEF NoRepeat
  <2> DEFINE up(k) == IF k < p THEN k ELSE k + 1
  <2>1. up(i) \in 1..Len(list) /\ up(j) \in 1..Len(list) /\ list[up(i)] = list[up(j)]
    BY <1>1, <1>2
  <2>2. up(i) = up(j)
    BY <2>1 DEF NoRepeat
  <2> QED
    BY <2>2, <1>1, <1>2
<1>4. ASSUME NEW x \in ToSet(short) PROVE x \in ToSet(list) \ {t}
  BY <1>1, <1>2 DEF ToSet, NoRepeat
<1>5. ASSUME NEW x \in ToSet(list), x # t PROVE x \in ToSet(short)
  <2>1. PICK i \in 1..Len(list) : list[i] = x
    BY DEF ToSet
  <2>2. CASE i < p
    BY <2>1, <2>2, <1>1, <1>2 DEF ToSet
  <2>3. CASE i > p
    <3>1. i - 1 \in 1..Len(short) /\ short[i - 1] = x
      BY <2>1, <2>3, <1>1, <1>2
    <3> QED BY <3>1, <1>2 DEF ToSet
  <2> QED BY <2>1, <2>2, <2>3, <1>1, <1>5
<1> QED
  BY <1>2, <1>3, <1>4, <1>5 DEF short

----------------------------------------------------------------------------
(* The search for the next task                                            *)

\* Going round a list reaches each of its tasks, and only the last step
\* returns to the task one starts from.
LEMMA AroundReaches ==
  ASSUME NEW list \in Seq(Tasks), NEW p \in 1..Len(list)
  PROVE  /\ \A k \in 1..Len(list) : Around(list, p, k) \in ToSet(list)
         /\ \A x \in ToSet(list) : \E k \in 1..Len(list) : Around(list, p, k) = x
         /\ Around(list, p, Len(list)) = list[p]
         /\ NoRepeat(list) =>
              \A k \in 1..Len(list) : Around(list, p, k) = list[p] => k = Len(list)
<1>0. Len(list) \in Nat /\ p \in Nat
  BY LenProperties
<1> DEFINE n == Len(list)
           at(k) == IF p + k <= n THEN p + k ELSE p + k - n
<1>1. \A k \in 1..n : Around(list, p, k) = list[at(k)]
  BY DEF Around
<1>2. \A k \in 1..n : at(k) \in 1..n
  BY <1>0
<1>3. \A k \in 1..n : at(k) = p => k = n
  BY <1>0
<1>4. \A k \in 1..n : Around(list, p, k) \in ToSet(list)
  BY <1>1, <1>2 DEF ToSet
<1>5. ASSUME NEW x \in ToSet(list) PROVE \E k \in 1..n : Around(list, p, k) = x
  <2>1. PICK i \in 1..n : list[i] = x
    BY DEF ToSet
  <2>2. PICK k \in 1..n : at(k) = i
    <3>1. CASE i > p
      <4>1. i - p \in 1..n /\ at(i - p) = i
        BY <1>0, <3>1
      <4> QED BY <4>1
    <3>2. CASE i <= p
      <4>1. i - p + n \in 1..n /\ at(i - p + n) = i
        BY <1>0, <3>2
      <4> QED BY <4>1
    <3> QED BY <1>0, <3>1, <3>2
  <2> QED BY <1>1, <2>1, <2>2
<1>6. n \in 1..n /\ at(n) = p
  BY <1>0
<1>7. NoRepeat(list) => \A k \in 1..n : Around(list, p, k) = list[p] => k = n
  BY <1>1, <1>2, <1>3 DEF NoRepeat
<1> QED
  BY <1>1, <1>4, <1>5, <1>6, <1>7

\* scheduler_next stays on the list, leaves the running task only for a ready
\* one, and does leave it when another task of the list is ready.
LEMMA NextTaskIsReady ==
  ASSUME NEW list \in Seq(Tasks), NEW cur \in ToSet(list), NEW st, NoRepeat(list)
  PROVE  /\ NextTask(list, cur, st) \in ToSet(list)
         /\ NextTask(list, cur, st) # cur => st[NextTask(list, cur, st)] = "READY"
         /\ (\E x \in ToSet(list) \ {cur} : st[x] = "READY")
              => NextTask(list, cur, st) # cur
<1> DEFINE p     == PositionOf(list, cur)
           ready == {k \in 1..Len(list) : st[Around(list, p, k)] = "READY"}
           next  == NextTask(list, cur, st)
<1>0. Len(list) \in Nat
  BY LenProperties
<1>1. p \in 1..Len(list) /\ list[p] = cur
  BY PositionIsThere
<1>2. next = IF ready = {} THEN cur ELSE Around(list, p, Min(ready))
  BY DEF NextTask
<1> HIDE DEF p, next
<1>3. ASSUME ready # {}
      PROVE  Min(ready) \in ready /\ \A k \in ready : Min(ready) <= k
  <2>1. ready \subseteq Nat
    BY <1>0
  <2> QED BY <2>1, <1>3, MinIsLeast
<1>4. next \in ToSet(list)
  BY <1>1, <1>2, <1>3, AroundReaches
<1>5. next # cur => st[next] = "READY"
  BY <1>2, <1>3
<1>6. ASSUME NEW x \in ToSet(list) \ {cur}, st[x] = "READY"
      PROVE  next # cur
  <2>1. PICK k \in 1..Len(list) : Around(list, p, k) = x
    BY <1>1, AroundReaches
  <2>2. k \in ready
    BY <2>1, <1>6
  <2>3. k # Len(list)
    BY <2>1, <1>1, <1>6, AroundReaches
  <2>4. Min(ready) \in 1..Len(list) /\ Min(ready) # Len(list)
    BY <2>2, <2>3, <1>0, <1>3
  <2>5. \A j \in 1..Len(list) : Around(list, p, j) = list[p] => j = Len(list)
    BY <1>1, AroundReaches
  <2>6. Around(list, p, Min(ready)) # cur
    BY <2>4, <2>5, <1>1
  <2> QED
    BY <2>2, <2>6, <1>2
<1> QED
  BY <1>4, <1>5, <1>6 DEF next

----------------------------------------------------------------------------
(* The call of scheduler_schedule                                          *)

\* The boot task can always run: this is what keeps scheduler_next from falling
\* back on a task that has just blocked, gone to sleep or died.
BootCanRun ==
  /\ Boot \in ToSet(runlist)
  /\ state[Boot] \in {"READY", "RUNNING"}

ListInv == RunningIsCurrent /\ RunlistSound /\ ReapSafe /\ BootCanRun

\* What the callers of scheduler_schedule make of the task states: they change
\* the running task's, but for kmain's, and end the wait of blocked tasks.
Leaves(st) ==
  /\ st \in [Tasks -> TaskState]
  /\ \A t \in Tasks \ {current} :
       st[t] = state[t] \/ (state[t] = "BLOCKED" /\ st[t] = "READY")
  /\ st[current] \in {"RUNNING", "SLEEPING", "BLOCKED", "DEAD"}
  /\ current = Boot => st[current] = "RUNNING"

\* What scheduler_schedule makes of them: a sleeper whose time has come wakes,
\* the task chosen runs, and the one that ran is ready.
Moves(st) ==
  \A t \in Tasks :
    \/ state'[t] = st[t]
    \/ /\ st[t] = "SLEEPING" /\ wake_tick'[t] <= ticks'
       /\ state'[t] \in {"READY", "RUNNING"}
    \/ st[t] = "READY" /\ state'[t] = "RUNNING"
    \/ st[t] = "RUNNING" /\ state'[t] = "READY"

\* scheduler_schedule keeps the lists and the running task sound.
LEMMA ScheduleSound ==
  ASSUME TypeOK, ListInv, NEW st, Leaves(st),
         NEW how \in {"irq", "call"}, Schedule(st, how)
  PROVE  /\ ListInv'
         /\ Moves(st)
         /\ state' \in [Tasks -> TaskState]
         /\ runlist' \in Seq(Tasks)
         /\ current' \in Tasks
         /\ task_to_destroy' \in Tasks \cup {NULL}
         /\ freed' \subseteq Tasks
         /\ ToSet(runlist') \subseteq ToSet(runlist)
         /\ task_to_destroy = NULL => runlist' = runlist
<1> DEFINE reap == task_to_destroy # NULL
           list == IF reap THEN Unlink(runlist, task_to_destroy) ELSE runlist
           st1  == Awaken(list, st, wake_tick', ticks')
           next == NextTask(list, current, st1)
<1> USE SchedulerAssumption DEF ListInv
<1>1. /\ runlist' = list
      /\ freed' = IF reap THEN freed \cup {task_to_destroy} ELSE freed
      /\ current' = next
      /\ IF next = current
         THEN state' = st1 /\ task_to_destroy' = NULL
         ELSE /\ state' = Switch(st1, current, next)
              /\ task_to_destroy' = Victim(st1, current)
  BY DEF Schedule
<1>2. /\ list \in Seq(Tasks)
      /\ ToSet(list) = ToSet(runlist) \ {task_to_destroy}
      /\ NoRepeat(list)
  <2>1. CASE reap
    BY <2>1, UnlinkTakesOut DEF TypeOK, ReapSafe, RunlistSound
  <2>2. CASE ~reap
    <3>1. ToSet(runlist) \subseteq Tasks
      BY DEF TypeOK, ToSet
    <3> QED BY <2>2, <3>1 DEF TypeOK, RunlistSound
  <2> QED BY <2>1, <2>2
<1>3. current \in ToSet(list)
  BY <1>2 DEF RunningIsCurrent, ReapSafe
<1>4. /\ st1 \in [Tasks -> TaskState]
      /\ \A t \in Tasks :
           \/ st1[t] = st[t]
           \/ st[t] = "SLEEPING" /\ wake_tick'[t] <= ticks' /\ st1[t] = "READY"
  BY DEF Awaken, Leaves, TaskState
<1> HIDE DEF list, st1, next
<1>5. /\ next \in ToSet(list)
      /\ next # current => st1[next] = "READY"
      /\ (\E x \in ToSet(list) \ {current} : st1[x] = "READY") => next # current
  BY <1>2, <1>3, NextTaskIsReady DEF next
<1>6. ToSet(list) \subseteq Tasks
  BY <1>2 DEF ToSet
<1>7. Boot \in ToSet(list) /\ (current # Boot => st1[Boot] = "READY")
  BY <1>2, <1>4 DEF BootCanRun, ReapSafe, RunningIsCurrent, TypeOK, Leaves
<1>8. next = current => current = Boot /\ st1[current] = "RUNNING"
  BY <1>4, <1>5, <1>7 DEF Leaves, TypeOK
<1>9. \A t \in Tasks \ {current} :
        /\ st1[t] # "RUNNING"
        /\ st1[t] = state[t] \/ (state[t] \in {"BLOCKED", "SLEEPING"} /\ st1[t] = "READY")
  BY <1>4 DEF Leaves, RunningIsCurrent
<1>10. st1[current] \in {"RUNNING", "SLEEPING", "BLOCKED", "DEAD", "READY"}
  BY <1>4 DEF Leaves, TypeOK
<1>11. /\ Switch(st1, current, next) \in [Tasks -> TaskState]
       /\ \A t \in Tasks \ {current, next} : Switch(st1, current, next)[t] = st1[t]
       /\ Switch(st1, current, next)[next] = "RUNNING"
       /\ current # next =>
            Switch(st1, current, next)[current] =
              IF st1[current] = "RUNNING" THEN "READY" ELSE st1[current]
  <2>1. current \in Tasks /\ next \in Tasks
    BY <1>5, <1>6 DEF TypeOK
  <2> HIDE DEF ListInv
  <2> QED BY <1>4, <2>1 DEF Switch, TaskState
<1>12. /\ state' \in [Tasks -> TaskState]
       /\ state'[next] = "RUNNING"
       /\ \A t \in Tasks \ {current, next} : state'[t] = st1[t]
       /\ current # next =>
            state'[current] = IF st1[current] = "RUNNING" THEN "READY" ELSE st1[current]
  BY <1>1, <1>4, <1>5, <1>6, <1>8, <1>11 DEF TypeOK
<1>13. RunningIsCurrent'
  BY <1>1, <1>5, <1>6, <1>9, <1>12 DEF RunningIsCurrent
<1>14. RunlistSound'
  <2>1. \A t \in ToSet(list) : state'[t] # "UNUSED"
    BY <1>2, <1>6, <1>9, <1>10, <1>12 DEF RunlistSound
  <2>2. ASSUME NEW t \in Tasks, state'[t] \in {"RUNNING", "SLEEPING", "BLOCKED"}
        PROVE  t \in ToSet(list)
    <3>1. CASE t \in {current, next}
      BY <3>1, <1>3, <1>5
    <3>2. CASE t \notin {current, next}
      BY <3>2, <2>2, <1>2, <1>9, <1>12 DEF RunlistSound, ReapSafe
    <3> QED BY <3>1, <3>2
  <2> QED BY <2>1, <2>2, <1>1, <1>2 DEF RunlistSound
<1>15. ReapSafe'
  <2>1. \A t \in Tasks : state'[t] = "DEAD" => st1[t] = "DEAD" /\ t # next
    BY <1>12, <1>8
  <2>2. \A t \in Tasks \ {next} : st1[t] = "DEAD" => state'[t] = "DEAD"
    BY <1>8, <1>12
  <2>3. \A t \in Tasks \ {current} : st1[t] = "DEAD" <=> state[t] = "DEAD"
    BY <1>9
  <2>4. ASSUME task_to_destroy' # NULL
        PROVE  /\ state'[task_to_destroy'] = "DEAD"
               /\ task_to_destroy' # current'
               /\ task_to_destroy' \in ToSet(runlist')
    BY <2>4, <2>2, <1>1, <1>3, <1>6 DEF Victim
  <2>5. ASSUME NEW t \in freed'
        PROVE  state'[t] = "DEAD" /\ t # current' /\ t \notin ToSet(runlist')
    <3>1. t \in Tasks /\ state[t] = "DEAD" /\ t # current /\ t \notin ToSet(list)
      BY <2>5, <1>1, <1>2 DEF ReapSafe, TypeOK
    <3> QED BY <3>1, <2>2, <2>3, <1>1, <1>5
  <2>6. ASSUME NEW t \in Tasks, state'[t] = "DEAD"
        PROVE  t \in freed' \cup {task_to_destroy'}
    <3>1. CASE t = current
      BY <3>1, <2>1, <2>6, <1>1 DEF Victim
    <3>2. CASE t # current
      <4>1. t \in freed \cup {task_to_destroy}
        BY <3>2, <2>1, <2>3, <2>6 DEF ReapSafe
      <4> QED BY <4>1, <1>1
    <3> QED BY <3>1, <3>2
  <2> QED BY <2>4, <2>5, <2>6 DEF ReapSafe
<1>16. BootCanRun'
  <2>1. current = Boot => st1[Boot] = "RUNNING"
    BY <1>4 DEF Leaves
  <2>2. state'[Boot] \in {"READY", "RUNNING"}
    BY <1>7, <1>12, <2>1
  <2> QED BY <1>1, <1>7, <2>2 DEF BootCanRun
<1>17. Moves(st)
  <2> SUFFICES ASSUME NEW t \in Tasks
               PROVE  \/ state'[t] = st[t]
                      \/ /\ st[t] = "SLEEPING" /\ wake_tick'[t] <= ticks'
                         /\ state'[t] \in {"READY", "RUNNING"}
                      \/ st[t] = "READY" /\ state'[t] = "RUNNING"
                      \/ st[t] = "RUNNING" /\ state'[t] = "READY"
    BY DEF Moves
  <2>1. CASE t = next
    BY <2>1, <1>4, <1>5, <1>8, <1>12
  <2>2. CASE t # next /\ t = current
    BY <2>2, <1>4, <1>12
  <2>3. CASE t \notin {next, current}
    BY <2>3, <1>4, <1>12
  <2> QED BY <2>1, <2>2, <2>3
<1>18. /\ task_to_destroy' \in Tasks \cup {NULL}
       /\ freed' \subseteq Tasks
       /\ task_to_destroy = NULL => runlist' = runlist
  BY <1>1 DEF list, Victim, TypeOK
<1> QED
  BY <1>1, <1>2, <1>5, <1>6, <1>12, <1>13, <1>14, <1>15, <1>16, <1>17, <1>18

----------------------------------------------------------------------------
(* The wait lists                                                          *)

Holders == Tasks \cup Objects

Gone(t) == state[t] \in {"DEAD", "UNUSED"}

\* A task waits in one list only.
LEMMA OneList ==
  ASSUME TypeOK, BlockedIsQueued, NEW q \in Holders, NEW r \in Holders,
         NEW t \in ToSet(waiters[q]), t \in ToSet(waiters[r])
  PROVE  q = r
<1>1. waiters[q] \in Seq(Tasks) /\ waiters[r] \in Seq(Tasks)
  BY DEF TypeOK, Holders
<1>2. PICK i \in 1..Len(waiters[q]), j \in 1..Len(waiters[r]) :
        waiters[q][i] = t /\ waiters[r][j] = t
  BY <1>1 DEF ToSet
<1> QED
  BY <1>2 DEF BlockedIsQueued, Holders

\* Nobody blocks and nobody's wait ends.
LEMMA QueuesKept ==
  ASSUME BlockedIsQueued, UNCHANGED waiters,
         \A t \in Tasks : state'[t] = "BLOCKED" <=> state[t] = "BLOCKED",
         \A t \in Tasks : Gone(t)' => Gone(t)
  PROVE  BlockedIsQueued'
BY DEF BlockedIsQueued, Gone

\* The running task blocks on an object that is not a task already gone.
LEMMA QueueGrows ==
  ASSUME TypeOK, BlockedIsQueued, state[current] # "BLOCKED",
         NEW o \in Holders, o \in Tasks => ~Gone(o),
         waiters' = [waiters EXCEPT ![o] = <<current>> \o @],
         \A t \in Tasks : state'[t] = "BLOCKED" <=> state[t] = "BLOCKED" \/ t = current,
         \A t \in Tasks : Gone(t)' => Gone(t)
  PROVE  BlockedIsQueued'
<1> DEFINE new == <<current>> \o waiters[o]
<1>1. /\ waiters[o] \in Seq(Tasks) /\ Len(waiters[o]) \in Nat
      /\ current \in Tasks
  BY LenProperties DEF TypeOK, Holders
<1>2. /\ new \in Seq(Tasks)
      /\ Len(new) = Len(waiters[o]) + 1
      /\ new[1] = current
      /\ \A i \in 2..Len(new) : new[i] = waiters[o][i - 1]
  BY <1>1, PushLinks
<1>3. ToSet(new) = ToSet(waiters[o]) \cup {current}
  BY <1>1, PushLinks
<1> HIDE DEF new
<1>4. /\ waiters'[o] = new
      /\ \A q \in Holders \ {o} : waiters'[q] = waiters[q]
  BY DEF new, TypeOK, Holders
<1>5. ASSUME NEW t \in Tasks
      PROVE  state'[t] = "BLOCKED" <=> \E q \in Holders : t \in ToSet(waiters'[q])
  BY <1>4, <1>3 DEF BlockedIsQueued, Holders
<1>6. \A q \in Holders : \A i \in 1..Len(waiters[q]) : waiters[q][i] # current
  BY <1>1, SMTT(20) DEF BlockedIsQueued, Holders, ToSet, TypeOK
<1>7. ASSUME NEW q \in Holders, NEW r \in Holders,
             NEW i \in 1..Len(waiters'[q]), NEW j \in 1..Len(waiters'[r]),
             waiters'[q][i] = waiters'[r][j]
      PROVE  q = r /\ i = j
  <2>1. \A a, b \in Holders : \A k \in 1..Len(waiters[a]), l \in 1..Len(waiters[b]) :
          waiters[a][k] = waiters[b][l] => a = b /\ k = l
    BY DEF BlockedIsQueued, Holders
  <2>2. ASSUME NEW k \in 1..Len(new), k # 1
        PROVE  /\ k - 1 \in 1..Len(waiters[o])
               /\ new[k] = waiters[o][k - 1]
               /\ new[k] # current
    BY <1>1, <1>2, <1>6, <2>2
  <2>3. CASE q # o /\ r # o
    BY <1>4, <1>7, <2>1, <2>3
  <2>4. CASE q = o /\ r # o
    <3>1. j \in 1..Len(waiters[r]) /\ new[i] = waiters[r][j] /\ i \in 1..Len(new)
      BY <1>4, <1>7, <2>4
    <3>2. i # 1
      BY <1>2, <1>6, <3>1
    <3> QED BY <2>1, <2>2, <2>4, <3>1, <3>2
  <2>5. CASE q # o /\ r = o
    <3>1. i \in 1..Len(waiters[q]) /\ new[j] = waiters[q][i] /\ j \in 1..Len(new)
      BY <1>4, <1>7, <2>5
    <3>2. j # 1
      BY <1>2, <1>6, <3>1
    <3> QED BY <2>1, <2>2, <2>5, <3>1, <3>2
  <2>6. CASE q = o /\ r = o
    <3>1. i \in 1..Len(new) /\ j \in 1..Len(new) /\ new[i] = new[j]
      BY <1>4, <1>7, <2>6
    <3>2. i = 1 <=> j = 1
      BY <1>2, <2>2, <3>1
    <3>3. ASSUME i # 1, j # 1 PROVE i - 1 = j - 1
      <4>1. /\ i - 1 \in 1..Len(waiters[o]) /\ j - 1 \in 1..Len(waiters[o])
            /\ waiters[o][i - 1] = waiters[o][j - 1]
        BY <2>2, <3>1, <3>3
      <4> QED BY <2>1, <4>1
    <3> QED BY <1>1, <1>2, <2>6, <3>1, <3>2, <3>3
  <2> QED BY <2>3, <2>4, <2>5, <2>6
<1>8. \A u \in Tasks : waiters'[u] # <<>> => ~Gone(u)'
  BY <1>4 DEF BlockedIsQueued, Holders, Gone
<1> QED
  BY <1>5, <1>7, <1>8 DEF BlockedIsQueued, Gone, Holders

\* Every task that waits for an object is made ready.
LEMMA QueueEmptied ==
  ASSUME TypeOK, BlockedIsQueued,
         NEW o \in Holders,
         waiters' = [waiters EXCEPT ![o] = <<>>],
         \A t \in Tasks : state'[t] = "BLOCKED" <=>
                           state[t] = "BLOCKED" /\ t \notin ToSet(waiters[o]),
         \A t \in Tasks : Gone(t)' => Gone(t) \/ t = o
  PROVE  BlockedIsQueued'
<1>1. /\ waiters'[o] = <<>>
      /\ \A q \in Holders \ {o} : waiters'[q] = waiters[q]
  BY DEF TypeOK, Holders
<1>2. \A q \in Holders : \A t \in ToSet(waiters[q]) : t \in ToSet(waiters[o]) => q = o
  BY OneList
<1>3. ASSUME NEW t \in Tasks
      PROVE  state'[t] = "BLOCKED" <=> \E q \in Holders : t \in ToSet(waiters'[q])
  <2>1. state[t] = "BLOCKED" <=> \E q \in Holders : t \in ToSet(waiters[q])
    BY DEF BlockedIsQueued, Holders
  <2>2. ToSet(waiters'[o]) = {}
    BY <1>1 DEF ToSet
  <2> QED BY <1>1, <1>2, <2>1, <2>2
<1>4. ASSUME NEW q \in Holders, NEW r \in Holders,
             NEW i \in 1..Len(waiters'[q]), NEW j \in 1..Len(waiters'[r]),
             waiters'[q][i] = waiters'[r][j]
      PROVE  q = r /\ i = j
  BY <1>1, <1>4 DEF BlockedIsQueued, Holders
<1>5. \A u \in Tasks : waiters'[u] # <<>> => ~Gone(u)'
  BY <1>1 DEF BlockedIsQueued, Holders, Gone
<1> QED
  BY <1>3, <1>4, <1>5 DEF BlockedIsQueued, Gone, Holders

----------------------------------------------------------------------------
(* The inductive invariant                                                 *)

\* Under LateStart: interrupts are on in kmain and off in the tasks, each task will
\* resume the way that keeps it so, and kmain is alone until it has called
\* scheduler_schedule.
FlagsSound ==
  /\ interrupts <=> current = Boot
  /\ \A t \in Tasks \ {Boot} : saved[t] = "call"
  /\ current # Boot => saved[Boot] = "irq"
  /\ boot = "kmain" => runlist = <<Boot>>

IInv == TypeOK /\ ListInv /\ BlockedIsQueued /\ (LateStart => FlagsSound)

\* scheduler_init establishes the invariant.
LEMMA InitSound == SchedulerInit => IInv
<1> SUFFICES ASSUME SchedulerInit PROVE IInv
  OBVIOUS
<1> USE SchedulerAssumption DEF SchedulerInit, ListInit
<1>1. runlist = <<Boot>> /\ Len(runlist) = 1 /\ runlist[1] = Boot /\ ToSet(runlist) = {Boot}
  BY DEF ToSet
<1>2. TypeOK
  BY DEF TypeOK, TaskState
<1>3. ListInv
  BY <1>1 DEF ListInv, RunningIsCurrent, RunlistSound, ReapSafe, BootCanRun, NoRepeat
<1>4. BlockedIsQueued
  <2>1. \A o \in Tasks \cup Objects :
          waiters[o] = <<>> /\ Len(waiters[o]) = 0 /\ ToSet(waiters[o]) = {}
    BY DEF ToSet
  <2>2. \A t \in Tasks : state[t] # "BLOCKED" /\ waiters[t] = <<>>
    OBVIOUS
  <2> HIDE DEF SchedulerInit
  <2> QED BY <2>1, <2>2 DEF BlockedIsQueued
<1>5. FlagsSound
  BY DEF FlagsSound
<1> QED
  BY <1>2, <1>3, <1>4, <1>5 DEF IInv

\* The interrupt flag stays one, however tasks are switched.
LEMMA FlagTyped ==
  ASSUME TypeOK, NEW st, NEW how \in {"irq", "call"}, Schedule(st, how)
  PROVE  interrupts' \in BOOLEAN /\ saved' \in [Tasks -> {"irq", "call"}]
<1>1. CASE UNCHANGED <<saved, interrupts>>
  BY <1>1 DEF TypeOK
<1>2. CASE /\ saved' = [saved EXCEPT ![current] = how]
           /\ interrupts' = Flag(current', how)
  <2>1. interrupts' \in BOOLEAN
    BY <1>2 DEF Flag
  <2> QED BY <1>2, <2>1 DEF TypeOK
<1> QED
  BY <1>1, <1>2 DEF Schedule

\* The interrupt flag after a call, or after the timer's, under LateStart.
LEMMA FlagsKept ==
  ASSUME IInv, LateStart, NEW st, Leaves(st),
         NEW how \in {"irq", "call"}, Schedule(st, how), UNCHANGED boot,
         how = "irq" <=> current = Boot
  PROVE  FlagsSound'
<1> USE SchedulerAssumption
<1>1. /\ current' \in Tasks
      /\ task_to_destroy = NULL => runlist' = runlist
      /\ ToSet(runlist') \subseteq ToSet(runlist)
      /\ current' \in ToSet(runlist')
  BY ScheduleSound DEF IInv, ListInv, RunningIsCurrent
<1>2. CASE current' = current
  <2>1. UNCHANGED <<saved, interrupts>>
    BY <1>2 DEF Schedule
  <2>2. boot = "kmain" => task_to_destroy = NULL
    BY DEF IInv, ListInv, ReapSafe, RunningIsCurrent, FlagsSound, ToSet
  <2> QED BY <1>1, <1>2, <2>1, <2>2 DEF IInv, FlagsSound, TypeOK
<1>3. CASE current' # current
  <2>1. /\ saved' = [saved EXCEPT ![current] = how]
        /\ interrupts' = (saved[current'] = "irq" \/ (how = "call" /\ interrupts))
    BY <1>3 DEF Schedule, Flag
  <2>2. boot # "kmain"
    <3>1. boot = "kmain" => ToSet(runlist) = {Boot}
      BY DEF IInv, FlagsSound, ToSet
    <3> QED BY <1>1, <1>3, <3>1 DEF IInv, ListInv, RunningIsCurrent
  <2>3. saved' \in [Tasks -> {"irq", "call"}] /\ current \in Tasks
    BY <2>1 DEF IInv, TypeOK
  <2>4. CASE current = Boot
    BY <1>1, <1>3, <2>1, <2>2, <2>3, <2>4 DEF IInv, FlagsSound, TypeOK
  <2>5. CASE current # Boot
    BY <1>1, <1>3, <2>1, <2>2, <2>3, <2>5 DEF IInv, FlagsSound, TypeOK
  <2> QED BY <2>4, <2>5
<1> QED
  BY <1>2, <1>3

\* What a call leaves of blocked tasks and of those gone.
LEMMA MovesKeep ==
  ASSUME NEW st, Moves(st)
  PROVE  \A t \in Tasks : /\ state'[t] = "BLOCKED" <=> st[t] = "BLOCKED"
                          /\ Gone(t)' <=> st[t] \in {"DEAD", "UNUSED"}
BY DEF Moves, Gone

----------------------------------------------------------------------------
(* Its steps                                                               *)

\* task_yield and the timer's call keep the invariant.
LEMMA PassSound ==
  ASSUME IInv, NEW how \in {"irq", "call"},
         LateStart => (how = "irq" <=> current = Boot),
         Schedule(state, how), UNCHANGED <<wake_tick, waiters, boot>>, ticks' \in 0..MaxTicks
  PROVE  IInv' /\ Moves(state)
<1> USE DEF IInv
<1>1. Leaves(state)
  BY DEF Leaves, TypeOK, ListInv, RunningIsCurrent
<1>2. TypeOK' /\ ListInv' /\ (LateStart => FlagsSound)' /\ Moves(state)
  BY <1>1, ScheduleSound, FlagTyped, FlagsKept DEF TypeOK
<1>3. BlockedIsQueued'
  BY <1>2, MovesKeep, QueuesKept DEF Gone
<1> QED BY <1>2, <1>3

\* task_sleep keeps the invariant.
LEMMA SleepSound ==
  ASSUME IInv, NEW n \in 0..MaxTicks, TaskSleep(n)
  PROVE  IInv' /\ Moves([state EXCEPT ![current] = "SLEEPING"])
<1> DEFINE st == [state EXCEPT ![current] = "SLEEPING"]
<1> USE SchedulerAssumption DEF IInv
<1>1. /\ Schedule(st, "call") /\ current # Boot
      /\ UNCHANGED <<waiters, ticks, boot>>
      /\ wake_tick' \in [Tasks -> Nat]
  BY DEF TaskSleep, InTask, TypeOK
<1>2. /\ Leaves(st)
      /\ \A t \in Tasks : st[t] = "BLOCKED" <=> state[t] = "BLOCKED"
      /\ \A t \in Tasks : st[t] \in {"DEAD", "UNUSED"} <=> Gone(t)
  BY <1>1 DEF Leaves, TypeOK, TaskState, ListInv, RunningIsCurrent, Gone
<1> HIDE DEF st
<1>3. TypeOK' /\ ListInv' /\ (LateStart => FlagsSound)' /\ Moves(st)
  BY <1>1, <1>2, ScheduleSound, FlagTyped, FlagsKept DEF TypeOK
<1>4. BlockedIsQueued'
  BY <1>1, <1>2, <1>3, MovesKeep, QueuesKept
<1> QED BY <1>3, <1>4 DEF st

\* Waiting for an object, or for a task that can still exit, keeps the invariant.
LEMMA BlockSound ==
  ASSUME IInv, current # Boot, NEW o \in Holders, o \in Tasks => ~Gone(o), BlockOn(o)
  PROVE  IInv' /\ Moves([state EXCEPT ![current] = "BLOCKED"])
<1> DEFINE st == [state EXCEPT ![current] = "BLOCKED"]
<1> USE SchedulerAssumption DEF IInv
<1>1. /\ Schedule(st, "call")
      /\ waiters' = [waiters EXCEPT ![o] = <<current>> \o @]
      /\ UNCHANGED <<wake_tick, ticks, boot>>
  BY DEF BlockOn
<1>2. /\ Leaves(st)
      /\ \A t \in Tasks : st[t] = "BLOCKED" <=> state[t] = "BLOCKED" \/ t = current
      /\ \A t \in Tasks : st[t] \in {"DEAD", "UNUSED"} <=> Gone(t)
      /\ state[current] # "BLOCKED"
  BY DEF Leaves, TypeOK, TaskState, ListInv, RunningIsCurrent, Gone
<1>3. waiters' \in [Tasks \cup Objects -> Seq(Tasks)]
  <2>1. <<current>> \o waiters[o] \in Seq(Tasks)
    BY DEF TypeOK, Holders
  <2> QED BY <1>1, <2>1 DEF TypeOK
<1> HIDE DEF st
<1>4. TypeOK' /\ ListInv' /\ (LateStart => FlagsSound)' /\ Moves(st)
  BY <1>1, <1>2, <1>3, ScheduleSound, FlagTyped, FlagsKept DEF TypeOK
<1>5. BlockedIsQueued'
  BY <1>1, <1>2, <1>4, MovesKeep, QueueGrows
<1> QED BY <1>4, <1>5 DEF st

\* task_exit keeps the invariant.
LEMMA ExitSound ==
  ASSUME IInv, TaskExit
  PROVE  IInv' /\ Moves([Ready(state, waiters[current]) EXCEPT ![current] = "DEAD"])
<1> DEFINE st == [Ready(state, waiters[current]) EXCEPT ![current] = "DEAD"]
<1> USE SchedulerAssumption DEF IInv
<1>1. /\ Schedule(st, "call") /\ current # Boot
      /\ waiters' = [waiters EXCEPT ![current] = <<>>]
      /\ UNCHANGED <<wake_tick, ticks, boot>>
  BY DEF TaskExit, InTask
<1>2. /\ current \in Tasks /\ state[current] = "RUNNING"
      /\ \A t \in ToSet(waiters[current]) : t \in Tasks /\ state[t] = "BLOCKED"
  BY SMTT(20) DEF TypeOK, ListInv, RunningIsCurrent, BlockedIsQueued, ToSet
<1>3. /\ Leaves(st)
      /\ \A t \in Tasks : st[t] = "BLOCKED" <=>
                           state[t] = "BLOCKED" /\ t \notin ToSet(waiters[current])
      /\ \A t \in Tasks : st[t] \in {"DEAD", "UNUSED"} => Gone(t) \/ t = current
  <2>1. st \in [Tasks -> TaskState]
    BY DEF Ready, TypeOK, TaskState
  <2>2. st[current] = "DEAD"
    BY <1>2 DEF Ready
  <2>3. \A t \in Tasks \ {current} :
          st[t] = IF t \in ToSet(waiters[current]) THEN "READY" ELSE state[t]
    BY DEF Ready
  <2> HIDE DEF st
  <2> QED BY <1>1, <1>2, <2>1, <2>2, <2>3 DEF Leaves, Gone
<1>4. waiters' \in [Tasks \cup Objects -> Seq(Tasks)]
  BY <1>1 DEF TypeOK
<1> HIDE DEF st
<1>5. TypeOK' /\ ListInv' /\ (LateStart => FlagsSound)' /\ Moves(st)
  BY <1>1, <1>3, <1>4, ScheduleSound, FlagTyped, FlagsKept DEF TypeOK
<1>6. BlockedIsQueued'
  BY <1>1, <1>2, <1>3, <1>5, MovesKeep, QueueEmptied DEF Holders
<1> QED BY <1>5, <1>6 DEF st

\* task_create keeps the invariant.
LEMMA CreateSound ==
  ASSUME IInv, NEW t \in Tasks, TaskCreate(t)
  PROVE  IInv' /\ \A u \in Tasks : state[u] # "UNUSED" => state'[u] = state[u]
<1> USE SchedulerAssumption DEF IInv, TaskCreate, listVars
<1>1. TypeOK'
  BY DEF TypeOK, TaskState
<1>2. /\ \A u \in Tasks \ {t} : state'[u] = state[u]
      /\ state[t] = "UNUSED" /\ state'[t] = "READY"
  BY DEF TypeOK
<1>3. ListInv'
  <2>1. t # Boot /\ t # current
    BY DEF ListInv, BootCanRun, RunningIsCurrent, TypeOK
  <2>2. \A u \in ToSet(runlist) : u \in Tasks
    BY DEF TypeOK, ToSet
  <2> QED BY <1>2, <2>1, <2>2 DEF ListInv, RunningIsCurrent, RunlistSound, ReapSafe,
                                  BootCanRun, TypeOK
<1>4. BlockedIsQueued'
  BY <1>2, QueuesKept DEF Gone
<1>5. LateStart => FlagsSound'
  <2>1. t # Boot /\ \A u \in Tasks : saved'[u] = IF u = t THEN "call" ELSE saved[u]
    BY DEF ListInv, BootCanRun, TypeOK
  <2> QED BY <2>1 DEF FlagsSound
<1> QED BY <1>1, <1>2, <1>3, <1>4, <1>5

\* scheduler_add, of a task that is not on the list, keeps the invariant.
LEMMA AddSound ==
  ASSUME IInv, NEW t \in Tasks, SchedulerAdd(t)
  PROVE  IInv' /\ UNCHANGED state
<1> USE SchedulerAssumption DEF IInv, SchedulerAdd, taskVars, cpuVars
<1>1. /\ runlist' \in Seq(Tasks)
      /\ ToSet(runlist') = ToSet(runlist) \cup {t}
      /\ NoRepeat(runlist')
      /\ state[t] = "READY"
  <2>1. runlist \in Seq(Tasks) /\ LinkedOnce(runlist)
    BY DEF ListInv, RunlistSound, TypeOK, NoRepeat, LinkedOnce
  <2>2. LinkedOnce(runlist') => NoRepeat(runlist')
    BY DEF NoRepeat, LinkedOnce
  <2> QED BY <2>1, <2>2, AppendLinks
<1>2. TypeOK'
  BY <1>1 DEF TypeOK
<1>3. ListInv'
  BY <1>1 DEF ListInv, RunningIsCurrent, RunlistSound, ReapSafe, BootCanRun, TypeOK
<1>4. BlockedIsQueued'
  BY QueuesKept DEF Gone
<1>5. LateStart => FlagsSound'
  BY DEF FlagsSound, MayCreate, KmainMayCreate, InTask, ListInv, RunningIsCurrent, ToSet
<1> QED BY <1>2, <1>3, <1>4, <1>5

\* kmain's call of scheduler_schedule (main.c:171) keeps the invariant.
LEMMA KmainScheduleSound ==
  ASSUME IInv, KmainSchedule
  PROVE  IInv' /\ Moves(state)
<1> USE SchedulerAssumption DEF IInv, KmainSchedule
<1>1. Leaves(state)
  BY DEF Leaves, TypeOK, ListInv, RunningIsCurrent
<1>2. /\ ListInv' /\ Moves(state)
      /\ state' \in [Tasks -> TaskState] /\ runlist' \in Seq(Tasks)
      /\ current' \in Tasks /\ task_to_destroy' \in Tasks \cup {NULL}
      /\ freed' \subseteq Tasks
      /\ ToSet(runlist') \subseteq ToSet(runlist)
  BY <1>1, ScheduleSound
<1>3. TypeOK'
  BY <1>2, FlagTyped DEF TypeOK
<1>4. ASSUME LateStart PROVE FlagsSound'
  <2>1. ToSet(runlist) = {Boot}
    BY <1>4 DEF FlagsSound, ToSet
  <2>2. current' = current
    BY <1>2, <2>1 DEF ListInv, RunningIsCurrent
  <2>3. UNCHANGED <<saved, interrupts>>
    BY <2>2 DEF Schedule
  <2> QED BY <1>4, <2>2, <2>3 DEF FlagsSound
<1>5. TypeOK' /\ (LateStart => FlagsSound')
  BY <1>3, <1>4
<1>6. BlockedIsQueued'
  BY <1>2, MovesKeep, QueuesKept DEF Gone
<1> QED BY <1>2, <1>5, <1>6

\* kmain's entering hcf keeps the invariant.
LEMMA HaltSound ==
  ASSUME IInv, KmainHalt
  PROVE  IInv' /\ UNCHANGED state
<1> USE DEF IInv, KmainHalt, taskVars, listVars
<1>1. TypeOK'
  BY DEF TypeOK
<1>2. ListInv'
  BY DEF ListInv, RunningIsCurrent, RunlistSound, ReapSafe, BootCanRun
<1>3. BlockedIsQueued'
  BY QueuesKept DEF Gone
<1> QED BY <1>1, <1>2, <1>3 DEF FlagsSound

----------------------------------------------------------------------------
(* The theorems                                                            *)

\* What NoEarlyWake and JoinWaits say of one step.
WakesInTime ==
  \A t \in Tasks :
    state[t] = "SLEEPING" /\ state'[t] # "SLEEPING" => wake_tick[t] <= ticks'

JoinsToTheEnd ==
  \A t, u \in Tasks :
    t \in ToSet(waiters[u]) /\ state'[t] # "BLOCKED" => state'[u] = "DEAD"

\* Every step keeps the invariant, ends no sleep early and no join too soon.
LEMMA StepSound ==
  ASSUME IInv, [SchedulerNext]_schedVars
  PROVE  IInv' /\ WakesInTime /\ JoinsToTheEnd
<1>1. \A u \in Tasks : \A t \in ToSet(waiters[u]) : t \in Tasks /\ state[t] = "BLOCKED"
  BY DEF IInv, BlockedIsQueued, TypeOK, ToSet
<1>2. state[current] = "RUNNING" /\ current \in Tasks
  BY DEF IInv, TypeOK, ListInv, RunningIsCurrent
<1>3. ASSUME NEW st, Moves(st), UNCHANGED wake_tick,
             \A t \in Tasks : state[t] \in {"SLEEPING", "BLOCKED"} => st[t] = state[t]
      PROVE  WakesInTime /\ JoinsToTheEnd
  BY <1>1, <1>3, MovesKeep DEF Moves, WakesInTime, JoinsToTheEnd
<1>4. ASSUME \A t \in Tasks : state[t] # "UNUSED" => state'[t] = state[t]
      PROVE  WakesInTime /\ JoinsToTheEnd
  BY <1>1, <1>4 DEF WakesInTime, JoinsToTheEnd
<1>5. ASSUME NEW t \in Tasks, TaskCreate(t)
      PROVE  IInv' /\ WakesInTime /\ JoinsToTheEnd
  BY <1>4, <1>5, CreateSound
<1>6. ASSUME NEW t \in Tasks, SchedulerAdd(t)
      PROVE  IInv' /\ WakesInTime /\ JoinsToTheEnd
  BY <1>4, <1>6, AddSound
<1>7. CASE TaskYield
  <2>1. IInv' /\ Moves(state) /\ UNCHANGED wake_tick
    BY <1>7, PassSound DEF TaskYield, InTask, IInv, TypeOK
  <2> QED BY <1>3, <2>1
<1>8. ASSUME NEW n \in 0..MaxTicks, TaskSleep(n)
      PROVE  IInv' /\ WakesInTime /\ JoinsToTheEnd
  <2> DEFINE st == [state EXCEPT ![current] = "SLEEPING"]
  <2>1. IInv' /\ Moves(st)
    BY <1>8, SleepSound
  <2>2. /\ \A t \in Tasks \ {current} : st[t] = state[t]
        /\ \A t \in Tasks \ {current} : wake_tick'[t] = wake_tick[t]
    BY <1>8 DEF TaskSleep, IInv, TypeOK
  <2> HIDE DEF st
  <2>3. WakesInTime
    BY <1>2, <2>1, <2>2 DEF Moves, WakesInTime
  <2>4. JoinsToTheEnd
    BY <1>1, <1>2, <2>1, <2>2, MovesKeep DEF JoinsToTheEnd
  <2> QED BY <2>1, <2>3, <2>4
<1>9. ASSUME NEW u \in Tasks, TaskJoin(u)
      PROVE  IInv' /\ WakesInTime /\ JoinsToTheEnd
  <2> DEFINE st == [state EXCEPT ![current] = "BLOCKED"]
  <2>1. IInv' /\ Moves(st) /\ UNCHANGED wake_tick
    BY <1>9, BlockSound DEF TaskJoin, InTask, Holders, Gone, BlockOn
  <2>2. \A t \in Tasks \ {current} : st[t] = state[t]
    OBVIOUS
  <2> HIDE DEF st
  <2> QED BY <1>2, <1>3, <2>1, <2>2
<1>10. CASE TaskExit
  <2> DEFINE st == [Ready(state, waiters[current]) EXCEPT ![current] = "DEAD"]
  <2>1. IInv' /\ Moves(st) /\ UNCHANGED wake_tick
    BY <1>10, ExitSound DEF TaskExit
  <2>2. /\ st[current] = "DEAD"
        /\ \A t \in Tasks \ {current} :
             st[t] = IF t \in ToSet(waiters[current]) THEN "READY" ELSE state[t]
    BY <1>2 DEF Ready
  <2> HIDE DEF st
  <2>3. WakesInTime
    BY <1>1, <1>2, <2>1, <2>2 DEF Moves, WakesInTime
  <2>4. ASSUME NEW t \in Tasks, NEW u \in Tasks, t \in ToSet(waiters[u]), state'[t] # "BLOCKED"
        PROVE  state'[u] = "DEAD"
    <3>1. t # current /\ t \in ToSet(waiters[current])
      BY <1>1, <1>2, <2>1, <2>2, <2>4, MovesKeep
    <3>2. u = current
      BY <1>2, <2>4, <3>1, OneList DEF IInv, Holders
    <3> QED BY <1>2, <2>1, <2>2, <3>2 DEF Moves
  <2> QED BY <2>1, <2>3, <2>4 DEF JoinsToTheEnd
<1>11. CASE KmainSchedule
  BY <1>3, <1>11, KmainScheduleSound DEF KmainSchedule
<1>12. CASE KmainHalt
  BY <1>4, <1>12, HaltSound
<1>13. CASE Timer
  <2>1. (LateStart => current = Boot) /\ ticks' \in 0..MaxTicks
    BY <1>13, SchedulerAssumption DEF Timer, Tick, IInv, FlagsSound, TypeOK
  <2>2. IInv' /\ Moves(state) /\ UNCHANGED wake_tick
    BY <1>13, <2>1, PassSound DEF Timer, Tick
  <2> QED BY <1>3, <2>2
<1>14. CASE UNCHANGED schedVars
  <2>1. IInv'
    BY <1>14 DEF IInv, TypeOK, ListInv, RunningIsCurrent, RunlistSound, ReapSafe, BootCanRun,
                 BlockedIsQueued, FlagsSound, schedVars, taskVars, listVars, cpuVars
  <2> QED BY <1>4, <1>14, <2>1 DEF schedVars, taskVars
<1> QED
  BY <1>5, <1>6, <1>7, <1>8, <1>9, <1>10, <1>11, <1>12, <1>13, <1>14 DEF SchedulerNext, GiveUp

\* The invariant holds of every behaviour of the scheduler, its part about the
\* interrupt flag of those that keep to LateStart.
THEOREM Invariance == Spec => []IInv
<1>1. IInv /\ [SchedulerNext]_schedVars => IInv'
  BY StepSound
<1> QED
  BY <1>1, InitSound, PTL DEF Spec

\* Every variable keeps its type.
THEOREM TypeCorrect == Spec => []TypeOK
BY Invariance, PTL DEF IInv

\* The running task, and no other, is marked running: no task executes after it
\* has blocked, gone to sleep or died.
THEOREM OneRuns == Spec => []RunningIsCurrent
BY Invariance, PTL DEF IInv, ListInv

\* The run list links every task that may run again, once.
THEOREM ListIsSound == Spec => []RunlistSound
BY Invariance, PTL DEF IInv, ListInv

\* A task is freed dead, off the CPU and unlinked, and no dead one is forgotten.
THEOREM ReapingIsSafe == Spec => []ReapSafe
BY Invariance, PTL DEF IInv, ListInv

\* A task is blocked exactly when it is in one wait list somebody can empty.
THEOREM BlockedAreQueued == Spec => []BlockedIsQueued
BY Invariance, PTL DEF IInv

\* When kmain halts, the timer can strike, if kmain has kept to LateStart.
THEOREM HaltIsInterruptible == ASSUME LateStart PROVE Spec => []HaltedInterruptible
<1>1. IInv => HaltedInterruptible
  BY DEF IInv, FlagsSound, HaltedInterruptible
<1> QED
  BY <1>1, Invariance, PTL

\* Tasks run with interrupts off, if kmain has kept to LateStart.
THEOREM TasksAreMasked == ASSUME LateStart PROVE Spec => []TasksRunMasked
<1>1. IInv => TasksRunMasked
  BY DEF IInv, FlagsSound, TasksRunMasked, InTask
<1> QED
  BY <1>1, Invariance, PTL

\* No sleeper wakes before its tick.
THEOREM SleepIsKept == Spec => NoEarlyWake
<1>1. IInv /\ [SchedulerNext]_schedVars => WakesInTime
  BY StepSound
<1> QED
  BY <1>1, Invariance, PTL DEF Spec, NoEarlyWake, WakesInTime

\* No join returns while the task joined may still run.
THEOREM JoinIsKept == Spec => JoinWaits
<1>1. IInv /\ [SchedulerNext]_schedVars => JoinsToTheEnd
  BY StepSound
<1> QED
  BY <1>1, Invariance, PTL DEF Spec, JoinWaits, JoinsToTheEnd

----------------------------------------------------------------------------
(* Waking tasks                                                            *)

\* What the queues of sound objects are like.
LEMMA QueueSound ==
  ASSUME IInv, NEW o \in Holders
  PROVE  /\ waiters[o] \in Seq(Tasks)
         /\ LinkedOnce(waiters[o])
         /\ \A t \in ToSet(waiters[o]) : t \in Tasks /\ state[t] = "BLOCKED" /\ t # current
         /\ current \in Tasks
<1>1. waiters[o] \in Seq(Tasks) /\ current \in Tasks
  BY DEF IInv, TypeOK, Holders
<1>2. LinkedOnce(waiters[o])
  BY DEF IInv, BlockedIsQueued, LinkedOnce, Holders
<1>3. \A t \in ToSet(waiters[o]) : t \in Tasks
  BY <1>1 DEF ToSet
<1>4. \A t \in ToSet(waiters[o]) : state[t] = "BLOCKED"
  BY <1>3 DEF IInv, BlockedIsQueued, Holders
<1>5. state[current] = "RUNNING"
  BY <1>1 DEF IInv, ListInv, RunningIsCurrent
<1> QED BY <1>1, <1>2, <1>3, <1>4, <1>5

\* The first task of an object's list is made ready and unlinked.
LEMMA QueueShrinks ==
  ASSUME IInv, NEW o \in Holders, waiters[o] # <<>>,
         waiters' = [waiters EXCEPT ![o] = Tail(@)],
         \A t \in Tasks : state'[t] = "BLOCKED" <=>
                           state[t] = "BLOCKED" /\ t # Head(waiters[o]),
         \A t \in Tasks : Gone(t)' => Gone(t)
  PROVE  BlockedIsQueued'
<1> DEFINE list == waiters[o]
           rest == Tail(list)
<1>1. /\ Head(list) \in ToSet(list)
      /\ Len(list) \in Nat
      /\ Len(rest) = Len(list) - 1
      /\ \A i \in 1..Len(list) - 1 : rest[i] = list[i + 1]
      /\ ToSet(rest) = ToSet(list) \ {Head(list)}
  BY QueueSound, HeadLeaves, LenProperties
<1>2. /\ waiters'[o] = rest
      /\ \A q \in Holders \ {o} : waiters'[q] = waiters[q]
  BY DEF IInv, TypeOK, Holders
<1>3. \A q \in Holders : Head(list) \in ToSet(waiters[q]) => q = o
  BY <1>1, OneList DEF IInv
<1> HIDE DEF list, rest
<1>4. ASSUME NEW t \in Tasks
      PROVE  state'[t] = "BLOCKED" <=> \E q \in Holders : t \in ToSet(waiters'[q])
  <2>1. state[t] = "BLOCKED" <=> \E q \in Holders : t \in ToSet(waiters[q])
    BY DEF IInv, BlockedIsQueued, Holders
  <2> QED BY <2>1, <1>1, <1>2, <1>3 DEF list
<1>5. ASSUME NEW q \in Holders, NEW r \in Holders,
             NEW i \in 1..Len(waiters'[q]), NEW j \in 1..Len(waiters'[r]),
             waiters'[q][i] = waiters'[r][j]
      PROVE  q = r /\ i = j
  <2> DEFINE up(h, k) == IF h = o THEN k + 1 ELSE k
  <2>1. \A h \in Holders : \A k \in 1..Len(waiters'[h]) :
          up(h, k) \in 1..Len(waiters[h]) /\ waiters'[h][k] = waiters[h][up(h, k)]
    BY <1>1, <1>2 DEF list
  <2>2. q = r /\ up(q, i) = up(r, j)
    BY <1>5, <2>1 DEF IInv, BlockedIsQueued, Holders
  <2>3. i \in Int /\ j \in Int
    BY <1>1, <1>2, QueueSound, LenProperties
  <2> QED BY <2>2, <2>3
<1>6. \A u \in Tasks : waiters'[u] # <<>> => ~Gone(u)'
  <2>1. \A u \in Tasks : waiters'[u] # <<>> => waiters[u] # <<>>
    BY <1>2 DEF Holders
  <2> QED BY <2>1 DEF IInv, BlockedIsQueued, Gone
<1> QED
  BY <1>4, <1>5, <1>6 DEF BlockedIsQueued, Gone, Holders

\* Making blocked tasks ready, without giving up the CPU, keeps the rest of
\* the scheduler's invariant.
LEMMA WakingSound ==
  ASSUME IInv, UNCHANGED <<wake_tick, listVars, cpuVars>>,
         BlockedIsQueued',
         waiters' \in [Tasks \cup Objects -> Seq(Tasks)],
         state' \in [Tasks -> TaskState],
         \A t \in Tasks : state'[t] = state[t] \/ (state[t] = "BLOCKED" /\ state'[t] = "READY")
  PROVE  IInv'
<1> USE SchedulerAssumption DEF listVars, cpuVars
<1>1. TypeOK'
  BY DEF IInv, TypeOK
<1>2. LateStart => FlagsSound'
  BY DEF IInv, FlagsSound
<1>3. \A t \in ToSet(runlist) : t \in Tasks
  BY DEF IInv, TypeOK, ToSet
<1>4. ListInv'
  BY <1>3 DEF IInv, ListInv, RunningIsCurrent, RunlistSound, ReapSafe, BootCanRun, TypeOK
<1> QED BY <1>1, <1>2, <1>4 DEF IInv

\* Handing an object to the first of its list keeps the scheduler's invariant.
LEMMA WakeFirstSound ==
  ASSUME IInv, NEW o \in Holders, WakeFirst(o)
  PROVE  /\ IInv'
         /\ \A t \in Tasks : state'[t] = state[t] \/ (state[t] = "BLOCKED" /\ state'[t] = "READY")
<1> DEFINE h == Head(waiters[o])
<1>1. /\ waiters[o] # <<>>
      /\ state' = [state EXCEPT ![h] = "READY"]
      /\ waiters' = [waiters EXCEPT ![o] = Tail(@)]
      /\ UNCHANGED <<wake_tick, listVars, cpuVars>>
  BY DEF WakeFirst
<1>2. h \in Tasks /\ state[h] = "BLOCKED" /\ Tail(waiters[o]) \in Seq(Tasks)
  BY <1>1, QueueSound, HeadLeaves
<1> HIDE DEF h
<1>3. /\ \A t \in Tasks : state'[t] = IF t = h THEN "READY" ELSE state[t]
      /\ state' \in [Tasks -> TaskState]
      /\ waiters' \in [Tasks \cup Objects -> Seq(Tasks)]
  BY <1>1, <1>2 DEF IInv, TypeOK, TaskState
<1>4. BlockedIsQueued'
  BY <1>1, <1>2, <1>3, QueueShrinks DEF h, Gone
<1> QED
  BY <1>1, <1>2, <1>3, <1>4, WakingSound

\* event_set keeps the scheduler's invariant.
LEMMA EventSetSound ==
  ASSUME IInv, NEW e \in Events, EventSet(e)
  PROVE  /\ IInv'
         /\ \A t \in Tasks : state'[t] = state[t] \/ (state[t] = "BLOCKED" /\ state'[t] = "READY")
<1>0. e \in Holders
  BY KernelObjectsAssumption DEF Holders
<1>1. /\ state' = Ready(state, waiters[e])
      /\ waiters' = [waiters EXCEPT ![e] = <<>>]
      /\ UNCHANGED <<wake_tick, listVars, cpuVars>>
  BY DEF EventSet
<1>2. \A t \in ToSet(waiters[e]) : t \in Tasks /\ state[t] = "BLOCKED"
  BY <1>0, QueueSound
<1>3. /\ \A t \in Tasks : state'[t] = IF t \in ToSet(waiters[e]) THEN "READY" ELSE state[t]
      /\ state' \in [Tasks -> TaskState]
      /\ waiters' \in [Tasks \cup Objects -> Seq(Tasks)]
  <2>1. state \in [Tasks -> TaskState] /\ waiters \in [Tasks \cup Objects -> Seq(Tasks)]
    BY DEF IInv, TypeOK
  <2>2. \A t \in Tasks : state'[t] = IF t \in ToSet(waiters[e]) THEN "READY" ELSE state[t]
    BY <1>1 DEF Ready
  <2>3. state' = [t \in Tasks |-> IF t \in ToSet(waiters[e]) THEN "READY" ELSE state[t]]
    BY <1>1 DEF Ready
  <2>4. state' \in [Tasks -> TaskState]
    BY <2>1, <2>3 DEF TaskState
  <2>5. waiters' \in [Tasks \cup Objects -> Seq(Tasks)]
    <3>1. <<>> \in Seq(Tasks)
      OBVIOUS
    <3> QED BY <1>1, <2>1, <3>1, Zenon
  <2> QED BY <2>2, <2>4, <2>5
<1>4. BlockedIsQueued'
  BY <1>0, <1>1, <1>2, <1>3, QueueEmptied DEF IInv, Gone
<1> QED
  BY <1>1, <1>2, <1>3, <1>4, WakingSound

----------------------------------------------------------------------------
(* What a step does to one object                                          *)

\* A call of lock or try_lock takes a free mutex or queues for a taken one;
\* an unlock frees it or passes it on.
MutexMoves(m) ==
  \/ UNCHANGED <<locked[m], called[m], waiters[m]>>
  \/ \E t \in Tasks \ called[m] :
       /\ called'[m] = called[m] \cup {t}
       /\ locked'[m] = TRUE
       /\ \/ locked[m] = FALSE /\ waiters'[m] = waiters[m]
          \/ locked[m] = TRUE /\ waiters'[m] = <<t>> \o waiters[m]
  \/ \E t \in Inside(m) :
       /\ called'[m] = called[m] \ {t}
       /\ \/ locked'[m] = FALSE /\ waiters[m] = <<>> /\ waiters'[m] = <<>>
          \/ locked'[m] = locked[m] /\ waiters[m] # <<>> /\ waiters'[m] = Tail(waiters[m])

\* A wait takes from the count or queues, a signal adds to it or wakes.
SemaphoreMoves(s) ==
  \/ UNCHANGED <<count[s], balance[s], waiters[s]>>
  \/ /\ balance'[s] = balance[s] - 1
     /\ \/ count[s] > 0 /\ count'[s] = count[s] - 1 /\ waiters'[s] = waiters[s]
        \/ \E t \in Tasks : count[s] = 0 /\ count'[s] = 0 /\ waiters'[s] = <<t>> \o waiters[s]
  \/ /\ balance'[s] = balance[s] + 1
     /\ Initial[s] + balance[s] < MaxCount
     /\ \/ waiters[s] # <<>> /\ count'[s] = count[s] /\ waiters'[s] = Tail(waiters[s])
        \/ waiters[s] = <<>> /\ count'[s] = count[s] + 1 /\ waiters'[s] = <<>>

\* A wait queues while the event is not set, and setting it empties the list.
EventMoves(e) ==
  \/ UNCHANGED <<signaled[e], waiters[e]>>
  \/ \E t \in Tasks :
       signaled[e] = FALSE /\ signaled'[e] = FALSE /\ waiters'[e] = <<t>> \o waiters[e]
  \/ signaled'[e] = TRUE /\ waiters'[e] = <<>>
  \/ signaled'[e] = FALSE /\ waiters'[e] = waiters[e]

\* Every object is one of the three kinds of them, and is no task.
LEMMA KindsApart ==
  /\ \A o \in Objects : o \in Holders /\ o \notin Tasks
  /\ \A m \in Mutexes : m \in Objects /\ m \notin Semaphores /\ m \notin Events
  /\ \A s \in Semaphores : s \in Objects /\ s \notin Mutexes /\ s \notin Events
  /\ \A e \in Events : e \in Objects /\ e \notin Mutexes /\ e \notin Semaphores
BY KernelObjectsAssumption DEF Holders

\* A step of the scheduler leaves the lists of the objects alone.
LEMMA SchedulerKeepsLists ==
  ASSUME IInv, [SchedulerNext]_schedVars
  PROVE  \A o \in Objects : waiters'[o] = waiters[o]
<1>1. waiters \in [Tasks \cup Objects -> Seq(Tasks)] /\ current \in Tasks
  BY DEF IInv, TypeOK
<1>2. ASSUME NEW u \in Tasks, TaskJoin(u)
      PROVE  \A o \in Objects : waiters'[o] = waiters[o]
  BY <1>1, <1>2, KindsApart DEF TaskJoin, BlockOn
<1>3. CASE TaskExit
  BY <1>1, <1>3, KindsApart DEF TaskExit
<1>4. CASE UNCHANGED waiters
  BY <1>4
<1> QED
  BY <1>2, <1>3, <1>4 DEF SchedulerNext, GiveUp, TaskCreate, SchedulerAdd, TaskYield, TaskSleep,
     KmainSchedule, KmainHalt, Timer, taskVars, listVars, cpuVars, schedVars

\* The types of the objects' own variables.
ObjectTypes ==
  /\ locked \in [Mutexes -> BOOLEAN]
  /\ count \in [Semaphores -> 0..MaxCount]
  /\ signaled \in [Events -> BOOLEAN]
  /\ called \in [Mutexes -> SUBSET Tasks]
  /\ balance \in [Semaphores -> Int]

\* What a step may do to any of the objects.
ObjectMoves ==
  /\ \A m \in Mutexes : MutexMoves(m)
  /\ \A s \in Semaphores : SemaphoreMoves(s)
  /\ \A e \in Events : EventMoves(e)

\* The lists that a wait or a wakeup on one object leaves alone.
LEMMA OtherLists ==
  ASSUME IInv, NEW o \in Objects,
         \/ BlockOn(o)
         \/ WakeFirst(o)
         \/ waiters' = [waiters EXCEPT ![o] = <<>>]
  PROVE  /\ \A p \in Objects \ {o} : waiters'[p] = waiters[p]
         /\ BlockOn(o) => waiters'[o] = <<current>> \o waiters[o]
         /\ WakeFirst(o) => waiters'[o] = Tail(waiters[o]) /\ waiters[o] # <<>>
         /\ waiters' = [waiters EXCEPT ![o] = <<>>] => waiters'[o] = <<>>
BY DEF BlockOn, WakeFirst, IInv, TypeOK

\* Every operation on a mutex is one of its moves, and moves nothing else.
LEMMA MutexActions ==
  ASSUME IInv, ObjectTypes, NEW m \in Mutexes,
         MutexLock(m) \/ MutexTryLock(m) \/ MutexUnlock(m)
  PROVE  ObjectMoves
<1> USE KernelObjectsAssumption
<1>1. current \in Tasks /\ m \in Objects
  BY KindsApart DEF IInv, TypeOK
<1>2. /\ UNCHANGED <<count, signaled, balance>>
      /\ \A p \in Objects \ {m} : waiters'[p] = waiters[p]
      /\ \A n \in Mutexes \ {m} : locked'[n] = locked[n] /\ called'[n] = called[n]
  BY <1>1, OtherLists DEF MutexLock, MutexTryLock, MutexUnlock, schedVars, taskVars, ObjectTypes
<1>3. MutexMoves(m)
  <2>1. CASE MutexLock(m)
    <3>1. current \in Tasks \ called[m] /\ called'[m] = called[m] \cup {current}
      BY <2>1, <1>1 DEF MutexLock, ObjectTypes
    <3>2. CASE ~locked[m] /\ locked' = [locked EXCEPT ![m] = TRUE] /\ UNCHANGED schedVars
      BY <3>1, <3>2 DEF MutexMoves, schedVars, taskVars, ObjectTypes
    <3>3. CASE locked[m] /\ UNCHANGED locked /\ BlockOn(m)
      <4>1. waiters'[m] = <<current>> \o waiters[m]
        BY <3>3, <1>1, OtherLists
      <4>2. locked[m] = TRUE /\ locked'[m] = TRUE
        BY <3>3 DEF ObjectTypes
      <4> QED BY <3>1, <4>1, <4>2 DEF MutexMoves
    <3> QED BY <2>1, <3>2, <3>3 DEF MutexLock
  <2>2. CASE MutexTryLock(m)
    <3>1. current \in Tasks \ called[m] /\ called'[m] = called[m] \cup {current}
      BY <2>2, <1>1 DEF MutexTryLock, ObjectTypes
    <3>2. locked[m] = FALSE /\ locked'[m] = TRUE /\ waiters'[m] = waiters[m]
      BY <2>2 DEF MutexTryLock, ObjectTypes, schedVars, taskVars
    <3> QED BY <3>1, <3>2 DEF MutexMoves
  <2>3. CASE MutexUnlock(m)
    <3>1. current \in Inside(m) /\ called'[m] = called[m] \ {current}
      BY <2>3 DEF MutexUnlock, ObjectTypes
    <3>2. CASE waiters[m] = <<>> /\ locked' = [locked EXCEPT ![m] = FALSE] /\ UNCHANGED schedVars
      BY <3>1, <3>2 DEF MutexMoves, schedVars, taskVars, ObjectTypes
    <3>3. CASE WakeFirst(m) /\ UNCHANGED locked
      <4>1. waiters'[m] = Tail(waiters[m]) /\ waiters[m] # <<>> /\ locked'[m] = locked[m]
        BY <3>3, <1>1, OtherLists
      <4> QED BY <3>1, <4>1 DEF MutexMoves
    <3> QED BY <2>3, <3>2, <3>3 DEF MutexUnlock
  <2> QED BY <2>1, <2>2, <2>3
<1>4. \A n \in Mutexes \ {m} : MutexMoves(n)
  BY <1>2, KindsApart DEF MutexMoves
<1>5. \A s \in Semaphores : SemaphoreMoves(s)
  BY <1>1, <1>2, KindsApart DEF SemaphoreMoves
<1>6. \A e \in Events : EventMoves(e)
  BY <1>1, <1>2, KindsApart DEF EventMoves
<1> QED BY <1>3, <1>4, <1>5, <1>6 DEF ObjectMoves

\* Every operation on a semaphore is one of its moves, and moves nothing else.
LEMMA SemaphoreActions ==
  ASSUME IInv, ObjectTypes, NEW s \in Semaphores,
         SemaphoreWait(s) \/ SemaphoreTryWait(s) \/ SemaphoreSignal(s)
  PROVE  ObjectMoves
<1> USE KernelObjectsAssumption
<1>1. current \in Tasks /\ s \in Objects
  BY KindsApart DEF IInv, TypeOK
<1>2. /\ UNCHANGED <<locked, signaled, called>>
      /\ \A p \in Objects \ {s} : waiters'[p] = waiters[p]
      /\ \A r \in Semaphores \ {s} : count'[r] = count[r] /\ balance'[r] = balance[r]
  BY <1>1, OtherLists
     DEF SemaphoreWait, SemaphoreTryWait, SemaphoreSignal, schedVars, taskVars, ObjectTypes
<1>3. SemaphoreMoves(s)
  <2>1. CASE SemaphoreWait(s)
    <3>1. balance'[s] = balance[s] - 1
      BY <2>1 DEF SemaphoreWait, ObjectTypes
    <3>2. CASE count[s] > 0 /\ count' = [count EXCEPT ![s] = @ - 1] /\ UNCHANGED schedVars
      BY <3>1, <3>2 DEF SemaphoreMoves, schedVars, taskVars, ObjectTypes
    <3>3. CASE count[s] = 0 /\ UNCHANGED count /\ BlockOn(s)
      <4>1. waiters'[s] = <<current>> \o waiters[s]
        BY <3>3, <1>1, OtherLists
      <4> QED BY <3>1, <3>3, <4>1, <1>1 DEF SemaphoreMoves
    <3> QED BY <2>1, <3>2, <3>3 DEF SemaphoreWait
  <2>2. CASE SemaphoreTryWait(s)
    BY <2>2 DEF SemaphoreTryWait, SemaphoreMoves, ObjectTypes, schedVars, taskVars
  <2>3. CASE SemaphoreSignal(s)
    <3>1. balance'[s] = balance[s] + 1 /\ Initial[s] + balance[s] < MaxCount
      BY <2>3 DEF SemaphoreSignal, ObjectTypes
    <3>2. CASE WakeFirst(s) /\ UNCHANGED count
      <4>1. waiters'[s] = Tail(waiters[s]) /\ waiters[s] # <<>>
        BY <3>2, <1>1, OtherLists
      <4> QED BY <3>1, <3>2, <4>1 DEF SemaphoreMoves
    <3>3. CASE waiters[s] = <<>> /\ count' = [count EXCEPT ![s] = @ + 1] /\ UNCHANGED schedVars
      BY <3>1, <3>3 DEF SemaphoreMoves, schedVars, taskVars, ObjectTypes
    <3> QED BY <2>3, <3>2, <3>3 DEF SemaphoreSignal
  <2> QED BY <2>1, <2>2, <2>3
<1>4. \A r \in Semaphores \ {s} : SemaphoreMoves(r)
  BY <1>2, KindsApart DEF SemaphoreMoves
<1>5. \A m \in Mutexes : MutexMoves(m)
  BY <1>1, <1>2, KindsApart DEF MutexMoves
<1>6. \A e \in Events : EventMoves(e)
  BY <1>1, <1>2, KindsApart DEF EventMoves
<1> QED BY <1>3, <1>4, <1>5, <1>6 DEF ObjectMoves

\* Every operation on an event is one of its moves, and moves nothing else.
LEMMA EventActions ==
  ASSUME IInv, ObjectTypes, NEW e \in Events,
         EventWait(e) \/ EventSet(e) \/ EventReset(e)
  PROVE  ObjectMoves
<1> USE KernelObjectsAssumption
<1>1. e \in Objects
  BY KindsApart
<1>2. /\ UNCHANGED <<locked, count, called, balance>>
      /\ \A p \in Objects \ {e} : waiters'[p] = waiters[p]
      /\ \A f \in Events \ {e} : signaled'[f] = signaled[f]
  BY <1>1, OtherLists DEF EventWait, EventSet, EventReset, objectVars, schedVars, taskVars,
                          ObjectTypes
<1>3. EventMoves(e)
  <2>1. CASE EventWait(e)
    <3>1. current \in Tasks /\ waiters'[e] = <<current>> \o waiters[e]
      BY <2>1, <1>1, OtherLists DEF EventWait, IInv, TypeOK
    <3>2. signaled[e] = FALSE /\ signaled'[e] = FALSE
      BY <2>1 DEF EventWait, ObjectTypes, objectVars
    <3> QED BY <3>1, <3>2 DEF EventMoves
  <2>2. CASE EventSet(e)
    BY <2>2, <1>1, OtherLists DEF EventSet, EventMoves, ObjectTypes
  <2>3. CASE EventReset(e)
    BY <2>3 DEF EventReset, EventMoves, ObjectTypes, schedVars, taskVars
  <2> QED BY <2>1, <2>2, <2>3
<1>4. \A f \in Events \ {e} : EventMoves(f)
  BY <1>2, KindsApart DEF EventMoves
<1>5. \A m \in Mutexes : MutexMoves(m)
  BY <1>1, <1>2, KindsApart DEF MutexMoves
<1>6. \A s \in Semaphores : SemaphoreMoves(s)
  BY <1>1, <1>2, KindsApart DEF SemaphoreMoves
<1> QED BY <1>3, <1>4, <1>5, <1>6 DEF ObjectMoves

\* So is every step.
LEMMA StepMoves ==
  ASSUME IInv, ObjectTypes, [Next]_vars
  PROVE  ObjectMoves
<1>1. CASE SchedulerStep \/ UNCHANGED vars
  <2>1. [SchedulerNext]_schedVars /\ UNCHANGED objectVars
    BY <1>1 DEF SchedulerStep, vars
  <2>2. \A o \in Objects : waiters'[o] = waiters[o]
    BY <2>1, SchedulerKeepsLists
  <2> QED
    BY <2>1, <2>2, KindsApart
       DEF ObjectMoves, MutexMoves, SemaphoreMoves, EventMoves, objectVars
<1> QED
  BY <1>1, MutexActions, SemaphoreActions, EventActions DEF Next

----------------------------------------------------------------------------
(* The scheduler under the kernel objects                                  *)

\* Every operation on an object keeps the scheduler's invariant, ends no sleep
\* early and no join too soon.
LEMMA SchedulerSound ==
  ASSUME IInv, [Next]_vars
  PROVE  IInv' /\ WakesInTime /\ JoinsToTheEnd
<1>1. /\ \A u \in Tasks : \A t \in ToSet(waiters[u]) : t \in Tasks /\ state[t] = "BLOCKED"
      /\ state[current] = "RUNNING" /\ current \in Tasks
  BY QueueSound DEF Holders, IInv, TypeOK, ListInv, RunningIsCurrent
<1>2. ASSUME IInv', \A t \in Tasks : state[t] = "SLEEPING" => state'[t] = "SLEEPING",
             \A u \in Tasks : waiters'[u] = waiters[u]
      PROVE  IInv' /\ WakesInTime /\ JoinsToTheEnd
  <2>1. \A u \in Tasks : \A t \in ToSet(waiters[u]) : state'[t] = "BLOCKED"
    BY <1>1, <1>2 DEF IInv, BlockedIsQueued
  <2> QED BY <1>2, <2>1 DEF WakesInTime, JoinsToTheEnd
<1>3. CASE SchedulerNext \/ UNCHANGED schedVars
  BY <1>3, StepSound
<1>4. ASSUME NEW o \in Objects, current # Boot, BlockOn(o)
      PROVE  IInv' /\ WakesInTime /\ JoinsToTheEnd
  <2> DEFINE st == [state EXCEPT ![current] = "BLOCKED"]
  <2>1. IInv' /\ Moves(st) /\ UNCHANGED wake_tick
    BY <1>4, KindsApart, BlockSound DEF BlockOn
  <2>2. \A t \in Tasks \ {current} : st[t] = state[t]
    OBVIOUS
  <2> HIDE DEF st
  <2>3. WakesInTime
    BY <1>1, <2>1, <2>2 DEF Moves, WakesInTime
  <2>4. \A u \in Tasks : waiters'[u] = waiters[u]
    BY <1>4, KindsApart DEF BlockOn, IInv, TypeOK
  <2>5. JoinsToTheEnd
    <3>1. \A u \in Tasks : \A t \in ToSet(waiters[u]) : state'[t] = "BLOCKED"
      BY <1>1, <2>1, <2>4 DEF IInv, BlockedIsQueued
    <3> QED BY <3>1 DEF JoinsToTheEnd
  <2> QED BY <2>1, <2>3, <2>5
<1>5. ASSUME NEW o \in Objects, WakeFirst(o)
      PROVE  IInv' /\ WakesInTime /\ JoinsToTheEnd
  <2>1. /\ IInv'
        /\ \A t \in Tasks : state'[t] = state[t] \/ (state[t] = "BLOCKED" /\ state'[t] = "READY")
    BY <1>5, KindsApart, WakeFirstSound
  <2>2. \A u \in Tasks : waiters'[u] = waiters[u]
    BY <1>5, KindsApart DEF WakeFirst, IInv, TypeOK
  <2> QED BY <1>2, <2>1, <2>2
<1>6. ASSUME NEW e \in Events, EventSet(e)
      PROVE  IInv' /\ WakesInTime /\ JoinsToTheEnd
  <2>1. /\ IInv'
        /\ \A t \in Tasks : state'[t] = state[t] \/ (state[t] = "BLOCKED" /\ state'[t] = "READY")
    BY <1>6, EventSetSound
  <2>2. \A u \in Tasks : waiters'[u] = waiters[u]
    BY <1>6, KindsApart DEF EventSet, IInv, TypeOK
  <2> QED BY <1>2, <2>1, <2>2
<1>7. ASSUME NEW m \in Mutexes, MutexLock(m) \/ MutexTryLock(m) \/ MutexUnlock(m)
      PROVE  IInv' /\ WakesInTime /\ JoinsToTheEnd
  BY <1>3, <1>4, <1>5, <1>7, KindsApart DEF MutexLock, MutexTryLock, MutexUnlock, InTask
<1>8. ASSUME NEW s \in Semaphores, SemaphoreWait(s) \/ SemaphoreTryWait(s) \/ SemaphoreSignal(s)
      PROVE  IInv' /\ WakesInTime /\ JoinsToTheEnd
  BY <1>3, <1>4, <1>5, <1>8, KindsApart DEF SemaphoreWait, SemaphoreTryWait, SemaphoreSignal, InTask
<1>9. ASSUME NEW e \in Events, EventWait(e) \/ EventSet(e) \/ EventReset(e)
      PROVE  IInv' /\ WakesInTime /\ JoinsToTheEnd
  BY <1>3, <1>4, <1>6, <1>9, KindsApart DEF EventWait, EventReset, InTask
<1> QED
  BY <1>3, <1>7, <1>8, <1>9 DEF Next, SchedulerStep, vars

----------------------------------------------------------------------------
(* The invariant                                                           *)

\* A task that waits for a mutex is in its call of lock: what makes the one the
\* lock is handed to be inside.
WaitersCalled == \A m \in Mutexes : ToSet(waiters[m]) \subseteq called[m]

ObjectsInv ==
  /\ IInv
  /\ ObjectTypes
  /\ WaitersCalled
  /\ MutualExclusion
  /\ SemaphoreBalance
  /\ NoLostWakeup

\* The initial state of the objects satisfies the invariant.
LEMMA ObjectsInitSound == Init => ObjectsInv
<1> SUFFICES ASSUME Init PROVE ObjectsInv
  OBVIOUS
<1> USE KernelObjectsAssumption DEF Init, ObjectsInit
<1>1. IInv
  BY InitSound
<1>2. ObjectTypes
  <2>1. \A s \in Semaphores : 0 \in Int
    OBVIOUS
  <2> QED BY <2>1 DEF ObjectTypes
<1>3. \A o \in Objects : waiters[o] = <<>> /\ Len(waiters[o]) = 0 /\ ToSet(waiters[o]) = {}
  BY DEF SchedulerInit, ToSet
<1>4. /\ \A m \in Mutexes : called[m] = {} /\ locked[m] = FALSE
      /\ \A s \in Semaphores : count[s] = Initial[s] /\ balance[s] = 0 /\ Initial[s] \in Nat
      /\ \A e \in Events : signaled[e] = FALSE
  OBVIOUS
<1> HIDE DEF Init
<1>5. WaitersCalled /\ MutualExclusion
  BY <1>3, <1>4, KindsApart DEF WaitersCalled, MutualExclusion, Inside
<1>6. SemaphoreBalance
  BY <1>3, <1>4, KindsApart DEF SemaphoreBalance
<1>7. NoLostWakeup
  BY <1>3, <1>4, KindsApart DEF NoLostWakeup
<1> QED BY <1>1, <1>2, <1>5, <1>6, <1>7 DEF ObjectsInv

\* A list of waiters, with the first task pushed on it or taken off it.
LEMMA WaitersOf ==
  ASSUME IInv, NEW o \in Objects
  PROVE  /\ waiters[o] \in Seq(Tasks) /\ Len(waiters[o]) \in Nat
         /\ waiters[o] = <<>> <=> ToSet(waiters[o]) = {}
         /\ waiters[o] = <<>> <=> Len(waiters[o]) = 0
         /\ ToSet(waiters[o]) \subseteq Tasks
         /\ \A t \in Tasks : /\ ToSet(<<t>> \o waiters[o]) = ToSet(waiters[o]) \cup {t}
                             /\ Len(<<t>> \o waiters[o]) = Len(waiters[o]) + 1
                             /\ <<t>> \o waiters[o] # <<>>
         /\ waiters[o] # <<>> =>
              /\ Head(waiters[o]) \in ToSet(waiters[o])
              /\ ToSet(Tail(waiters[o])) = ToSet(waiters[o]) \ {Head(waiters[o])}
              /\ Len(Tail(waiters[o])) = Len(waiters[o]) - 1
<1>1. /\ o \in Holders
      /\ waiters[o] \in Seq(Tasks) /\ LinkedOnce(waiters[o]) /\ Len(waiters[o]) \in Nat
      /\ ToSet(waiters[o]) \subseteq Tasks
  BY KindsApart, QueueSound, LenProperties
<1>2. waiters[o] # <<>> =>
        /\ Head(waiters[o]) \in ToSet(waiters[o])
        /\ ToSet(Tail(waiters[o])) = ToSet(waiters[o]) \ {Head(waiters[o])}
        /\ Len(Tail(waiters[o])) = Len(waiters[o]) - 1
  BY <1>1, HeadLeaves
<1>3. ASSUME NEW t \in Tasks
      PROVE  /\ ToSet(<<t>> \o waiters[o]) = ToSet(waiters[o]) \cup {t}
             /\ Len(<<t>> \o waiters[o]) = Len(waiters[o]) + 1
             /\ <<t>> \o waiters[o] # <<>>
  <2>1. /\ ToSet(<<t>> \o waiters[o]) = ToSet(waiters[o]) \cup {t}
        /\ Len(<<t>> \o waiters[o]) = Len(waiters[o]) + 1
    BY <1>1, PushLinks
  <2>2. ToSet(<<>>) = {}
    BY DEF ToSet
  <2> QED BY <2>1, <2>2
<1>4. waiters[o] = <<>> <=> Len(waiters[o]) = 0
  BY <1>1, EmptySeq
<1>5. waiters[o] = <<>> => ToSet(waiters[o]) = {}
  BY DEF ToSet
<1> QED BY <1>1, <1>2, <1>3, <1>4, <1>5

\* What the moves of a mutex make of the tasks inside it and of those waiting.
LEMMA MutexKept ==
  ASSUME ObjectsInv, NEW m \in Mutexes, MutexMoves(m)
  PROVE  /\ locked'[m] \in BOOLEAN
         /\ called'[m] \subseteq Tasks
         /\ ToSet(waiters'[m]) \subseteq called'[m]
         /\ \A t, u \in Inside(m)' : t = u
         /\ locked'[m] <=> Inside(m)' # {}
         /\ waiters'[m] # <<>> => locked'[m]
<1> DEFINE list == waiters[m]
<1>1. /\ m \in Objects
      /\ locked[m] \in BOOLEAN /\ called[m] \subseteq Tasks
      /\ ToSet(list) \subseteq called[m]
      /\ \A t, u \in Inside(m) : t = u
      /\ locked[m] <=> Inside(m) # {}
      /\ list # <<>> => locked[m]
      /\ Inside(m) = called[m] \ ToSet(list)
  BY KindsApart DEF ObjectsInv, ObjectTypes, WaitersCalled, MutualExclusion, NoLostWakeup, Inside
<1>2. Inside(m)' = called'[m] \ ToSet(waiters'[m])
  BY DEF Inside
<1>3. /\ list # <<>> => Head(list) \in ToSet(list) /\ ToSet(Tail(list)) = ToSet(list) \ {Head(list)}
      /\ list = <<>> <=> ToSet(list) = {}
      /\ \A t \in Tasks : ToSet(<<t>> \o list) = ToSet(list) \cup {t}
  BY <1>1, WaitersOf DEF ObjectsInv
<1>4. ToSet(<<>>) = {}
  BY DEF ToSet
<1> HIDE DEF list
<1>5. CASE UNCHANGED <<locked[m], called[m], waiters[m]>>
  BY <1>1, <1>2, <1>5 DEF list
<1>6. ASSUME NEW t \in Tasks \ called[m], called'[m] = called[m] \cup {t}, locked'[m] = TRUE,
             locked[m] = FALSE, waiters'[m] = list
      PROVE  Inside(m)' = {t} /\ ToSet(waiters'[m]) \subseteq called'[m]
  BY <1>1, <1>2, <1>6
<1>7. ASSUME NEW t \in Tasks \ called[m], called'[m] = called[m] \cup {t}, locked'[m] = TRUE,
             locked[m] = TRUE, waiters'[m] = <<t>> \o list
      PROVE  Inside(m)' = Inside(m) /\ ToSet(waiters'[m]) \subseteq called'[m]
  BY <1>1, <1>2, <1>3, <1>7
<1>8. ASSUME NEW t \in Inside(m), called'[m] = called[m] \ {t}, locked'[m] = FALSE,
             list = <<>>, waiters'[m] = <<>>
      PROVE  Inside(m)' = {} /\ ToSet(waiters'[m]) \subseteq called'[m]
  BY <1>1, <1>2, <1>4, <1>8
<1>9. ASSUME NEW t \in Inside(m), called'[m] = called[m] \ {t}, locked'[m] = locked[m],
             list # <<>>, waiters'[m] = Tail(list)
      PROVE  Inside(m)' = {Head(list)} /\ ToSet(waiters'[m]) \subseteq called'[m]
  BY <1>1, <1>2, <1>3, <1>9
<1> QED
  BY <1>1, <1>5, <1>6, <1>7, <1>8, <1>9 DEF MutexMoves, list

\* The moves of a semaphore keep its accounts.
LEMMA SemaphoreKept ==
  ASSUME ObjectsInv, NEW s \in Semaphores, SemaphoreMoves(s)
  PROVE  /\ count'[s] \in 0..MaxCount
         /\ balance'[s] \in Int
         /\ count'[s] - Len(waiters'[s]) = Initial[s] + balance'[s]
         /\ count'[s] = 0 \/ waiters'[s] = <<>>
<1>1. /\ count[s] \in 0..MaxCount /\ balance[s] \in Int /\ MaxCount \in Nat
      /\ Initial[s] \in Int
      /\ count[s] - Len(waiters[s]) = Initial[s] + balance[s]
      /\ count[s] = 0 \/ waiters[s] = <<>>
  BY KernelObjectsAssumption DEF ObjectsInv, ObjectTypes, SemaphoreBalance
<1>2. /\ Len(waiters[s]) \in Nat
      /\ waiters[s] = <<>> <=> Len(waiters[s]) = 0
      /\ \A t \in Tasks : Len(<<t>> \o waiters[s]) = Len(waiters[s]) + 1
      /\ waiters[s] # <<>> => Len(Tail(waiters[s])) = Len(waiters[s]) - 1
  BY KindsApart, WaitersOf DEF ObjectsInv
<1>3. CASE UNCHANGED <<count[s], balance[s], waiters[s]>>
  BY <1>1, <1>3
<1>4. CASE /\ balance'[s] = balance[s] - 1
           /\ \/ count[s] > 0 /\ count'[s] = count[s] - 1 /\ waiters'[s] = waiters[s]
              \/ \E t \in Tasks :
                   count[s] = 0 /\ count'[s] = 0 /\ waiters'[s] = <<t>> \o waiters[s]
  <2>1. CASE count[s] > 0 /\ count'[s] = count[s] - 1 /\ waiters'[s] = waiters[s]
    BY <1>1, <1>2, <1>4, <2>1, SMTT(20)
  <2>2. CASE \E t \in Tasks :
               count[s] = 0 /\ count'[s] = 0 /\ waiters'[s] = <<t>> \o waiters[s]
    <3>1. count[s] = 0 /\ count'[s] = 0 /\ Len(waiters'[s]) = Len(waiters[s]) + 1
      BY <1>2, <2>2
    <3> QED BY <1>1, <1>2, <1>4, <3>1
  <2> QED BY <1>4, <2>1, <2>2
<1>5. CASE /\ balance'[s] = balance[s] + 1
           /\ Initial[s] + balance[s] < MaxCount
           /\ \/ waiters[s] # <<>> /\ count'[s] = count[s] /\ waiters'[s] = Tail(waiters[s])
              \/ waiters[s] = <<>> /\ count'[s] = count[s] + 1 /\ waiters'[s] = <<>>
  <2>1. CASE waiters[s] # <<>> /\ count'[s] = count[s] /\ waiters'[s] = Tail(waiters[s])
    <3>1. Len(waiters'[s]) = Len(waiters[s]) - 1 /\ count[s] = 0 /\ count'[s] = 0
      BY <1>1, <1>2, <2>1
    <3> QED BY <1>1, <1>2, <1>5, <3>1
  <2>2. CASE waiters[s] = <<>> /\ count'[s] = count[s] + 1 /\ waiters'[s] = <<>>
    <3>1. count[s] = Initial[s] + balance[s] /\ Len(waiters'[s]) = 0
      BY <1>1, <1>2, <2>2
    <3> QED BY <1>1, <1>5, <2>2, <3>1
  <2> QED BY <1>5, <2>1, <2>2
<1> QED
  BY <1>3, <1>4, <1>5 DEF SemaphoreMoves

\* Every step keeps the invariant.
LEMMA ObjectsStepSound ==
  ASSUME ObjectsInv, [Next]_vars
  PROVE  ObjectsInv' /\ ObjectMoves
<1>1. IInv' /\ ObjectMoves
  BY SchedulerSound, StepMoves DEF ObjectsInv
<1>2. \A m \in Mutexes :
        /\ locked'[m] \in BOOLEAN
        /\ called'[m] \subseteq Tasks
        /\ ToSet(waiters'[m]) \subseteq called'[m]
        /\ \A t, u \in Inside(m)' : t = u
        /\ locked'[m] <=> Inside(m)' # {}
        /\ waiters'[m] # <<>> => locked'[m]
  BY <1>1, MutexKept DEF ObjectMoves
<1>3. \A s \in Semaphores :
        /\ count'[s] \in 0..MaxCount
        /\ balance'[s] \in Int
        /\ count'[s] - Len(waiters'[s]) = Initial[s] + balance'[s]
        /\ count'[s] = 0 \/ waiters'[s] = <<>>
  BY <1>1, SemaphoreKept DEF ObjectMoves
<1>4. \A e \in Events :
        signaled'[e] \in BOOLEAN /\ (signaled'[e] => waiters'[e] = <<>>)
  BY <1>1 DEF ObjectMoves, EventMoves, ObjectsInv, NoLostWakeup, ObjectTypes
<1>5. ObjectTypes'
  <2>1. /\ locked' = [m \in Mutexes |-> locked'[m]]
        /\ called' = [m \in Mutexes |-> called'[m]]
        /\ count' = [s \in Semaphores |-> count'[s]]
        /\ balance' = [s \in Semaphores |-> balance'[s]]
        /\ signaled' = [e \in Events |-> signaled'[e]]
    BY DEF ObjectsInv, ObjectTypes, Next, SchedulerStep, objectVars, vars,
           MutexLock, MutexTryLock, MutexUnlock,
           SemaphoreWait, SemaphoreTryWait, SemaphoreSignal, EventWait, EventSet, EventReset
  <2> QED BY <1>2, <1>3, <1>4, <2>1 DEF ObjectTypes
<1>6. WaitersCalled' /\ MutualExclusion'
  BY <1>2 DEF WaitersCalled, MutualExclusion
<1>7. SemaphoreBalance'
  BY <1>3 DEF SemaphoreBalance
<1>8. NoLostWakeup'
  BY <1>2, <1>4 DEF NoLostWakeup
<1> QED BY <1>1, <1>5, <1>6, <1>7, <1>8 DEF ObjectsInv

\* What WaitsAreWhole says of one step.
WaitsEndWhole ==
  \A t \in Tasks :
    /\ \A m \in Mutexes :
         t \in ToSet(waiters[m]) /\ state'[t] # "BLOCKED" =>
           /\ t \in Inside(m)'
           /\ \E u \in Inside(m) : u \notin Inside(m)'
    /\ \A s \in Semaphores :
         t \in ToSet(waiters[s]) /\ state'[t] # "BLOCKED" =>
           balance'[s] > balance[s]
    /\ \A e \in Events :
         t \in ToSet(waiters[e]) /\ state'[t] # "BLOCKED" => signaled'[e]

\* A wait ends only with what it is for.
LEMMA WaitsKept ==
  ASSUME ObjectsInv, [Next]_vars
  PROVE  WaitsEndWhole
<1>1. ObjectsInv' /\ ObjectMoves
  BY ObjectsStepSound
<1>2. ASSUME NEW o \in Objects, NEW t \in Tasks, t \in ToSet(waiters[o]), state'[t] # "BLOCKED"
      PROVE  /\ t \notin ToSet(waiters'[o])
             /\ waiters'[o] # waiters[o]
             /\ \A u \in Tasks : waiters'[o] # <<u>> \o waiters[o]
  <2>1. t \notin ToSet(waiters'[o])
    BY <1>1, <1>2, KindsApart DEF ObjectsInv, IInv, BlockedIsQueued, Holders
  <2> QED BY <1>2, <2>1, WaitersOf DEF ObjectsInv
<1>3. ASSUME NEW m \in Mutexes, NEW t \in Tasks, t \in ToSet(waiters[m]), state'[t] # "BLOCKED"
      PROVE  t \in Inside(m)' /\ \E u \in Inside(m) : u \notin Inside(m)'
  <2>1. PICK u \in Inside(m) : /\ called'[m] = called[m] \ {u}
                               /\ waiters[m] # <<>> /\ waiters'[m] = Tail(waiters[m])
    <3>1. t \notin ToSet(waiters'[m]) /\ waiters'[m] # waiters[m]
          /\ \A u \in Tasks : waiters'[m] # <<u>> \o waiters[m]
      BY <1>2, <1>3, KindsApart
    <3>2. waiters[m] # <<>>
      BY <1>3 DEF ToSet
    <3> QED BY <1>1, <3>1, <3>2 DEF ObjectMoves, MutexMoves
  <2>2. t \notin ToSet(waiters'[m]) /\ t \in called[m] /\ t # u
    BY <1>2, <1>3, <2>1, KindsApart DEF ObjectsInv, WaitersCalled, Inside
  <2> QED BY <2>1, <2>2 DEF Inside
<1>4. ASSUME NEW s \in Semaphores, NEW t \in Tasks, t \in ToSet(waiters[s]), state'[t] # "BLOCKED"
      PROVE  balance'[s] > balance[s]
  <2>1. balance'[s] = balance[s] + 1
    BY <1>1, <1>2, <1>4, KindsApart DEF ObjectMoves, SemaphoreMoves
  <2> QED BY <2>1 DEF ObjectsInv, ObjectTypes
<1>5. ASSUME NEW e \in Events, NEW t \in Tasks, t \in ToSet(waiters[e]), state'[t] # "BLOCKED"
      PROVE  signaled'[e]
  BY <1>1, <1>2, <1>5, KindsApart
     DEF ObjectMoves, EventMoves, ObjectsInv, NoLostWakeup, ObjectTypes
<1> QED BY <1>3, <1>4, <1>5 DEF WaitsEndWhole

----------------------------------------------------------------------------
(* The mutex as a lock                                                     *)

\* With at most one task inside, the holder is that task.
HolderSound ==
  \A m \in Mutexes :
    /\ Inside(m) \subseteq Tasks
    /\ Holder(m) \in Tasks \cup {NULL}
    /\ Holder(m) = NULL <=> Inside(m) = {}
    /\ \A t \in Inside(m) : Holder(m) = t

\* The invariant makes it so.
LEMMA HolderIsInside == ObjectsInv => HolderSound
<1> SUFFICES ASSUME ObjectsInv, NEW m \in Mutexes
             PROVE  /\ Inside(m) \subseteq Tasks
                    /\ Holder(m) \in Tasks \cup {NULL}
                    /\ Holder(m) = NULL <=> Inside(m) = {}
                    /\ \A t \in Inside(m) : Holder(m) = t
  BY DEF HolderSound
<1>1. Inside(m) \subseteq Tasks /\ \A t, u \in Inside(m) : t = u
  BY DEF ObjectsInv, ObjectTypes, Inside, MutualExclusion
<1>2. CASE Inside(m) = {}
  BY <1>1, <1>2 DEF Holder
<1>3. ASSUME Inside(m) # {} PROVE Holder(m) \in Inside(m)
  BY <1>3 DEF Holder
<1> QED BY <1>1, <1>2, <1>3, SchedulerAssumption

\* Every step is one of the abstract lock's, or leaves it alone.
LEMMA LockStep ==
  ASSUME ObjectsInv, [Next]_vars
  PROVE  [Lock!Next]_<<Holder(AnyMutex), ToSet(waiters[AnyMutex])>>
<1> DEFINE m == AnyMutex
           list == waiters[m]
           has == Holder(m)
           wait == ToSet(waiters[m])
<1>1. m \in Mutexes /\ m \in Objects
  BY LockRefinementAssumption, KindsApart
<1>2. ObjectsInv' /\ MutexMoves(m)
  BY <1>1, ObjectsStepSound DEF ObjectMoves
<1>3. HolderSound /\ HolderSound'
  BY <1>2, HolderIsInside, PTL
<1>4. /\ has \in Tasks \cup {NULL}
      /\ has = NULL <=> Inside(m) = {}
      /\ \A t \in Inside(m) : has = t
      /\ has' = NULL <=> Inside(m)' = {}
      /\ \A t \in Inside(m)' : has' = t
  BY <1>1, <1>3 DEF HolderSound
<1>5. /\ Inside(m) = called[m] \ wait
      /\ Inside(m)' = called'[m] \ wait'
      /\ Inside(m) \subseteq Tasks
      /\ wait \subseteq called[m]
      /\ locked[m] <=> Inside(m) # {}
      /\ NULL \notin Tasks
  BY <1>1, <1>3, SchedulerAssumption
     DEF Inside, HolderSound, ObjectsInv, WaitersCalled, MutualExclusion
<1>6. /\ list # <<>> => Head(list) \in wait /\ ToSet(Tail(list)) = wait \ {Head(list)}
      /\ list = <<>> <=> wait = {}
      /\ wait \subseteq Tasks
      /\ \A t \in Tasks : ToSet(<<t>> \o list) = wait \cup {t}
      /\ ToSet(<<>>) = {}
  <2>1. ToSet(<<>>) = {}
    BY DEF ToSet
  <2> QED BY <1>1, <2>1, WaitersOf DEF ObjectsInv
<1> HIDE DEF m, has
<1>7. ASSUME UNCHANGED <<locked[m], called[m], waiters[m]>>
      PROVE  has' = has /\ wait' = wait
  <2>1. wait' = wait /\ Inside(m)' = Inside(m)
    BY <1>5, <1>7
  <2>2. CASE Inside(m) = {}
    BY <1>4, <2>1, <2>2
  <2>3. CASE Inside(m) # {}
    BY <1>4, <2>1, <2>3
  <2> QED BY <2>1, <2>2, <2>3
<1>8. ASSUME NEW t \in Tasks \ called[m], called'[m] = called[m] \cup {t},
             locked[m] = FALSE, waiters'[m] = list
      PROVE  has = NULL /\ has' = t /\ wait' = wait
  <2>1. Inside(m) = {} /\ wait' = wait /\ t \in Inside(m)'
    BY <1>5, <1>8
  <2> QED BY <1>4, <2>1
<1>9. ASSUME NEW t \in Tasks \ called[m], called'[m] = called[m] \cup {t},
             locked[m] = TRUE, waiters'[m] = <<t>> \o list
      PROVE  /\ has \notin {NULL, t} /\ has' = has
             /\ t \notin wait /\ wait' = wait \cup {t}
  <2>1. Inside(m) # {} /\ wait' = wait \cup {t} /\ t \notin wait /\ Inside(m)' = Inside(m)
    BY <1>5, <1>6, <1>9
  <2> QED BY <1>4, <1>5, <1>9, <2>1
<1>10. ASSUME NEW t \in Inside(m), called'[m] = called[m] \ {t},
              list = <<>>, waiters'[m] = <<>>
       PROVE  has # NULL /\ has' = NULL /\ wait = {} /\ wait' = wait
  <2>1. wait = {} /\ wait' = {} /\ Inside(m)' = Inside(m) \ {t}
    BY <1>5, <1>6, <1>10
  <2> QED BY <1>4, <1>5, <1>10, <2>1
<1>11. ASSUME NEW t \in Inside(m), called'[m] = called[m] \ {t},
              list # <<>>, waiters'[m] = Tail(list)
       PROVE  /\ has # NULL
              /\ Head(list) \in wait /\ has' = Head(list) /\ wait' = wait \ {Head(list)}
  <2>1. Head(list) \in wait /\ wait' = wait \ {Head(list)} /\ Head(list) \in Inside(m)'
    BY <1>5, <1>6, <1>11
  <2> QED BY <1>4, <1>5, <1>11, <2>1
<1> HIDE DEF wait, list
<1> DEFINE Moved == \/ \E t \in Tasks : has = NULL /\ has' = t /\ wait' = wait
                    \/ \E t \in Tasks : /\ has \notin {NULL, t} /\ t \notin wait
                                        /\ wait' = wait \cup {t} /\ has' = has
                    \/ has # NULL /\ wait = {} /\ has' = NULL /\ wait' = wait
                    \/ has # NULL /\ \E t \in wait : has' = t /\ wait' = wait \ {t}
                    \/ has' = has /\ wait' = wait
<1>12. ASSUME NEW t \in Tasks \ called[m], called'[m] = called[m] \cup {t},
              \/ locked[m] = FALSE /\ waiters'[m] = list
              \/ locked[m] = TRUE /\ waiters'[m] = <<t>> \o list
       PROVE  Moved
  <2>1. CASE locked[m] = FALSE /\ waiters'[m] = list
    BY <1>8, <1>12, <2>1
  <2>2. CASE locked[m] = TRUE /\ waiters'[m] = <<t>> \o list
    BY <1>9, <1>12, <2>2
  <2> QED BY <1>12, <2>1, <2>2
<1>13. ASSUME NEW t \in Inside(m), called'[m] = called[m] \ {t},
              \/ list = <<>> /\ waiters'[m] = <<>>
              \/ list # <<>> /\ waiters'[m] = Tail(list)
       PROVE  Moved
  BY <1>10, <1>11, <1>13
<1>14. Moved
  BY <1>2, <1>7, <1>12, <1>13 DEF MutexMoves, list
<1> QED
  BY <1>14 DEF Lock!Next, Lock!Acquire, Lock!Wait, Lock!Release, has, wait, m

----------------------------------------------------------------------------
(* The theorems                                                            *)

\* The invariant holds of every behaviour of the kernel objects.
THEOREM ObjectsInvariance == ObjectsSpec => []ObjectsInv
<1>1. ObjectsInv /\ [Next]_vars => ObjectsInv'
  BY ObjectsStepSound
<1> QED
  BY <1>1, ObjectsInitSound, PTL DEF ObjectsSpec

\* Every variable keeps its type.
THEOREM ObjectsTypeCorrect == ObjectsSpec => []ObjectsTypeOK
<1>1. ObjectsInv => ObjectsTypeOK
  BY DEF ObjectsInv, IInv, ObjectTypes, ObjectsTypeOK
<1> QED
  BY <1>1, ObjectsInvariance, PTL

\* What the kernel objects do to the tasks keeps the scheduler sound.
THEOREM SchedulerStaysSound ==
  ObjectsSpec => [](RunningIsCurrent /\ RunlistSound /\ ReapSafe /\ BlockedIsQueued)
<1>1. ObjectsInv => RunningIsCurrent /\ RunlistSound /\ ReapSafe /\ BlockedIsQueued
  BY DEF ObjectsInv, IInv, ListInv
<1> QED
  BY <1>1, ObjectsInvariance, PTL

\* Nor do the objects touch the interrupt flag: if kmain has kept to LateStart,
\* tasks that lock, wait and signal do so masked, and kmain halts interruptible.
THEOREM FlagsStaySound ==
  ASSUME LateStart
  PROVE  ObjectsSpec => [](HaltedInterruptible /\ TasksRunMasked)
<1>1. ObjectsInv => HaltedInterruptible /\ TasksRunMasked
  BY DEF ObjectsInv, IInv, FlagsSound, HaltedInterruptible, TasksRunMasked, InTask
<1> QED
  BY <1>1, ObjectsInvariance, PTL

\* At most one task is inside a mutex, and its flag says whether one is.
THEOREM MutualExclusionHolds == ObjectsSpec => []MutualExclusion
BY ObjectsInvariance, PTL DEF ObjectsInv

\* A semaphore's count and its list account for every signal and every wait.
THEOREM SemaphoresBalance == ObjectsSpec => []SemaphoreBalance
BY ObjectsInvariance, PTL DEF ObjectsInv

\* Nobody sleeps on what is there to be had.
THEOREM WakeupsAreKept == ObjectsSpec => []NoLostWakeup
BY ObjectsInvariance, PTL DEF ObjectsInv

\* A wait for an object ends only with what it is for.
THEOREM WaitsAreKept == ObjectsSpec => WaitsAreWhole
<1>1. ObjectsInv /\ [Next]_vars => WaitsEndWhole
  BY WaitsKept
<1> QED
  BY <1>1, ObjectsInvariance, PTL DEF ObjectsSpec, WaitsAreWhole, WaitsEndWhole

\* The sleeps and joins are kept under the kernel objects too.
THEOREM SleepsAndJoinsAreKept == ObjectsSpec => NoEarlyWake /\ JoinWaits
<1>1. ObjectsInv /\ [Next]_vars => [WakesInTime]_schedVars /\ [JoinsToTheEnd]_schedVars
  BY SchedulerSound DEF ObjectsInv
<1>2. [][WakesInTime]_schedVars => NoEarlyWake
  BY PTL DEF NoEarlyWake, WakesInTime
<1>3. [][JoinsToTheEnd]_schedVars => JoinWaits
  BY PTL DEF JoinWaits, JoinsToTheEnd
<1> QED
  BY <1>1, <1>2, <1>3, ObjectsInvariance, PTL DEF ObjectsSpec

\* A mutex, whichever it is, implements the abstract lock.
THEOREM MutexImplementsLock == ObjectsSpec => ImplementsLock
<1>1. Init => Lock!Init
  <2> SUFFICES ASSUME Init PROVE Lock!Init
    OBVIOUS
  <2>1. waiters[AnyMutex] = <<>> /\ called[AnyMutex] = {}
    BY LockRefinementAssumption, KindsApart DEF Init, SchedulerInit, ObjectsInit
  <2>2. ToSet(waiters[AnyMutex]) = {}
    BY <2>1 DEF ToSet
  <2>3. Holder(AnyMutex) = NULL
    BY <2>1 DEF Holder, Inside
  <2> QED BY <2>2, <2>3 DEF Lock!Init
<1>2. ObjectsInv /\ [Next]_vars => [Lock!Next]_<<Holder(AnyMutex), ToSet(waiters[AnyMutex])>>
  BY LockStep
<1> QED
  BY <1>1, <1>2, ObjectsInvariance, PTL
     DEF ObjectsSpec, ImplementsLock, Lock!LockSpec, Lock!lockVars
=============================================================================
