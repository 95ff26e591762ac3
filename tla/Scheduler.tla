----------------------------- MODULE Scheduler -----------------------------
(***************************************************************************)
(* The task scheduler: scheduler/scheduler.c, scheduler/task.c, the timer  *)
(* interrupt that preempts (timer/pit.c, interruptions/irq.c) and what     *)
(* context.asm saves and, above all, does not save: the interrupt flag.    *)
(*                                                                         *)
(* One CPU.  Every action is something the task in `current` does, or the  *)
(* timer interrupt that strikes it.  A call into the kernel is one step.   *)
(* That is right for callers that keep to the contract LateStart: their    *)
(* tasks run with interrupts off (TasksRunMasked), and kmain, which runs   *)
(* with them on, calls scheduler_schedule and scheduler_add only while     *)
(* there is no other task for the timer to switch to.  For others it       *)
(* leaves out the ticks that come in the middle of a call.                 *)
(***************************************************************************)
EXTENDS Integers, Sequences, FiniteSets, SequencesExt

CONSTANTS
  Tasks,       \* the task_t blocks kmalloc hands out; kfree recycles none
  Boot,        \* the task scheduler_init makes of kmain itself (pid 0)
  Objects,     \* kernel objects with a `waiters` field, besides the tasks
  NULL,
  MaxTicks,    \* bound: the clock is followed up to this tick
  LateStart    \* kmain keeps to the contract of KmainMayCreate

ASSUME SchedulerAssumption ==
  /\ Boot \in Tasks
  /\ NULL \notin Tasks
  /\ MaxTicks \in Nat
  /\ LateStart \in BOOLEAN

VARIABLES
  state,            \* task->state; "UNUSED": the block is not allocated yet
  runlist,          \* the list from `first` along task->next
  current,          \* the task whose code the CPU executes
  task_to_destroy,  \* the dead task the next call of scheduler_schedule frees
  freed,            \* the tasks given to task_destroy
  wake_tick,        \* task->wake_tick
  waiters,          \* the list from o->waiters along task->wait_next
  ticks,            \* pit.c's clock
  interrupts,       \* the CPU's interrupt flag
  saved,            \* how a task not running resumes: by iretq or by ret
  boot              \* where kmain is: before or after main.c:171, or in hcf

taskVars == <<state, wake_tick, waiters>>
listVars == <<runlist, current, task_to_destroy, freed>>
cpuVars  == <<ticks, interrupts, saved, boot>>
schedVars == <<taskVars, listVars, cpuVars>>

TaskState == {"UNUSED", "READY", "RUNNING", "SLEEPING", "BLOCKED", "DEAD"}

----------------------------------------------------------------------------
(* scheduler_schedule.  Next to some definitions stands a variant of it     *)
(* with a bug one could make there, named Bad...; nothing uses it but the   *)
(* runs that show which property notices.                                   *)

PositionOf(list, t) == CHOOSE i \in 1..Len(list) : list[i] = t

\* The k-th task after position p, going round the list at most once.
Around(list, p, k) == list[IF p + k <= Len(list) THEN p + k ELSE p + k - Len(list)]

\* scheduler_remove, which is only called for a task that is on the list and
\* not current (ReapSafe): its last branch, which moves current, is dead code.
Unlink(list, t) == RemoveAt(list, PositionOf(list, t))

BadAwaken(list, st, wake, now) ==
  [t \in Tasks |-> IF t \in ToSet(list) /\ st[t] # "DEAD" /\ wake[t] <= now
                   THEN "READY" ELSE st[t]]

BadAwakenEarly(list, st, wake, now) ==
  [t \in Tasks |-> IF t \in ToSet(list) /\ st[t] = "SLEEPING" /\ wake[t] <= now + 1
                   THEN "READY" ELSE st[t]]

\* scheduler_update: the sleepers of the list whose time has come are ready.
Awaken(list, st, wake, now) ==
  [t \in Tasks |-> IF t \in ToSet(list) /\ st[t] = "SLEEPING" /\ wake[t] <= now
                   THEN "READY" ELSE st[t]]

BadNextTask(list, cur, st) ==
  LET ready == {i \in 1..Len(list) : st[list[i]] = "READY"}
  IN  IF ready = {} THEN cur ELSE list[Min(ready)]

\* scheduler_next: the first ready task after the one running, which comes
\* last itself; the one running, whatever its state, when none is ready.
NextTask(list, cur, st) ==
  LET p     == PositionOf(list, cur)
      ready == {k \in 1..Len(list) : st[Around(list, p, k)] = "READY"}
  IN  IF ready = {} THEN cur ELSE Around(list, p, Min(ready))

BadSwitch(st, old, new) == [st EXCEPT ![new] = "RUNNING"]

\* What the switch leaves in the states of the two tasks.
Switch(st, old, new) ==
  [st EXCEPT ![old] = IF @ = "RUNNING" THEN "READY" ELSE @,
             ![new] = "RUNNING"]

BadVictim(st, old) == NULL

\* The task switched out, when it is to be destroyed by the next call.
Victim(st, old) == IF st[old] = "DEAD" THEN old ELSE NULL

BadFlag(next, how) == how = "call" /\ interrupts

BadFlagSaved(next, how) == TRUE

\* The interrupt flag once the CPU executes next: context_switch does not save
\* the flags, so a task resumed inside its interrupt handler gets it back from
\* iretq and any other keeps the flag the CPU has, which is off in a handler.
Flag(next, how) == saved[next] = "irq" \/ (how = "call" /\ interrupts)

(***************************************************************************)
(* The call of scheduler_schedule that ends a timer interrupt (how = "irq")*)
(* or a task_yield (how = "call"), made by `current` with the task states  *)
(* st; wake_tick' and ticks' are as the caller left them.                  *)
(***************************************************************************)
Schedule(st, how) ==
  LET reap == task_to_destroy # NULL
      list == IF reap THEN Unlink(runlist, task_to_destroy) ELSE runlist
      st1  == Awaken(list, st, wake_tick', ticks')
      next == NextTask(list, current, st1)
  IN  /\ runlist' = list
      /\ freed' = IF reap THEN freed \cup {task_to_destroy} ELSE freed
      /\ current' = next
      /\ IF next = current
         THEN /\ state' = st1
              /\ task_to_destroy' = NULL
              /\ UNCHANGED <<saved, interrupts>>
         ELSE /\ state' = Switch(st1, current, next)
              /\ task_to_destroy' = Victim(st1, current)
              /\ saved' = [saved EXCEPT ![current] = how]
              /\ interrupts' = Flag(next, how)

----------------------------------------------------------------------------
(* What the running task may ask for                                       *)

InTask == current # Boot

(***************************************************************************)
(* A task creates and adds tasks as it likes, kmain until it halts.  The   *)
(* scheduler asks more of kmain, which runs with interrupts on (main.c:157):*)
(* that it adds its first task after it has called scheduler_schedule      *)
(* (main.c:171), where a switch would take the flag over into the task, and *)
(* leaves all others to that task, since its walk to the end of the list   *)
(* (scheduler.c:45) may be interrupted by whoever changes the list.        *)
(***************************************************************************)
KmainMayCreate ==
  /\ current = Boot
  /\ boot # "hcf"
  /\ LateStart => boot = "started" /\ runlist = <<Boot>>

MayCreate == InTask \/ KmainMayCreate

\* task_create
TaskCreate(t) ==
  /\ MayCreate
  /\ state[t] = "UNUSED"
  /\ state' = [state EXCEPT ![t] = "READY"]
  /\ saved' = [saved EXCEPT ![t] = "call"]
  /\ UNCHANGED <<wake_tick, waiters, listVars, ticks, interrupts, boot>>

\* An insertion that does not walk to the end of the list.
BadSchedulerAdd(t) ==
  /\ MayCreate
  /\ state[t] = "READY"
  /\ t \notin ToSet(runlist)
  /\ runlist' = <<Head(runlist), t>>
  /\ UNCHANGED <<taskVars, current, task_to_destroy, freed, cpuVars>>

\* scheduler_add, once per task: the callers' side of its contract.
SchedulerAdd(t) ==
  /\ MayCreate
  /\ state[t] = "READY"
  /\ t \notin ToSet(runlist)
  /\ runlist' = Append(runlist, t)
  /\ UNCHANGED <<taskVars, current, task_to_destroy, freed, cpuVars>>

\* task_yield
TaskYield ==
  /\ InTask
  /\ UNCHANGED <<wake_tick, waiters, ticks, boot>>
  /\ Schedule(state, "call")

\* task_sleep(n)
TaskSleep(n) ==
  /\ InTask
  /\ ticks + n <= MaxTicks
  /\ wake_tick' = [wake_tick EXCEPT ![current] = ticks + n]
  /\ UNCHANGED <<waiters, ticks, boot>>
  /\ Schedule([state EXCEPT ![current] = "SLEEPING"], "call")

\* What task_join, mutex_lock, semaphore_wait and event_wait do to wait:
\* block, push the task on the object's list, give up the CPU.
BlockOn(o) ==
  /\ waiters' = [waiters EXCEPT ![o] = <<current>> \o @]
  /\ UNCHANGED <<wake_tick, ticks, boot>>
  /\ Schedule([state EXCEPT ![current] = "BLOCKED"], "call")

\* task_join(u); it returns at once for a dead task and for the caller.
TaskJoin(u) ==
  /\ InTask
  /\ u # current
  /\ state[u] \notin {"UNUSED", "DEAD"}
  /\ BlockOn(u)

BadReady(st, list) ==
  [t \in Tasks |-> IF list # <<>> /\ t = Head(list) THEN "READY" ELSE st[t]]

\* Every task of the list becomes ready.
Ready(st, list) ==
  [t \in Tasks |-> IF t \in ToSet(list) THEN "READY" ELSE st[t]]

\* task_exit: the joiners become ready, the task dies and gives up the CPU.
TaskExit ==
  /\ InTask
  /\ waiters' = [waiters EXCEPT ![current] = <<>>]
  /\ UNCHANGED <<wake_tick, ticks, boot>>
  /\ Schedule([Ready(state, waiters[current]) EXCEPT ![current] = "DEAD"], "call")

----------------------------------------------------------------------------
(* kmain and the timer                                                     *)

\* main.c:171
KmainSchedule ==
  /\ current = Boot
  /\ boot = "kmain"
  /\ boot' = "started"
  /\ UNCHANGED <<wake_tick, waiters, ticks>>
  /\ Schedule(state, "call")

\* hcf: from here on the boot task only halts until the next interrupt.
KmainHalt ==
  /\ current = Boot
  /\ boot = "started"
  /\ boot' = "hcf"
  /\ UNCHANGED <<taskVars, listVars, ticks, interrupts, saved>>

\* pit_irq.  The clock stops at MaxTicks, where no one is left asleep beyond it.
Tick == ticks' = IF ticks < MaxTicks THEN ticks + 1 ELSE ticks

\* irq_handler for the timer, with the call it makes because of need_reschedule.
Timer ==
  /\ interrupts
  /\ Tick
  /\ UNCHANGED <<wake_tick, waiters, boot>>
  /\ Schedule(state, "irq")

----------------------------------------------------------------------------
ListInit ==
  /\ runlist = <<Boot>>
  /\ current = Boot
  /\ task_to_destroy = NULL
  /\ freed = {}

\* scheduler_init and task_create_current, called by kmain with interrupts on.
SchedulerInit ==
  /\ ListInit
  /\ state = [t \in Tasks |-> IF t = Boot THEN "RUNNING" ELSE "UNUSED"]
  /\ wake_tick = [t \in Tasks |-> 0]
  /\ waiters = [o \in Tasks \cup Objects |-> <<>>]
  /\ ticks = 0
  /\ interrupts = TRUE
  /\ saved = [t \in Tasks |-> "call"]
  /\ boot = "kmain"

\* The calls after which another task may run.
GiveUp ==
  \/ TaskYield
  \/ \E n \in 0..MaxTicks : TaskSleep(n)
  \/ \E u \in Tasks : TaskJoin(u)
  \/ TaskExit

SchedulerNext ==
  \/ \E t \in Tasks : TaskCreate(t) \/ SchedulerAdd(t)
  \/ GiveUp
  \/ KmainSchedule
  \/ KmainHalt
  \/ Timer

Spec == SchedulerInit /\ [][SchedulerNext]_schedVars

----------------------------------------------------------------------------
(* Properties                                                              *)

TypeOK ==
  /\ state \in [Tasks -> TaskState]
  /\ runlist \in Seq(Tasks)
  /\ current \in Tasks
  /\ task_to_destroy \in Tasks \cup {NULL}
  /\ freed \subseteq Tasks
  /\ wake_tick \in [Tasks -> Nat]
  /\ waiters \in [Tasks \cup Objects -> Seq(Tasks)]
  /\ ticks \in 0..MaxTicks
  /\ interrupts \in BOOLEAN
  /\ saved \in [Tasks -> {"irq", "call"}]
  /\ boot \in {"kmain", "started", "hcf"}

\* The task marked running, and no other, is the one the CPU executes, and it
\* is on the run list: scheduler_next (scheduler.c:56) falls back on the task
\* it started from, so that a task which has just blocked, gone to sleep or
\* died goes on executing unless some other task is always ready.
RunningIsCurrent ==
  /\ \A t \in Tasks : state[t] = "RUNNING" <=> t = current
  /\ current \in ToSet(runlist)

NoRepeat(list) == \A i, j \in 1..Len(list) : list[i] = list[j] => i = j

\* The run list links each task once, and those are the tasks that may run
\* again or are about to be reaped.
RunlistSound ==
  /\ NoRepeat(runlist)
  /\ \A t \in ToSet(runlist) : state[t] # "UNUSED"
  /\ \A t \in Tasks :
       state[t] \in {"RUNNING", "SLEEPING", "BLOCKED"} => t \in ToSet(runlist)

\* A task is freed once it is dead, off the CPU and unlinked, never twice and
\* never while it is executing on the stack that goes with it (scheduler.c:99
\* and :116 put the destruction off to a later call for that reason), and no
\* dead task is forgotten.
ReapSafe ==
  /\ task_to_destroy # NULL =>
       /\ state[task_to_destroy] = "DEAD"
       /\ task_to_destroy # current
       /\ task_to_destroy \in ToSet(runlist)
  /\ \A t \in freed :
       /\ state[t] = "DEAD"
       /\ t # current
       /\ t \notin ToSet(runlist)
  /\ \A t \in Tasks : state[t] = "DEAD" => t \in freed \cup {task_to_destroy}

\* A task is blocked exactly when it is linked in a wait list, in one list and
\* once (it has a single wait_next, task.h:37), and that list is one somebody can
\* still empty: not a task's that has already exited.
BlockedIsQueued ==
  /\ \A t \in Tasks :
       state[t] = "BLOCKED" <=> \E o \in Tasks \cup Objects : t \in ToSet(waiters[o])
  /\ \A o, p \in Tasks \cup Objects :
       \A i \in 1..Len(waiters[o]), j \in 1..Len(waiters[p]) :
         waiters[o][i] = waiters[p][j] => o = p /\ i = j
  /\ \A u \in Tasks : waiters[u] # <<>> => state[u] \notin {"DEAD", "UNUSED"}

\* A sleeper is not woken before its tick, whatever else wakes and schedules
\* tasks meanwhile (task.c:137, scheduler.c:20).
NoEarlyWake ==
  [][\A t \in Tasks :
       state[t] = "SLEEPING" /\ state'[t] # "SLEEPING" => wake_tick[t] <= ticks']_schedVars

\* A task_join does not return while the task joined may still run.
JoinWaits ==
  [][\A t, u \in Tasks :
       t \in ToSet(waiters[u]) /\ state'[t] # "BLOCKED" => state'[u] = "DEAD"]_schedVars

\* The CPU never halts for ever: when kmain has reached hcf (main.c:70) and is
\* what runs, the timer can still strike.  context_switch (context.asm:47) does
\* not save the flags, so this hangs on how kmain was last switched out: by the
\* timer if it keeps to LateStart, else perhaps by its own call (main.c:171).
HaltedInterruptible == boot = "hcf" /\ current = Boot => interrupts

\* A task is never interrupted, so that the kernel objects need no lock of their
\* own: under LateStart it is entered from kmain through the timer's handler with
\* interrupts off, and nothing turns them on before the CPU is back in kmain.
TasksRunMasked == InTask => ~interrupts

\* Every ready task on the run list runs, however long the others compute, and
\* every sleeper wakes and runs.
ReadyRuns ==
  \A t \in Tasks :
    /\ (state[t] = "READY" /\ t \in ToSet(runlist)) ~> (current = t)
    /\ (state[t] = "SLEEPING") ~> (current = t)

\* Every dead task is freed.
DeadAreFreed == \A t \in Tasks : (state[t] = "DEAD") ~> (t \in freed)
=============================================================================
