----------------------------- MODULE KmainTicks -----------------------------
(***************************************************************************)
(* The timer while kmain sets up the scheduler and calls it: interrupts    *)
(* are on from before scheduler_init (main.c:157), and every tick ends in  *)
(* scheduler_schedule.  Kmain's accesses to `first` and `current` are      *)
(* steps of their own, with ticks in between.  No task has been added yet: *)
(* the run list is kmain alone, and no task but kmain can run.             *)
(***************************************************************************)
EXTENDS Interrupts

VARIABLES
  first,      \* "kmain" or "NULL", as `current`
  current,
  task,       \* what task_create_current gave kmain
  kmain,      \* where kmain is in scheduler_init and in scheduler_schedule
  fault       \* somebody used a NULL pointer

schedulerVars == <<first, current, task, kmain, fault>>
vars == <<interruptVars, schedulerVars>>

----------------------------------------------------------------------------
\* kmain's task_create_current in scheduler_init, which may find no memory.
CreateCurrent ==
  /\ kmain = "init"
  /\ kmain' = "store current"
  /\ task' \in {"kmain", "NULL"}
  /\ UNCHANGED <<first, current, fault>>

\* The two stores of scheduler_init.
StoreCurrent ==
  /\ kmain = "store current"
  /\ kmain' = "store first"
  /\ current' = task
  /\ UNCHANGED <<first, task, fault>>

StoreFirst ==
  /\ kmain = "store first"
  /\ kmain' = "up"
  /\ first' = current
  /\ UNCHANGED <<current, task, fault>>

\* kmain's scheduler_schedule.  A task alone in the list has no next: current is
\* NULL until scheduler_next starts again from first.
StartSearch ==
  /\ kmain = "up" /\ boot = "up"
  /\ IF current = "NULL"
     THEN kmain' = "halt" /\ UNCHANGED current
     ELSE kmain' = "wrap" /\ current' = "NULL"
  /\ UNCHANGED <<first, task, fault>>

\* It finds nobody ready, itself included, and kmain goes on to hcf.
WrapSearch ==
  /\ kmain = "wrap"
  /\ kmain' = "halt"
  /\ current' = first
  /\ fault' = (first = "NULL")
  /\ UNCHANGED <<first, task>>

\* All of scheduler_schedule, for a tick, whose handler nothing interrupts.
Schedule ==
  /\ current' = IF current = "NULL" THEN current ELSE first
  /\ fault' = (current # "NULL" /\ first = "NULL")
  /\ UNCHANGED <<first, task, kmain>>

\* The end of a tick, or of another interrupt.
Rescheduling ==
  /\ Reschedule /\ step' = "none"
  /\ IF need_reschedule THEN Schedule ELSE UNCHANGED schedulerVars

----------------------------------------------------------------------------
Init ==
  /\ InterruptsInit
  /\ first = "NULL"
  /\ current = "NULL"
  /\ task = "NULL"
  /\ kmain = "init"
  /\ fault = FALSE

\* kmain after sti
Starting ==
  /\ step = "none" /\ interrupts
  /\ CreateCurrent \/ StoreCurrent \/ StoreFirst \/ StartSearch \/ WrapSearch
  /\ UNCHANGED interruptVars

Next ==
  /\ ~fault
  /\ \/ Starting
     \/ Rescheduling
     \/ /\ \/ PicInit \/ PitInit \/ KeyboardInit \/ Sti
           \/ kmain = "up" /\ MaskLine11
           \/ PitIrq \/ NoHandler \/ PicSendEoi
           \/ \E i \in Lines : Interrupt(i)
           \/ Pulse(TimerLine)
        /\ UNCHANGED schedulerVars

Spec == Init /\ [][Next]_vars

----------------------------------------------------------------------------
(* Properties                                                              *)

\* A tick may come at any time after sti: scheduler_schedule finds a list it can
\* search or none at all (scheduler.c:57, :64).
TicksFindList == ~fault
=============================================================================
