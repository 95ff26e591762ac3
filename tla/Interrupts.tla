---------------------------- MODULE Interrupts -----------------------------
(***************************************************************************)
(* Hardware interrupts: interruptions/pic.c, irq.c and irq.asm, the timer's *)
(* handler in timer/pit.c, and what kmain does to set them up.  Module     *)
(* Keyboard adds the only other handler.                                   *)
(*                                                                         *)
(* The two 8259A controllers (external) take requests from the devices'    *)
(* lines, edges but for those of PCI, pass on the most urgent and keep it  *)
(* in service until they are told of its end.  A gate turns interrupts off *)
(* and iretq turns them on again, so that a handler's steps are disturbed  *)
(* by devices alone.  The rescheduling at the end of a handler may run     *)
(* tasks, with interrupts off as well (TasksRunMasked in Scheduler).       *)
(***************************************************************************)
EXTENDS Integers, FiniteSets

CONSTANTS
  Unhandled,   \* lines other than 0 and 1 that devices use; none has a handler
  Level        \* those of them that are PCI's, not edges

ASSUME InterruptsAssumption ==
  /\ Unhandled \subseteq 3..15
  /\ Level \subseteq Unhandled

TimerLine == 0
KeyboardLine == 1
Lines == {TimerLine, KeyboardLine} \cup Unhandled

VARIABLES
  boot,             \* how far kmain is
  irq_handlers,     \* the lines that have a handler
  interrupts,       \* the CPU takes interrupts
  step,             \* where irq_handler is, "none" if the CPU is not in it
  irq,              \* the line it handles
  need_reschedule,
  line,             \* PIC: the lines asserted
  irr,              \* PIC: the edges it has seen and not passed on
  imr,              \* PIC: the lines masked
  in_service        \* PIC: the interrupts passed on whose end it was not told of

cpuVars == <<boot, irq_handlers, interrupts, step, irq, need_reschedule>>
picVars == <<line, irr, imr, in_service>>
interruptVars == <<cpuVars, picVars>>

----------------------------------------------------------------------------
(* The controllers.  The second one's lines are 8 to 15; it interrupts on  *)
(* line 2 of the first.                                                    *)

Cascade == 2

\* The place of a line in the order of urgency.
Rank(i) == CASE i <= 2 -> i [] i >= 8 -> i - 5 [] OTHER -> i + 8

Urgent(S) == {i \in S : \A j \in S : Rank(i) <= Rank(j)}

Requests == (irr \cup (line \cap Level)) \ imr

\* The interrupt the CPU would be given now, if any.
Pending == {i \in Urgent(Requests) : \A j \in in_service : Rank(i) < Rank(j)}

\* A device asserts its line.
Raise(i) ==
  /\ line' = line \cup {i}
  /\ irr' = IF i \in line \cup Level THEN irr ELSE irr \cup {i}

\* It takes its line down again.  The edge not yet passed on is forgotten by some
\* controllers and kept by others, among them QEMU's.
Drop(i) ==
  /\ line' = line \ {i}
  /\ irr' \in {irr, irr \ {i}}

\* A tick of the timer, or another short pulse.
Pulse(i) ==
  /\ irr' = irr \cup {i}
  /\ UNCHANGED <<cpuVars, line, imr, in_service>>

\* A PCI device wants to be served, or no more.
PciLine(i) ==
  /\ \/ i \notin line /\ Raise(i)
     \/ i \in line /\ Drop(i)
  /\ UNCHANGED <<cpuVars, imr, in_service>>

----------------------------------------------------------------------------
(* kmain; Bad... as in Scheduler                                           *)

\* pic_init: all lines unmasked, nothing requested or in service.
PicInit ==
  /\ boot = "pic"
  /\ boot' = "pit"
  /\ irr' = {} /\ imr' = {} /\ in_service' = {}
  /\ UNCHANGED <<irq_handlers, interrupts, step, irq, need_reschedule, line>>

\* irq_register, called by pit_init and by keyboard_init.
IrqRegister(i) ==
  /\ irq_handlers' = irq_handlers \cup {i}
  /\ UNCHANGED <<interrupts, step, irq, need_reschedule, picVars>>

PitInit == boot = "pit" /\ boot' = "keyboard" /\ IrqRegister(TimerLine)

BadKeyboardInit == boot = "keyboard" /\ boot' = "sti" /\ IrqRegister(TimerLine)

KeyboardInit == boot = "keyboard" /\ boot' = "sti" /\ IrqRegister(KeyboardLine)

Sti ==
  /\ boot = "sti"
  /\ boot' = "mask"
  /\ interrupts' = TRUE
  /\ UNCHANGED <<irq_handlers, step, irq, need_reschedule, picVars>>

\* pic_set_mask.  For a line of the second controller it reads and writes the
\* command port instead of the mask; what it writes for lines 8 to 11 and 15 has
\* no effect here.
PicSetMask(i) == imr' = IF i < 8 THEN imr \cup {i} ELSE imr

\* main.c:167
MaskLine11 ==
  /\ boot = "mask"
  /\ step = "none"
  /\ boot' = "up"
  /\ PicSetMask(11)
  /\ UNCHANGED <<irq_handlers, interrupts, step, irq, need_reschedule, line, irr, in_service>>

----------------------------------------------------------------------------
(* irq_handler                                                             *)

\* The CPU acknowledges the interrupt and enters the stub of its vector.
Interrupt(i) ==
  /\ interrupts
  /\ i \in Pending
  /\ interrupts' = FALSE
  /\ step' = "handler"
  /\ irq' = i
  /\ irr' = irr \ {i}
  /\ in_service' = in_service \cup {i} \cup (IF i >= 8 THEN {Cascade} ELSE {})
  /\ UNCHANGED <<boot, irq_handlers, need_reschedule, line, imr>>

\* pit_irq
PitIrq ==
  /\ step = "handler"
  /\ irq = TimerLine
  /\ irq \in irq_handlers
  /\ step' = "eoi"
  /\ need_reschedule' = TRUE
  /\ UNCHANGED <<boot, irq_handlers, interrupts, irq, picVars>>

\* A line without a handler is masked.
NoHandler ==
  /\ step = "handler"
  /\ irq \notin irq_handlers
  /\ step' = "eoi"
  /\ PicSetMask(irq)
  /\ UNCHANGED <<boot, irq_handlers, interrupts, irq, need_reschedule, line, irr, in_service>>

BadEndedNone(i) == {}

BadEnded(i) == Urgent({j \in in_service : j < 8})

\* What pic_send_eoi ends: the most urgent in service of each controller told.
Ended(i) ==
  Urgent({j \in in_service : j < 8})
    \cup (IF i >= 8 THEN Urgent({j \in in_service : j >= 8}) ELSE {})

PicSendEoi ==
  /\ step = "eoi"
  /\ step' = "reschedule"
  /\ in_service' = in_service \ Ended(irq)
  /\ UNCHANGED <<boot, irq_handlers, interrupts, irq, need_reschedule, line, irr, imr>>

\* The end of irq_handler and the stub's iretq, at once or after scheduler_schedule
\* has run other tasks.
Reschedule ==
  /\ \/ step = "reschedule"
     \/ step = "task"
  /\ need_reschedule' = FALSE
  /\ \/ /\ step' = "none"
        /\ interrupts' = TRUE
     \/ /\ need_reschedule
        /\ step' = "task"
        /\ UNCHANGED interrupts
  /\ UNCHANGED <<boot, irq_handlers, irq, picVars>>

----------------------------------------------------------------------------
\* kmain starts with interrupts off and the controllers as the firmware left them.
InterruptsInit ==
  /\ boot = "pic"
  /\ irq_handlers = {}
  /\ interrupts = FALSE
  /\ step = "none"
  /\ irq = TimerLine
  /\ need_reschedule = FALSE
  /\ line = {}
  /\ irr \in SUBSET {TimerLine}
  /\ imr \in {{}, Lines}
  /\ in_service = {}

Kmain == PicInit \/ PitInit \/ KeyboardInit \/ Sti \/ MaskLine11

Dispatch == PitIrq \/ NoHandler \/ PicSendEoi \/ Reschedule

InterruptsNext ==
  \/ Kmain \/ Dispatch
  \/ \E i \in Lines : Interrupt(i)
  \/ \E i \in {TimerLine} \cup (Unhandled \ Level) : Pulse(i)
  \/ \E i \in Level : PciLine(i)

----------------------------------------------------------------------------
(* Properties                                                              *)

InterruptsTypeOK ==
  /\ boot \in {"pic", "pit", "keyboard", "sti", "mask", "up"}
  /\ irq_handlers \subseteq Lines
  /\ interrupts \in BOOLEAN
  /\ step \in {"none", "handler", "second", "eoi", "reschedule", "task"}
  /\ irq \in Lines
  /\ need_reschedule \in BOOLEAN
  /\ line \cup irr \cup imr \subseteq Lines
  /\ in_service \subseteq Lines \cup {Cascade}

\* Nothing is in service once irq_handler lets other code run, kmain or a task it
\* switches to (irq.c:28): an interrupt left in service would keep all less urgent
\* ones, and itself, from the CPU, for as long as the task cares to run or for ever.
NoneLeftInService == step \in {"none", "task"} => in_service = {}
=============================================================================
