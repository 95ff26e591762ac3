-------------------------------- MODULE Nvme --------------------------------
(***************************************************************************)
(* The NVMe driver, storage/nvme/nvme.c, and the controller it talks to:   *)
(* how nvme_init finds it (module Pci) and starts it, the admin queue for  *)
(* its four commands, and the I/O queue behind nvme_read, nvme_write and   *)
(* nvme_flush.  The driver has one command out at a time: it fills a slot, *)
(* rings the doorbell and spins on the completion entry at cq_head until   *)
(* that carries the command's identifier.  It does not look at the phase   *)
(* bit that tells a new entry from one of the last lap.                    *)
(*                                                                         *)
(* The controller (external) starts and stops as it is told, fetches       *)
(* commands in order, completes them with success or an error, and knows   *)
(* a queue from its registers or by the command that creates it.           *)
(***************************************************************************)
EXTENDS Pci

CONSTANTS
  Size,    \* entries of each ring
  MaxIo    \* bound: I/O commands submitted

\* The admin commands fit in a ring (of 64 entries in the code).
ASSUME NvmeAssumption ==
  /\ Size \in Nat /\ Size >= 4
  /\ MaxIo \in Nat

Queues == {"admin", "io"}

VARIABLES
  at,         \* where nvme_init is; "io" once the block device is registered
  sq,         \* the submission rings: [cid, no], no counting the commands
  sq_tail,
  cq,         \* the completion rings: [cid, ok, no]
  cq_head,
  spinning,   \* the command the driver waits for, or 0 when it has none
  submitted,  \* how many commands have been submitted
  answers,    \* what the driver returned for each command: "ok" or "error"
  asq,        \* the admin queue's registers hold its address
  enabled,    \* the enable bit in the register CC
  doorbell,   \* what was last written to each doorbell, [sq, cq] for each queue
  ready,      \* the ready bit in the register CSTS
  known,      \* controller: the rings it knows
  fetched,    \* controller: its head in each sq
  posted,     \* controller: its tail in each cq
  running,    \* controller: the commands fetched and not completed
  done        \* controller: how each command completed

ringVars   == <<sq, sq_tail, cq, cq_head, doorbell>>
waitVars   == <<spinning, submitted, answers>>
deviceVars == <<ready, known, fetched, posted, running, done>>
nvmeVars   == <<ringVars, waitVars, asq, enabled, deviceVars>>
vars == <<at, nvmeVars, pciVars>>

----------------------------------------------------------------------------
(* Finding and starting the controller; Bad... as in Scheduler             *)

\* kmain's call of pci_init
ScanBuses ==
  /\ at = "boot"
  /\ at' = "pci"
  /\ PciInit
  /\ UNCHANGED nvmeVars

\* nvme_init up to the mapping of the registers, for which see VirtMem.
FindController ==
  /\ at = "pci"
  /\ IF OfClass("nvme") = {}
     THEN at' = "none" /\ UNCHANGED pciVars
     ELSE at' = "init" /\ TakeController
  /\ UNCHANGED nvmeVars

\* nvme_admin_queue_init, which may find no memory for the rings.
AdminQueueInit ==
  /\ at = "init"
  /\ at' \in {"disable", "failed"}
  /\ UNCHANGED <<ringVars, waitVars, asq, enabled, deviceVars>>

\* One that does not wait.
BadDisableController ==
  /\ at = "disable"
  /\ at' = "configure"
  /\ enabled' = FALSE
  /\ UNCHANGED <<ringVars, waitVars, asq, deviceVars>>

\* nvme_disable_controller: it waits only for a controller it finds enabled.
DisableController ==
  /\ \/ /\ at = "disable"
        /\ at' = IF enabled THEN "stopping" ELSE "configure"
        /\ enabled' = FALSE
     \/ /\ at = "stopping"
        /\ ~ready
        /\ at' = "configure"
        /\ UNCHANGED enabled
  /\ UNCHANGED <<ringVars, waitVars, asq, deviceVars>>

\* The rest of nvme_enable_controller.
SetAdminQueue ==
  /\ at = "configure"
  /\ at' = "start"
  /\ asq' = TRUE
  /\ UNCHANGED <<ringVars, waitVars, enabled, deviceVars>>

\* nvme_controller_start, and nvme_alloc_identify_buffer, which may fail.
ControllerStart ==
  /\ \/ /\ at = "start"
        /\ at' = "starting"
        /\ enabled' = TRUE
     \/ /\ at = "starting"
        /\ ready
        /\ at' \in {"admin", "failed"}
        /\ UNCHANGED enabled
  /\ UNCHANGED <<ringVars, waitVars, asq, deviceVars>>

----------------------------------------------------------------------------
(* Commands                                                                *)

\* What nvme_init sends, in order: identify controller and namespace, create
\* the I/O completion queue and the I/O submission queue.
AdminCommands == 1..4
CreateCq == 3
CreateSq == 4

\* nvme_read, nvme_write, nvme_flush
IoCommands == {5, 6, 7}

\* nvme_command_t and nvme_completion_t, of command number n.
Command(c, n) == [cid |-> c, no |-> n]
Completion(c, ok, n) == [cid |-> c, ok |-> ok, no |-> n]

Next1(i) == IF i + 1 = Size THEN 0 ELSE i + 1

BadRing(q) == doorbell

\* The doorbell of a submission ring, rung with the new tail.
Ring(q) == [doorbell EXCEPT ![q].sq = Next1(sq_tail[q])]

\* nvme_admin_submit and nvme_io_submit, up to the wait.
Submit(q, c) ==
  /\ spinning = 0
  /\ sq' = [sq EXCEPT ![q][sq_tail[q]] = Command(c, submitted + 1)]
  /\ sq_tail' = [sq_tail EXCEPT ![q] = Next1(@)]
  /\ doorbell' = Ring(q)
  /\ spinning' = c
  /\ submitted' = submitted + 1
  /\ UNCHANGED <<at, cq, cq_head, answers, asq, enabled, deviceVars>>

\* nvme_init's next command.
SubmitAdmin ==
  /\ at = "admin"
  /\ submitted + 1 \in AdminCommands
  /\ Submit("admin", submitted + 1)

\* block_device() is what nvme_init gave block_register, or NULL.
BlockDevice == at = "io"

SubmitIo(c) ==
  /\ BlockDevice
  /\ submitted < Cardinality(AdminCommands) + MaxIo
  /\ Submit("io", c)

\* nvme_io_queue_init finds no memory for the rings.
IoQueueInitFails ==
  /\ at = "admin"
  /\ spinning = 0
  /\ submitted + 1 = CreateCq
  /\ at' = "failed"
  /\ UNCHANGED <<ringVars, waitVars, asq, enabled, deviceVars>>

BadMatches(entry) == TRUE

\* What the driver takes for the completion of the command it waits for.
Matches(entry) == entry.cid = spinning

Succeeded(entry) == entry.ok

\* The end of a wait.  The entry of a failed command stays where it is: the
\* driver advances and rings only after a success.
Complete(q) ==
  LET entry == cq[q][cq_head[q]]
  IN  /\ Matches(entry)
      /\ spinning' = 0
      /\ IF Succeeded(entry)
         THEN /\ answers' = Append(answers, "ok")
              /\ cq_head' = [cq_head EXCEPT ![q] = Next1(@)]
              /\ doorbell' = [doorbell EXCEPT ![q].cq = Next1(cq_head[q])]
         ELSE /\ answers' = Append(answers, "error")
              /\ UNCHANGED <<cq_head, doorbell>>
      /\ UNCHANGED <<sq, sq_tail, cq, submitted, asq, enabled, deviceVars>>

\* nvme_wait_completion, after which nvme_init goes on or gives up.
CompleteAdmin ==
  /\ spinning \in AdminCommands
  /\ Complete("admin")
  /\ at' = CASE answers'[submitted] = "error" -> "failed"
             [] answers'[submitted] = "ok" /\ spinning = CreateSq -> "io"
             [] OTHER -> at

\* nvme_io_wait_completion
CompleteIo ==
  /\ spinning \in IoCommands
  /\ Complete("io")
  /\ UNCHANGED at

----------------------------------------------------------------------------
(* The controller                                                          *)

\* It sees what is written to its base and reaches memory if its command
\* register lets it.
Reached == RegistersDecoded

Stop ==
  /\ ready /\ ~enabled
  /\ ready' = FALSE
  /\ known' = {}
  /\ UNCHANGED <<at, ringVars, waitVars, asq, enabled, fetched, posted, running, done>>

\* It reads the admin queue's registers when it starts.
Start ==
  /\ ~ready /\ enabled
  /\ ready' = TRUE
  /\ known' = IF asq THEN {"admin_sq", "admin_cq"} ELSE {}
  /\ UNCHANGED <<at, ringVars, waitVars, asq, enabled, fetched, posted, running, done>>

Fetch(q) ==
  /\ ready
  /\ (IF q = "io" THEN "io_sq" ELSE "admin_sq") \in known
  /\ fetched[q] # doorbell[q].sq
  /\ fetched' = [fetched EXCEPT ![q] = Next1(@)]
  /\ running' = running \cup {sq[q][fetched[q]]}
  /\ UNCHANGED <<at, ringVars, waitVars, asq, enabled, ready, known, posted, done>>

\* It does not post to a full ring, and makes no submission queue that has no
\* completion queue.
Post(c, ok) ==
  LET q == IF c.cid \in IoCommands THEN "io" ELSE "admin"
  IN  /\ c \in running
      /\ Next1(posted[q]) # doorbell[q].cq
      /\ c.cid = CreateSq /\ ok => "io_cq" \in known
      /\ cq' = [cq EXCEPT ![q][posted[q]] = Completion(c.cid, ok, c.no)]
      /\ posted' = [posted EXCEPT ![q] = Next1(@)]
      /\ running' = running \ {c}
      /\ done' = [done EXCEPT ![c.no] = IF ok THEN "ok" ELSE "error"]
      /\ known' = CASE ok /\ c.cid = CreateCq -> known \cup {"io_cq"}
                    [] ok /\ c.cid = CreateSq -> known \cup {"io_sq"}
                    [] OTHER -> known
      /\ UNCHANGED <<at, sq, sq_tail, cq_head, doorbell, waitVars, asq, enabled,
                     ready, fetched>>

----------------------------------------------------------------------------
Commands == 1..Cardinality(AdminCommands) + MaxIo

\* What nvme_admin_queue_init and nvme_io_queue_init leave in the rings.
EmptyRings ==
  /\ sq = [q \in Queues |-> [i \in 0..Size - 1 |-> Command(0, 0)]]
  /\ sq_tail = [q \in Queues |-> 0]
  /\ cq = [q \in Queues |-> [i \in 0..Size - 1 |-> Completion(0, TRUE, 0)]]
  /\ cq_head = [q \in Queues |-> 0]
  /\ doorbell = [q \in Queues |-> [sq |-> 0, cq |-> 0]]

\* The firmware leaves the controller stopped, or running with queues of its own.
Init ==
  /\ PciStart
  /\ at = "boot"
  /\ EmptyRings
  /\ spinning = 0
  /\ submitted = 0
  /\ answers = <<>>
  /\ asq = FALSE
  /\ enabled \in BOOLEAN
  /\ ready = enabled
  /\ known = {}
  /\ fetched = [q \in Queues |-> 0]
  /\ posted = [q \in Queues |-> 0]
  /\ running = {}
  /\ done = [n \in Commands |-> "not yet"]

Commanding ==
  \/ AdminQueueInit \/ DisableController \/ SetAdminQueue \/ ControllerStart
  \/ SubmitAdmin \/ CompleteAdmin \/ IoQueueInitFails
  \/ CompleteIo

Driver ==
  \/ ScanBuses
  \/ FindController
  \/ Commanding /\ UNCHANGED pciVars

Device ==
  /\ Reached
  /\ \/ Stop \/ Start
     \/ \E q \in Queues : Fetch(q)
     \/ \E c \in running, ok \in BOOLEAN : Post(c, ok)
  /\ UNCHANGED pciVars

Next ==
  \/ Driver
  \/ \E c \in IoCommands : SubmitIo(c) /\ UNCHANGED pciVars
  \/ Device

Spec == Init /\ [][Next]_vars

\* The controller does what it is told, and the driver goes on; nobody has to
\* read or write a block.
FairSpec == Spec /\ WF_vars(Driver) /\ WF_vars(Device)

----------------------------------------------------------------------------
(* Properties                                                              *)

TypeOK ==
  /\ at \in {"boot", "pci", "none", "init", "disable", "stopping", "configure", "start", "starting",
             "admin", "io", "failed"}
  /\ \A q \in Queues :
       /\ sq[q] \in [0..Size - 1 -> [cid : AdminCommands \cup IoCommands \cup {0},
                                     no : Commands \cup {0}]]
       /\ cq[q] \in [0..Size - 1 -> [cid : AdminCommands \cup IoCommands \cup {0},
                                     ok : BOOLEAN, no : Commands \cup {0}]]
       /\ {sq_tail[q], cq_head[q], fetched[q], posted[q], doorbell[q].sq, doorbell[q].cq}
            \subseteq 0..Size - 1
  /\ spinning \in AdminCommands \cup IoCommands \cup {0}
  /\ submitted \in Commands \cup {0}
  /\ answers \in Seq({"ok", "error"})
  /\ {asq, enabled, ready} \subseteq BOOLEAN
  /\ known \subseteq {"admin_sq", "admin_cq", "io_sq", "io_cq"}
  /\ done \in [Commands -> {"not yet", "ok", "error"}]

\* nvme_init finds the controller, if there is one, unless the table was full
\* before the scan came to it (pci.c:80); and the registers it uses are those of a
\* controller that decodes them at that base and may reach memory.
ControllerTaken ==
  /\ at = "none" =>
       \A f \in Controllers :
         \E seen \in SUBSET {a \in Addresses : Answering(a) # {}} :
           Cardinality(seen) = MaxDevices /\ \A a \in seen, b \in f.at : a < b
  /\ at \notin {"boot", "pci", "none"} => RegistersDecoded

\* The driver rings the doorbell only of a queue the controller knows: the admin
\* queue after the controller has stopped and started with its registers set
\* (nvme.c:52, :65, :103), the I/O queue after both commands that create it have
\* succeeded (nvme.c:364 on); and the state is well-formed.
QueuesKnown ==
  /\ TypeOK
  /\ at = "admin" => ready /\ {"admin_sq", "admin_cq"} \subseteq known
  /\ at = "io" => ready /\ {"io_sq", "io_cq"} \subseteq known

\* A command returns what the controller answered to that command: not before
\* it has, and not what it answered to another with the same identifier.
AnswersAreOwn == \A n \in DOMAIN answers : answers[n] = done[n]

IoFailed == \E n \in DOMAIN answers : n \notin AdminCommands /\ answers[n] = "error"

\* So it is of the admin queue, and of the I/O queue until it wraps or a command
\* fails on it.
FirstLapAnswers ==
  Len(answers) <= Cardinality(AdminCommands) + Size /\ ~IoFailed => AnswersAreOwn

\* Every command returns, although nothing ends a wait but the controller's answer
\* (nvme.c:119, :247), until one fails on the I/O queue or its ring wraps: from then
\* on two commands may be with the controller, which may answer them in any order.
CommandsReturn ==
  [](spinning # 0 =>
       <>(spinning = 0 \/ IoFailed \/ submitted > Cardinality(AdminCommands) + Size))
=============================================================================
