# A verification development of the Bethany kernel

Bethany is a small x86-64 kernel for one CPU: it boots from Limine, sets up
physical and virtual memory, a heap, a preemptive round-robin scheduler, kernel
objects (mutex, semaphore, event, bounded queue), a RAM file system, a terminal, a
keyboard, PCI and an NVMe driver. This directory holds TLA+ models of those parts, the TLC
runs that check them on small instances, and TLAPS proofs of their safety properties for
every size. Paths below are relative to `src/kernel/src/`.

## 1. The system

| component | state | operations | talks to |
|---|---|---|---|
| scheduler (`scheduler/scheduler.c`) | `first` and the `next` links, `current`, `task_to_destroy` | `scheduler_init/add/schedule` (with `update`, `next`, `remove`) | called by tasks and by the timer's interrupt; calls `context_switch` |
| tasks (`scheduler/task.c`, `context.asm`) | per task: state, `wake_tick`, `waiters`, `wait_next`, saved registers | `task_create/yield/sleep/join/exit/destroy` | the scheduler, the heap |
| timer and interrupts (`timer/pit.c`, `interruptions/`) | `ticks`, `need_reschedule`, the handler table, the PIC's masks, the CPU's interrupt flag | `pit_irq`, `irq_handler`, `pic_*` | the devices; the scheduler, at the end of `irq_handler` |
| keyboard (`drivers/keyboard/`) | the modifiers, Caps Lock, the last key | `keyboard_irq`, `ps2_read`, `update_input` | the keyboard's controller, the terminal |
| kernel objects (`sync/mutex.c`, `semaphore.c`, `event.c`) | a flag or a count, and the list of waiters, linked through the tasks | lock, try_lock, unlock; wait, try_wait, signal; wait, set, reset | write task states, call `task_yield` |
| bounded queue (`sync/queue.c`) | ring, indices, two semaphores, a mutex | init, destroy, push, pop | the kernel objects |
| physical memory (`memory/pmm.c`, `memory.c`) | the usable regions, the bitmap (itself in physical memory) | `pmm_init`, `pmm_alloc_page`, `pmm_free_page` | the boot loader's map |
| virtual memory (`memory/vmm.c`) | the page tables | map, unmap, translate, is_mapped, alloc_page, free_page, map_range | physical memory |
| heap (`memory/heap.c`) | `heap_current`, `heap_end` | init, kmalloc, (kfree), krealloc, kcalloc | virtual memory |
| NVMe (`storage/nvme/nvme.c`) | two pairs of rings, tail and head of each | submit and wait, on the admin and on the I/O queue; init | the controller (doorbells, DMA), the two memory managers, PCI |
| RAM file system (`filesystem/ramfs/`, `vfs.h`) | a tree of nodes, siblings linked by `next` | create, mkdir, find, read, write, rename, move, copy, remove, delete | the heap |
| PCI (`drivers/pci/pci.c`) | the table of devices | scan, find, enable, bar | configuration space; called by `kmain` and `nvme_init` |
| block device (`storage/block/block.c`) | the device registered | register, device | set by `nvme_init` |
| terminal (`video/terminal.c`, `graphics.c`) | the cursor, the framebuffer | putchar, write, move_cursor, set_position, clear | written by the keyboard's handler, by tasks, and by `kmain` with interrupts on |
| boot (`main.c`) | where `kmain` is | the order of the above, `sti`, `hcf` | everything |
| fake disk, strings, port I/O | see section 7 | | |

What is hard in it: interrupts are on from `main.c:157`, a context switch
(`context.asm:47`) saves no flags, so which code may be interrupted depends on
how every task was switched out before; tasks die on the stack that has to be
freed; the waiters of every object are linked through one field of the tasks;
locks and permits change hands without passing through "free"; the run list has no
idle task, but `kmain` itself; memory may run out half-way through any call; the
keyboard's handler waits for the keyboard with interrupts off; the NVMe driver
shares its rings with a device that answers when it likes; and keys are shown between
any two accesses `kmain` makes to the cursor.
`PROJECT.json` lists these hazards with the line where each bites and the
properties that would notice.

There is no documentation of behaviour besides `Road.md`, which ticks the parts
that are considered done, and no test: the properties below are what the code
must satisfy for its callers to make sense.

## 2. The modules

| module | models | reads with |
|---|---|---|
| `Scheduler` | scheduler, tasks, the timer's interrupt, the interrupt flag | |
| `KernelObjects` | mutexes, semaphores, events over the scheduler | extends `Scheduler` |
| `AbstractLock` | what a mutex promises | refined by `KernelObjects` |
| `LockRefinement` | the mapping of any one mutex to `AbstractLock` | extends `KernelObjects` |
| `BoundedQueue` | `queue.c` at the grain of the calls it makes | |
| `FifoQueue` | what the queue promises | refined by `BoundedQueue` |
| `PhysMem` | `pmm.c` and the memory map it starts from | |
| `VirtMem` | `vmm.c` and `heap.c`, `kmain`'s and `nvme_init`'s mappings | extends `PhysMem` |
| `Pci` | `pci.c` and the machine's functions | |
| `Nvme` | `nvme.c`: finding and starting the controller, the admin and the I/O queue, and the controller itself | extends `Pci` |
| `Interrupts` | the PIC, `irq_handler`, `pit_irq`, `kmain` up to `sti` and line 167 | |
| `Keyboard` | the keyboard's handler, and the user | extends `Interrupts` |
| `KmainTicks` | `scheduler_init` and `kmain`'s `scheduler_schedule` access by access, with interrupts between | extends `Interrupts` |
| `Terminal` | `terminal.c`, `graphics.c` | |
| `Grid` | what a screen of characters promises | refined by `Terminal` |
| `RamFs` | `ramfs.c` | |
| `TaskProofs` | theorems about `Scheduler`, `KernelObjects` and `LockRefinement` | extends them |
| other `...Proofs` | theorems about the module of that name (`KeyboardProofs`: and `Interrupts`; `NvmeProofs`: and `Pci`; `VirtMemProofs`: and `PhysMem`) | extends that module |
| `ListProofs` | lemmas about lists, least elements and prefixes that several proofs need | extended by them |
| `MC...` | small instances: symmetry, values of constants, refinement mappings | |

Names follow the source (`TaskSleep` is `task_sleep`, `task_to_destroy` is
`task_to_destroy`). `PROJECT.json` maps each definition to its lines. In every
module, a definition named `Bad...` next to another is that definition with a
plausible bug in it; nothing uses it but the runs that show that a property
notices (`mutants` in `PROJECT.json`).

### Scheduler

- `runlist` is the list from `first` along `next`; `waiters[o]` the list from
  `o->waiters` along `wait_next`. `freed` records calls of `task_destroy`.
- Tasks come from other tasks, or from `kmain` (`KmainMayCreate`). Nothing in the tree
  adds any yet, before `main.c:171` or after, so the model has both, told apart by the
  constant `LateStart`. The place the code seems to keep for it, before the call of
  `scheduler_schedule` at 171, breaks what the scheduler lives on: that call is made
  with interrupts on (`main.c:157`), and `context.asm:47` carries the flag over into the
  task and loses `kmain`'s (run `sched_start`, finding 3). `LateStart` is the contract
  under which the flags come out right: `kmain` adds its first task after the call at
  171, which then switches to nobody, and leaves all others to that task.
- A call into the kernel is one step. Under `LateStart` the model itself justifies
  this: `TasksRunMasked` says that no task but `kmain`'s ever executes with
  interrupts on, so nothing interrupts a task's call, and while `kmain` calls the
  scheduler a tick finds no other task to switch to. Without it a tick may come in
  the middle of a call, for instance of the walk at `scheduler.c:45`; the model then
  has fewer behaviours than the code, which is enough for the run that is violated.
  What a tick in the middle of `scheduler_init` does is `KmainTicks`'s matter.
- `Schedule(st, how)` is the whole of `scheduler_schedule`: reap, wake sleepers,
  search, switch, note the dead. `how` tells whether the caller is the timer's
  handler; `saved[t]` remembers it for the task switched out, because a task
  resumed inside its handler gets its flags back from `iretq` and any other
  continues with the CPU's flag, which is off in the handler (`Flag`). A task that
  is new starts by `ret` into the trampoline, like one that yielded.
- `boot` follows `kmain` from `scheduler_init` to `main.c:171` and into `hcf`,
  where it is the idle task.
- A task block is used once: `kfree` does nothing, so no address is reused.
- Left out: the stack and registers, `pid`, `cr3` (the same for all), allocation
  failure in `task_create` (it then changes nothing).

### KernelObjects

`called[m]` (a ghost) holds the tasks between their call of `mutex_lock` and of
`mutex_unlock`; those not in the wait list are `Inside(m)`. A release with
waiters leaves `locked` set and makes the first waiter ready: the model's
`MutexUnlock` says just that, and `MutualExclusion` that it comes out right.
`balance[s]` (a ghost) counts signals less waits. The callers keep to the contract:
unlock what they locked, no recursive lock, no exit inside. `WakeFirst` is the
common part of `mutex_unlock` and `semaphore_signal`.

### BoundedQueue

Here the scheduler is abstracted: any task that is not blocked may take its next
step. That has more behaviours than the kernel, in which tasks are not
preempted, so safety carries over, and shows that the queue would be right in a
preemptive kernel as well. The handover of permits and of the lock is
the same as in `KernelObjects`. A queue may be destroyed, and made anew, whenever no
task is inside: `queue_destroy` wakes nobody, so that a task that waits there is lost,
and the callers of the model take care. It resets the indices, `queue_init` the
semaphores and the lock, and only both together give an empty queue. The field
`size` is never initialised by `queue_init`; the model counts from what is there.

### PhysMem, VirtMem

`PhysMem` takes any memory map (the constant `Maps` is a set of them; `memmap` the
one of this machine, `usable` the table `pmm_init` makes of it) and has the bitmap as the
set `bits` of the bits that are set.
Nobody calls the allocator but from inside another call, so `PmmAllocPage(m)` and
`PmmFreePage(m, f)` are operators on a record that holds the allocator's state
among other fields; freeing a frame that no usable region holds does nothing, as in the
code ("invalid free"). The variables and the properties are `PhysMem`'s, the steps
`VirtMem`'s. Whether the bitmap's own frames are usable memory is a property
(`BitmapSafe`), not an assumption. The maps of the run are those on which the
bitmap fits its region; with a first usable region smaller than the bitmap
`BitmapSafe` does not hold, as the layout alone shows (see the hazard at
`pmm.c:58`).

`VirtMem` keeps the contents of all frames that are page tables (`table`); a frame
that has not been cleared contains `Dirty` entries. One turn of `kmalloc`'s loop is
`Grow`, the loop a recursive function of the number of turns. `direct` holds the
frames taken from `pmm_alloc_page` by callers other than the page tables
(`TakePage`, `GivePage`), such as `nvme_init`. `krealloc` and `kcalloc` are calls of
`kmalloc` (the first copies nothing). On a map without usable memory
the kernel stops in `pmm_init` (`Halted`). `HeapAssumption` says that no two of the pages
in question share all four indices of a walk: virtual addresses have 48 bits, of which the
indices are all but the offset in the page, and nobody asks `vmm_alloc_page` for an
address of the heap's. Flags and huge pages are left out; the
boot loader's own mappings are of other addresses.

### Pci, Nvme

A machine of `Machines` is a set of functions (external), each with its class, the
base of its registers, whether two base address registers hold it, and the
addresses of configuration space it answers at: more than one for a device that does
not look at the function number, which the scan (`PciScan`) then enters several times.
`FindController` is what `nvme_init` does with the table. From then on the
controller takes a step only if it is reached (`Reached`): the driver has the base
its registers are at and has set the command bits.

`at` follows `nvme_init` through the stop and the start of the controller, the
four admin commands and on to "io", where the block device is registered and
`nvme_read`, `nvme_write` and `nvme_flush` may be called. Both queues are functions of `Queues`. The driver spins in
`CompleteAdmin` and `CompleteIo`; the controller (external: `Stop`, `Start`, `Fetch`,
`Post`) completes commands in any order, with success or an error, never posts to
a full ring, and has a queue only once it was told of it (`known`). It may have been left
running by the firmware. Commands carry a number the code does not have, a ghost
by which `AnswersAreOwn` tells whose answer was taken.

### Interrupts, Keyboard

`step` is where the CPU is in `irq_handler`; in `"task"` the rescheduling at its end
has switched to other tasks, which run with interrupts off (`TasksRunMasked` of
`Scheduler`) until the interrupted one continues. The two 8259A controllers are
external: `line` are the devices' lines, `irr` the requests, `in_service` the
interrupts acknowledged and not ended. `Ended` is what the end of interrupt the code sends
does, the cascade included. For lines 8 and up `pic_set_mask` writes the second
controller's command port (`pic.c:61`), so `PicSetMask` leaves the mask alone there.
When a line goes down before its edge is served, the controllers may forget the edge
or keep it, as QEMU's do (`Drop`).

`Keyboard` adds the handler byte by byte: `KeyboardIrq` reads one, `SecondByte` that
which follows an extended code; `UpdateInput` is `update_input` with what
`keyboard_irq` does of the key. The tables have an entry of each kind of key. The
user, the keyboard and its controller are external (`Press`, `Release`, `Send`): the
output buffer holds one byte, the next is sent when it has been read. `meant` (a ghost)
is what the strokes should show. Nobody types before `pic_init`, for whatever
is in the output buffer then keeps line 1 up and its edge is lost.

### KmainTicks

`Interrupts` from `pic_init` on, with the timer, and `kmain`'s stores to `current`
and `first` as steps. A tick's `scheduler_schedule` is one step, since nothing interrupts
it; no task has been added, so it can only search the list and come back. `fault` notes
that it, or `kmain`, followed a `NULL` pointer.

### Terminal, Grid

The framebuffer is a function from addresses (in pixels; padding of the lines included,
and as many lines behind the last as a glyph may reach into, which belong to whatever is
mapped there) to the character whose glyph a pixel is of: foreground and background make no
difference to what is asked. Division and remainder are C's (`Quotient`,
`Remainder`). The keyboard's handler and the tasks write with interrupts off, in one step
per call; the text `kmain` prints (NVMe's error, `nvme.c:124`) goes out one
access to the cursor, or one row of a glyph, at a time; the two arguments of `draw_char`
(`terminal.c:96`) are read in either order, as C leaves it open. What those calls do while
`kmain` is in the middle of one is checked all the same: each is an action of `Grid`
on the cells as they are. `terminal_set_position` accepts a position just beyond the last
column or row (`terminal.c:72`); `CursorOnCell` allows it, and the refinement is stated
for calls that start on the screen.

### RamFs

A directory's `children` is the list along `next`. The names `create` and
`rename` are given are stems; a copy into a directory with that name appends
`_copy` (`copies`). Any allocation may fail: of a node or of the data of a copy, which
the code notices, and of a name or of the data written, which leaves a `NULL` pointer in
the node. So does `ramfs_write` of no bytes (`WriteNothing`) with memory in plenty, since
`kmalloc(0)` is `NULL` (`heap.c:24`): it drops the file's bytes and keeps the size. `marks`
counts both, bounded by `MaxMarks`. A call that follows one stops the
kernel (`fault`): `strcmp` in a search, `strlen` in a copy, `memcpy` in a read or a copy.
`Careful` says whether callers of `ramfs_move` check what it does not (`CarefulMove`).

## 3. The runs

| run | what it asks | size |
|---|---|---|
| `kernel_objects` | safety of the scheduler and of the kernel objects together; the mutex implements `AbstractLock` | 3 tasks and `kmain`, one object of each kind, 2 ticks: 394 761 states with symmetry |
| `sched_start` | *violated*: `kmain` halts with interrupts on, whenever it adds tasks | 2 tasks and `kmain` |
| `objects_live` | ready tasks run, sleepers wake, the dead are freed, lockers enter; no sleep is cut short | 2 tasks and `kmain`, a mutex, 3 ticks: 5 862 states |
| `queue` | ring and semaphores agree, `FifoQueue` is implemented, what is stored is taken | 2 producers, 2 consumers, 2 slots, 2 items, the queue destroyed and made anew: 28 376 states |
| `virt_mem` | bits and owners agree, bitmap and owners are disjoint, no frame has two uses, the heap is backed, frames are lost only when memory is full | four maps of up to 12 usable frames, two-entry tables of 4 levels, a heap of 3 pages: 4 457 states |
| `virt_mem_nvme` | *violated*: a heap page keeps its frame | the same |
| `nvme` | the controller is found and reached, doorbells only of queues known, answers are one's own on the first lap, commands return | 5 machines, a table of 3 devices, rings of 4, 4 admin and 6 I/O commands: 137 766 states |
| `nvme_io` | *violated*: answers are one's own | rings of 4, 2 I/O commands |
| `keyboard` | nothing stays in service, ticks are served unless the keyboard's handler is left spinning, keys are shown as meant and in the end | 4 keys, 3 strokes, lines 7 and 11 without handlers, controllers that forget and that keep an edge: 257 736 states |
| `ramfs` | the nodes are a tree, paths are unique, no call follows a `NULL` pointer unless a failed allocation or a write of no bytes left it | 4 nodes besides the root, one such pointer: 228 508 states with symmetry |
| `terminal` | the cursor is on a cell, nothing is drawn beside the screen or behind its memory, `Grid` is implemented | glyphs of 2 by 2 pixels, two screens, 2 characters by `kmain`, 3 other calls: 547 194 states |
| `kmain_ticks` | *violated*: a tick finds a run list or none | the timer alone |

Why these bounds: three tasks give a joiner, the task joined and a bystander, a
dead task in the middle of the list, two waiters in one list and a lock handed
over while a third task tries it; two ticks let sleepers wake in either order.
Two slots with two producers and two consumers make the ring wrap, fill and empty
with somebody waiting on each side. The memory maps have regions out of order,
empty, adjacent and with holes, so that each boundary of the index arithmetic is
met; `virt_mem` runs out of memory between any two allocations of a call. Six I/O
commands on rings of four go round once and half-way again. Three strokes are a
modifier down, a letter and the modifier up, or a letter twice, with all ticks in
between. The machines have the controller first, behind another device, behind one with
several addresses, behind one that fills the table, twice, and not at all. Three calls
between `kmain`'s accesses wrap the cursor forwards or backwards over either edge; of the two
screens one has padding, and lines whose width is no multiple of a tab stop, the other
cuts off its last row and column. Four file system nodes are a directory with a subdirectory and a file, and
one block for what is created or copied meanwhile. (They are too few for one case: a copy
in which a child's name is lost and a later child is searched for; it ends in the fault
the other cases of `CopyFaults` end in.) Named bounds: `MaxTicks` (the
clock stops there), `MaxCount` (signals), `MaxHeap`, `MaxBlock`, `MaxDirect`, `MaxIo`,
`MaxStrokes`, `MaxCopies`, `MaxMarks`, `MaxCalls`.

Deadlock is checked except where the system may stop: in the NVMe runs (nobody has to
read or write a block, and a driver that gave up does nothing more), in `ramfs` and
`kmain_ticks` (a fault stops the kernel), in `sched_start` (which looks for the halt of a
CPU that nothing wakes), and in `terminal` (all has been printed).

### Fairness

`FairObjectsSpec` assumes that the timer fires whenever interrupts are on
(hardware), that `kmain` reaches the next of its two steps, that a task running
with interrupts off, which nothing can preempt, gives up the CPU in the end (a task
that does not would hang this kernel: under `LateStart`, which the run has, `TasksRunMasked` is
a theorem),
and that a task inside a mutex which keeps getting the CPU unlocks it (strong
fairness: it gets the CPU only now and then). In that run a task does not join
another while inside a mutex; the code would deadlock if the other wanted it.
`FairQueueSpec` assumes that a task that is ready runs, which `ReadyRuns` checks of
the scheduler, and that consumers pop as long as there is a queue. `Nvme`'s `FairSpec`
assumes a driver that goes on and a controller that answers; the driver has no timeout. `Keyboard`'s
`FairSpec` assumes that `kmain` reaches `sti`, that handlers run to their end, that
tasks switched to by the timer's handler give the CPU back in the end, that the
keyboard sends its bytes, and (strong fairness, since interrupts are off now and then)
that the CPU takes an interrupt it is offered again and again. Whether the keyboard
gets its turn next to the more urgent timer depends on what the tasks do in a tick:
`KeysAreShown` assumes in its statement that infinitely often there is time between
two ticks.

Two liveness properties one would like do not hold, because waiters are
last come first (`mutex.c:28`, `semaphore.c:28`): with three contenders a locker
may wait for ever, and so may one of two producers. The runs check what is
true: `LockersEnter` for two contenders, `StoredIsTaken` of what a producer has stored.
Nor does every NVMe command return: `CommandsReturn` ends with the first failure
on the I/O queue and with its first lap, after which answers may be mistaken.

### What the violated runs show

1. `virt_mem_nvme`, `storage/nvme/nvme.c:346`: the controller's registers are
   mapped at `KERNEL_HEAP_START`, over pages the heap has already given out.
2. `nvme_io`, `storage/nvme/nvme.c:247`: a completion is recognised by an
   identifier fixed per kind of command; the entry of a failed command is not
   consumed, and the phase bit is not read, so that an old answer is taken for the
   new one.
3. `sched_start`, `scheduler/context.asm:47`: a task added before `main.c:171` is entered
   by `ret` with interrupts on, so that a tick preempts it inside its handler and
   resumes `kmain`, which the call has saved, by `ret` as well, with interrupts off: `kmain`
   reaches `hcf` and halts for ever. (`TasksRunMasked` fails in the same runs.) No task is
   added in the tree as it is, so this waits for the first.
4. `kmain_ticks`, `scheduler/scheduler.c:33`: interrupts are on when `scheduler_init`
   stores `current` and then `first`; a tick in between follows `first`, which is
   `NULL`.

Three more disagreements are not runs of their own, but are stated as exceptions or show
with a changed constant:

- `TimerServed` excepts that the keyboard's handler is left spinning (`Spinning`), and this
  does happen: the handler of the first byte of an extended code (`keyboard.c:16`) reads
  the second as well; a controller that has kept the second's edge, as QEMU's does, on which
  `src/GNUmakefile:23` runs the kernel, interrupts again, and the handler finds no byte and
  waits for one with interrupts off. Without the first disjunct of `TimerServed` the run
  `keyboard` ends in that behaviour; no other keeps a tick from being served.
- `FaultsAreMarked` excepts the `NULL` pointers left in one of two ways, after which a
  later call follows them: a failed `kmalloc`, for a write, which keeps the size and drops the
  data (`ramfs.c:158`), or for a name, without which the node is linked all the same
  (`ramfs.c:56`); and a write of no bytes to a file that has some (`ramfs.c:156`), which
  needs no shortage of memory at all.
- `ramfs_move` refuses only the node's first child as the new parent (`ramfs.c:196`), and
  does not look at names. With `Careful = FALSE` (and `MaxMarks = 0`) in `MCRamFs.cfg`,
  `TreeSound` fails, with a directory moved below itself and cut off in a cycle, and so does
  `PathsUnique`.

## 4. What is proved

Every safety property that the runs find to hold, and every refinement, is a theorem for
every value of the constants. What is assumed of the constants is in the `ASSUME`s of the
modules, which TLC evaluates in the runs, and nowhere else, except for seven theorems that have
a hypothesis of their own: `BitmapStaysSafe`, the three about `RamFs` (`Careful`), and the three
about the interrupt flag (`LateStart`). Each section below names its inductive invariant.

### The scheduler

`TaskProofs` proves first about `Scheduler`, for every finite or infinite set of
tasks and of objects and every `MaxTicks`, from `SchedulerAssumption` alone (the
boot task is a task, `NULL` is not, `MaxTicks` is a natural number, `LateStart` is true or
false):

- `Invariance`: `Spec => []IInv`, the inductive invariant
  `IInv == TypeOK /\ ListInv /\ BlockedIsQueued /\ (LateStart => FlagsSound)`;
- from it `TypeCorrect`, `OneRuns`, `ListIsSound`, `ReapingIsSafe`,
  `BlockedAreQueued`, `HaltIsInterruptible`, `TasksAreMasked` (the invariants
  `TypeOK`, `RunningIsCurrent`, `RunlistSound`, `ReapSafe`, `BlockedIsQueued`,
  `HaltedInterruptible`, `TasksRunMasked`), the last two for a `kmain` that keeps to
  `LateStart`: without it they are false (`sched_start`). All the others hold whenever
  tasks are added;
- `SleepIsKept` and `JoinIsKept` (the action properties `NoEarlyWake` and
  `JoinWaits`).

None of the invariants is inductive alone. `RunningIsCurrent` needs that the
search of `scheduler_next` finds somebody whenever the task that called cannot go
on, which is so because `kmain`'s task is never anything but ready or running and
is always on the list (`BootCanRun`, part of `ListInv`); it stays there because
`RunlistSound` and `ReapSafe` keep the task that is unlinked dead and different
from `current`. `HaltedInterruptible` and `TasksRunMasked` need to know how every
task that is not running would be resumed (`FlagsSound`): `kmain`'s through
`iretq` once it has started the scheduler, all others with the flag the CPU
has. `BlockedIsQueued` is inductive given the rest and is used by `JoinWaits`,
whose argument is that a task can leave "blocked" only in the exit of the task it
has joined.

The proof goes bottom up: lists without repetition under removal and append
(`RemoveAtShifts`, `UnlinkTakesOut`, `AppendLinks`), the round-robin search
(`AroundReaches`, `NextTaskIsReady`), one lemma for `scheduler_schedule` on any
task states its callers may pass (`ScheduleSound`), lemmas on wait lists
(`QueuesKept`, `QueueGrows`, `QueueEmptied`), then one lemma per call and
`StepSound`, with a case for each action.

### The kernel objects

The second part of `TaskProofs` is about the objects. The invariant `ObjectsInv` is the
scheduler's `IInv`, the types, `WaitersCalled` (whoever is in a mutex's list has called
`mutex_lock`), `MutualExclusion`, `SemaphoreBalance` and `NoLostWakeup`. Three things are
shown of each step:

1. It keeps `IInv` (`SchedulerStaysSound`, and under `LateStart` `FlagsStaySound`). An operation on an object is one of three things to the tasks: it blocks
   the caller (then `ScheduleSound` applies), it makes the first of a list ready
   (`WakeFirstSound`), or all of it (`EventSetSound`). That they break nothing rests on
   `BlockedIsQueued`: a task that is woken was blocked in that list and in no other.
2. It does to each object one of a few things, listed as `MutexMoves`, `SemaphoreMoves` and
   `EventMoves`. All that follows is read off these lists, and no longer off the actions.
3. These keep the three properties, cut no wait short (`WaitsAreWhole`, and the scheduler's
   `NoEarlyWake` and `JoinWaits` with objects around), and are steps of the abstract lock:
   `MutexImplementsLock` takes any mutex (`AnyMutex`) and maps its holder to the task inside.
   In a handover the flag stays set and the lock passes to the first waiter in one step.

### The bounded queue

The invariant `QueueInv` of `BoundedQueueProofs` says that each list holds tasks at one
step of `push` or `pop` (`ListsSound`); that what a task has read is still so (`LocalsSound`); that one
task at most is past the lock without having released it, in the ring (`LockSound`); and the two
accounts of slots. The account of a semaphore is its count plus the tasks that hold one of
its permits, those handed one in the list included. A call of wait or of signal leaves
the account as it is, and a task in the ring moves one slot from one account to the other;
from that follow `SlotsAccounted` and the indices' distance, with the wrap at `Capacity`.
`QueueImplementsFifo` is the refinement, step by step: since a task that stores has
the ring to itself and a permit for a free slot, its store appends (`StoreAppends`), and a load
takes the first (`LoadTakesFirst`). The producers and consumers are assumed finite, since they
are counted.

### Interrupts and the keyboard

`NoneLeftInService` follows from `ServiceSound`: what the two controllers have in service
is exactly the interrupt whose handler has not ended it, with the cascade for a line of
the second. It holds for all kinds of requests and masks, and for controllers that keep or forget an
edge.

`ShownAsMeant` (what the terminal shows is a beginning of what was meant) rests on what the
bytes under way will come to. `Reads(s, q, t)` says that a handler that starts in state
`s` (extended code pending, modifiers, Caps Lock, what is shown) and reads the bytes `q` ends in
`t`. The invariant `UnderWay` is `Reads(Noted, Queue, Meant)`: from what the handler has noted, the
bytes in the buffer and behind it lead to the modifiers the user holds and to all that is
meant. A stroke adds to both ends, a read takes the first byte of one.

### PCI and NVMe

`ScanSound` says what `PciScan` leaves in the table, for any machine: the addresses that
answer, in order, until it is full. With the arithmetic of `pci_bar` (`BarIsBase`) that
gives `ControllerIsTaken`. The invariant `NvmeInv` relates how far `nvme_init` is to how far
the controller is (`Phases`), counts commands sent, fetched, posted and taken (`Counted`), ties
numbers to identifiers (`AllTagged`), and says, for the admin queue and for the first lap
of the I/O queue, that the one command out there leaves one trace in the rings:
not fetched, being worked on, or answered at the head (`LapSound`). `QueuesAreKnown` and
`AnswersOfTheFirstLap` follow. Beyond the first lap the property fails (finding 2).

### The terminal

The invariant `TerminalInv` says that the framebuffer is clipped (what was there before
is still in the padding, and behind the last line), that the cursor is on the screen or at its edge and, where cells
are whole, at a cell's corner, and for each point at which `kmain` may be interrupted how
what it has read and stored so far relates to that (`KmainSound`). The arithmetic is that of the
wrap: C's division truncates, the code corrects it to a floored one (`Floored`), and a cursor that
is a multiple of the glyph's size stays one when the screen is (`MultipleMoved`).

`TerminalImplementsGrid` goes on from there. `Placed(t, p)` says that a terminal is at cell
`p` and on the screen. A pixel belongs to one cell and one offset in it, by uniqueness of quotients
and remainders (`SpotsApart`), so that a glyph at a placed cursor changes what that cell
shows and no other (`PutShows`); `terminal_move_cursor`'s two corrections of column and line come
to adding to `p` modulo the number of cells (`MovedOnward`). Then each call of the code is
followed with `Placed` (`PutPlaced`, `ReturnPlaced`, `MovesPlaced`; `OnAndBack` for the erasing
one, which goes back, writes a blank and goes back again), and each ends in the action of `Grid` of
that name.

### The file system

`Tree` says of the blocks' contents that those below the root are those in use, that the
others are blank, and that each node is linked once and from the node it names as its parent;
`Paths` is `PathsUnique`. The invariant `FsInv` adds that as long as there is no mark there is no
fault, and every node has its name and every file of some size its bytes (`Whole`); the steps
that leave a mark are a failed allocation and `WriteNothing`.

Both are about `Subtree`, a recursive function. `BelowIs` shows that what it computes is the
least set with the node in it that is closed under the lists of children, since as many steps
as there are blocks are enough: each that adds nothing is the last. With that every operation is
treated alike. `Reaches` says that what was in use is still reached from the root, or in a closed
part `D`, as long as the lists outside `D` lose only nodes of `D`; and `TreeAgain` that this and
what is seen in each list is enough for a tree. So a new node, an unlinked subtree, a cleared root,
a moved subtree and a copied part keep `Tree` and `Paths` by what they do to two lists
(`CreateKeeps`, `CutKeeps`, `ClearKeeps`, `MoveKeeps`, `CopyKeeps`). For the copy, `Blocks` exists
since there are enough free blocks (`BlocksAre`), and the copies of a node's children are those of
its list that get copied, in their blocks (`CopyOfIs`).

The set of blocks is assumed finite, as memory is, or else `Subtree` would have no number of steps to
take, and `NULL` is not a name. The hypothesis of the theorems, `Careful`, is that callers of
`ramfs_move` keep to `CarefulMove`: the new parent is a directory, not below the node, and has no
other child of its name. The code refuses of all that only the node's first child, and without
the hypothesis the properties are false (section 3).

### Memory

`VirtMemProofs` proves `MemInv`, for every memory map (any number of regions, in any order,
empty or adjacent), tables of any size, and all bounds. From the bottom up:

- Bits and frames: the loops of `pmm.c` add up the pages of regions (`Total`; what is needed
  of such sums is proved by least counterexamples), so that `FrameOf` and `IndexOf` are inverse
  to one another (`BitsAreFrames`). An allocation or a free then keeps "set bits are the
  bitmap's and those of the frames owned" (`Allots`), and the totals of the printouts agree
  (`TypesAddUp`).
- The tables: `Tree` says that the four levels are apart, made of frames owned and not in direct
  use, and that no frame is linked twice. A new table (`LinkedTree`) and a new entry
  (`StoredTree`) keep it, and a walk of any other page leads where it led (`WalksMeet`,
  `StoredWalks`, `LinkedWalks`). These apply only because a frame that is allocated is nowhere in
  the tree, and because `ensure_table` clears it before it is linked.
- The calls: `EnsureTableSound`, `PageTableSound`, `VmmMapSound`, `AllocPageSound`,
  `FreePageSound`, each also for memory that runs out at that point.
- The heap: a turn of `kmalloc`'s loop maps one more page, or loses a frame and does not
  (`GrowSound`), so that the unmapped pages are at most as many as the lost frames (`Backs`).
  This needs to know that pages the heap has not reached are not mapped, or to a device
  (`Ahead`), or else a turn would lose a frame without running out.

`FramesHaveOneUse`, `BitsAccounted`, `HeapIsBacked` and the action property `FramesAreNotLost`
follow. `BitmapStaysSafe` has a hypothesis, `RoomForBitmap` of every map: the first usable
region that is not empty holds the bitmap. `pmm.c:56` does not check it, and without it
the property is false (see the hazard at `pmm.c:58`); the maps of `virt_mem` satisfy it.

### Only model-checked

Liveness, which is out of the prover's reach: `ReadyRuns`, `DeadAreFreed`, `LockersEnter`,
`StoredIsTaken`, `CommandsReturn`, `TimerServed`, `KeysAreShown`.

## 5. The rest of the plan

`scheduler_add` by `kmain` with ticks and other tasks around, access by access, once
something in the tree calls it (in `KmainTicks`); the fake disk, likewise.

## 6. Bounds of the models

Numbers are unbounded integers: `ticks`, `wake_tick`, `count` and `size` are 64
bits wide in the code and do not reach their limits; the ring indices are
reduced explicitly. Memory maps of more than 256 entries overflow the tables of
`main.c:95`, `memory.c:5` and `pmm.c:13`, which check nothing; the models assume
fewer.

## 7. Not modelled

- **Fake disk** (`storage/storage.c`): nothing includes it; `&fake_disk[block +
  STORAGE_BLOCK_SIZE]` makes its blocks overlap (lines 26, 34).
- **Font, number printing, strings, port I/O**: a table, rows of characters, and library
  routines with no state the rest depends on. Of `string.c` only `strdup` can fail,
  which is in `RamFs`. `pci_find_vendor`, `ps2_write` and `pic_clear_mas` have no caller.
- **Contents**: what blocks of the heap hold; `kcalloc` of a product that overflows.
- **Exceptions** (`isr.c`): print and halt.
- **NVMe data**: the buffers of the commands, and what is in them (a buffer that crosses a
  page, `nvme.c:291`, is a hazard without a property).
- **Keyboard**: the controller's initialisation (`ps2_init` is empty), keys that repeat
  while held, which Caps Lock would follow, and bytes typed before `pic_init`.
- **A line without a handler that stays up**: `pic.c:61` does not mask one of the second
  controller, so it interrupts for ever. `Interrupts` has the step, but no property
  is about it.
