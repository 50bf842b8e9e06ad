# A verification of the Kaya kernel

TLA+ models, model checking and proofs for the Kaya operating system of this
repository: a small kernel in C for the uMPS2 machine.  File names without a
path are those of `src/phase1`, `src/phase2` and `src/phase3`.

Parts 1 and 2 are the inventory and the plan; parts 3 to 7 describe what is
there now: the models, the runs, what they found, the proofs, and what is left
out.

## 1. Inventory

| component | state | operations |
|---|---|---|
| pcb queues, free list (`pcb.c`) | `p_next`, `p_prev` of each pcb, a tail pointer per queue, `pcbFree_h` | `allocPcb`, `freePcb`, `insertProcQ`, `removeProcQ`, `outProcQ`, `headProcQ` |
| process tree (`pcb.c`) | `p_prnt`, `p_child`, `p_sib` | `insertChild`, `removeChild`, `outChild` |
| active semaphore list (`asl.c`) | `semdActive_h` (sorted, two dummies), `semdFree_h`, `p_semAdd` | `insertBlocked`, `removeBlocked`, `outBlocked`, `headBlocked` |
| initialisation (`initial.c`) | `procCnt`, `sftBlkCnt`, `readyQue`, `currentProc`, `semDevArray`, the new areas | `main` |
| scheduler (`scheduler.c`) | `waiting`, `currentProc` | `scheduler`: dispatch, HALT, PANIC or WAIT |
| exceptions (`exceptions.c`) | trap vectors of a pcb, all of the above | SYS1-SYS8, `passUpOrDie`, `terminateprocess` |
| interrupts (`interrupts.c`) | all of the above | local timer, interval timer, devices |
| CPU time (`p_time`, `startTOD`, `ioProcTime`) | three clocks | `getcputime`, and a line in every handler that stops a process |
| VM support, start-up (`initProc.c`) | `masterSem`, `uProcs`, `devSemArray` | `test`, `uProcInit`, `tapeToDisk`, `diskIO` |
| VM support, run time (`vmIOsupport.c`) | `swapPool`, `swapPoolSem`, page tables | `pager`, `writeToTerminal`, `terminateUserProc` |
| devices (uMPS2, not in the repository) | a status per port | start, complete, acknowledge |

**How they interact.**  The kernel has no threads: every exception and every
interrupt enters a handler with interrupts masked and the stack at `RAMTOP`,
and the handler leaves by loading a state (`LDST`) or through `scheduler()`,
which never returns while its data is right.  All components share the globals
of `initial.c`.  Queues are used by the scheduler, by the ASL (one queue for
each active semaphore) and by `terminateprocess`.  Devices act on their own and
are seen only as interrupts.  The VM support layer runs as ordinary processes
over SYS1-SYS8, with interrupts on, and synchronises with semaphores.

**What is hard.**
- Processes are interleaved at every instruction by three kinds of interrupts;
  four places must agree on where a process is (the CPU, the ready queue, a
  semaphore's queue, the free list), and two counters that decide between HALT,
  PANIC and WAIT are updated in eight places.
- `terminateprocess` is recursive and works on the tree, the queues, the
  semaphores and the counters at once.  A program trap inside it is handled as a
  trap of the running process: the recursion is dropped half way, and either
  the process's own handler runs or the kill starts again.
- Device semaphores follow another protocol than others: the unit of a killed
  waiter is not given back, because the interrupt will add one.
- Sub-devices of a terminal share a line, a bit and a handler.
- In phase 3, semaphores are held across faults, disk operations and the death
  of their holder.

**What makes each part correct.**  Queues: the rings are intact, first in first
out, a pcb is on at most one.  Tree: child lists and parents agree.  ASL: sorted,
no empty descriptor, never exhausted.  Nucleus: one place per process, counters
that count, semaphores whose value tells how many wait, a scheduler that stops
for the right reason, no ready process starved, each waiter woken by what it
waits for, SYS2 kills the whole subtree.  CPU time: never less than the process
ran, never more than real time.
VM support: a frame belongs to one page, mutual exclusion on the disk and the
frame table, the root is told of every user process that dies, no deadlock.

## 2. Plan

Done, in this order:

1. `ProcQ`, `Nucleus`, `MCNucleus`; `ProcQTheorems`, `NucleusProofs`:
   phase 2 on abstract queues, and its invariants.
2. `ProcQueues` and `PcbHeap`; `SemQueues` and `AslHeap`; `ProcTree` and `PcbTree`:
   for each data structure of phase 1 what it promises, and the pointers, shown to
   implement it.  `MCPhase1` checks the three.
3. `DeviceStatus`, `CpuTime` and `WriteTerminal`: what a process finds in v0 after
   SYS8, SYS6 and SYS10.  `MCResults` checks the three.
4. `VirtualMemory` and `VmSupport`: phase 3, from the root process to the end of
   the last user process.
5. `NucleusCounts`: proofs about the counters, the semaphores, the scheduler's
   decision, and what ends a SYS7 or a SYS8.
6. `VmProofs` and `VmRefinement`: the invariants of phase 3, and that it implements
   `VirtualMemory`.
7. `ResultsProofs`: the invariants behind the results of SYS8, SYS6 and SYS10.
8. `LinkedLists` and `Phase1Proofs`: the pointers of phase 1 and the sequences that
   they stand for, hence its invariants and its three refinements.

Next: conditional theorems about the two consequences of `outProcQ` (part 5, 1 and
`MCFreedQueued`), that is, what of `NoFreedPcbQueued` and `NoOrphans` holds in systems
in which processes on one queue are never killed out of order.

## 3. The models

### Phase 1: three structures, three abstractions

| promise | pointers | of |
|---|---|---|
| `ProcQueues`: a sequence per queue, a set of free pcbs | `PcbHeap`: `p_next`, `p_prev`, a tail pointer per queue, `pcbFree_h` | `pcb.c` |
| `SemQueues`: which semaphores have waiters, in which order | `AslHeap`: `s_next`, `s_semAdd`, `s_procQ`, `semdActive_h` with two dummies, `semdFree_h`, `p_semAdd` | `asl.c` |
| `ProcTree`: a list of children per pcb | `PcbTree`: `p_child`, `p_sib`, `p_prnt` | `pcb.c` |

`ProcQ` defines what the queue operations do to a queue seen as a sequence, head
first; `ProcQueues`, `SemQueues` and `Nucleus` are built on it.  In the modules of
the second column each C function is one action on the pointers, and each abstract
module is instantiated with a mapping that follows the pointers
(`ImplementsProcQueues`, `ImplementsSemQueues`, `ImplementsProcTree`).  The value
that a call returns is part of the state (`ret`) and of the refinement.

The preconditions are those of the callers.  One queues or frees a pcb that is in
hand (`held`).  A process that is blocked is on no other queue.  A pcb becomes a
child when it is fresh from `allocPcb`, which clears its `p_sib` (`fresh`); with
the constant `Reinsert` this is not asked for (part 5).

`outProcQ` is modelled as the code is, not as its comment is: it finds a pcb only
at the tail of the queue (part 5).  In `AslHeap`, `outBlocked` of a process that is
not at the tail gives `Trap`, the store through `NULL`.

### Nucleus: phase 2

The variables have the names of the C globals and pcb fields where there is one:
`procCnt`, `sftBlkCnt`, `readyQue`, `currentProc`, `waiting`, `p_semAdd`,
`p_prnt`.  `semV` and `semQ` are the value and the queue of every semaphore, the
user's and the elements of `semDevArray`, whose indices are computed as in
`waitio` and `ioTrapHandler` (`semIndex`); an element of `semQ` is `<<>>` when
the ASL has no descriptor for it.  `kids` is the child list.  `p_new` is the set
of trap types with a vector.  `devReg` is the state of each device port.
`waitsOn` is auxiliary: which port a process named in SYS8.

| action | code |
|---|---|
| `CreateProcess` | `createprocess` with `allocPcb`, `insertChild`, `insertProcQ` |
| `TerminateProcess`, `WaitIOBadLine` | the calls of `terminateprocess(currentProc)` in `sysCallHandler` and `waitio` |
| `V`, `P` | `V`, `P` with `removeBlocked`, `insertBlocked` |
| `WaitForClock`, `WaitIO` | `waitforclock`, `waitio` |
| `SpecTrapVec`, `PassUpOrDie` | `spectrapvec`; `passUpOrDie` and the three handlers that call it |
| `KillChild` ... `KillTrap` | `terminateprocess`, a step per frame and branch, with `outProcQ`, `outBlocked`, `outChild`, `freePcb` |
| `LocalTimer`, `IntervalTimer`, `DeviceInterrupt` | the branches of `ioTrapHandler` with `findLineNo`, `findDevNo` |
| `StartIO`, `DeviceCompletes` | external: the devices |

Every handler runs with interrupts masked and is one step, including the
`scheduler()` at its end.  The recursion of `terminateprocess` is split, since a
trap can cut it between any two frames; `kstack` holds its frames, and nothing
else runs in between except devices.

*The trap in a kill.*  `NULL` is `0xFFFFFFFF` (`const.h:100`).  When `outProcQ`
returns it, `outBlocked` stores to `p_return->p_semAdd`, an unaligned address, and
the kernel takes a program trap, with `progTrapHandler` on a fresh stack.
`currentProc` is still the process that was to die, since its own frame is
executed last.  If it has a program trap vector it goes on in its handler
(`kstack` becomes empty), else it is killed again from the top (`KillTrap`).

*Lost.*  `machine = "lost"` marks the two situations the kernel's own code
does not provide for: `freePcb` is applied to a pcb that is still on the
ready queue (the free list and the queue then share links), and `scheduler()`
would return because `sftBlkCnt` is negative.  The model stops there instead of
guessing.  The properties that only make sense before it say so; those of the
counters and the tree do not need to.

*What a process may do.*  Anything: any system call at any time, with any
semaphore of its own.  The trap handlers' user code is not distinguished from
the rest of a process.  SYS3 and SYS4 are not applied to the elements of
`semDevArray`, and ports whose semaphore would lie outside `semDevArray`
(terminals 6 and 7) are excluded by `PortAssumption`.

### DeviceStatus, CpuTime: what phase 2 leaves in v0

`Nucleus` says who runs and who waits.  Two things that depend on the data are in
modules of their own, which repeat as much of the scheduling as the data needs.

`DeviceStatus` follows the status of an operation from the device's register to
register v0 of the process that waits for it: `WaitIO` is `waitio`,
`DeviceInterrupt` the end of `ioTrapHandler` (`interrupts.c:216-247`).  Each
process has a device, and goes through *compute, use, command, SYS8, check*.  The
constant `Masking` says which processes mask interrupts from the command on, as
`diskIO` and `writeToTerminal` do through `disableInts`, and `tapeToDisk` and
`print()` of `p2test.c` do not.  A device may finish at any moment.  If that is
before the SYS8 of its process, the value of the semaphore after the V is above 0 and
the status goes to the process that is interrupted (`receivers`), whichever that is.

`CpuTime` has the clock and the three times: `startTOD`, `ioProcTime`, `p_time`.
Every statement that changes one of them is in `scheduler`, `Block` (the charge in
SYS4, SYS7 and SYS8), `QuantumEnd` (the local timer) or `Interrupt` (the rest of
`ioTrapHandler`, with `timeStart - timeEnd` as in the code).  A `cpu_t` is a signed
int (`types.h:13`) and goes round; only differences are used, so the model counts
modulo `WIDTH`.  A process measures itself as the p2 of `p2test.c` does:
clock and SYS6, twice; `ran` and `handled` are history variables with the exact
times.

### WriteTerminal: SYS10

`writeToTerminal`, one action per statement that can be interrupted; a terminal,
its semaphore and the handler's stack belong to one process, so one process is
modelled.  Its local variable `status` is a place on the stack that keeps its value
between calls, and begins with anything.  A call is refused for a length that is
negative or above 128, or for a buffer below `KSEGOSEND` (`accepts`).  The load of each character may fault;
this is a `Read` of `VmSupport` and changes nothing here.

### VmSupport: phase 3

| action | code |
|---|---|
| `CreateUser`, `WaitForUser`, `RootEnd` | `test`, after its initialisations, which are `Init`; the SYS2 at its end misses any of those who are ready and not last in the ready queue |
| `ReadTape`, `TapeDone`, `StartUser` | `uProcInit`, `tapeToDisk` |
| `LockDisk` ... `UnlockDisk` | `diskIO`: P, seek and SYS8, transfer and SYS8, V |
| `EnterPager` ... `LeavePager` | `pager` with `getFrame` |
| `EndUser` | SYS18 in `userSyscallHandler`, `userProgTrapHandler`, or a refused argument |
| `BeginTerminate` ... `Exit` | `terminateUserProc` |
| `Write`, `Read`, `Fault`, `Miss` | external: accesses of a program, as the TLB and the page table translate them |

Processes run over SYS3 and SYS4 with interrupts on, so an action ends at each
system call and the processes interleave there; what happens between two calls is
protected by a semaphore, or by masking where the code masks, and is one step.
`pc` says where a process is.  A blocked process is on a queue of `semQ`, its `pc`
where it resumes.  The two SYS8 of `diskIO` appear as `seekWait` and
`transferWait`: the process masks interrupts, so SYS8 blocks, and the device then
ends with any status of `DiskStatus`.

Pages are numbered as in the code.  Everything from 32 up shares the last entry of
the page table (`pteIndex`), as the stack page 3FFFF does; the numbers 31 to 3FFFE
are in no table and end in `Miss`.  The contents of a page is the block of the tape
it came from, what the process wrote, or a blank sector; ram, disk, page tables and
TLB hold them or point to them.  TLB entries appear when the hardware refills them
and go only by `TLBCLR`, in `pager` and `terminateUserProc`: the worst case.

The pager's test for segment 3 is in the model as in the code: it compares two bits
with `0x11` (`ChooseFrame`, part 5).

`VirtualMemory` is what a program may rely on: pages of its own, which start as
the tape's image or blank, change only when it writes them, and are gone when it
ends.  `Contents` is the refinement mapping: a page is on the tape, in a frame, in
a frame that is being written to the disk, or on the disk.

## 4. The runs

| run | question | bounds |
|---|---|---|
| `nucleus` | do counters, queues, semaphores and tree agree, does the scheduler stop for the right reason, and does a completion find its waiter? | 3 processes, mutex, clock, a disk, `SemBound` 3 |
| `sched` | is every ready process run, does every kill end, and does a tick come and wake all? | 3 processes, mutex, clock, `SemBound` 2; fairness |
| `io` | with simultaneous interrupts, does each wake the process that waits for that device, and does SYS8 end? | 2 processes, two disks of one line, a transmitter, clock, `SemBound` 1; fairness |
| `phase1` | do the pointers implement the queues, the semaphore list and the tree? | 4 pcbs on 2 queues; 4 pcbs, 3 semaphores, `MAXPROC` 2; 4 pcbs in the tree |
| `results` | is what a process finds in v0 after SYS8, SYS6 and SYS10 right? | 3 processes of which 2 mask, 2 statuses; 2 processes, 6 units of time, a clock of 32; texts of up to 3 characters, 8 on the screen |
| `vm` | do page tables, TLB and swap pool agree, is paging invisible, does the root end in order? | 2 user processes, 2 pages, 2 frames, errors of tape and disk |
| `vm_live` | does every fault and every termination end? | 2 user processes, 2 pages, 1 frame, no errors; fairness |
| `orphan`, `busy_receiver`, `early_other`, `vm_disk_error`, `vm_tape_error` | do the comments quoted in part 5 hold? (no) | 2 or 3 processes |

**Why these bounds.**  `SemBound` bounds the value of each semaphore on both sides;
`P` is disabled at `-SemBound`.  In `nucleus` it is the number of processes, so that
all can wait on one semaphore, a waiter of the disk can be killed while others wait,
and its unit then comes back with the interrupt or never.  In `sched` it is 2, so that
two wait for the clock when it ticks, in either order, and one of them may have been
killed or come since the last tick.  In `io` it is 1, which leaves one waiter, one
completion ahead of it, and three simultaneous interrupts.  `MAXPROC` is the number
of pcbs, so SYS1 also fails in every run.  Three processes are the fewest for which
`outProcQ` can miss a victim (two queued, and the killer).

In `phase1`, four elements give every position: first, last, two in the middle.
`MAXPROC` 2 gives four descriptors, two of them dummies, for three semaphores, so
the list also runs out.  In `results`, the clock starts at 0 or 3 units before it
goes round, and 6 units hold a first reading, an interrupt, another process and a
second reading.  Of the three processes that use SYS8 one does not mask interrupts, so
that early devices, and statuses in the v0 of whoever is interrupted, do occur; what
holds then is said of the two that mask (`Masker`).  A call of SYS10 has a buffer on
either side of `KSEGOSEND` (`Address`) and a length that is negative, too long, or 1 to
3, where the first, the middle or the last character can fail (`ScreenMax` only ends
the sequence of calls).  Length 0 is left to part 5.  The
lengths are `Text` and minus those of `Negated`, since a configuration file has no
negative numbers.

In `vm`, two frames for four pages make every fault after the second one evict, from
either process; the second page is the stack page, whose number is not its index.
`Data` limits stores to it in this run: the other one is then only read, so that a
frame with tape contents is written back and read again next to one with new
contents.  In `vm_live` one frame makes every fault wait for the disk twice, and both
pages are written.  One block per tape suffices for the loop of `tapeToDisk` to
transfer and to stop.

`MCPhase1` and `MCResults` hold three independent models each.  Their initial state
chooses which one runs and nothing else happens then, so their states add up and
do not multiply.  Safety runs on `Nucleus` declare the pcbs symmetric: no definition
tells them apart, `allocPcb` being a choice of any free one.  The liveness runs do
not.  `vm` turns the deadlock check off, because with disk errors the system does
get stuck (part 5); `vm_live` leaves it on, and so shows that without errors no
circle of `masterSem`, `swapPoolSem` and `disk0sem` ever closes, and with it that
the root always ends once its processes have.

**The properties of the nucleus.**
- `ProcAccounting`: `procCnt` is the number of pcbs in use, also within a
  recursive kill and after an abandoned one.
- `SoftBlockAccounting`: `sftBlkCnt` counts those blocked on a device or the clock.
- `OnePlace`: a process is in one place, and the place is the one its
  `p_semAdd` says.
- `SemValue`: a negative user semaphore counts its waiters.  For a device
  semaphore there may be fewer waiters than it claims (a killed waiter's unit
  comes back with the interrupt, if there is one), never more.
- `StopReason`: HALT, PANIC and WAIT happen only when they are right.
- `TreeOK`: child lists and parents agree.
- `WokenByOwnDevice`: SYS8 ends only when the operation of the port it named is
  done.
- `CompletionWakes`: the interrupt of a completed operation takes the first waiter of
  its device off the queue, and no other, and makes it ready, whatever the semaphore
  has been driven down to.
- `TickWakesAll`: who leaves the clock alive leaves it together with all who wait
  there, and they are ready in the order in which they came.  `ClockWakes`: while
  somebody waits a tick comes after which nobody does.
- `ReadyRuns`, `ClockWakes`, `DeviceWakes`, `KillEnds`: liveness.

**Of phase 1**: `RingsOK`, `NoLeak` (rings and free list of `pcb.c`), `AslOK` (the
list is sorted between its dummies, no descriptor is empty or lost),
`ListsMatchParents`, and the three refinements.

**Of the results**: `StatusDelivered` (SYS8 returns the status of the caller's own
operation, if that masks interrupts), `MaskedStatusPrivate` (the status of such an
operation never comes into the v0 of another process), `DeviceSemaphore` (the semaphore
is even between operations, masked or not);
`NeverUndercharged`, `ChargedWhatItRan` (SYS6 is at least what the process ran, and
exactly that if no interrupt returned to it); `PrefixWritten`,
`ResultTellsFailure`, `CallEnds` (SYS10 shows a prefix of the text, tells the
truth about it, and ends with the terminal free).

**Of phase 3**: `SwapPoolOK` (a valid entry's frame belongs to that page and the TLB
agrees), `DmaSafe` (no process reaches a frame that the disk is using),
`ArmInPlace` (a transfer finds the arm where its own seek put it), `GracefulEnd`
(when the root ends all have ended and no frame is in use),
`ImplementsVirtualMemory`, `FaultResolved` (the access that faulted does not fault
again when its process goes on), `FaultEnds`, `TerminateEnds`.

**Fairness.**  In `Nucleus`: `WF` of the steps of `terminateprocess`, since kernel code
runs to its end.  `SF` of the timers and of each port's interrupt: the timers run
whatever the kernel does; a pending interrupt stays pending until it is taken, so
one which is masked again and again by kernel code is still taken at some point.
(A device of lower priority is served once those before it have been acknowledged;
the formula asks for a step only if the handler would choose that port again and
again.)  Nothing is assumed of what processes do or of whether a device ever
completes.  In `VmSupport` and `WriteTerminal`: `WF` of the steps of the support
code of each process, which the round robin of the nucleus gives (`ReadyRuns`), and
which includes that a device ends the operation it was given.  A program is not
assumed to do anything: it may compute for ever, and then its process does not end.

## 5. What the runs found

Statements in comments of the code that do not hold.  Each is a run.

1. A process that is not last in its semaphore's queue is not found by `outProcQ`
   (`MCOutProcQ` below), so that `outBlocked` traps (`asl.c:169`) and the rest of the
   subtree survives: `exceptions.c:109-110` "recursively kills all children of that
   process".  Run `orphan`.
2. A terminal interrupt is the receiver's whenever that is not READY, though it
   may be BUSY (`interrupts.c:176`): a reader is woken by the writer's interrupt,
   against `exceptions.c:150-151` "will wake up in the interrupt handler once the
   I/O resolves".  Run `busy_receiver`.
3. If a device finishes before the SYS8 of its process, the status goes to v0 of the
   process that is running (`interrupts.c:238`), whether that masks interrupts itself
   or not, against `interrupts.c:256` "Return to the process running before the
   interrupt".  `tapeToDisk` (`initProc.c:184-187`) does not mask, so the kernel as it
   is can do this to every user process that runs next to one that starts.  Run
   `early_other`.
4. A disk error inside the pager calls SYS18 while the process holds `swapPoolSem`
   and `disk0sem` (`initProc.c:216`), and `terminateUserProc` waits for the first:
   `vmIOsupport.c:222-224` "This cleans up when a process is either done or force
   killed by the OS."  Run `vm_disk_error`.
5. A tape error during start-up (`initProc.c:191`) calls SYS18 before SYS5, so the
   nucleus kills the process without the V on `masterSem`, and the root waits for
   ever: `initProc.c:35-37` "determines when all processes are completed and allows
   for graceful termination of master thread thereafter".  Run `vm_tape_error`.

Further configurations are kept beside the runs, to be started by hand
(`tlc -config X.cfg M`).  Each of the first eight ends in a counterexample.

| configuration | module | shows |
|---|---|---|
| `MCOutProcQ` | `PcbHeap` | `OutAnywhere` fails: `outProcQ` finds only the tail, since its loop starts with `current == *tp` and tests just that for having come around (`pcb.c:145`), against `pcb.c:103-105` "This pcb can be located anywhere in the queue"; `p1test.c:177-179` tests for it. |
| `MCFreedQueued` | `MCNucleus` | `NoFreedPcbQueued` fails: `terminateprocess` frees a ready process that is not last in the ready queue and leaves it linked there. |
| `MCTerminal5` | `MCNucleus` | `WokenByOwnDevice` fails: `TERMCNT` is 3 where a terminal has two semaphores (`const.h:128`), so the reader of terminal 5 waits on the pseudo-clock's semaphore and is woken by a tick. |
| `MCReinsert` | `PcbTree` | `ListsMatchParents` fails: a pcb given to another parent without being freed in between brings its old `p_sib` along (`pcb.c:308`), against `pcb.c:265-266`.  The nucleus never does that. |
| `MCEarlyDevice` | `DeviceStatus` | `AlwaysDelivered` fails, the other side of 3: for a process that does not mask, if the device is first, SYS8 does not block and returns what was in v0 (`interrupts.c:238`).  `tapeToDisk` does not mask, and `p2test.c:126-128` takes v0 for the status. |
| `MCOvercharged` | `CpuTime` | `NoMoreThanRealTime` fails: the time of an interrupt is subtracted with the wrong sign (`interrupts.c:254`), so it is charged twice, against `interrupts.c:250-252` "this time will later be deducted"; `p2test.c:319-320` prints "error: more cpu time than real time". |
| `MCWriteNothing` | `WriteTerminal` | `ResultTellsFailure` fails: SYS10 of length 0 returns a variable that was never assigned (`vmIOsupport.c:216`), and `print.c:20-22` takes a negative result for a failure. |
| `MCVmSegment3` | `VmSupport` | `FaultResolved` fails: a segment has two bits and `KUSEG3NO` is 0x11 (`const.h:195`, `vmIOsupport.c:108`), so a fault in the shared segment loads a page of segment 2 and traps again; line 107 says "not implemented fully yet". |
| `MCTree` | `MCNucleus` | no error: 4 processes, so trees and nested kills of depth four. |
| `MCDevices` | `MCNucleus` | no error: `WokenByOwnDevice` with two trap types and `SemBound` 2. |
| `MCDisk` | `MCNucleus` | no error: `DeviceWakes` with 3 processes, two of which can wait for one disk, or be killed there. |
| `MCPcbHeap`, `MCAslHeap`, `MCPcbTree`, `MCDeviceStatus`, `MCCpuTime` | of that name | no error: the parts of `phase1` and `results`, one by one. |

What holds in spite of 1 is worth knowing: the counters, the tree and the
value of user semaphores stay right through any number of abandoned kills, and
kills end.  In spite of 4 and 5, whatever errors the tapes and the disk report, no
process reads a page that is not its own.

## 6. The proofs

For every number of pcbs, queues, semaphores, descriptors, ports, frames, pages and
statuses, every length of text and width of the clock:

| module | theorem | |
|---|---|---|
| `Phase1Proofs` | `HeapInvariant` | `Spec => []HeapInv`, the inductive invariant |
| | `RingsCorrect` | `Spec => []RingsOK` |
| | `NoLeakCorrect` | `Spec => []NoLeak` |
| | `ImplementsProcQueuesCorrect` | `Spec => ImplementsProcQueues` |
| | `TreeInvariant` | `Spec => []TreeInv`, the inductive invariant |
| | `ListsCorrect` | `Spec => []ListsMatchParents` |
| | `ImplementsProcTreeCorrect` | `Spec => ImplementsProcTree` |
| | `AslInvariant` | `Spec => []AslInv`, the inductive invariant |
| | `AslOKCorrect` | `Spec => []AslOK` |
| | `ImplementsSemQueuesCorrect` | `Spec => ImplementsSemQueues` |
| `NucleusProofs` | `TypeCorrect` | `Spec => []TypeOK` |
| | `ProcAccountingCorrect` | `Spec => []ProcAccounting` |
| | `OnePlaceCorrect` | `Spec => []OnePlace` |
| | `TreeCorrect` | `Spec => []TreeOK` |
| `NucleusCounts` | `SoftBlockAccountingCorrect` | `Spec => []SoftBlockAccounting` |
| | `SemValueCorrect` | `Spec => []SemValue`, if no port has the clock's semaphore |
| | `StopReasonCorrect` | `Spec => []StopReason` |
| | `WokenCorrect` | `Spec => WokenByOwnDevice`, if moreover no terminal is used in both directions |
| | `TickWakesAllCorrect` | `Spec => TickWakesAll`, if no port has the clock's semaphore |
| | `CompletionWakesCorrect` | `Spec => CompletionWakes`, likewise |
| `VmProofs` | `VmTypeCorrect` | `Spec => []TypeOK` |
| | `SwapPoolCorrect` | `Spec => []SwapPoolOK` |
| | `DmaCorrect` | `Spec => []DmaSafe` |
| | `ArmCorrect` | `Spec => []ArmInPlace` |
| | `GracefulEndCorrect` | `Spec => []GracefulEnd` |
| `VmRefinement` | `ImplementsCorrect` | `Spec => ImplementsVirtualMemory`, if no program uses segment 3 |
| | `FaultResolvedCorrect` | `Spec => FaultResolved`, likewise |
| `ResultsProofs` | `StatusDeliveredCorrect` | `FairSpec => []StatusDelivered`, which speaks of the processes that mask |
| | `PrivacyCorrect` | `FairSpec => []MaskedStatusPrivate`, likewise |
| | `SemaphoreCorrect` | `FairSpec => []DeviceSemaphore` |
| | `ChargeCorrect` | `FairSpec => []NeverUndercharged` |
| | `ExactChargeCorrect` | `FairSpec => []ChargedWhatItRan` |
| | `InterruptsChargedTwice` | `FairSpec => []Reported`, the exact charge |
| | `PrefixCorrect` | `FairSpec => []PrefixWritten` |
| | `ResultCorrect` | `FairSpec => ResultTellsFailure`, if no text is empty |

### Phase 1

The assumptions are `Phase1Assumption`: the pcbs are finite in number, `NULL` is not
a pcb or a descriptor, the addresses of semaphores lie strictly between those of the
two dummies, and there is at least one pcb and one descriptor.  In the tree `Reinsert` is `FALSE`
(part 5, `MCReinsert`).

*Pointers and sequences* (`LinkedLists`).  The models read a list by following
pointers for as many steps as there are elements.  `IsWalk` is such a walk; `Ring` says
that a tail pointer, `p_next` and `p_prev` lead around a sequence, and `Chain` that a
head pointer and one link lead through it to `NULL`.  A walk along a `Ring` or a
`Chain` of a sequence without duplicates reads that sequence, and no list has more
elements than the walk has steps, which is a counting argument.  Then there is a lemma
for what each kind of assignment makes of the sequence: a ring gains an element at its
tail or loses its head or its tail; a chain gains or loses an element at any place;
and an assignment to a link of an element that is not in a list leaves the list alone.
Where induction is needed the proofs take a least counterexample (`Least`).

*The invariants.*  Each is of the form "there are sequences that the pointers stand
for": `StandsFor(Q, F)`, queues and a free list, pairwise disjoint, that with `held`
make up all pcbs; `Children(K)`, a list of children for each pcb, with `p_prnt` naming
the one whose list a pcb is on; `SemFor(A, F, Q)`, the descriptors in use in the order
of their addresses, the free ones, and the queue of each semaphore, which is not empty
exactly if a descriptor has its address.  TLC does not check these formulas, since it
would have to enumerate sequences; it checks `RingsOK`, `ListsMatchParents` and
`AslOK`, which follow, and the refinements.

*The refinements.*  `Reads`, `TreeReads` and `AslReads` say that the mapping, which
follows the pointers, yields just the sequences of the invariant.  So each step lemma
(`InsertStep`, `RemoveChildStep`, `OutBlockedStep` ...) has one thing to do: name the
sequences after the step and show that the pointers stand for them; that the abstract
module takes the same step, with the same result `ret`, is then a matter of `ProcQ`.

*The semaphore list.*  Three things are not about pointers.  `findASemd` stops at one
place, which the order of the list determines, and there either is or is not a
descriptor of that semaphore (`Find`, `Stops`).  An operation keeps the set of used
descriptors, or takes one from the list when its queue becomes empty, or puts one in
when a queue appears (`QueueKept`, `QueueGone`, `QueueNew`).  And the free list is empty
exactly if `MAXPROC` semaphores have waiters (`InUse`, a bijection between descriptors
and semaphores), which is when `SemQueues` lets `insertBlocked` fail.

### The nucleus

Every invariant of the run `nucleus` is also a theorem.  The assumptions are those that
`Nucleus` names: finitely many pcbs, `NULL` not one of them, ports whose semaphore lies
in `semDevArray`, user semaphores apart from the device semaphores, a program trap
vector exists.  `SemBound` is any number.

The first four come from one inductive invariant,

    IInv == TypeOK /\ TreeOK /\ OnePlace /\ StackOK /\ WaitOK /\ ProcAccounting

None is inductive alone.  `ProcAccounting` needs that a frame frees a pcb that is in
use, and once: `FramesOK` says that the pcbs on the stack of `terminateprocess`
are in use, and that all but the outermost have no parent.  That no pcb is on the
stack twice is not local: `StackOK` asks for a ranking of the pcbs which
increases from parent to child and along the stack, so that a frame's children
are above all the frames (`Ranked`).  The ranking exists initially because no pcb
has a parent, a new child gets the rank of its parent plus one, and removing
links keeps any ranking.  `TreeOK` needs `IInv` because a pcb is freed only when
its list is empty and it has left its parent's.  `OnePlace` needs `WaitOK` (no
process runs while the processor waits, so an interrupt may dispatch one) and
lemma `DescriptorAvailable`: with one process running and not blocked, fewer than
`MAXPROC` semaphores have waiters, so `insertBlocked`, whose failure the callers
ignore, does not fail.  It is a counting argument: choosing from each nonempty
queue its head gives an injection into the other processes.

The first part of `NucleusProofs` states `OnePlace` for explicit arguments (`Placed`)
and has one lemma for each way a process moves: running to ready, running to blocked, blocked
to ready, ready to running, dead.  `ProcQTheorems` has the lemmas on sequences
that these rest on.

`NucleusCounts` builds on `IInv`, in six parts.

*`SoftBlockAccounting`* is inductive relative to `IInv`.  `SoftBlocked`, `SoftUnblocked`
and `SoftUnblockedAll` say what one process that blocks or wakes, or a whole queue
that a tick wakes, does to the number of processes on device semaphores; the last
one needs that a queue without duplicates has as many members as its length
(`QueueCardinality`, a bijection).  Where the code decrements by the look of a
semaphore (`wakes`) or of a pcb (`p_semAdd`), `OnePlace` is what makes the two agree.

*`SemValue`* needs in addition the hypothesis `ClockAlone`: no port has the index of
the clock.  Without it the theorem would be false, since the V of terminal 5's
receiver leaves the clock's semaphore at 1 and the next SYS7 returns at once; this is
the same fault of `TERMCNT` as in part 5.  A step changes one semaphore
(`OneSemaphore`), so the proof is a calculation for V, P, the tick and the kill.  It
uses `DescriptorAvailable` again: if `insertBlocked` could fail, the value would go
down and the queue would not grow.

*`StopReason`* follows from the other two counters: `SchedulerStop` shows it of the
state after `scheduler()` whenever the counters it is given are right, and every
other step either leaves the processor to the process that has it (`BusyStop`) or
leaves all that the property mentions alone.  A negative `sftBlkCnt`, for which
`scheduler()` would return to a caller that does not expect it, is excluded here for
good, so of the two ways to `machine = "lost"` only that of a freed pcb on the ready
queue is left.

*`WokenByOwnDevice`*, an action property, needs the invariant `AwaitOK`: a process that
named a port in SYS8 is blocked on the semaphore of that port.  It holds because the
caller waits for nothing yet and its `insertBlocked` does not fail
(`DescriptorAvailable` once more), and because whatever takes a process off a queue
clears both fields.  Then for each way to leave SYS8: a V of SYS3 is on a user
semaphore; a tick takes those of the clock's semaphore, which is no port's
(`ClockAlone`); a kill frees the pcb; and an interrupt takes one from the semaphore of
the port it serves, which is that of no other port (`IndexOfPort`) and, under `OneWay`,
is the port whose interrupt is pending (`ServesItself`).  Without `OneWay` or
`ClockAlone` the theorem would be false: the run `busy_receiver` and the configuration
`MCTerminal5` are the counterexamples.

*`TickWakesAll`*: under `ClockAlone` nothing but a tick takes a process alive from the
clock (`TickNext`).  V and P are of other semaphores or add to the queue (`ClockV`,
`ClockP`), and of those at the clock a kill takes away only its victim
(`ClockKillStep`).  `TickStep` then compares the queues before and after the tick.

*`CompletionWakes`* follows from `SemValue`: if a waiter of a device can be there
without showing in the value of the semaphore, the handler's test `*semAdd <= 0`
overlooks it, and `ValueShowsWaiter` says that it cannot.  `AcknowledgedBy` says that a
port is acknowledged only by the interrupt that serves it.

### The VM support

The assumptions are `SizeAssumption` (frames, pages and blocks are finite in number,
page numbers have different places in the page table, which is why 31 to 3FFFE are
excluded) and `StatusAssumption` (ready is one of the statuses a device ends with).
TLC checked `Inv`, and `DataInv` and `Pages` below, on the instance of the run `vm`
before they were proved.  The inductive invariant has three layers,

    Inv == ControlInv /\ SemInv /\ MemoryInv

*`ControlInv`* says what a process at a given label is about: which operation it has
given to the disk and for what (`OperationOK`), that it knows its page and its frame
when it needs them, and which processes the root has created (`RootControl`).

*`SemInv`* is mutual exclusion.  `Queues`: a negative semaphore has as many waiters as
it says, once each, and each of them is at a label where it waits for that
semaphore.  `Exclusion`: whoever is between the P and the V of `disk0sem`, or of
`swapPoolSem`, and is not on the queue, is alone, and if the semaphore is 1 there is
nobody.  A process that the disk has failed inside the pager belongs to the holders
for good (part 5, 4): it is what the invariant has to say in order to be one.
`RootCounts`: the root has taken no more units from `masterSem` than there are
processes past their V, hence `GracefulEnd`.

*`MemoryInv`* is about frames: only processes that run own any (`Owners`), each entry
of the TLB is that of the page table or absent, each valid entry names a frame whose
owner is that page, and no such frame is being filled by a fault of anybody
(`Mapping`); and the arm is where the operation under way wants it (`Arm`).
`SwapPoolOK` and `DmaSafe` follow: a process can only reach frames through its
entries, and the disk only uses the one frame that the holder of `swapPoolSem` fills.

`VmRefinement` adds what the frames, the disk and the tape *contain*, `DataInv`: what
has been copied while a process starts (`StartData`), that a page on its way out is in
nobody's page table, and after the transfer on the disk (`EvictData`), that a
page on its way in is in no frame and, after the transfer, in the frame (`FaultData`),
and that the table of the swap pool is exact, other than for the frame of a fault
(`TableExact`; without it a frame could be given away while a page table entry points
to it).  The refinement mapping `Contents` chooses where a page is; `Pages` says the
same case by case, without `CHOOSE`, and the proof looks at each action's effect on
`Pages`: all of them leave every page as it is (`Invisible`), but a `Write`, and `Exit`,
which is a step of the abstract module.

Both theorems assume `PrivateOnly`, that segment 3 is not among those programs use.
Without it they would be false: `MCVmSegment3` is the counterexample (part 5).

### The results

`MCResults` puts the three models side by side, and each step belongs to one of them
(`PartsStep`), so the invariant is the conjunction of three.

*SYS8* (`DevInv`).  Which processes mask is the constant `Masker`, any subset of them;
it may be empty, as it is for `tapeToDisk`, and then the first two theorems say nothing.
Of every process, `Operating` relates where it is, its semaphore and its device: it is
blocked with semaphore -1 and a device that is not ready, or it is not blocked and its
semaphore is 1 exactly if the device came first.  A process that masks is the running
one from the command to SYS8 (`Masked`), so for it the device never does come first:
the interrupt finds it blocked, and who is not blocked any more has the status in v0.
`Private` says that no status of such an operation is in another process's v0: the
interrupts that write to the process they interrupt are those of devices whose process
does not mask.  `OnlyOne`, who is blocked is neither running nor ready, keeps the two
cases of `receivers` apart.

*SYS6* (`CpuInv`).  The clock and every time are taken modulo `WIDTH`, so the argument
is about congruence: `Charge(p)` is what SYS6 would answer if nothing went round, and

    Charge(first.who) == first.cpu + ran + 2 * handled   (mod WIDTH)

is invariant.  `CpuLeave` shows it of the three ways in which a process loses the
processor, `Dispatched` of the one in which the next one gets it, `CpuResume` of an
interrupt, which adds its duration twice (part 5, `MCOvercharged`).  The differences
are smaller than `WIDTH` as long as the measurement takes less than a third of a turn of
the clock (`3 * SPAN < WIDTH` in `CpuAssumption`, where `WIDTH` is 2^32 in the code), so
congruent numbers are equal, and the second reading reports exactly
`ran + 2 * handled` (`InterruptsChargedTwice`).  Both properties follow from that.

*SYS10* (`TermInv`).  In the loop, `i` characters of this call are on the screen, in
order, and `status` is the index of the last one; at its end either all are, or
`status` is minus the status of the operation that failed.  `PrefixWritten` holds of
every text; for `ResultTellsFailure` the text may not be empty, since `status` then
still is whatever was on the stack (`MCWriteNothing`).

## 7. What is only model-checked, and what is not modelled

Every invariant, refinement and action property that a passing run checks is also a
theorem, some under the hypotheses that part 6 names.  Checked by TLC only: the liveness properties, since liveness under fairness is
beyond the proof system (`ReadyRuns`, `KillEnds`, `ClockWakes`, `DeviceWakes`,
`CallEnds`, `FaultEnds`, `TerminateEnds`).

Left out of the models:
- *Processor states.*  A handler copies the old area into `p_s` and loads it later;
  the models keep of this only who resumes, where, and v0.
- *The TLB's replacement.*  An entry is never dropped by chance; every access that
  the model allows with a stale entry is thus possible, and a refill changes nothing
  that a property mentions.
- *Address arithmetic*: the segment table, the page table of the kernel's own segment,
  the placement of stacks and frames in memory, the addresses of device registers.
- *An early completion of a tape.*  In `VmSupport` SYS8 for a tape returns any of the
  `TapeStatus`; that it may return a stale v0 instead is what `MCEarlyDevice` shows.
- *A time scale other than 1.*  `STCK` divides the clock by `TIMESCALE` (`const.h:204`);
  with another one it would go round before a `cpu_t` does, and the differences of
  readings that part 6 is about would be wrong at that point.
- *Ports whose semaphore lies outside `semDevArray`* (terminals 6 and 7): what the V
  and P then change is the linker's choice.
- *What the nucleus does when phase 3 is stuck.*  After finding 4 or 5 every process
  waits on a semaphore of its own, and the nucleus panics, as `StopReason` says.
- `p1test.c` and the tests of `p2test.c`, other than p2's measurement of its time: they
  are used as statements of what the code should do.
- The user programs under `phase3/testers`: a process of the models may do anything.
