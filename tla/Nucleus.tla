------------------------------- MODULE Nucleus -------------------------------
(***************************************************************************)
(* The nucleus of the Kaya kernel (phase2/*.c over phase1/pcb.c, asl.c):   *)
(* the scheduler, SYS1-SYS8, pass-up-or-die and the interrupt handler,     *)
(* together with the devices that raise the interrupts.                    *)
(*                                                                         *)
(* The handlers run with interrupts masked, so each one is a single step.  *)
(* The exception is terminateprocess: it recurses over the process tree,   *)
(* and a program trap inside it abandons the recursion half way; it is     *)
(* modelled frame by frame, with its recursion stack in `kstack`.          *)
(***************************************************************************)
EXTENDS Integers, Sequences, FiniteSets, ProcQ

CONSTANTS
  Proc,      \* the pcbs of pcbArr; MAXPROC is their number
  USem,      \* semaphores of the processes' own (SYS3/SYS4 addresses)
  Port,      \* device ports in use, <<line, device, 1 for a receiver>>
  TrapType,  \* the exception types a trap vector can be given for
  SemBound   \* bound of the model: no semaphore leaves -SemBound..SemBound

DISKINT == 3
TERMINT == 7
DEVINTOFFSET == 3
DEVCNT == 8
TERMCNT == 3
DEVICECNT == 49

(* The index in semDevArray of the semaphore of a port; waitio and         *)
(* ioTrapHandler use the same formula.                                     *)
semIndex(r) ==
  IF r[1] # TERMINT
    THEN DEVCNT * (r[1] - DEVINTOFFSET) + r[2]
    ELSE DEVCNT * (r[1] - DEVINTOFFSET) + TERMCNT * r[2] + r[3]

Clock == DEVICECNT - 1                  \* the pseudo-clock semaphore
DevSem == {semIndex(r) : r \in Port} \cup {Clock}
Sem == USem \cup DevSem

MAXPROC == Cardinality(Proc)

ASSUME ProcAssumption == IsFiniteSet(Proc) /\ Proc # {} /\ NULL \notin Proc
ASSUME PortAssumption ==
  /\ \A r \in Port : /\ r \in (DISKINT..TERMINT) \X (0..7) \X {0, 1}
                     /\ r[1] # TERMINT => r[3] = 0
                     /\ semIndex(r) < DEVICECNT
  /\ NULL \notin Port
ASSUME SemAssumption == NULL \notin Sem /\ USem \cap DevSem = {}
ASSUME TrapAssumption == "PROGTRAP" \in TrapType
ASSUME BoundAssumption == SemBound \in Nat

VARIABLES
  procCnt,      \* number of live processes
  sftBlkCnt,    \* number of processes waiting for a device or the clock
  readyQue,     \* the ready queue
  currentProc,  \* the running process, or NULL
  waiting,      \* the scheduler executed WAIT
  semV,         \* the value of every semaphore
  semQ,         \* the queue of its ASL descriptor, <<>> when it has none
  p_semAdd,     \* the semaphore a pcb is blocked on
  p_prnt,       \* the parent of a pcb
  kids,         \* the child list of a pcb (p_child, then p_sib)
  p_new,        \* the trap vectors a pcb has specified (p_newTlb, ...)
  pcbFree,      \* the pcbs on the free list
  devReg,       \* per port: READY, BUSY, or DONE with an interrupt pending
  machine,      \* live, halt, panic, or lost: the kernel's data structures
                \* or its stack no longer are what this model says
  kstack,       \* frames of terminateprocess being executed, outermost first
  waitsOn       \* auxiliary: the port a process asked for with SYS8

queues == <<readyQue, semQ, semV, p_semAdd, waitsOn>>
tree == <<p_prnt, kids, pcbFree>>
cpu == <<readyQue, currentProc, waiting, machine>>
vars == <<procCnt, sftBlkCnt, readyQue, currentProc, waiting, semV, semQ,
          p_semAdd, p_prnt, kids, p_new, pcbFree, devReg, machine, kstack,
          waitsOn>>

(* A process is executing outside the kernel. *)
Running ==
  machine = "live" /\ kstack = <<>> /\ currentProc # NULL /\ ~waiting

(* The kernel is not executing, so an interrupt can be taken. *)
Interruptible == machine = "live" /\ kstack = <<>>

-----------------------------------------------------------------------------
(* The scheduler.                                                          *)

(* Mutant: HALT is tested after PANIC. *)
noReadyMutant(cnt, sft) ==
  IF sft = 0 THEN "panic" ELSE IF sft > 0 THEN "live" ELSE "lost"

(* What becomes of the machine when no process is ready.  With a negative  *)
(* count scheduler() would return to a caller that does not expect it.     *)
noReady(cnt, sft) ==
  CASE cnt = 0              -> "halt"
    [] cnt # 0 /\ sft = 0   -> "panic"
    [] cnt # 0 /\ sft > 0   -> "live"
    [] cnt # 0 /\ sft < 0   -> "lost"

(* scheduler(), entered with ready queue rq and the counters cnt and sft.  *)
(* All its callers have set currentProc to NULL.                           *)
scheduler(rq, cnt, sft) ==
  /\ currentProc' = headProcQ(rq)
  /\ readyQue' = removeProcQ(rq)
  /\ machine' = IF emptyProcQ(rq) THEN noReady(cnt, sft) ELSE machine
  /\ waiting' = (emptyProcQ(rq) /\ machine' = "live")

-----------------------------------------------------------------------------
(* Blocking and waking.                                                    *)

(* insertBlocked fails when the semaphore has no descriptor and none of    *)
(* the MAXPROC descriptors is free; its callers ignore that.  (Of the      *)
(* MAXPROC + 2 in semdArr two are the dummies of the ASL.  The mutant      *)
(* forgets those.)                                                         *)
canBlockMutant(s) ==
  semQ[s] # <<>> \/ Cardinality({t \in Sem : semQ[t] # <<>>}) < MAXPROC - 2

canBlock(s) ==
  semQ[s] # <<>> \/ Cardinality({t \in Sem : semQ[t] # <<>>}) < MAXPROC

insertBlocked(s, p) ==
  IF canBlock(s)
    THEN /\ semQ' = [semQ EXCEPT ![s] = insertProcQ(@, p)]
         /\ p_semAdd' = [p_semAdd EXCEPT ![p] = s]
    ELSE UNCHANGED <<semQ, p_semAdd>>

(* removeBlocked(s), which takes the head of the queue of s, if any. *)
removeBlocked(s) ==
  IF semQ[s] = <<>>
    THEN UNCHANGED <<semQ, p_semAdd, waitsOn>>
    ELSE /\ semQ' = [semQ EXCEPT ![s] = removeProcQ(@)]
         /\ p_semAdd' = [p_semAdd EXCEPT ![headProcQ(semQ[s])] = NULL]
         /\ waitsOn' = [waitsOn EXCEPT ![headProcQ(semQ[s])] = NULL]

(* The ready queue after a V that leaves semaphore s at value v: the woken *)
(* process, if any, goes to the tail.                                      *)
wakesMutant(s, v) == v < 0 /\ semQ[s] # <<>>

wakes(s, v) == v <= 0 /\ semQ[s] # <<>>

readyAfterV(s, v) ==
  IF wakes(s, v) THEN insertProcQ(readyQue, headProcQ(semQ[s])) ELSE readyQue

unblock(s, v) ==
  IF wakes(s, v) THEN removeBlocked(s)
                 ELSE UNCHANGED <<semQ, p_semAdd, waitsOn>>

-----------------------------------------------------------------------------
(* System calls of the running process.                                    *)

(* A process dies: sysCallHandler, pUoDHelper, spectrapvec and waitio call *)
(* terminateprocess(currentProc) and then the scheduler.                   *)
startKill ==
  /\ kstack' = <<currentProc>>
  /\ UNCHANGED <<procCnt, sftBlkCnt, cpu, semV, semQ, p_semAdd, tree, p_new,
                 devReg, waitsOn>>

insertChild(prnt, p) ==
  /\ kids' = [kids EXCEPT ![prnt] = <<p>> \o @]
  /\ p_prnt' = [p_prnt EXCEPT ![p] = prnt]

(* SYS1.  A pcb of the free list, with every field cleared, becomes a      *)
(* child of the caller and the last of the ready queue.                    *)
CreateProcess ==
  /\ Running
  /\ IF pcbFree = {} THEN UNCHANGED vars ELSE \E p \in pcbFree :
       /\ pcbFree' = pcbFree \ {p}
       /\ insertChild(currentProc, p)
       /\ readyQue' = insertProcQ(readyQue, p)
       /\ procCnt' = procCnt + 1
       /\ UNCHANGED <<sftBlkCnt, currentProc, waiting, semV, semQ, p_semAdd,
                      p_new, devReg, machine, kstack, waitsOn>>

(* SYS2. *)
TerminateProcess == Running /\ startKill

(* SYS3. *)
V(s) ==
  /\ Running
  /\ semV[s] < SemBound
  /\ semV' = [semV EXCEPT ![s] = @ + 1]
  /\ readyQue' = readyAfterV(s, semV[s] + 1)
  /\ unblock(s, semV[s] + 1)
  /\ UNCHANGED <<procCnt, sftBlkCnt, currentProc, waiting, tree, p_new,
                 devReg, machine, kstack>>

(* P, waitforclock and waitio differ in what they count: a process blocked *)
(* on a device semaphore or on the clock is soft blocked.  (The mutant     *)
(* forgets the clock.)                                                     *)
softBlockMutant(s) ==
  IF s \in DevSem \ {Clock} THEN sftBlkCnt + 1 ELSE sftBlkCnt

softBlock(s) == IF s \in DevSem THEN sftBlkCnt + 1 ELSE sftBlkCnt

(* The P operation of SYS4, SYS7 and SYS8 on semaphore s. *)
wait(s) ==
  /\ Running
  /\ semV[s] > -SemBound
  /\ semV' = [semV EXCEPT ![s] = @ - 1]
  /\ IF semV[s] - 1 < 0
       THEN /\ insertBlocked(s, currentProc)
            /\ sftBlkCnt' = softBlock(s)
            /\ scheduler(readyQue, procCnt, softBlock(s))
       ELSE UNCHANGED <<semQ, p_semAdd, sftBlkCnt, cpu>>
  /\ UNCHANGED <<procCnt, tree, p_new, devReg, kstack>>

(* SYS4. *)
P(s) == wait(s) /\ UNCHANGED waitsOn

(* SYS7. *)
WaitForClock == wait(Clock) /\ UNCHANGED waitsOn

(* SYS8.  An interrupt line below the devices' kills the caller. *)
WaitIO(r) ==
  /\ wait(semIndex(r))
  /\ waitsOn' = IF semV[semIndex(r)] - 1 < 0
                  THEN [waitsOn EXCEPT ![currentProc] = r] ELSE waitsOn

WaitIOBadLine == Running /\ startKill

(* SYS5.  A vector can be given once; a second one, or an unknown type,    *)
(* kills the caller.                                                       *)
SpecTrapVec(type) ==
  /\ Running
  /\ IF type \in TrapType /\ type \notin p_new[currentProc]
       THEN /\ p_new' = [p_new EXCEPT ![currentProc] = @ \cup {type}]
            /\ UNCHANGED <<procCnt, sftBlkCnt, cpu, semV, semQ, p_semAdd,
                           tree, devReg, kstack, waitsOn>>
       ELSE startKill

(* A program trap, a TLB trap, a SYS of 9 or more, or a privileged SYS     *)
(* executed in user mode: the process resumes in its own handler, which    *)
(* changes nothing here, or dies.                                          *)
PassUpOrDie(type) ==
  /\ Running
  /\ IF type \in p_new[currentProc] THEN UNCHANGED vars ELSE startKill

-----------------------------------------------------------------------------
(* terminateprocess(p), frame by frame; p is the last element of kstack.   *)

top == Last(kstack)

(* while (!emptyChild(p)) terminateprocess(removeChild(p)) *)
KillChild ==
  /\ machine = "live" /\ kstack # <<>>
  /\ kids[top] # <<>>
  /\ kids' = [kids EXCEPT ![top] = Tail(@)]
  /\ p_prnt' = [p_prnt EXCEPT ![Head(kids[top])] = NULL]
  /\ kstack' = Append(kstack, Head(kids[top]))
  /\ UNCHANGED <<procCnt, sftBlkCnt, cpu, semV, semQ, p_semAdd, p_new,
                 pcbFree, devReg, waitsOn>>

(* The frame of p has no child left to kill. *)
Childless == machine = "live" /\ kstack # <<>> /\ kids[top] = <<>>

(* The end of every frame: procCnt-- and freePcb(p), which clears p.  (The *)
(* mutant does not count the dead process.)                                *)
buryMutant ==
  /\ procCnt' = procCnt
  /\ pcbFree' = pcbFree \cup {top}
  /\ p_new' = [p_new EXCEPT ![top] = {}]
  /\ waitsOn' = [waitsOn EXCEPT ![top] = NULL]

bury ==
  /\ procCnt' = procCnt - 1
  /\ pcbFree' = pcbFree \cup {top}
  /\ p_new' = [p_new EXCEPT ![top] = {}]
  /\ waitsOn' = [waitsOn EXCEPT ![top] = NULL]

(* The position of p in the child list of its parent, for outChild. *)
sibAt(p) == CHOOSE i \in 1..Len(kids[p_prnt[p]]) : kids[p_prnt[p]][i] = p

(* Mutant: p stays on the list of its parent. *)
outChildMutant(p) == UNCHANGED kids /\ p_prnt' = [p_prnt EXCEPT ![p] = NULL]

outChild(p) ==
  IF p_prnt[p] = NULL
    THEN UNCHANGED <<kids, p_prnt>>
    ELSE /\ kids' = [kids EXCEPT ![p_prnt[p]] = RemoveAt(@, sibAt(p))]
         /\ p_prnt' = [p_prnt EXCEPT ![p] = NULL]

(* The outermost frame, of the running process, ends and the scheduler     *)
(* follows.                                                                *)
KillCurrent ==
  /\ Childless
  /\ top = currentProc
  /\ outChild(top)
  /\ bury
  /\ kstack' = <<>>
  /\ scheduler(readyQue, procCnt - 1, sftBlkCnt)
  /\ UNCHANGED <<sftBlkCnt, semV, semQ, p_semAdd, devReg>>

(* A descendant: it is looked for on the ready queue, and if outProcQ does *)
(* not find it there, on the queue of its semaphore.                       *)
Descendant == Childless /\ top # currentProc

KillReady ==
  /\ Descendant
  /\ outFinds(readyQue, top)
  /\ readyQue' = outProcQ(readyQue, top)
  /\ bury
  /\ kstack' = Front(kstack)
  /\ UNCHANGED <<sftBlkCnt, currentProc, waiting, semV, semQ, p_semAdd,
                 p_prnt, kids, devReg, machine>>

(* outBlocked sees no semaphore in p, or one without a descriptor: p is    *)
(* freed, and if it was on the ready queue it still is.                    *)
NotBlocked(p) == IF p_semAdd[p] = NULL THEN TRUE ELSE semQ[p_semAdd[p]] = <<>>

KillUnfound ==
  /\ Descendant
  /\ ~outFinds(readyQue, top)
  /\ NotBlocked(top)
  /\ p_semAdd' = [p_semAdd EXCEPT ![top] = NULL]
  /\ machine' = IF InQ(readyQue, top) THEN "lost" ELSE machine
  /\ bury
  /\ kstack' = Front(kstack)
  /\ UNCHANGED <<sftBlkCnt, readyQue, currentProc, waiting, semV, semQ,
                 p_prnt, kids, devReg>>

(* The semaphore of a killed process gets its unit back, unless it is a    *)
(* device semaphore, which the interrupt will increment.  (The mutant      *)
(* leaves that to no one.)                                                 *)
giveBackMutant(s) == UNCHANGED semV

giveBack(s) ==
  semV' = IF s \in DevSem THEN semV ELSE [semV EXCEPT ![s] = @ + 1]

KillBlocked ==
  /\ Descendant
  /\ ~outFinds(readyQue, top)
  /\ ~NotBlocked(top)
  /\ LET s == p_semAdd[top] IN
       /\ outFinds(semQ[s], top)
       /\ semQ' = [semQ EXCEPT ![s] = outProcQ(@, top)]
       /\ p_semAdd' = [p_semAdd EXCEPT ![top] = NULL]
       /\ sftBlkCnt' = IF s \in DevSem THEN sftBlkCnt - 1 ELSE sftBlkCnt
       /\ giveBack(s)
  /\ bury
  /\ kstack' = Front(kstack)
  /\ UNCHANGED <<readyQue, currentProc, waiting, p_prnt, kids, devReg, machine>>

(* outProcQ does not find p on the queue of its semaphore, and outBlocked  *)
(* stores through the NULL it got: NULL is an odd address at the end of    *)
(* memory, so the kernel takes a program trap.  The handler passes it up   *)
(* to the running process or kills that process from the start.  (The      *)
(* mutant returns to the instruction that trapped.)                        *)
afterTrapMutant == IF "PROGTRAP" \in p_new[currentProc] THEN <<>> ELSE kstack

afterTrap ==
  IF "PROGTRAP" \in p_new[currentProc] THEN <<>> ELSE <<currentProc>>

KillTrap ==
  /\ Descendant
  /\ ~outFinds(readyQue, top)
  /\ ~NotBlocked(top)
  /\ ~outFinds(semQ[p_semAdd[top]], top)
  /\ kstack' = afterTrap
  /\ UNCHANGED <<procCnt, sftBlkCnt, cpu, semV, semQ, p_semAdd, tree, p_new,
                 devReg, waitsOn>>

KillStep ==
  KillChild \/ KillCurrent \/ KillReady \/ KillUnfound \/ KillBlocked \/ KillTrap

-----------------------------------------------------------------------------
(* Interrupts.                                                             *)

(* The quantum is over: the running process goes to the tail.  (The mutant *)
(* forgets that there may be none, when the processor waits.)              *)
preemptedMutant == insertProcQ(readyQue, currentProc)

preempted ==
  IF currentProc = NULL THEN readyQue ELSE insertProcQ(readyQue, currentProc)

LocalTimer ==
  /\ Interruptible
  /\ scheduler(preempted, procCnt, sftBlkCnt)
  /\ UNCHANGED <<procCnt, sftBlkCnt, semV, semQ, p_semAdd, tree, p_new, devReg,
                 kstack, waitsOn>>

(* The end of the other interrupts: the interrupted process goes on,       *)
(* unless the processor was waiting.                                       *)
resume(rq, sft) ==
  IF waiting THEN scheduler(rq, procCnt, sft)
             ELSE readyQue' = rq /\ UNCHANGED <<currentProc, waiting, machine>>

(* The pseudo-clock ticks: all who wait for it become ready.  (The mutant  *)
(* performs a single V.)                                                   *)
IntervalTimerMutant ==
  /\ Interruptible
  /\ semV' = [semV EXCEPT ![Clock] = 0]
  /\ removeBlocked(Clock)
  /\ LET sft == IF semQ[Clock] = <<>> THEN sftBlkCnt ELSE sftBlkCnt - 1 IN
       /\ sftBlkCnt' = sft
       /\ resume(readyAfterV(Clock, 0), sft)
  /\ UNCHANGED <<procCnt, tree, p_new, devReg, kstack>>

IntervalTimer ==
  /\ Interruptible
  /\ semQ' = [semQ EXCEPT ![Clock] = <<>>]
  /\ semV' = [semV EXCEPT ![Clock] = 0]
  /\ p_semAdd' = [p \in Proc |->
                    IF InQ(semQ[Clock], p) THEN NULL ELSE p_semAdd[p]]
  /\ waitsOn' = [p \in Proc |->
                   IF InQ(semQ[Clock], p) THEN NULL ELSE waitsOn[p]]
  /\ sftBlkCnt' = sftBlkCnt - Len(semQ[Clock])
  /\ resume(readyQue \o semQ[Clock], sftBlkCnt - Len(semQ[Clock]))
  /\ UNCHANGED <<procCnt, tree, p_new, devReg, kstack>>

Pending == {r \in Port : devReg[r] = "DONE"}

(* findLineNo and findDevNo: the device of r is the lowest one of the      *)
(* lowest line with a pending interrupt.                                   *)
(* (The mutant looks at the line only.)                                    *)
ServicedMutant(r) == \E q \in Pending : q[1] = r[1]

Serviced(r) ==
  /\ r \in Pending
  /\ \A q \in Pending : r[1] < q[1] \/ (r[1] = q[1] /\ r[2] <= q[2])

(* Of a terminal's two sub-devices the one to service is chosen by the     *)
(* status of the receiver, READY or not.                                   *)
receiverReady(dev) ==
  LET rcv == <<TERMINT, dev, 1>> IN
  IF rcv \in Port THEN devReg[rcv] = "READY" ELSE TRUE

servedPort(r) ==
  IF r[1] # TERMINT THEN r
  ELSE <<TERMINT, r[2], IF receiverReady(r[2]) THEN 0 ELSE 1>>

(* An acknowledge has no effect on a sub-device that is still busy. *)
acknowledge(r) ==
  devReg' = [devReg EXCEPT ![r] = IF @ = "DONE" THEN "READY" ELSE @]

(* The V of the handler on the semaphore of the port it serves.  (Only a   *)
(* terminal whose interrupt is never acknowledged reaches SemBound here.)  *)
DeviceInterrupt(r) ==
  /\ Interruptible
  /\ Serviced(r)
  /\ LET h == servedPort(r)
         s == semIndex(h)
         v == semV[s] + 1
         sft == IF wakes(s, v) THEN sftBlkCnt - 1 ELSE sftBlkCnt
     IN /\ v <= SemBound
        /\ acknowledge(h)
        /\ semV' = [semV EXCEPT ![s] = v]
        /\ unblock(s, v)
        /\ sftBlkCnt' = sft
        /\ resume(readyAfterV(s, v), sft)
  /\ UNCHANGED <<procCnt, tree, p_new, kstack>>

-----------------------------------------------------------------------------
(* The devices.  A process starts an operation by writing a command        *)
(* register; some time later the device raises its interrupt.  The bound   *)
(* leaves room for the V of that interrupt.                                *)

StartIO(r) ==
  /\ Running
  /\ devReg[r] = "READY"
  /\ semV[semIndex(r)] < SemBound
  /\ devReg' = [devReg EXCEPT ![r] = "BUSY"]
  /\ UNCHANGED <<procCnt, sftBlkCnt, cpu, semV, semQ, p_semAdd, tree, p_new,
                 kstack, waitsOn>>

DeviceCompletes(r) ==
  /\ machine = "live"
  /\ devReg[r] = "BUSY"
  /\ devReg' = [devReg EXCEPT ![r] = "DONE"]
  /\ UNCHANGED <<procCnt, sftBlkCnt, cpu, semV, semQ, p_semAdd, tree, p_new,
                 kstack, waitsOn>>

(* HALT and PANIC stop the machine; nothing is said once it is lost. *)
Stopped == machine # "live" /\ UNCHANGED vars

-----------------------------------------------------------------------------
(* The state main() leaves when its scheduler() runs the first process.    *)
Init ==
  \E p \in Proc :
    /\ currentProc = p
    /\ pcbFree = Proc \ {p}
    /\ procCnt = 1
    /\ sftBlkCnt = 0
    /\ readyQue = <<>>
    /\ waiting = FALSE
    /\ semV \in {f \in [Sem -> 0..SemBound] : \A s \in DevSem : f[s] = 0}
    /\ semQ = [s \in Sem |-> <<>>]
    /\ p_semAdd = [q \in Proc |-> NULL]
    /\ p_prnt = [q \in Proc |-> NULL]
    /\ kids = [q \in Proc |-> <<>>]
    /\ p_new = [q \in Proc |-> {}]
    /\ devReg = [r \in Port |-> "READY"]
    /\ machine = "live"
    /\ kstack = <<>>
    /\ waitsOn = [q \in Proc |-> NULL]

SysCall ==
  \/ CreateProcess
  \/ TerminateProcess
  \/ \E s \in USem : V(s) \/ P(s)
  \/ WaitForClock
  \/ \E r \in Port : WaitIO(r)
  \/ WaitIOBadLine
  \/ \E type \in TrapType : SpecTrapVec(type) \/ PassUpOrDie(type)

Interrupt ==
  LocalTimer \/ IntervalTimer \/ \E r \in Port : DeviceInterrupt(r)

Device == \E r \in Port : StartIO(r) \/ DeviceCompletes(r)

Next == SysCall \/ KillStep \/ Interrupt \/ Device \/ Stopped

Spec == Init /\ [][Next]_vars

(* The kernel's own code runs to its end.  The interrupts are strongly     *)
(* fair: the timers run all the time and a pending interrupt stays pending *)
(* until it is taken, so one that is masked again and again by the kernel  *)
(* is still taken.  Nothing is assumed of what the processes call, or of   *)
(* devices completing.                                                     *)
Fairness ==
  /\ WF_vars(KillStep)
  /\ SF_vars(LocalTimer)
  /\ SF_vars(IntervalTimer)
  /\ \A r \in Port : SF_vars(DeviceInterrupt(r))

FairSpec == Spec /\ Fairness

-----------------------------------------------------------------------------
(* Properties.                                                             *)

TypeOK ==
  /\ procCnt \in Int
  /\ sftBlkCnt \in Int
  /\ readyQue \in Seq(Proc)
  /\ currentProc \in Proc \cup {NULL}
  /\ waiting \in BOOLEAN
  /\ semV \in [Sem -> Int]
  /\ semQ \in [Sem -> Seq(Proc)]
  /\ p_semAdd \in [Proc -> Sem \cup {NULL}]
  /\ p_prnt \in [Proc -> Proc \cup {NULL}]
  /\ kids \in [Proc -> Seq(Proc)]
  /\ p_new \in [Proc -> SUBSET TrapType]
  /\ pcbFree \in SUBSET Proc
  /\ devReg \in [Port -> {"READY", "BUSY", "DONE"}]
  /\ machine \in {"live", "halt", "panic", "lost"}
  /\ kstack \in Seq(Proc)
  /\ kstack # <<>> => currentProc # NULL /\ kstack[1] = currentProc
  /\ waitsOn \in [Proc -> Port \cup {NULL}]

(* procCnt, on which the scheduler decides to HALT, is the number of pcbs  *)
(* in use: also in the middle of a recursive kill, and after a kill that   *)
(* was abandoned half way.                                                 *)
ProcAccounting == procCnt = Cardinality(Proc \ pcbFree)

(* sftBlkCnt, on which the scheduler decides between WAIT and PANIC,       *)
(* counts the processes blocked on a device or on the clock, whichever of  *)
(* SYS7, SYS8, the interrupts and terminateprocess moved them.             *)
SoftBlockAccounting ==
  sftBlkCnt = Cardinality({p \in Proc : p_semAdd[p] \in DevSem})

(* A pcb in use is in exactly one place: running, on the ready queue, or   *)
(* on the queue of the one semaphore its p_semAdd names.  A free pcb is on *)
(* no queue.                                                               *)
OnePlace ==
  machine # "lost" =>
    /\ NoDup(readyQue) /\ \A s \in Sem : NoDup(semQ[s])
    /\ \A p \in Proc, s \in Sem : InQ(semQ[s], p) <=> p_semAdd[p] = s
    /\ \A p \in pcbFree :
         p # currentProc /\ ~InQ(readyQue, p) /\ p_semAdd[p] = NULL
    /\ \A p \in Proc \ pcbFree :
         /\ p = currentProc => ~InQ(readyQue, p) /\ p_semAdd[p] = NULL
         /\ InQ(readyQue, p) => p_semAdd[p] = NULL
         /\ p = currentProc \/ InQ(readyQue, p) \/ p_semAdd[p] # NULL

Deficit(s) == IF semV[s] < 0 THEN -semV[s] ELSE 0

(* A negative user semaphore tells how many processes wait on it, also     *)
(* after waiting processes were killed; a device semaphore may claim more  *)
(* waiters than it has, never fewer; the clock never has a tick to spare,  *)
(* so SYS7 always blocks.                                                  *)
SemValue ==
  /\ \A s \in USem : Len(semQ[s]) = Deficit(s)
  /\ \A s \in DevSem : Len(semQ[s]) <= Deficit(s)
  /\ semV[Clock] <= 0

(* The machine halts only when no process is left, panics only when every  *)
(* process left waits for another one, and waits only when nothing can run *)
(* and some process is blocked on a device or on the clock.  (Whether that *)
(* process had started an operation is its own affair.)                    *)
StopReason ==
  /\ machine = "halt" => pcbFree = Proc
  /\ machine = "panic" => /\ pcbFree # Proc
                          /\ \A p \in Proc \ pcbFree : p_semAdd[p] \in USem
  /\ waiting => /\ readyQue = <<>> /\ currentProc = NULL
                /\ \E p \in Proc : p_semAdd[p] \in DevSem
  /\ machine = "live" /\ ~waiting => currentProc # NULL

(* Child lists and parent pointers agree, and only pcbs in use are in the  *)
(* tree.                                                                   *)
TreeOK ==
  /\ \A p, q \in Proc : InQ(kids[q], p) <=> p_prnt[p] = q
  /\ \A q \in Proc : NoDup(kids[q])
  /\ \A p \in pcbFree : p_prnt[p] = NULL /\ kids[p] = <<>>

(* exceptions.c:150-151 and interrupts.c:220-231: an interrupt wakes a     *)
(* process from SYS8 only if the operation of the port it named is done.   *)
WokenByOwnDevice ==
  [][\A p \in Proc :
       waitsOn[p] # NULL /\ waitsOn'[p] = NULL /\ p \notin pcbFree'
         => devReg[waitsOn[p]] = "DONE"]_vars

(* SYS2 kills the caller and everything below it, so at most one process,  *)
(* the first one, has no parent.                                           *)
NoOrphans ==
  Interruptible =>
    \A p, q \in Proc \ pcbFree : p_prnt[p] = NULL /\ p_prnt[q] = NULL => p = q

(* pcb.c:103-105: outProcQ removes a pcb located anywhere in the queue, so *)
(* that a pcb which is freed is no longer on the ready queue.              *)
NoFreedPcbQueued == \A p \in pcbFree : ~InQ(readyQue, p)

(* Round robin starves no one: a ready process runs, or is killed.         *)
ReadyRuns ==
  \A p \in Proc :
    InQ(readyQue, p) ~> (machine = "lost" \/ ~InQ(readyQue, p))

(* Who leaves the queue of the clock. *)
Ticked(p) == InQ(semQ[Clock], p) /\ ~InQ(semQ'[Clock], p)

(* interrupts.c:131-144: SYS7 ends for all who wait at the same tick.  If  *)
(* one of them leaves the clock alive then none is left behind, whether    *)
(* others came or were killed since the last tick: all are ready, in the   *)
(* order in which they came and behind those who were ready, other than    *)
(* the one that takes the processor if nobody had it.                      *)
TickWakesAll ==
  [][(\E p \in Proc : Ticked(p) /\ p \notin pcbFree') =>
       /\ semQ'[Clock] = <<>>
       /\ readyQue \o semQ[Clock] =
            (IF currentProc' = currentProc THEN <<>> ELSE <<currentProc'>>)
              \o readyQue']_vars

(* SYS7 ends: while a process waits for the clock the machine goes on, and *)
(* a tick comes that leaves nobody waiting.                                *)
ClockWakes ==
  \A p \in Proc :
    InQ(semQ[Clock], p) ~> (machine = "lost" \/ semQ[Clock] = <<>>)

(* interrupts.c:217-227: the interrupt of a completed operation takes the  *)
(* first of those who wait for that device off its queue and no other, and *)
(* makes it ready, however far others, alive or killed since, have driven  *)
(* the semaphore down: its value never hides a waiter from the V.          *)
CompletionWakes ==
  [][\A r \in Port :
       LET q == semQ[semIndex(r)] IN
       devReg[r] = "DONE" /\ devReg'[r] = "READY" /\ q # <<>> =>
         /\ semQ'[semIndex(r)] = Tail(q)
         /\ currentProc' = Head(q) \/ InQ(readyQue', Head(q))]_vars

(* SYS8 ends once the operation is done: no completion of a device finds   *)
(* its first waiter and leaves it blocked.                                 *)
DeviceWakes ==
  \A p \in Proc, r \in Port :
    devReg[r] = "DONE" /\ headProcQ(semQ[semIndex(r)]) = p
      ~> (machine = "lost" \/ ~InQ(semQ[semIndex(r)], p))

(* terminateprocess ends, although a trap in it starts it again.           *)
KillEnds == kstack # <<>> ~> (machine = "lost" \/ kstack = <<>>)

=============================================================================
