----------------------------- MODULE DeviceStatus -----------------------------
(***************************************************************************)
(* How the status of a device reaches the process that operates it: SYS8   *)
(* (waitio of exceptions.c) and the end of the device branch of            *)
(* ioTrapHandler (interrupts.c), down to register v0.  Every process has a *)
(* device of its own, and alternates between a computation that uses v0    *)
(* and an operation.  Some mask interrupts from the command to the end of  *)
(* SYS8, as diskIO and writeToTerminal do; the others do not, as           *)
(* tapeToDisk and print() of p2test.c.                                     *)
(***************************************************************************)
EXTENDS Integers, Sequences, ProcQ

CONSTANTS
  Proc,      \* the processes, and their devices
  Masking,   \* those that mask interrupts
  Status     \* the statuses with which an operation can end

(* What the instances give the constants. *)
StatusAssumption ==
  /\ Masking \subseteq Proc /\ NULL \notin Proc
  /\ Proc # {} /\ IsFiniteSet(Proc)

VARIABLES
  pc,           \* where each process is
  v0,           \* its register v0: its own value, or the status of a device
  currentProc,  \* the running process, NULL when the processor waits
  readyQue,     \* the ready queue
  semV,         \* the device semaphores
  blocked,      \* the processes blocked on theirs
  device,       \* READY, BUSY, or DONE with an interrupt pending
  d_status      \* the status register of a device

vars == <<pc, v0, currentProc, readyQue, semV, blocked, device, d_status>>

Own == <<"own">>
StatusOf(p) == <<p, d_status[p]>>

Init ==
  /\ pc = [p \in Proc |-> "compute"]
  /\ v0 = [p \in Proc |-> Own]
  /\ currentProc = NULL
  /\ readyQue \in {q \in [1..Cardinality(Proc) -> Proc] : NoDup(q)}
  /\ semV = [p \in Proc |-> 0]
  /\ blocked = {}
  /\ device = [p \in Proc |-> "READY"]
  /\ d_status = [p \in Proc |-> 0]

scheduler(rq) == currentProc' = headProcQ(rq) /\ readyQue' = removeProcQ(rq)

-----------------------------------------------------------------------------
(* The running process.                                                    *)

At(p, label) == currentProc = p /\ pc[p] = label
Goto(p, label) == pc' = [pc EXCEPT ![p] = label]
kernel == <<currentProc, readyQue, semV, blocked>>

(* It computes a value in v0, and then uses it. *)
Compute(p) ==
  /\ At(p, "compute")
  /\ Goto(p, "use")
  /\ v0' = [v0 EXCEPT ![p] = Own]
  /\ UNCHANGED <<kernel, device, d_status>>

Use(p) ==
  /\ At(p, "use")
  /\ Goto(p, "command")
  /\ UNCHANGED <<v0, kernel, device, d_status>>

(* It masks interrupts, if it does, and writes the command register. *)
Command(p) ==
  /\ At(p, "command")
  /\ Goto(p, "sys8")
  /\ device' = [device EXCEPT ![p] = "BUSY"]
  /\ UNCHANGED <<v0, kernel, d_status>>

(* SYS8 returns at once when the interrupt came first.  (The mutant tests  *)
(* the semaphore before it takes one from it.)                             *)
WaitIOMutant(p) ==
  /\ At(p, "sys8")
  /\ Goto(p, "check")
  /\ semV' = [semV EXCEPT ![p] = @ - 1]
  /\ IF semV[p] < 0
       THEN blocked' = blocked \cup {p} /\ scheduler(readyQue)
       ELSE UNCHANGED <<blocked, currentProc, readyQue>>
  /\ UNCHANGED <<v0, device, d_status>>

WaitIO(p) ==
  /\ At(p, "sys8")
  /\ Goto(p, "check")
  /\ semV' = [semV EXCEPT ![p] = @ - 1]
  /\ IF semV[p] - 1 < 0
       THEN blocked' = blocked \cup {p} /\ scheduler(readyQue)
       ELSE UNCHANGED <<blocked, currentProc, readyQue>>
  /\ UNCHANGED <<v0, device, d_status>>

(* It takes v0 for the status, and unmasks interrupts. *)
Check(p) ==
  /\ At(p, "check")
  /\ Goto(p, "compute")
  /\ UNCHANGED <<v0, kernel, device, d_status>>

(* (The mutant unmasks between the command and SYS8.) *)
maskedMutant(p) == p \in Masking /\ pc[p] = "check"

masked(p) == p \in Masking /\ pc[p] \in {"sys8", "check"}

-----------------------------------------------------------------------------
(* Interrupts and devices.                                                 *)

Enabled == IF currentProc = NULL THEN TRUE ELSE ~masked(currentProc)

LocalTimer ==
  /\ Enabled
  /\ scheduler(IF currentProc = NULL THEN readyQue ELSE insertProcQ(readyQue, currentProc))
  /\ UNCHANGED <<pc, v0, semV, blocked, device, d_status>>

DeviceDone(p) ==
  /\ device[p] = "BUSY"
  /\ device' = [device EXCEPT ![p] = "DONE"]
  /\ \E st \in Status : d_status' = [d_status EXCEPT ![p] = st]
  /\ UNCHANGED <<pc, v0, kernel>>

(* The V: a semaphore that is not above 0 wakes the process at its queue,  *)
(* if there is one, with the status in v0.  Above 0 the status goes to the *)
(* interrupted process, and to none if the processor was waiting.  (The    *)
(* mutant always gives it to the interrupted one.)                         *)
woken(p) == IF semV[p] + 1 <= 0 THEN blocked \cap {p} ELSE {}

receiversMutant(p) == {currentProc}

receivers(p) == IF semV[p] + 1 <= 0 THEN woken(p) ELSE {currentProc}

DeviceInterrupt(p) ==
  /\ Enabled
  /\ device[p] = "DONE"
  /\ device' = [device EXCEPT ![p] = "READY"]
  /\ semV' = [semV EXCEPT ![p] = @ + 1]
  /\ v0' = [q \in Proc |-> IF q \in receivers(p) THEN StatusOf(p) ELSE v0[q]]
  /\ blocked' = blocked \ woken(p)
  /\ LET rq == IF p \in woken(p) THEN insertProcQ(readyQue, p) ELSE readyQue
     IN IF currentProc = NULL THEN scheduler(rq)
        ELSE readyQue' = rq /\ UNCHANGED currentProc
  /\ UNCHANGED <<pc, d_status>>

Next ==
  \/ LocalTimer
  \/ \E p \in Proc :
       \/ Compute(p) \/ Use(p) \/ Command(p) \/ WaitIO(p) \/ Check(p)
       \/ DeviceDone(p) \/ DeviceInterrupt(p)

Spec == Init /\ [][Next]_vars

-----------------------------------------------------------------------------
(* exceptions.c:150-151 and p2test.c:126-128: what process p finds in v0   *)
(* when SYS8 lets it go on is the status its own operation ended with.     *)
Delivered(p) ==
  pc[p] = "check" /\ p \notin blocked => v0[p] = StatusOf(p) /\ device[p] = "READY"

(* It is, for the processes that mask interrupts, whatever the others do.  *)
StatusDelivered == \A p \in Masking : Delivered(p)

(* It is for all, as p2test.c:126-128 takes for granted: an early device   *)
(* refutes it.                                                             *)
AlwaysDelivered == \A p \in Proc : Delivered(p)

(* interrupts.c:256: an interrupt leaves the process it interrupts as it   *)
(* was; the v0 a process computed is there when it uses it.  An early      *)
(* device refutes it.                                                      *)
InterruptTransparent == \A p \in Proc : pc[p] = "use" => v0[p] = Own

(* What is left of it: the status of an operation with interrupts masked   *)
(* never comes into the v0 of another process, nor into that of its own    *)
(* but by SYS8: it is gone when the process computes its next value.       *)
MaskedStatusPrivate ==
  \A p \in Proc : v0[p] # Own /\ v0[p][1] \in Masking =>
    v0[p][1] = p /\ pc[p] \in {"check", "compute"}

(* The semaphore of a device says who is early, the process or the device, *)
(* and is even between operations, masked or not.                          *)
DeviceSemaphore ==
  \A p \in Proc :
    /\ p \in blocked <=> semV[p] < 0
    /\ pc[p] \in {"compute", "use", "command"} => semV[p] = 0 /\ device[p] = "READY"
==============================================================================
