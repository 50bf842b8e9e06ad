------------------------------- MODULE CpuTime -------------------------------
(***************************************************************************)
(* The processor time the nucleus charges to a process: startTOD and       *)
(* ioProcTime of initial.c, p_time of a pcb, and the statements that       *)
(* change them in scheduler, in the system calls that block, and in        *)
(* ioTrapHandler; and SYS6, which reads them.  All of them are a cpu_t, a  *)
(* signed int (types.h:13) of WIDTH values that goes round; arithmetic is  *)
(* modulo WIDTH, and 0..WIDTH - 1 stands for the values, the upper half of *)
(* it for the negative ones.  TIMESCALE, by which STCK divides, is 1.      *)
(* What else these functions do is in Nucleus.                             *)
(*                                                                         *)
(* A process measures itself as the p2 of p2test.c does: it reads the      *)
(* clock and calls SYS6, twice, and compares.                              *)
(***************************************************************************)
EXTENDS Integers, Sequences, ProcQ

CONSTANTS
  Proc,    \* the processes
  WIDTH,   \* the values of a cpu_t
  Start,   \* what the clock may show at first
  SPAN     \* bound: how long the clock is followed

(* What the instances give the constants. *)
CpuAssumption ==
  /\ NULL \notin Proc /\ Proc # {} /\ IsFiniteSet(Proc)
  /\ Start \subseteq 0..WIDTH - 1
  /\ SPAN \in Nat /\ WIDTH \in Nat /\ 3 * SPAN < WIDTH

VARIABLES
  time,         \* the real time, which the clock shows modulo WIDTH
  begin,        \* the time at which the system began
  startTOD,     \* the clock when the running process was dispatched
  ioProcTime,   \* what is not charged to it since
  p_time,       \* the time charged to each process, up to its last dispatch
  currentProc,  \* the running process, NULL when the processor waits
  readyQue,     \* the ready queue
  blocked,      \* the blocked processes
  first,        \* what a process read first: [who, now, cpu], or NULL
  ran,          \* history: the time it has run since,
  handled,      \*   and the time of the interrupts it has returned from
  report        \* what it found: [now, cpu, ran, handled], or NULL

charges == <<startTOD, ioProcTime, p_time>>
queues == <<currentProc, readyQue, blocked>>
measure == <<first, ran, handled, report>>
vars == <<time, begin, charges, queues, measure>>

Duration == 1..2

STCK == time % WIDTH

Init ==
  /\ begin \in Start
  /\ time = begin
  /\ startTOD = STCK
  /\ ioProcTime = 0
  /\ p_time = [p \in Proc |-> 0]
  /\ \E q \in [1..Cardinality(Proc) -> Proc] :
       NoDup(q) /\ currentProc = Head(q) /\ readyQue = Tail(q)
  /\ blocked = {}
  /\ first = NULL /\ ran = 0 /\ handled = 0 /\ report = NULL

(* The real time goes on; SPAN bounds it. *)
Pass(d) ==
  /\ time + d <= begin + SPAN
  /\ time' = time + d
  /\ UNCHANGED begin

(* The measured process runs for d, or an interrupt in it lasts d. *)
Measured == first # NULL /\ currentProc = first.who

-----------------------------------------------------------------------------
(* The next process, at the time now.  (The mutant does not forget what    *)
(* the last one owed.)                                                     *)
schedulerMutant(rq, now) ==
  /\ currentProc' = headProcQ(rq)
  /\ readyQue' = removeProcQ(rq)
  /\ startTOD' = IF emptyProcQ(rq) THEN startTOD ELSE now
  /\ UNCHANGED ioProcTime

scheduler(rq, now) ==
  /\ currentProc' = headProcQ(rq)
  /\ readyQue' = removeProcQ(rq)
  /\ ioProcTime' = 0
  /\ startTOD' = IF emptyProcQ(rq) THEN startTOD ELSE now

(* What the running process has used at the time now, with io not charged. *)
used(now, io) == (p_time[currentProc] + (now - startTOD) - io) % WIDTH

Compute(d) ==
  /\ currentProc # NULL
  /\ Pass(d)
  /\ ran' = IF Measured THEN ran + d ELSE ran
  /\ UNCHANGED <<charges, queues, first, handled, report>>

(* P, waitforclock and waitio, when they block the process. *)
Block ==
  /\ currentProc # NULL
  /\ p_time' = [p_time EXCEPT ![currentProc] = used(STCK, ioProcTime)]
  /\ blocked' = blocked \cup {currentProc}
  /\ scheduler(readyQue, STCK)
  /\ UNCHANGED <<time, begin, measure>>

(* The quantum is over, and handling this takes d: the process is put at   *)
(* the tail of the ready queue.  (The mutant charges the handling to it    *)
(* with the wrong sign.)                                                   *)
QuantumEndMutant(d) ==
  /\ currentProc # NULL
  /\ Pass(d)
  /\ p_time' = [p_time EXCEPT
       ![currentProc] = used((time + d) % WIDTH, ioProcTime + 2 * d)]
  /\ scheduler(insertProcQ(readyQue, currentProc), (time + d) % WIDTH)
  /\ UNCHANGED <<blocked, measure>>

QuantumEnd(d) ==
  /\ currentProc # NULL
  /\ Pass(d)
  /\ p_time' = [p_time EXCEPT ![currentProc] = used((time + d) % WIDTH, ioProcTime + d)]
  /\ scheduler(insertProcQ(readyQue, currentProc), (time + d) % WIDTH)
  /\ UNCHANGED <<blocked, measure>>

(* Any other interrupt takes d and makes the processes of woken ready; the *)
(* interrupted process goes on, with timeStart - timeEnd in ioProcTime.    *)
Interrupt(d, woken) ==
  /\ Pass(d)
  /\ blocked' = blocked \ woken
  /\ \E q \in [1..Cardinality(woken) -> woken] :
       LET rq == readyQue \o q IN
       /\ NoDup(q)
       /\ IF currentProc = NULL
            THEN scheduler(rq, (time + d) % WIDTH) /\ UNCHANGED handled
            ELSE /\ readyQue' = rq
                 /\ ioProcTime' = (ioProcTime - d) % WIDTH
                 /\ handled' = IF Measured THEN handled + d ELSE handled
                 /\ UNCHANGED <<currentProc, startTOD>>
  /\ UNCHANGED <<p_time, first, ran, report>>

-----------------------------------------------------------------------------
(* SYS6, and the two readings of p2test.c:305-313. *)

getcputime == used(STCK, ioProcTime)

FirstReading ==
  /\ currentProc # NULL /\ first = NULL
  /\ first' = [who |-> currentProc, now |-> STCK, cpu |-> getcputime]
  /\ ran' = 0 /\ handled' = 0 /\ report' = NULL
  /\ UNCHANGED <<time, begin, charges, queues>>

SecondReading ==
  /\ Measured
  /\ report' = [now |-> (STCK - first.now) % WIDTH,
                cpu |-> (getcputime - first.cpu) % WIDTH,
                ran |-> ran, handled |-> handled]
  /\ first' = NULL
  /\ UNCHANGED <<time, begin, charges, queues, ran, handled>>

Next ==
  \/ Block \/ FirstReading \/ SecondReading
  \/ \E d \in Duration : Compute(d) \/ QuantumEnd(d)
  \/ \E d \in Duration, woken \in SUBSET blocked : Interrupt(d, woken)

Spec == Init /\ [][Next]_vars

-----------------------------------------------------------------------------
(* p2test.c:321-322: SYS6 never charges a process less than it ran, however *)
(* often it was interrupted, preempted or blocked in between and whether or *)
(* not the clock went round.                                                *)
NeverUndercharged == report # NULL => report.cpu >= report.ran

(* When no interrupt returned to it, it is charged what it ran, and nothing *)
(* of what it spent in queues, nor of what another process used.            *)
ChargedWhatItRan ==
  report # NULL => (report.handled = 0 => report.cpu = report.ran)

(* p2test.c:319-320: a process is not charged more time than went by.      *)
NoMoreThanRealTime == report # NULL => report.cpu <= report.now
==============================================================================
