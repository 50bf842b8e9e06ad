---------------------------- MODULE NucleusCounts ----------------------------
(***************************************************************************)
(* The counters of the nucleus: what sftBlkCnt and the values of the       *)
(* semaphores say of the queues, and that the scheduler, which relies on   *)
(* procCnt and sftBlkCnt, stops the machine for the right reason; for any  *)
(* number of pcbs, semaphores and ports.                                   *)
(***************************************************************************)
EXTENDS NucleusProofs

-----------------------------------------------------------------------------
(* sftBlkCnt.                                                              *)

(* The processes that wait for a device or for the clock. *)
Soft(sa) == {p \in Proc : sa[p] \in DevSem}

LEMMA SoftIsFinite ==
  ASSUME NEW sa
  PROVE  IsFiniteSet(Soft(sa)) /\ Cardinality(Soft(sa)) \in Nat
<1>1. IsFiniteSet(Proc) /\ Soft(sa) \subseteq Proc
  BY ProcAssumption DEF Soft
<1> QED BY <1>1, FS_Subset, FS_CardinalityType

LEMMA SoftIsCounted ==
  /\ SoftBlockAccounting <=> sftBlkCnt = Cardinality(Soft(p_semAdd))
  /\ SoftBlockAccounting' <=> sftBlkCnt' = Cardinality(Soft(p_semAdd'))
BY DEF SoftBlockAccounting, Soft

(* A queue on which no pcb is linked twice has as many pcbs as its length. *)
LEMMA QueueCardinality ==
  ASSUME NEW q \in Seq(Proc), NoDup(q)
  PROVE  Cardinality({p \in Proc : InQ(q, p)}) = Len(q)
<1> DEFINE S == {p \in Proc : InQ(q, p)}
           n == Len(q)
           f == [i \in 1..n |-> q[i]]
<1>1. n \in Nat /\ \A i \in 1..n : q[i] \in Proc
  BY LenProperties, ElementOfSeq
<1>2. f \in [1..n -> S]
  BY <1>1 DEF InQ
<1>3. \A i, j \in 1..n : f[i] = f[j] => i = j
  BY DEF NoDup
<1>4. \A p \in S : \E i \in 1..n : f[i] = p
  BY DEF InQ
<1>5. f \in Bijection(1..n, S)
  <2> HIDE DEF f, S, n
  <2>1. IsInjective(f)
    BY <1>2, <1>3 DEF IsInjective
  <2>2. f \in Surjection(1..n, S)
    BY <1>2, <1>4 DEF Surjection
  <2> QED BY <1>2, <2>1, <2>2 DEF Bijection, Injection
<1>6. ExistsBijection(1..n, S)
  BY <1>5 DEF ExistsBijection
<1> HIDE DEF f, S, n
<1>7. Cardinality(S) = n
  BY <1>1, <1>6, FS_CountingElements
<1> QED BY <1>7 DEF S, n

(* One process is blocked. *)
LEMMA SoftBlocked ==
  ASSUME NEW sa \in [Proc -> Sem \cup {NULL}], NEW p \in Proc, sa[p] = NULL,
         NEW s \in Sem
  PROVE  Cardinality(Soft([sa EXCEPT ![p] = s])) =
           IF s \in DevSem THEN Cardinality(Soft(sa)) + 1 ELSE Cardinality(Soft(sa))
<1> DEFINE S == Soft(sa)
           T == Soft([sa EXCEPT ![p] = s])
<1>1. p \notin S
  BY SemAssumption DEF Soft, Sem
<1>2. T = IF s \in DevSem THEN S \cup {p} ELSE S
  BY <1>1 DEF Soft
<1>3. IsFiniteSet(S)
  BY SoftIsFinite
<1> HIDE DEF S, T
<1>4. Cardinality(T) = IF s \in DevSem THEN Cardinality(S) + 1 ELSE Cardinality(S)
  BY <1>1, <1>2, <1>3, FS_AddElement
<1> QED BY <1>4 DEF S, T

(* One process is no longer blocked. *)
LEMMA SoftUnblocked ==
  ASSUME NEW sa \in [Proc -> Sem \cup {NULL}], NEW p \in Proc
  PROVE  Cardinality(Soft([sa EXCEPT ![p] = NULL])) =
           IF sa[p] \in DevSem THEN Cardinality(Soft(sa)) - 1 ELSE Cardinality(Soft(sa))
<1> DEFINE S == Soft(sa)
           T == Soft([sa EXCEPT ![p] = NULL])
<1>1. T = S \ {p} /\ (p \in S <=> sa[p] \in DevSem)
  BY SemAssumption DEF Soft, Sem
<1>2. IsFiniteSet(S)
  BY SoftIsFinite
<1> HIDE DEF S, T
<1>3. CASE p \in S
  BY <1>1, <1>2, <1>3, FS_RemoveElement DEF S, T
<1>4. CASE p \notin S
  <2>1. T = S
    BY <1>1, <1>4
  <2> QED BY <1>1, <1>4, <2>1 DEF S, T
<1> QED BY <1>3, <1>4

(* All processes on the queue q of a device semaphore become ready. *)
LEMMA SoftUnblockedAll ==
  ASSUME NEW sa \in [Proc -> Sem \cup {NULL}], NEW q \in Seq(Proc), NoDup(q),
         \A p \in Proc : InQ(q, p) => sa[p] \in DevSem
  PROVE  Cardinality(Soft([p \in Proc |-> IF InQ(q, p) THEN NULL ELSE sa[p]]))
           = Cardinality(Soft(sa)) - Len(q)
<1> DEFINE S == Soft(sa)
           Q == {p \in Proc : InQ(q, p)}
           T == Soft([p \in Proc |-> IF InQ(q, p) THEN NULL ELSE sa[p]])
<1>1. T = S \ Q /\ S \cap Q = Q
  BY SemAssumption DEF Soft, Sem
<1>2. IsFiniteSet(S) /\ Cardinality(Q) = Len(q)
  BY SoftIsFinite, QueueCardinality
<1> HIDE DEF S, T, Q
<1>3. Cardinality(S \ Q) = Cardinality(S) - Cardinality(S \cap Q)
  BY <1>2, FS_Difference
<1>4. Cardinality(T) = Cardinality(S) - Cardinality(Q)
  BY <1>1, <1>3
<1> QED BY <1>2, <1>4 DEF S, T

(* The V of SYS3 and of the interrupts wakes a process that was blocked on *)
(* the semaphore.                                                          *)
LEMMA SoftV ==
  ASSUME IInv, machine # "lost", NEW s \in Sem, NEW v, unblock(s, v)
  PROVE  Cardinality(Soft(p_semAdd')) =
           IF wakes(s, v) /\ s \in DevSem THEN Cardinality(Soft(p_semAdd)) - 1
                                          ELSE Cardinality(Soft(p_semAdd))
<1>1. CASE wakes(s, v)
  <2> DEFINE h == headProcQ(semQ[s])
  <2>1. semQ[s] \in Seq(Proc) /\ semQ[s] # <<>>
    BY <1>1 DEF wakes, IInv, TypeOK
  <2>2. h \in Proc /\ InQ(semQ[s], h)
    BY <2>1, RemoveProcQ
  <2>3. p_semAdd[h] = s
    BY <2>2 DEF IInv, OnePlace
  <2>4. p_semAdd' = [p_semAdd EXCEPT ![h] = NULL]
    BY <1>1, <2>1 DEF unblock, removeBlocked
  <2>5. p_semAdd \in [Proc -> Sem \cup {NULL}]
    BY DEF IInv, TypeOK
  <2> HIDE DEF h
  <2> QED BY <1>1, <2>2, <2>3, <2>4, <2>5, SoftUnblocked
<1>2. CASE ~wakes(s, v)
  BY <1>2 DEF unblock
<1> QED BY <1>1, <1>2

(* The P of SYS4, SYS7 and SYS8. *)
LEMMA SoftP ==
  ASSUME IInv, SoftBlockAccounting, NEW s \in Sem, wait(s)
  PROVE  SoftBlockAccounting'
<1>1. CASE semV[s] - 1 < 0
  <2>1. currentProc \in Proc /\ canBlock(s)
    BY CurrentInUse, DescriptorAvailable DEF wait, Running
  <2>2. p_semAdd[currentProc] = NULL /\ p_semAdd \in [Proc -> Sem \cup {NULL}]
    BY <2>1, CurrentInUse DEF wait, Running, IInv, OnePlace, TypeOK
  <2>3. /\ p_semAdd' = [p_semAdd EXCEPT ![currentProc] = s]
        /\ sftBlkCnt' = softBlock(s)
    BY <1>1, <2>1 DEF wait, insertBlocked
  <2> QED BY <2>1, <2>2, <2>3, SoftBlocked, SoftIsCounted DEF softBlock
<1>2. CASE ~(semV[s] - 1 < 0)
  BY <1>2 DEF wait, SoftBlockAccounting
<1> QED BY <1>1, <1>2

LEMMA SoftKillStep ==
  ASSUME IInv, SoftBlockAccounting, KillStep
  PROVE  SoftBlockAccounting'
<1>1. CASE KillChild \/ KillCurrent \/ KillReady \/ KillTrap
  BY <1>1 DEF KillChild, KillCurrent, KillReady, KillTrap, SoftBlockAccounting
<1>2. CASE KillUnfound
  <2>1. top \in Proc /\ machine # "lost"
    BY <1>2, BuriedDescendant DEF BuryDescendant
  <2>2. p_semAdd[top] = NULL
    <3>1. ASSUME p_semAdd[top] # NULL PROVE FALSE
      <4>1. p_semAdd[top] \in Sem /\ semQ[p_semAdd[top]] = <<>>
        BY <1>2, <2>1, <3>1 DEF KillUnfound, NotBlocked, IInv, TypeOK
      <4>2. InQ(semQ[p_semAdd[top]], top)
        BY <2>1, <4>1 DEF IInv, OnePlace
      <4> QED BY <4>1, <4>2 DEF InQ
    <3> QED BY <3>1
  <2>3. p_semAdd' = p_semAdd /\ sftBlkCnt' = sftBlkCnt
    BY <1>2, <2>1, <2>2 DEF KillUnfound, IInv, TypeOK
  <2> QED BY <2>3, SoftIsCounted
<1>3. CASE KillBlocked
  <2>1. top \in Proc /\ p_semAdd \in [Proc -> Sem \cup {NULL}]
    BY <1>3, BuriedDescendant DEF BuryDescendant, IInv, TypeOK
  <2>2. /\ p_semAdd' = [p_semAdd EXCEPT ![top] = NULL]
        /\ sftBlkCnt' = IF p_semAdd[top] \in DevSem THEN sftBlkCnt - 1 ELSE sftBlkCnt
    BY <1>3 DEF KillBlocked
  <2> QED BY <2>1, <2>2, SoftUnblocked, SoftIsCounted
<1> QED BY <1>1, <1>2, <1>3 DEF KillStep

LEMMA SoftInterrupt ==
  ASSUME IInv, SoftBlockAccounting, Interrupt
  PROVE  SoftBlockAccounting'
<1>1. CASE LocalTimer
  BY <1>1 DEF LocalTimer, SoftBlockAccounting
<1>2. CASE IntervalTimer
  <2>1. /\ semQ[Clock] \in Seq(Proc) /\ p_semAdd \in [Proc -> Sem \cup {NULL}]
        /\ machine # "lost"
    BY <1>2, DevSemIsSem DEF IntervalTimer, Interruptible, IInv, TypeOK
  <2>2. /\ NoDup(semQ[Clock])
        /\ \A p \in Proc : InQ(semQ[Clock], p) => p_semAdd[p] \in DevSem
    BY <2>1, DevSemIsSem DEF IInv, OnePlace
  <2>3. /\ p_semAdd' = [p \in Proc |->
                          IF InQ(semQ[Clock], p) THEN NULL ELSE p_semAdd[p]]
        /\ sftBlkCnt' = sftBlkCnt - Len(semQ[Clock])
    BY <1>2 DEF IntervalTimer
  <2> QED BY <2>1, <2>2, <2>3, SoftUnblockedAll, SoftIsCounted
<1>3. ASSUME NEW r \in Port, DeviceInterrupt(r) PROVE SoftBlockAccounting'
  <2> DEFINE s == semIndex(servedPort(r))
             v == semV[s] + 1
  <2>1. s \in Sem /\ s \in DevSem
    BY <1>3, ServedPort, DevSemIsSem
  <2>2. /\ machine # "lost" /\ unblock(s, v)
        /\ sftBlkCnt' = IF wakes(s, v) THEN sftBlkCnt - 1 ELSE sftBlkCnt
    BY <1>3 DEF DeviceInterrupt, Interruptible
  <2> HIDE DEF s, v
  <2> QED BY <2>1, <2>2, SoftV, SoftIsCounted
<1> QED BY <1>1, <1>2, <1>3 DEF Interrupt

LEMMA SoftNext == IInv /\ SoftBlockAccounting /\ [Next]_vars => SoftBlockAccounting'
<1> SUFFICES ASSUME IInv, SoftBlockAccounting, [Next]_vars PROVE SoftBlockAccounting'
  OBVIOUS
<1>1. CASE UNCHANGED <<sftBlkCnt, p_semAdd>>
  BY <1>1 DEF SoftBlockAccounting
<1>2. ASSUME NEW s \in USem, V(s) PROVE SoftBlockAccounting'
  <2>1. s \in Sem /\ s \notin DevSem /\ machine # "lost"
    BY <1>2, SemAssumption DEF Sem, V, Running
  <2>2. unblock(s, semV[s] + 1) /\ sftBlkCnt' = sftBlkCnt
    BY <1>2 DEF V
  <2> QED BY <2>1, <2>2, SoftV, SoftIsCounted
<1>3. CASE CreateProcess
  BY <1>1, <1>3 DEF CreateProcess, vars
<1>4. CASE startKill
  BY <1>1, <1>4 DEF startKill
<1>5. CASE SysCall
  <2>1. \A s \in USem : s \in Sem
    BY DEF Sem
  <2> QED BY <1>1, <1>2, <1>3, <1>4, <1>5, <2>1, SoftP, DevSemIsSem
          DEF SysCall, TerminateProcess, WaitIOBadLine, P, WaitForClock, WaitIO,
              SpecTrapVec, PassUpOrDie, vars
<1>6. CASE Device \/ Stopped \/ UNCHANGED vars
  BY <1>1, <1>6 DEF Device, StartIO, DeviceCompletes, Stopped, vars
<1> QED BY <1>5, <1>6, SoftKillStep, SoftInterrupt DEF Next

LEMMA SoftInit == Init => SoftBlockAccounting
<1> SUFFICES ASSUME Init PROVE SoftBlockAccounting
  OBVIOUS
<1>1. p_semAdd = [q \in Proc |-> NULL] /\ sftBlkCnt = 0
  BY DEF Init
<1>2. Soft(p_semAdd) = {}
  BY <1>1, SemAssumption DEF Soft, Sem
<1> QED BY <1>1, <1>2, FS_EmptySet, SoftIsCounted

(* sftBlkCnt counts the processes that wait for a device or for the clock, *)
(* whichever system call, interrupt or kill moved them.                    *)
THEOREM SoftBlockAccountingCorrect == Spec => []SoftBlockAccounting
BY SoftInit, SoftNext, IInvCorrect, PTL DEF Spec

-----------------------------------------------------------------------------
(* Why the machine stops.                                                  *)

(* The scheduler, entered by the live machine with the right counters.     *)
LEMMA SchedulerStop ==
  ASSUME IInv', SoftBlockAccounting', machine = "live", NEW rq \in Seq(Proc),
         scheduler(rq, procCnt', sftBlkCnt')
  PROVE  StopReason'
<1> DEFINE used == Proc \ pcbFree'
           soft == {p \in Proc : p_semAdd'[p] \in DevSem}
<1>1. IsFiniteSet(used) /\ IsFiniteSet(soft)
  <2>1. IsFiniteSet(Proc) /\ used \subseteq Proc /\ soft \subseteq Proc
    BY ProcAssumption
  <2> QED BY <2>1, FS_Subset
<1>2. procCnt' = Cardinality(used) /\ sftBlkCnt' = Cardinality(soft)
  BY DEF IInv, ProcAccounting, SoftBlockAccounting
<1>3. pcbFree' \subseteq Proc /\ p_semAdd' \in [Proc -> Sem \cup {NULL}]
  BY DEF IInv, TypeOK
<1> HIDE DEF used, soft
<1>4. /\ procCnt' = 0 <=> used = {}
      /\ sftBlkCnt' = 0 <=> soft = {}
      /\ sftBlkCnt' \in Nat
  BY <1>1, <1>2, FS_EmptySet, FS_CardinalityType
<1> USE DEF used, soft
<1>5. CASE rq = <<>>
  <2>1. /\ currentProc' = NULL /\ readyQue' = <<>>
        /\ machine' = noReady(procCnt', sftBlkCnt')
        /\ waiting' = (machine' = "live")
    BY <1>5 DEF scheduler, headProcQ, removeProcQ, emptyProcQ
  <2>2. CASE procCnt' = 0
    BY <1>3, <1>4, <2>1, <2>2 DEF noReady, StopReason
  <2>3. CASE procCnt' # 0 /\ sftBlkCnt' = 0
    <3>1. machine' = "panic" /\ ~waiting' /\ pcbFree' # Proc
      <4>1. machine' = "panic"
        BY <2>1, <2>3 DEF noReady
      <4>2. waiting' = FALSE
        BY <2>1, <4>1
      <4>3. pcbFree' # Proc
        BY <1>4, <2>3
      <4> QED BY <4>1, <4>2, <4>3
    <3>2. \A p \in Proc \ pcbFree' : p_semAdd'[p] # NULL
      <4>1. \A p \in Proc : ~InQ(readyQue', p) /\ p # currentProc'
        BY <2>1, ProcAssumption DEF InQ
      <4>2. OnePlace' /\ machine' # "lost"
        BY <3>1 DEF IInv
      <4> QED BY <4>1, <4>2 DEF OnePlace
    <3>3. \A p \in Proc \ pcbFree' : p_semAdd'[p] \in USem
      BY <1>3, <1>4, <2>3, <3>2 DEF Sem
    <3> QED BY <3>1, <3>3 DEF StopReason
  <2>4. CASE procCnt' # 0 /\ sftBlkCnt' # 0
    <3>1. machine' = "live" /\ waiting'
      <4>1. machine' = "live"
        BY <1>4, <2>1, <2>4 DEF noReady
      <4> QED BY <2>1, <4>1
    <3>2. PICK p \in Proc : p_semAdd'[p] \in DevSem
      BY <1>4, <2>4
    <3> QED BY <2>1, <3>1, <3>2 DEF StopReason
  <2> QED BY <2>2, <2>3, <2>4
<1>6. CASE rq # <<>>
  <2>1. headProcQ(rq) \in Proc
    BY <1>6, RemoveProcQ
  <2>2. currentProc' # NULL /\ machine' = "live" /\ ~waiting'
    BY <1>6, <2>1, ProcAssumption DEF scheduler, emptyProcQ
  <2> QED BY <2>2 DEF StopReason
<1> QED BY <1>5, <1>6

(* A step that leaves the processor alone while a process has it. *)
LEMMA BusyStop ==
  ASSUME StopReason, machine = "live", ~waiting,
         UNCHANGED <<currentProc, waiting>>, machine' \in {machine, "lost"}
  PROVE  StopReason'
BY DEF StopReason

LEMMA StopSysCall ==
  ASSUME IInv, StopReason, IInv', SoftBlockAccounting', SysCall
  PROVE  StopReason'
<1>1. /\ CreateProcess => Running
      /\ startKill => UNCHANGED <<machine, waiting, currentProc>>
  BY DEF CreateProcess, startKill, cpu
<1>2. CASE Running /\ UNCHANGED <<machine, waiting, currentProc>>
  BY <1>2, BusyStop DEF Running
<1>3. ASSUME NEW s, wait(s), UNCHANGED procCnt PROVE StopReason'
  <2>1. CASE semV[s] - 1 < 0
    <3>1. /\ machine = "live" /\ readyQue \in Seq(Proc)
          /\ scheduler(readyQue, procCnt', sftBlkCnt')
      BY <1>3, <2>1 DEF wait, Running, IInv, TypeOK
    <3> QED BY <3>1, SchedulerStop
  <2>2. CASE ~(semV[s] - 1 < 0)
    BY <1>2, <1>3, <2>2 DEF wait, cpu
  <2> QED BY <2>1, <2>2
<1>4. CASE CreateProcess
  BY <1>2, <1>4 DEF CreateProcess, vars
<1>5. CASE TerminateProcess \/ WaitIOBadLine
  BY <1>1, <1>2, <1>5 DEF TerminateProcess, WaitIOBadLine
<1>6. ASSUME NEW s, V(s) \/ P(s) PROVE StopReason'
  BY <1>2, <1>3, <1>6 DEF V, P, wait
<1>7. CASE WaitForClock
  BY <1>3, <1>7 DEF WaitForClock, wait
<1>8. ASSUME NEW r, WaitIO(r) PROVE StopReason'
  BY <1>3, <1>8 DEF WaitIO, wait
<1>9. ASSUME NEW type, SpecTrapVec(type) \/ PassUpOrDie(type) PROVE StopReason'
  BY <1>1, <1>2, <1>9 DEF SpecTrapVec, PassUpOrDie, cpu, vars
<1> QED BY <1>4, <1>5, <1>6, <1>7, <1>8, <1>9 DEF SysCall

LEMMA StopKillStep ==
  ASSUME IInv, StopReason, IInv', SoftBlockAccounting', KillStep
  PROVE  StopReason'
<1>1. machine = "live" /\ kstack # <<>>
  BY DEF KillStep, KillChild, KillCurrent, KillReady, KillUnfound, KillBlocked,
         KillTrap, Descendant, Childless
<1>2. ~waiting
  BY <1>1, FrameType, ProcAssumption DEF IInv, WaitOK
<1>3. CASE KillCurrent
  <2>1. /\ readyQue \in Seq(Proc)
        /\ scheduler(readyQue, procCnt', sftBlkCnt')
    BY <1>3 DEF KillCurrent, bury, IInv, TypeOK
  <2> QED BY <1>1, <2>1, SchedulerStop
<1>4. CASE ~KillCurrent
  BY <1>1, <1>2, <1>4, BusyStop
     DEF KillStep, KillChild, KillReady, KillUnfound, KillBlocked, KillTrap, cpu
<1> QED BY <1>3, <1>4

LEMMA StopInterrupt ==
  ASSUME IInv, StopReason, IInv', SoftBlockAccounting', Interrupt
  PROVE  StopReason'
<1>1. ASSUME NEW rq \in Seq(Proc), machine = "live", UNCHANGED procCnt,
             resume(rq, sftBlkCnt')
      PROVE  StopReason'
  <2>1. CASE waiting
    BY <1>1, <2>1, SchedulerStop DEF resume
  <2>2. CASE ~waiting
    BY <1>1, <2>2, BusyStop DEF resume
  <2> QED BY <2>1, <2>2
<1>2. CASE LocalTimer
  <2>1. preempted \in Seq(Proc)
    BY InsertProcQ DEF preempted, IInv, TypeOK
  <2>2. machine = "live" /\ scheduler(preempted, procCnt', sftBlkCnt')
    BY <1>2 DEF LocalTimer, Interruptible
  <2> QED BY <2>1, <2>2, SchedulerStop
<1>3. CASE IntervalTimer
  <2>1. readyQue \o semQ[Clock] \in Seq(Proc)
    BY DevSemIsSem, JoinQueues DEF IInv, TypeOK
  <2>2. /\ machine = "live" /\ UNCHANGED procCnt
        /\ resume(readyQue \o semQ[Clock], sftBlkCnt')
    BY <1>3 DEF IntervalTimer, Interruptible
  <2> QED BY <1>1, <2>1, <2>2
<1>4. ASSUME NEW r \in Port, DeviceInterrupt(r) PROVE StopReason'
  <2> DEFINE s == semIndex(servedPort(r))
             v == semV[s] + 1
  <2>1. s \in Sem
    BY <1>4, ServedPort, DevSemIsSem
  <2>2. /\ machine = "live" /\ UNCHANGED procCnt /\ unblock(s, v)
        /\ resume(readyAfterV(s, v), sftBlkCnt')
    BY <1>4 DEF DeviceInterrupt, Interruptible
  <2> HIDE DEF s, v
  <2>3. readyAfterV(s, v) \in Seq(Proc)
    BY <2>1, <2>2, UnblockType DEF IInv
  <2> QED BY <1>1, <2>2, <2>3
<1> QED BY <1>2, <1>3, <1>4 DEF Interrupt

LEMMA StopNext ==
  IInv /\ StopReason /\ IInv' /\ SoftBlockAccounting' /\ [Next]_vars
    => StopReason'
<1> SUFFICES ASSUME IInv, StopReason, IInv', SoftBlockAccounting', [Next]_vars
             PROVE  StopReason'
  OBVIOUS
<1>1. CASE Device \/ Stopped \/ UNCHANGED vars
  <2>1. UNCHANGED <<machine, waiting, currentProc, readyQue, p_semAdd, pcbFree>>
    BY <1>1 DEF Device, StartIO, DeviceCompletes, Stopped, cpu, tree, vars
  <2> QED BY <2>1 DEF StopReason
<1> QED BY <1>1, StopSysCall, StopKillStep, StopInterrupt DEF Next

LEMMA StopInit == Init => StopReason
BY ProcAssumption DEF Init, StopReason

(* The scheduler halts the machine only when no process is left, panics    *)
(* only in a deadlock of the processes, and waits only for an interrupt    *)
(* that some process is blocked for.                                       *)
THEOREM StopReasonCorrect == Spec => []StopReason
BY StopInit, StopNext, IInvCorrect, SoftBlockAccountingCorrect, PTL DEF Spec

-----------------------------------------------------------------------------
(* The values of the semaphores.  The receiver of terminal 5 has the index *)
(* of the clock, whose V then belongs to two masters; the theorem is about *)
(* systems that do not use it.                                             *)
ClockAlone == \A r \in Port : semIndex(r) # Clock

(* SemValue for one semaphore, of value v, with n processes on its queue.  *)
ValueOK(s, n, v) ==
  /\ s \in USem => n = IF v < 0 THEN -v ELSE 0
  /\ s \in DevSem => n <= IF v < 0 THEN -v ELSE 0
  /\ s = Clock => v <= 0

LEMMA SemValueIsLocal ==
  /\ SemValue <=> \A s \in Sem : ValueOK(s, Len(semQ[s]), semV[s])
  /\ SemValue' <=> \A s \in Sem : ValueOK(s, Len(semQ'[s]), semV'[s])
BY DevSemIsSem DEF SemValue, Deficit, ValueOK, Sem

(* A step that changes one semaphore. *)
LEMMA OneSemaphore ==
  ASSUME TypeOK, SemValue, NEW s \in Sem, NEW q \in Seq(Proc), NEW v \in Int,
         ValueOK(s, Len(q), v),
         semQ' = [semQ EXCEPT ![s] = q], semV' = [semV EXCEPT ![s] = v]
  PROVE  SemValue'
<1>1. SUFFICES ASSUME NEW t \in Sem PROVE ValueOK(t, Len(semQ'[t]), semV'[t])
  BY SemValueIsLocal
<1>2. ValueOK(t, Len(semQ[t]), semV[t])
  BY SemValueIsLocal
<1>3. CASE t = s
  BY <1>3 DEF TypeOK
<1>4. CASE t # s
  BY <1>2, <1>4 DEF TypeOK
<1> QED BY <1>3, <1>4

LEMMA SemaphoreTypes ==
  ASSUME TypeOK, NEW s \in Sem
  PROVE  /\ semQ[s] \in Seq(Proc) /\ semV[s] \in Int /\ Len(semQ[s]) \in Nat
         /\ semQ[s] = <<>> <=> Len(semQ[s]) = 0
         /\ semQ = [semQ EXCEPT ![s] = semQ[s]]
         /\ semV = [semV EXCEPT ![s] = semV[s]]
BY LenProperties, EmptySeq DEF TypeOK

LEMMA ValueV ==
  ASSUME IInv, SemValue, NEW s \in Sem, s # Clock,
         unblock(s, semV[s] + 1), semV' = [semV EXCEPT ![s] = semV[s] + 1]
  PROVE  SemValue'
<1> DEFINE v == semV[s] + 1
<1>1. /\ semQ[s] \in Seq(Proc) /\ semV[s] \in Int /\ Len(semQ[s]) \in Nat
      /\ semQ[s] = <<>> <=> Len(semQ[s]) = 0
      /\ semQ = [semQ EXCEPT ![s] = semQ[s]]
      /\ TypeOK /\ v \in Int
  BY SemaphoreTypes DEF IInv
<1>2. ValueOK(s, Len(semQ[s]), semV[s])
  BY SemValueIsLocal
<1>3. CASE wakes(s, v)
  <2> DEFINE q == removeProcQ(semQ[s])
  <2>1. v <= 0 /\ semQ[s] # <<>> /\ semQ' = [semQ EXCEPT ![s] = q]
    BY <1>3 DEF wakes, unblock, removeBlocked
  <2>2. q \in Seq(Proc) /\ Len(q) = Len(semQ[s]) - 1
    BY <1>1, <2>1, RemoveProcQ
  <2>3. ValueOK(s, Len(q), v)
    BY <1>1, <1>2, <2>1, <2>2 DEF ValueOK
  <2>4. semV' = [semV EXCEPT ![s] = v]
    OBVIOUS
  <2> HIDE DEF q, v
  <2> QED BY <1>1, <2>1, <2>2, <2>3, <2>4, OneSemaphore
<1>4. CASE ~wakes(s, v)
  <2>1. semQ' = [semQ EXCEPT ![s] = semQ[s]]
    BY <1>1, <1>4 DEF unblock
  <2>2. ValueOK(s, Len(semQ[s]), v)
    BY <1>1, <1>2, <1>4 DEF ValueOK, wakes
  <2>3. semV' = [semV EXCEPT ![s] = v]
    OBVIOUS
  <2> HIDE DEF v
  <2> QED BY <1>1, <2>1, <2>2, <2>3, OneSemaphore
<1> QED BY <1>3, <1>4

LEMMA ValueP ==
  ASSUME IInv, SemValue, NEW s \in Sem, wait(s)
  PROVE  SemValue'
<1> DEFINE v == semV[s] - 1
<1>1. /\ semQ[s] \in Seq(Proc) /\ semV[s] \in Int /\ Len(semQ[s]) \in Nat
      /\ semQ[s] = <<>> <=> Len(semQ[s]) = 0
      /\ semQ = [semQ EXCEPT ![s] = semQ[s]]
      /\ TypeOK /\ v \in Int
  BY SemaphoreTypes DEF IInv
<1>2. ValueOK(s, Len(semQ[s]), semV[s]) /\ semV' = [semV EXCEPT ![s] = v]
  BY SemValueIsLocal DEF wait
<1>3. CASE v < 0
  <2> DEFINE q == insertProcQ(semQ[s], currentProc)
  <2>1. currentProc \in Proc /\ canBlock(s)
    BY CurrentInUse, DescriptorAvailable DEF wait, Running
  <2>2. semQ' = [semQ EXCEPT ![s] = q]
    BY <1>3, <2>1 DEF wait, insertBlocked
  <2>3. q \in Seq(Proc) /\ Len(q) = Len(semQ[s]) + 1
    BY <1>1, <2>1, InsertProcQ
  <2>4. ValueOK(s, Len(q), v)
    BY <1>1, <1>2, <1>3, <2>3 DEF ValueOK
  <2> HIDE DEF q, v
  <2> QED BY <1>1, <1>2, <2>2, <2>3, <2>4, OneSemaphore
<1>4. CASE ~(v < 0)
  <2>1. semQ' = [semQ EXCEPT ![s] = semQ[s]]
    BY <1>1, <1>4 DEF wait
  <2>2. ValueOK(s, Len(semQ[s]), v)
    BY <1>1, <1>2, <1>4 DEF ValueOK
  <2> HIDE DEF v
  <2> QED BY <1>1, <1>2, <2>1, <2>2, OneSemaphore
<1> QED BY <1>3, <1>4

LEMMA ValueKillStep ==
  ASSUME IInv, SemValue, KillStep
  PROVE  SemValue'
<1>1. CASE ~KillBlocked
  <2>1. UNCHANGED <<semQ, semV>>
    BY <1>1 DEF KillStep, KillChild, KillCurrent, KillReady, KillUnfound, KillTrap
  <2> QED BY <2>1, SemValueIsLocal
<1>2. CASE KillBlocked
  <2> DEFINE s == p_semAdd[top]
             q == outProcQ(semQ[s], top)
             v == IF s \in DevSem THEN semV[s] ELSE semV[s] + 1
  <2>1. /\ s \in Sem
        /\ outFinds(semQ[s], top)
        /\ semQ' = [semQ EXCEPT ![s] = q]
        /\ giveBack(s)
    <3>1. top \in Proc
      BY <1>2, BuriedDescendant DEF BuryDescendant
    <3> QED BY <1>2, <3>1 DEF KillBlocked, NotBlocked, IInv, TypeOK
  <2> HIDE DEF s
  <2>2. /\ semQ[s] \in Seq(Proc) /\ semV[s] \in Int /\ Len(semQ[s]) \in Nat
        /\ semQ[s] = <<>> <=> Len(semQ[s]) = 0
        /\ semV = [semV EXCEPT ![s] = semV[s]]
        /\ TypeOK
    BY <2>1, SemaphoreTypes DEF IInv
  <2>3. semQ[s] # <<>> /\ q \in Seq(Proc) /\ Len(q) = Len(semQ[s]) - 1
    BY <2>1, <2>2, OutProcQ
  <2>4. ValueOK(s, Len(semQ[s]), semV[s])
    BY <2>1, SemValueIsLocal
  <2>5. ValueOK(s, Len(q), v)
    BY <2>2, <2>3, <2>4, SemAssumption, DevSemIsSem DEF ValueOK
  <2>6. v \in Int
    BY <2>2
  <2>7. semV' = [semV EXCEPT ![s] = v]
    <3>1. CASE s \in DevSem
      BY <2>1, <2>2, <3>1 DEF giveBack
    <3>2. CASE s \notin DevSem
      BY <2>1, <3>2 DEF giveBack
    <3> QED BY <3>1, <3>2
  <2> HIDE DEF q, v
  <2> QED BY <2>1, <2>2, <2>3, <2>5, <2>6, <2>7, OneSemaphore
<1> QED BY <1>1, <1>2

LEMMA ValueNext == ClockAlone /\ IInv /\ SemValue /\ [Next]_vars => SemValue'
<1> SUFFICES ASSUME ClockAlone, IInv, SemValue, [Next]_vars PROVE SemValue'
  OBVIOUS
<1>1. CASE UNCHANGED <<semQ, semV>>
  BY <1>1, SemValueIsLocal
<1>2. CASE SysCall
  <2>1. ASSUME NEW s \in USem, V(s) PROVE SemValue'
    <3>1. s \in Sem /\ s # Clock
      BY SemAssumption, DevSemIsSem DEF Sem
    <3>2. unblock(s, semV[s] + 1) /\ semV' = [semV EXCEPT ![s] = semV[s] + 1]
      BY <2>1 DEF V
    <3> QED BY <3>1, <3>2, ValueV
  <2>2. ASSUME NEW s \in Sem, wait(s) PROVE SemValue'
    BY <2>2, ValueP
  <2>3. CASE CreateProcess
    BY <1>1, <2>3 DEF CreateProcess, vars
  <2>4. \A s \in USem : s \in Sem
    BY DEF Sem
  <2> QED BY <1>1, <1>2, <2>1, <2>2, <2>3, <2>4, DevSemIsSem
          DEF SysCall, TerminateProcess, WaitIOBadLine, P, WaitForClock, WaitIO,
              SpecTrapVec, PassUpOrDie, startKill, vars
<1>3. CASE LocalTimer
  BY <1>1, <1>3 DEF LocalTimer
<1>4. CASE IntervalTimer
  <2>1. Clock \in Sem /\ Clock \notin USem /\ TypeOK
    BY SemAssumption, DevSemIsSem DEF IInv
  <2>2. /\ semQ' = [semQ EXCEPT ![Clock] = <<>>]
        /\ semV' = [semV EXCEPT ![Clock] = 0]
    BY <1>4 DEF IntervalTimer
  <2>3. <<>> \in Seq(Proc) /\ Len(<<>>) = 0 /\ 0 \in Int
    BY EmptySeq
  <2>4. ValueOK(Clock, Len(<<>>), 0)
    BY <2>1, <2>3 DEF ValueOK
  <2> QED BY <2>1, <2>2, <2>3, <2>4, OneSemaphore
<1>5. ASSUME NEW r \in Port, DeviceInterrupt(r) PROVE SemValue'
  <2> DEFINE s == semIndex(servedPort(r))
  <2>1. s \in Sem /\ s # Clock
    BY <1>5, ServedPort, DevSemIsSem DEF ClockAlone
  <2>2. unblock(s, semV[s] + 1) /\ semV' = [semV EXCEPT ![s] = semV[s] + 1]
    BY <1>5 DEF DeviceInterrupt
  <2> HIDE DEF s
  <2> QED BY <2>1, <2>2, ValueV
<1>6. CASE Device \/ Stopped \/ UNCHANGED vars
  BY <1>1, <1>6 DEF Device, StartIO, DeviceCompletes, Stopped, vars
<1> QED BY <1>2, <1>3, <1>4, <1>5, <1>6, ValueKillStep DEF Next, Interrupt

LEMMA ValueInit == Init => SemValue
<1> SUFFICES ASSUME Init PROVE SemValue
  OBVIOUS
<1>1. /\ \A s \in Sem : semQ[s] = <<>> /\ semV[s] \in 0..SemBound
      /\ semV[Clock] = 0
  BY DevSemIsSem DEF Init
<1>2. \A s \in Sem : Len(semQ[s]) = 0 /\ semV[s] \in Nat
  BY <1>1, BoundAssumption
<1> QED BY <1>1, <1>2, SemValueIsLocal DEF ValueOK

(* A negative user semaphore counts its waiters, also after kills; a       *)
(* device semaphore never claims fewer than it has; SYS7 always blocks.    *)
THEOREM SemValueCorrect ==
  ASSUME ClockAlone
  PROVE  Spec => []SemValue
<1>1. IInv /\ SemValue /\ [Next]_vars => SemValue'
  BY ValueNext
<1> QED BY <1>1, ValueInit, IInvCorrect, PTL DEF Spec

-----------------------------------------------------------------------------
(* What SYS8 waits for.                                                    *)

(* A process that named a port in SYS8 is on the queue of its semaphore.   *)
Awaits(p) == waitsOn[p] # NULL => p_semAdd[p] = semIndex(waitsOn[p])

AwaitOK == machine # "lost" => \A p \in Proc : Awaits(p)

(* No terminal is used in both directions.  (Otherwise its interrupts may  *)
(* be taken for those of the other sub-device.)                            *)
OneWay == \A r, q \in Port : r[1] = q[1] /\ r[2] = q[2] => r = q

(* p leaves SYS8, or dies. *)
Left(p) == waitsOn[p] # NULL /\ waitsOn'[p] = NULL

(* Ports have semaphores of their own. *)
LEMMA IndexOfPort ==
  ASSUME OneWay, NEW r \in Port, NEW q \in Port, semIndex(r) = semIndex(q)
  PROVE  r = q
<1>1. /\ r[1] \in 3..7 /\ r[2] \in 0..7 /\ r[3] \in {0, 1}
      /\ q[1] \in 3..7 /\ q[2] \in 0..7 /\ q[3] \in {0, 1}
  BY PortAssumption DEF DISKINT, TERMINT
<1>2. r[1] = q[1] /\ r[2] = q[2]
  BY <1>1 DEF semIndex, TERMINT, DEVCNT, DEVINTOFFSET, TERMCNT
<1> QED BY <1>2 DEF OneWay

(* The handler serves the port that has interrupted. *)
LEMMA ServesItself ==
  ASSUME OneWay, NEW r \in Port, DeviceInterrupt(r)
  PROVE  servedPort(r) = r
<1>1. servedPort(r) \in Port
  BY ServedPort
<1>2. servedPort(r)[1] = r[1] /\ servedPort(r)[2] = r[2]
  BY DEF servedPort
<1> QED BY <1>1, <1>2 DEF OneWay

(* A step that blocks no one. *)
LEMMA AwaitKept ==
  ASSUME AwaitOK, machine # "lost" \/ machine' = machine,
         \A p \in Proc : \/ waitsOn'[p] = NULL
                         \/ waitsOn'[p] = waitsOn[p] /\ p_semAdd'[p] = p_semAdd[p]
  PROVE  AwaitOK'
BY DEF AwaitOK, Awaits

(* A V wakes a process that waits for that semaphore. *)
LEMMA AwaitV ==
  ASSUME IInv, AwaitOK, machine # "lost", NEW s \in Sem, NEW v, unblock(s, v)
  PROVE  /\ AwaitOK'
         /\ \A p \in Proc : Left(p) => semIndex(waitsOn[p]) = s
<1>1. CASE wakes(s, v)
  <2> DEFINE h == headProcQ(semQ[s])
  <2>1. semQ[s] \in Seq(Proc) /\ semQ[s] # <<>>
    BY <1>1 DEF wakes, IInv, TypeOK
  <2>2. h \in Proc /\ InQ(semQ[s], h)
    BY <2>1, RemoveProcQ
  <2>3. p_semAdd[h] = s
    BY <2>2 DEF IInv, OnePlace
  <2>4. /\ p_semAdd' = [p_semAdd EXCEPT ![h] = NULL]
        /\ waitsOn' = [waitsOn EXCEPT ![h] = NULL]
    BY <1>1, <2>1 DEF unblock, removeBlocked
  <2> HIDE DEF h
  <2>5. \A p \in Proc : p # h => waitsOn'[p] = waitsOn[p] /\ p_semAdd'[p] = p_semAdd[p]
    BY <2>4 DEF IInv, TypeOK
  <2>6. waitsOn'[h] = NULL
    BY <2>2, <2>4 DEF IInv, TypeOK
  <2>7. AwaitOK'
    BY <2>5, <2>6, AwaitKept
  <2> QED BY <2>3, <2>5, <2>7 DEF AwaitOK, Awaits, Left
<1>2. CASE ~wakes(s, v)
  <2>1. UNCHANGED <<p_semAdd, waitsOn>>
    BY <1>2 DEF unblock
  <2> QED BY <2>1, AwaitKept DEF Left
<1> QED BY <1>1, <1>2

(* SYS4, SYS7 and SYS8: whoever calls is not waiting, and if SYS8 blocks   *)
(* it does so on the semaphore of its port.                                *)
LEMMA AwaitP ==
  ASSUME IInv, AwaitOK, NEW s \in Sem, wait(s),
         \/ waitsOn' = waitsOn
         \/ \E r \in Port : s = semIndex(r) /\ semV[s] - 1 < 0
                            /\ waitsOn' = [waitsOn EXCEPT ![currentProc] = r]
  PROVE  AwaitOK' /\ \A p \in Proc : ~Left(p)
<1>1. Running /\ machine # "lost" /\ currentProc \in Proc
  BY CurrentInUse DEF wait, Running
<1>2. p_semAdd[currentProc] = NULL
  BY <1>1, OnePlaceIsPlaced DEF IInv, Placed
<1>3. waitsOn[currentProc] = NULL
  BY <1>1, <1>2, DevSemIsSem, SemAssumption DEF AwaitOK, Awaits, IInv, TypeOK
<1>4. canBlock(s)
  BY <1>1, DescriptorAvailable
<1>5. \A p \in Proc : p # currentProc =>
        waitsOn'[p] = waitsOn[p] /\ p_semAdd'[p] = p_semAdd[p]
  BY <1>4 DEF wait, insertBlocked, IInv, TypeOK
<1>6. CASE waitsOn' = waitsOn
  BY <1>1, <1>3, <1>5, <1>6, AwaitKept DEF Left
<1>7. ASSUME NEW r \in Port, s = semIndex(r), semV[s] - 1 < 0,
             waitsOn' = [waitsOn EXCEPT ![currentProc] = r]
      PROVE  AwaitOK' /\ \A p \in Proc : ~Left(p)
  <2>1. p_semAdd'[currentProc] = s /\ waitsOn'[currentProc] = r
    BY <1>1, <1>4, <1>7 DEF wait, insertBlocked, IInv, TypeOK
  <2> QED BY <1>1, <1>3, <1>5, <1>7, <2>1 DEF AwaitOK, Awaits, Left
<1> QED BY <1>6, <1>7

LEMMA AwaitSysCall ==
  ASSUME IInv, AwaitOK, SysCall
  PROVE  /\ AwaitOK'
         /\ \A p \in Proc : Left(p) => semIndex(waitsOn[p]) \in USem
<1>1. CASE UNCHANGED <<p_semAdd, waitsOn, machine>>
  BY <1>1, AwaitKept DEF Left
<1>2. ASSUME NEW s \in USem, V(s)
      PROVE  AwaitOK' /\ \A p \in Proc : Left(p) => semIndex(waitsOn[p]) \in USem
  <2>1. s \in Sem /\ machine # "lost" /\ unblock(s, semV[s] + 1)
    BY <1>2 DEF V, Running, Sem
  <2> QED BY <2>1, AwaitV
<1>3. ASSUME NEW s \in Sem, wait(s), waitsOn' = waitsOn
      PROVE  AwaitOK' /\ \A p \in Proc : ~Left(p)
  BY <1>3, AwaitP
<1>4. ASSUME NEW r \in Port, WaitIO(r)
      PROVE  AwaitOK' /\ \A p \in Proc : ~Left(p)
  <2>1. semIndex(r) \in Sem /\ wait(semIndex(r))
    BY <1>4, DevSemIsSem DEF WaitIO
  <2>2. \/ waitsOn' = waitsOn
        \/ /\ semV[semIndex(r)] - 1 < 0
           /\ waitsOn' = [waitsOn EXCEPT ![currentProc] = r]
    BY <1>4 DEF WaitIO
  <2> QED BY <2>1, <2>2, AwaitP
<1>5. \A s \in USem : s \in Sem
  BY DEF Sem
<1> QED BY <1>1, <1>2, <1>3, <1>4, <1>5, DevSemIsSem
        DEF SysCall, CreateProcess, TerminateProcess, WaitIOBadLine, P,
            WaitForClock, SpecTrapVec, PassUpOrDie, startKill, cpu, vars

(* Who is killed waits no more, and no one else leaves. *)
LEMMA AwaitKillStep ==
  ASSUME IInv, AwaitOK, KillStep
  PROVE  /\ AwaitOK'
         /\ \A p \in Proc : Left(p) => p \in pcbFree'
<1>1. machine # "lost"
  BY DEF KillStep, KillChild, KillCurrent, KillReady, KillUnfound, KillBlocked,
         KillTrap, Descendant, Childless
<1>2. CASE KillChild \/ KillTrap
  BY <1>1, <1>2, AwaitKept DEF KillChild, KillTrap, Left
<1>3. CASE KillCurrent \/ KillReady \/ KillUnfound \/ KillBlocked
  <2>1. bury /\ top \in Proc
    BY <1>3, BuriedCurrent, BuriedDescendant
       DEF BuryDescendant, KillCurrent
  <2>2. p_semAdd' = p_semAdd \/ p_semAdd' = [p_semAdd EXCEPT ![top] = NULL]
    BY <1>3 DEF KillCurrent, KillReady, KillUnfound, KillBlocked
  <2>3. waitsOn' = [waitsOn EXCEPT ![top] = NULL] /\ top \in pcbFree'
    BY <2>1 DEF bury
  <2>4. \A p \in Proc : p # top => waitsOn'[p] = waitsOn[p] /\ p_semAdd'[p] = p_semAdd[p]
    BY <2>2, <2>3 DEF IInv, TypeOK
  <2>5. waitsOn'[top] = NULL
    BY <2>1, <2>3 DEF IInv, TypeOK
  <2>6. AwaitOK'
    BY <1>1, <2>4, <2>5, AwaitKept
  <2> QED BY <2>3, <2>4, <2>6 DEF Left
<1> QED BY <1>2, <1>3 DEF KillStep

LEMMA AwaitInterrupt ==
  ASSUME IInv, AwaitOK, Interrupt
  PROVE  /\ AwaitOK'
         /\ \A p \in Proc : Left(p) =>
              \/ semIndex(waitsOn[p]) = Clock
              \/ \E r \in Port : DeviceInterrupt(r)
                   /\ semIndex(waitsOn[p]) = semIndex(servedPort(r))
<1>1. machine # "lost"
  BY DEF Interrupt, LocalTimer, IntervalTimer, DeviceInterrupt, Interruptible
<1>2. CASE LocalTimer
  BY <1>1, <1>2, AwaitKept DEF LocalTimer, Left
<1>3. CASE IntervalTimer
  <2>1. \A p \in Proc :
          /\ p_semAdd'[p] = IF InQ(semQ[Clock], p) THEN NULL ELSE p_semAdd[p]
          /\ waitsOn'[p] = IF InQ(semQ[Clock], p) THEN NULL ELSE waitsOn[p]
    BY <1>3 DEF IntervalTimer
  <2>2. AwaitOK'
    BY <1>1, <2>1, AwaitKept
  <2>3. \A p \in Proc : InQ(semQ[Clock], p) => p_semAdd[p] = Clock
    BY <1>1, DevSemIsSem DEF IInv, OnePlace
  <2> QED BY <1>1, <2>1, <2>2, <2>3 DEF AwaitOK, Awaits, Left
<1>4. ASSUME NEW r \in Port, DeviceInterrupt(r)
      PROVE  /\ AwaitOK'
             /\ \A p \in Proc : Left(p) =>
                  semIndex(waitsOn[p]) = semIndex(servedPort(r))
  <2> DEFINE s == semIndex(servedPort(r))
  <2>1. s \in Sem /\ unblock(s, semV[s] + 1)
    BY <1>4, ServedPort, DevSemIsSem DEF DeviceInterrupt
  <2> HIDE DEF s
  <2>2. AwaitOK' /\ \A p \in Proc : Left(p) => semIndex(waitsOn[p]) = s
    BY <1>1, <2>1, AwaitV
  <2> QED BY <2>2 DEF s
<1> QED BY <1>2, <1>3, <1>4 DEF Interrupt

LEMMA AwaitOther ==
  ASSUME AwaitOK, Device \/ Stopped \/ UNCHANGED vars
  PROVE  AwaitOK' /\ \A p \in Proc : ~Left(p)
<1>1. UNCHANGED <<p_semAdd, waitsOn, machine>>
  BY DEF Device, StartIO, DeviceCompletes, Stopped, cpu, vars
<1> QED BY <1>1, AwaitKept DEF Left

LEMMA AwaitNext == IInv /\ AwaitOK /\ [Next]_vars => AwaitOK'
BY AwaitSysCall, AwaitKillStep, AwaitInterrupt, AwaitOther DEF Next

LEMMA AwaitInit == Init => AwaitOK
BY DEF Init, AwaitOK, Awaits

(* Who leaves SYS8 alive was waiting for a device that is done. *)
LEMMA WokenNext ==
  ASSUME ClockAlone, OneWay, IInv, AwaitOK, [Next]_vars, NEW p \in Proc,
         Left(p), p \notin pcbFree'
  PROVE  devReg[waitsOn[p]] = "DONE"
<1>1. waitsOn[p] \in Port
  BY DEF Left, IInv, TypeOK
<1>2. semIndex(waitsOn[p]) # Clock /\ semIndex(waitsOn[p]) \notin USem
  BY <1>1, DevSemIsSem, SemAssumption DEF ClockAlone
<1>3. Interrupt
  BY <1>2, AwaitSysCall, AwaitKillStep, AwaitOther DEF Next
<1>4. PICK r \in Port : /\ DeviceInterrupt(r)
                        /\ semIndex(waitsOn[p]) = semIndex(servedPort(r))
  BY <1>2, <1>3, AwaitInterrupt
<1>5. waitsOn[p] = r
  BY <1>1, <1>4, IndexOfPort, ServesItself
<1> QED BY <1>4, <1>5 DEF DeviceInterrupt, Serviced, Pending

(* SYS8 ends only when the operation of the port it named is done, or with *)
(* the process, if no terminal is used in both directions and no port has  *)
(* the clock's semaphore.                                                  *)
THEOREM WokenCorrect ==
  ASSUME ClockAlone, OneWay
  PROVE  Spec => WokenByOwnDevice
<1>1. IInv /\ AwaitOK /\ [Next]_vars => AwaitOK'
  BY AwaitNext
<1>2. IInv /\ AwaitOK /\ [Next]_vars =>
        [\A p \in Proc :
           waitsOn[p] # NULL /\ waitsOn'[p] = NULL /\ p \notin pcbFree'
             => devReg[waitsOn[p]] = "DONE"]_vars
  BY WokenNext DEF Left
<1> QED BY <1>1, <1>2, AwaitInit, IInvCorrect, PTL DEF Spec, WokenByOwnDevice

-----------------------------------------------------------------------------
(* What SYS7 waits for.                                                    *)

(* Nobody leaves the clock. *)
NoTick == \A p \in Proc : InQ(semQ[Clock], p) => InQ(semQ'[Clock], p)

(* A V of another semaphore leaves the queue of the clock alone. *)
LEMMA ClockV ==
  ASSUME IInv, NEW s \in Sem, s # Clock, NEW v, unblock(s, v)
  PROVE  NoTick
<1>1. semQ'[Clock] = semQ[Clock]
  BY DevSemIsSem DEF unblock, removeBlocked, IInv, TypeOK
<1> QED BY <1>1 DEF NoTick

(* A P adds to a queue. *)
LEMMA ClockP ==
  ASSUME IInv, NEW s \in Sem, wait(s)
  PROVE  NoTick
<1>1. currentProc \in Proc /\ semQ \in [Sem -> Seq(Proc)] /\ Clock \in Sem
  BY CurrentInUse, DevSemIsSem DEF wait, Running, IInv, TypeOK
<1>2. \/ semQ'[Clock] = semQ[Clock]
      \/ semQ'[Clock] = insertProcQ(semQ[Clock], currentProc)
  BY <1>1 DEF wait, insertBlocked
<1>3. \A p : InQ(semQ[Clock], p) => InQ(insertProcQ(semQ[Clock], currentProc), p)
  BY <1>1, InsertProcQ
<1> QED BY <1>2, <1>3 DEF NoTick

LEMMA ClockSysCall ==
  ASSUME IInv, SysCall
  PROVE  NoTick
<1>1. CASE UNCHANGED semQ
  BY <1>1 DEF NoTick
<1>2. ASSUME NEW s \in USem PROVE V(s) => NoTick
  <2>1. s \in Sem /\ s # Clock
    BY SemAssumption, DevSemIsSem DEF Sem
  <2> QED BY <2>1, ClockV DEF V
<1>3. ASSUME NEW s \in Sem PROVE wait(s) => NoTick
  BY ClockP
<1>4. \A s \in USem : s \in Sem
  BY DEF Sem
<1> QED BY <1>1, <1>2, <1>3, <1>4, DevSemIsSem
        DEF SysCall, CreateProcess, TerminateProcess, WaitIOBadLine, P,
            WaitForClock, WaitIO, SpecTrapVec, PassUpOrDie, startKill, vars

(* Of those at the clock a kill takes away only its victim.                *)
LEMMA ClockKillStep ==
  ASSUME IInv, KillStep, NEW p \in Proc, Ticked(p)
  PROVE  p \in pcbFree'
<1>1. KillBlocked
  BY DEF KillStep, KillChild, KillCurrent, KillReady, KillUnfound, KillTrap, Ticked
<1>2. top \in Proc /\ bury
  BY <1>1, BuriedDescendant DEF BuryDescendant
<1> DEFINE s == p_semAdd[top]
<1>3. /\ s \in Sem /\ outFinds(semQ[s], top)
      /\ semQ' = [semQ EXCEPT ![s] = outProcQ(semQ[s], top)]
  BY <1>1, <1>2 DEF KillBlocked, NotBlocked, IInv, TypeOK
<1> HIDE DEF s
<1>4. semQ \in [Sem -> Seq(Proc)] /\ Clock \in Sem
  BY DevSemIsSem DEF IInv, TypeOK
<1>5. semQ[s] \in Seq(Proc)
  BY <1>3, <1>4
<1>6. \A x : InQ(semQ[s], x) => x = top \/ InQ(outProcQ(semQ[s], top), x)
  BY <1>3, <1>5, OutProcQ
<1>7. p = top
  BY <1>3, <1>4, <1>6 DEF Ticked
<1> QED BY <1>2, <1>7 DEF bury

(* The tick: the queue of the clock moves to the tail of the ready queue,  *)
(* from which the scheduler takes the first if the processor was waiting.  *)
LEMMA TickStep ==
  ASSUME IInv, IntervalTimer, NEW p \in Proc, InQ(semQ[Clock], p)
  PROVE  /\ semQ'[Clock] = <<>>
         /\ readyQue \o semQ[Clock] =
              (IF currentProc' = currentProc THEN <<>> ELSE <<currentProc'>>)
                \o readyQue'
<1> DEFINE rq == readyQue \o semQ[Clock]
<1>1. semQ \in [Sem -> Seq(Proc)] /\ Clock \in Sem /\ readyQue \in Seq(Proc)
  BY DevSemIsSem DEF IInv, TypeOK
<1>2. semQ'[Clock] = <<>>
  BY <1>1 DEF IntervalTimer
<1>3. rq \in Seq(Proc) /\ InQ(rq, p)
  BY <1>1, JoinQueues
<1>4. rq # <<>>
  BY <1>3 DEF InQ
<1>5. \E sft : resume(rq, sft)
  BY DEF IntervalTimer
<1> HIDE DEF rq
<1>6. CASE waiting
  <2>1. currentProc = NULL /\ NULL \notin Proc
    BY <1>6, ProcAssumption DEF IInv, WaitOK
  <2>2. currentProc' = Head(rq) /\ readyQue' = Tail(rq)
    BY <1>4, <1>5, <1>6 DEF resume, scheduler, headProcQ, removeProcQ, emptyProcQ
  <2>3. Head(rq) \in Proc /\ rq = <<Head(rq)>> \o Tail(rq)
    BY <1>3, <1>4
  <2> QED BY <1>2, <2>1, <2>2, <2>3 DEF rq
<1>7. CASE ~waiting
  <2>1. currentProc' = currentProc /\ readyQue' = rq
    BY <1>5, <1>7 DEF resume
  <2>2. rq = <<>> \o rq
    BY <1>3
  <2> QED BY <1>2, <2>1, <2>2 DEF rq
<1> QED BY <1>6, <1>7

(* Only a tick takes a process that goes on living from the clock.         *)
LEMMA TickNext ==
  ASSUME ClockAlone, IInv, [Next]_vars, NEW p \in Proc, Ticked(p), p \notin pcbFree'
  PROVE  IntervalTimer
<1>1. ~UNCHANGED semQ /\ ~NoTick
  BY DEF Ticked, NoTick
<1>2. ~UNCHANGED vars /\ ~Device /\ ~Stopped /\ ~LocalTimer
  BY <1>1 DEF vars, Device, StartIO, DeviceCompletes, Stopped, LocalTimer
<1>3. ~SysCall /\ ~KillStep
  BY <1>1, ClockSysCall, ClockKillStep
<1>4. ASSUME NEW r \in Port, DeviceInterrupt(r) PROVE FALSE
  <2> DEFINE s == semIndex(servedPort(r))
  <2>1. s \in Sem /\ s # Clock
    BY <1>4, ServedPort, DevSemIsSem DEF ClockAlone
  <2>2. unblock(s, semV[s] + 1)
    BY <1>4 DEF DeviceInterrupt
  <2> HIDE DEF s
  <2> QED BY <1>1, <2>1, <2>2, ClockV
<1> QED BY <1>2, <1>3, <1>4 DEF Next, Interrupt

(* interrupts.c:131-144: a tick makes all ready who wait for it, in the    *)
(* order of their SYS7; nothing else but a kill takes anyone from the      *)
(* clock, if no port has the clock's semaphore.                            *)
THEOREM TickWakesAllCorrect ==
  ASSUME ClockAlone
  PROVE  Spec => TickWakesAll
<1>1. IInv /\ [Next]_vars =>
        [(\E p \in Proc : Ticked(p) /\ p \notin pcbFree') =>
           /\ semQ'[Clock] = <<>>
           /\ readyQue \o semQ[Clock] =
                (IF currentProc' = currentProc THEN <<>> ELSE <<currentProc'>>)
                  \o readyQue']_vars
  BY TickNext, TickStep DEF Ticked
<1> QED BY <1>1, IInvCorrect, PTL DEF Spec, TickWakesAll

-----------------------------------------------------------------------------
(* What a completed operation does.                                        *)

(* A waiter at a device semaphore shows in its value, so the V finds it.   *)
LEMMA ValueShowsWaiter ==
  ASSUME ClockAlone, IInv, SemValue, NEW s \in DevSem, semQ[s] # <<>>
  PROVE  wakes(s, semV[s] + 1)
<1>1. s \in Sem /\ Len(semQ[s]) <= Deficit(s)
  <2>1. s \in Sem
    BY DEF Sem
  <2>2. Len(semQ[s]) <= Deficit(s)
    BY DEF SemValue
  <2> QED BY <2>1, <2>2
<1>2. Len(semQ[s]) # 0 /\ Len(semQ[s]) \in Nat /\ semV[s] \in Int
  BY <1>1, SemaphoreTypes DEF IInv
<1> QED BY <1>1, <1>2 DEF Deficit, wakes

(* Who is put on the ready queue is there after the handler, or runs.      *)
LEMMA ResumeReady ==
  ASSUME IInv, NEW p \in Proc, NEW sft, resume(insertProcQ(readyQue, p), sft)
  PROVE  currentProc' = p \/ InQ(readyQue', p)
<1> DEFINE rq == insertProcQ(readyQue, p)
<1>1. rq \in Seq(Proc) /\ rq # <<>> /\ InQ(rq, p)
  BY InsertProcQ DEF IInv, TypeOK
<1> HIDE DEF rq
<1>2. CASE waiting
  <2>1. currentProc' = headProcQ(rq) /\ readyQue' = removeProcQ(rq)
    BY <1>2 DEF resume, scheduler, rq
  <2> QED BY <1>1, <2>1, RemoveProcQ
<1>3. CASE ~waiting
  BY <1>1, <1>3 DEF resume, rq
<1> QED BY <1>2, <1>3

(* An operation is acknowledged by the interrupt that serves its port.     *)
LEMMA AcknowledgedBy ==
  ASSUME IInv, [Next]_vars, NEW r \in Port, devReg[r] = "DONE", devReg'[r] = "READY"
  PROVE  \E x \in Port : DeviceInterrupt(x) /\ servedPort(x) = r
<1>1. ~UNCHANGED devReg /\ ~Device
  BY DEF Device, StartIO, DeviceCompletes, IInv, TypeOK
<1>2. ~SysCall /\ ~KillStep /\ ~Stopped /\ ~LocalTimer /\ ~IntervalTimer
  BY <1>1
     DEF SysCall, CreateProcess, TerminateProcess, WaitIOBadLine, V, P, wait,
         WaitForClock, WaitIO, SpecTrapVec, PassUpOrDie, startKill, vars, KillStep,
         KillChild, KillCurrent, KillReady, KillUnfound, KillBlocked, KillTrap,
         bury, Stopped, LocalTimer, IntervalTimer
<1>3. PICK x \in Port : DeviceInterrupt(x)
  BY <1>1, <1>2 DEF Next, Interrupt, vars
<1>4. servedPort(x) = r
  BY <1>3 DEF DeviceInterrupt, acknowledge, IInv, TypeOK
<1> QED BY <1>3, <1>4

LEMMA CompletionNext ==
  ASSUME ClockAlone, IInv, SemValue, [Next]_vars, NEW r \in Port,
         devReg[r] = "DONE", devReg'[r] = "READY", semQ[semIndex(r)] # <<>>
  PROVE  /\ semQ'[semIndex(r)] = Tail(semQ[semIndex(r)])
         /\ \/ currentProc' = Head(semQ[semIndex(r)])
            \/ InQ(readyQue', Head(semQ[semIndex(r)]))
<1> DEFINE s == semIndex(r)
<1>1. PICK x \in Port : DeviceInterrupt(x) /\ servedPort(x) = r
  BY AcknowledgedBy
<1>2. s \in DevSem /\ s \in Sem
  BY DevSemIsSem
<1>3. /\ unblock(s, semV[s] + 1)
      /\ \E sft : resume(readyAfterV(s, semV[s] + 1), sft)
  BY <1>1 DEF DeviceInterrupt
<1>4. semQ \in [Sem -> Seq(Proc)] /\ semQ[s] # <<>>
  BY DEF IInv, TypeOK
<1> HIDE DEF s
<1>5. wakes(s, semV[s] + 1)
  BY <1>2, <1>4, ValueShowsWaiter
<1>6. semQ'[s] = Tail(semQ[s])
  BY <1>2, <1>3, <1>4, <1>5 DEF unblock, removeBlocked, removeProcQ, emptyProcQ
<1>7. headProcQ(semQ[s]) = Head(semQ[s]) /\ Head(semQ[s]) \in Proc
  BY <1>2, <1>4 DEF headProcQ, emptyProcQ
<1>8. currentProc' = Head(semQ[s]) \/ InQ(readyQue', Head(semQ[s]))
  BY <1>3, <1>5, <1>7, ResumeReady DEF readyAfterV
<1> QED BY <1>6, <1>8 DEF s

(* interrupts.c:217-227: a completed operation makes the first waiter of   *)
(* its device ready, whatever the semaphore's value has been driven to by  *)
(* others or by killed waiters, if no port has the clock's semaphore.      *)
THEOREM CompletionWakesCorrect ==
  ASSUME ClockAlone
  PROVE  Spec => CompletionWakes
<1>1. IInv /\ SemValue /\ [Next]_vars =>
        [\A r \in Port :
           LET q == semQ[semIndex(r)] IN
           devReg[r] = "DONE" /\ devReg'[r] = "READY" /\ q # <<>> =>
             /\ semQ'[semIndex(r)] = Tail(q)
             /\ currentProc' = Head(q) \/ InQ(readyQue', Head(q))]_vars
  BY CompletionNext
<1> QED BY <1>1, SemValueCorrect, IInvCorrect, PTL DEF Spec, CompletionWakes
==============================================================================
