---------------------------- MODULE ResultsProofs ----------------------------
(***************************************************************************)
(* Theorems about what a process finds in v0 after SYS8, SYS6 and SYS10,   *)
(* for any processes, any statuses of the devices, any texts, and a clock  *)
(* of any width.                                                           *)
(***************************************************************************)
EXTENDS MCResults, ProcQTheorems, FiniteSetTheorems

(* The operators of the instances are those of the library and of ProcQ.   *)
LEMMA SameOperators ==
  ASSUME NEW S, NEW q, NEW p
  PROVE  /\ Dev!IsFiniteSet(S) <=> IsFiniteSet(S)
         /\ Cpu!IsFiniteSet(S) <=> IsFiniteSet(S)
         /\ Dev!Cardinality(S) = Cardinality(S)
         /\ Cpu!Cardinality(S) = Cardinality(S)
         /\ Dev!headProcQ(q) = headProcQ(q)
         /\ Cpu!headProcQ(q) = headProcQ(q)
         /\ Dev!removeProcQ(q) = removeProcQ(q)
         /\ Cpu!removeProcQ(q) = removeProcQ(q)
         /\ Dev!insertProcQ(q, p) = insertProcQ(q, p)
         /\ Cpu!insertProcQ(q, p) = insertProcQ(q, p)
         /\ Cpu!emptyProcQ(q) <=> emptyProcQ(q)
         /\ Dev!NoDup(q) <=> NoDup(q)
<1>1. /\ Dev!IsFiniteSet(S) <=> IsFiniteSet(S)
      /\ Cpu!IsFiniteSet(S) <=> IsFiniteSet(S)
  BY DEF Dev!IsFiniteSet, Cpu!IsFiniteSet, IsFiniteSet
<1>2. /\ Dev!Cardinality(S) = Cardinality(S)
      /\ Cpu!Cardinality(S) = Cardinality(S)
  BY DEF Dev!Cardinality, Cpu!Cardinality, Cardinality
<1>3. /\ Dev!headProcQ(q) = headProcQ(q)
      /\ Cpu!headProcQ(q) = headProcQ(q)
      /\ Dev!removeProcQ(q) = removeProcQ(q)
      /\ Cpu!removeProcQ(q) = removeProcQ(q)
      /\ Dev!insertProcQ(q, p) = insertProcQ(q, p)
      /\ Cpu!insertProcQ(q, p) = insertProcQ(q, p)
      /\ Cpu!emptyProcQ(q) <=> emptyProcQ(q)
      /\ Dev!NoDup(q) <=> NoDup(q)
  BY DEF headProcQ, removeProcQ, insertProcQ, emptyProcQ, Dev!headProcQ,
         Dev!removeProcQ, Dev!insertProcQ, Dev!emptyProcQ, Cpu!headProcQ,
         Cpu!removeProcQ, Cpu!insertProcQ, Cpu!emptyProcQ, Dev!NoDup, NoDup
<1> QED BY <1>1, <1>2, <1>3

-----------------------------------------------------------------------------
(* SYS8.                                                                   *)

DevType ==
  /\ devPc \in [Reader -> {"compute", "use", "command", "sys8", "check"}]
  /\ devV0 \in [Reader -> {Dev!Own} \cup (Reader \X (Status8 \cup {0}))]
  /\ devCurrent \in Reader \cup {NULL}
  /\ devReady \in Seq(Reader)
  /\ semV \in [Reader -> Int]
  /\ devBlocked \subseteq Reader
  /\ device \in [Reader -> {"READY", "BUSY", "DONE"}]
  /\ d_status \in [Reader -> Status8 \cup {0}]

(* The semaphore of a device is above 0 only when its interrupt came       *)
(* before SYS8.                                                            *)
Operating(p) ==
  /\ devPc[p] \in {"compute", "use", "command"} =>
       semV[p] = 0 /\ device[p] = "READY" /\ p \notin devBlocked
  /\ devPc[p] = "sys8" =>
       semV[p] = (IF device[p] = "READY" THEN 1 ELSE 0) /\ p \notin devBlocked
  /\ devPc[p] = "check" =>
       IF p \in devBlocked THEN semV[p] = -1 /\ device[p] # "READY"
       ELSE semV[p] = 0 /\ device[p] = "READY"

(* From the command to SYS8 a process that masks keeps the processor, so   *)
(* that the interrupt of its device finds it blocked, and goes to it.      *)
Masked(p) ==
  /\ devPc[p] = "sys8" => device[p] # "READY" /\ devCurrent = p
  /\ devPc[p] = "check" /\ p \notin devBlocked => devV0[p] = Dev!StatusOf(p)

Private(p) ==
  devV0[p] # Dev!Own /\ devV0[p][1] \in Masker =>
    devV0[p][1] = p /\ devPc[p] \in {"check", "compute"}

(* A process is running, ready, or blocked, only one of them. *)
OnlyOne ==
  /\ NoDup(devReady)
  /\ devCurrent \notin devBlocked
  /\ \A p \in Reader : InQ(devReady, p) => p \notin devBlocked /\ p # devCurrent

DevInv ==
  /\ DevType /\ OnlyOne
  /\ \A p \in Reader : Operating(p) /\ Private(p)
  /\ \A p \in Masker : Masked(p)

LEMMA Maskers == Masker \subseteq Reader /\ NULL \notin Reader
BY ResultsAssumption DEF Dev!StatusAssumption

LEMMA DevInit == Dev!Init => DevInv
<1> SUFFICES ASSUME Dev!Init PROVE DevInv
  OBVIOUS
<1>1. devReady \in Seq(Reader) /\ NoDup(devReady)
  <2>1. Cardinality(Reader) \in Nat
    BY ResultsAssumption, SameOperators, FS_CardinalityType DEF Dev!StatusAssumption
  <2>2. devReady \in [1..Dev!Cardinality(Reader) -> Reader] /\ Dev!NoDup(devReady)
    BY DEF Dev!Init
  <2>3. devReady \in [1..Cardinality(Reader) -> Reader] /\ NoDup(devReady)
    BY <2>2, SameOperators
  <2> QED BY <2>1, <2>3
<1>2. DevType
  BY <1>1 DEF Dev!Init, DevType
<1>3. OnlyOne
  BY <1>1, ResultsAssumption DEF Dev!Init, OnlyOne, Dev!StatusAssumption
<1>4. \A p \in Reader : Operating(p) /\ Private(p) /\ Masked(p)
  BY DEF Dev!Init, Operating, Private, Masked
<1> QED BY <1>2, <1>3, <1>4, Maskers DEF DevInv

(* The processor goes to the head of a queue, or to no process. *)
LEMMA DevScheduler ==
  ASSUME NEW rq \in Seq(Reader), NoDup(rq), Dev!scheduler(rq)
  PROVE  /\ devCurrent' \in Reader \cup {NULL} /\ devReady' \in Seq(Reader)
         /\ NoDup(devReady)'
         /\ devCurrent' # NULL => InQ(rq, devCurrent')
         /\ \A p \in Reader :
              InQ(devReady', p) => InQ(rq, p) /\ p # devCurrent'
<1>1. devCurrent' = headProcQ(rq) /\ devReady' = removeProcQ(rq)
  BY SameOperators DEF Dev!scheduler
<1>2. CASE rq = <<>>
  <2>1. devCurrent' = NULL /\ devReady' = <<>>
    BY <1>1, <1>2 DEF headProcQ, removeProcQ, emptyProcQ
  <2> QED BY <2>1 DEF NoDup, InQ
<1>3. CASE rq # <<>>
  BY <1>1, <1>3, RemoveProcQ
<1> QED BY <1>2, <1>3

LEMMA DevProcess ==
  ASSUME DevInv, NEW p \in Reader,
         Dev!Compute(p) \/ Dev!Use(p) \/ Dev!Command(p) \/ Dev!Check(p)
  PROVE  DevInv'
<1>1. p \notin devBlocked /\ UNCHANGED <<devCurrent, devReady, semV, devBlocked>>
  BY DEF Dev!Compute, Dev!Use, Dev!Command, Dev!Check, Dev!At, Dev!kernel, DevInv,
         OnlyOne
<1>2. OnlyOne'
  BY <1>1 DEF DevInv, OnlyOne
<1>3. CASE Dev!Compute(p)
  <2>1. DevType' /\ \A q \in Reader : Operating(q)' /\ Private(q)'
    BY <1>1, <1>3 DEF Dev!Compute, Dev!At, Dev!Goto, DevInv, DevType, Operating, Private
  <2>2. \A q \in Masker : Masked(q)'
    BY <1>1, <1>3, Maskers DEF Dev!Compute, Dev!At, Dev!Goto, DevInv, DevType, Masked,
                               Dev!StatusOf
  <2> QED BY <1>2, <2>1, <2>2 DEF DevInv
<1>4. CASE Dev!Use(p)
  <2>1. DevType' /\ \A q \in Reader : Operating(q)' /\ Private(q)'
    BY <1>1, <1>4 DEF Dev!Use, Dev!At, Dev!Goto, DevInv, DevType, Operating, Private
  <2>2. \A q \in Masker : Masked(q)'
    BY <1>1, <1>4, Maskers DEF Dev!Use, Dev!At, Dev!Goto, DevInv, DevType, Masked,
                               Dev!StatusOf
  <2> QED BY <1>2, <2>1, <2>2 DEF DevInv
<1>5. CASE Dev!Command(p)
  <2>1. DevType' /\ \A q \in Reader : Operating(q)' /\ Private(q)'
    BY <1>1, <1>5 DEF Dev!Command, Dev!At, Dev!Goto, DevInv, DevType, Operating, Private
  <2>2. \A q \in Masker : Masked(q)'
    BY <1>1, <1>5, Maskers DEF Dev!Command, Dev!At, Dev!Goto, DevInv, DevType, Masked,
                               Dev!StatusOf
  <2> QED BY <1>2, <2>1, <2>2 DEF DevInv
<1>6. CASE Dev!Check(p)
  <2>1. DevType' /\ \A q \in Reader : Operating(q)' /\ Private(q)'
    BY <1>1, <1>6 DEF Dev!Check, Dev!At, Dev!Goto, DevInv, DevType, Operating, Private
  <2>2. \A q \in Masker : Masked(q)'
    BY <1>1, <1>6, Maskers DEF Dev!Check, Dev!At, Dev!Goto, DevInv, DevType, Masked,
                               Dev!StatusOf
  <2> QED BY <1>2, <2>1, <2>2 DEF DevInv
<1> QED BY <1>3, <1>4, <1>5, <1>6

(* SYS8 blocks, unless the interrupt came first; then it returns at once.  *)
LEMMA DevWaitIO ==
  ASSUME DevInv, NEW p \in Reader, Dev!WaitIO(p)
  PROVE  DevInv'
<1>1. /\ devCurrent = p /\ devPc[p] = "sys8" /\ p \notin devBlocked
      /\ semV[p] = IF device[p] = "READY" THEN 1 ELSE 0
      /\ devPc' = [devPc EXCEPT ![p] = "check"]
      /\ semV' = [semV EXCEPT ![p] = semV[p] - 1]
      /\ UNCHANGED <<devV0, device, d_status>>
      /\ NoDup(devReady) /\ devReady \in Seq(Reader)
  BY DEF Dev!WaitIO, Dev!At, Dev!Goto, DevInv, DevType, Operating, OnlyOne
<1>2. IF device[p] = "READY" THEN UNCHANGED <<devBlocked, devCurrent, devReady>>
      ELSE devBlocked' = devBlocked \cup {p} /\ Dev!scheduler(devReady)
  BY <1>1 DEF Dev!WaitIO
<1>3. DevType'
  BY <1>1, <1>2, DevScheduler DEF DevInv, DevType
<1>4. OnlyOne'
  BY <1>1, <1>2, DevScheduler, Maskers DEF DevInv, DevType, OnlyOne
<1>5. ASSUME NEW q \in Reader PROVE Operating(q)' /\ Private(q)'
  BY <1>1, <1>2 DEF DevInv, DevType, Operating, Private
<1>6. ASSUME NEW q \in Masker PROVE Masked(q)'
  BY <1>1, <1>2, Maskers DEF DevInv, DevType, Masked, Dev!StatusOf
<1> QED BY <1>3, <1>4, <1>5, <1>6 DEF DevInv

(* Between a command with interrupts masked and the end of SYS8 no         *)
(* interrupt is taken.                                                     *)
LEMMA DevEnabled ==
  ASSUME DevInv, Dev!Enabled, NEW p \in Masker
  PROVE  /\ devPc[p] # "sys8"
         /\ devCurrent = p => devPc[p] # "check"
BY Maskers DEF Dev!Enabled, Dev!masked, DevInv, Masked

LEMMA DevLocalTimer ==
  ASSUME DevInv, Dev!LocalTimer
  PROVE  DevInv'
<1> DEFINE rq == IF devCurrent = NULL THEN devReady
                 ELSE insertProcQ(devReady, devCurrent)
<1>1. /\ Dev!Enabled /\ Dev!scheduler(rq)
      /\ UNCHANGED <<devPc, devV0, semV, devBlocked, device, d_status>>
  BY SameOperators DEF Dev!LocalTimer
<1>2. /\ rq \in Seq(Reader) /\ NoDup(rq)
      /\ \A p \in Reader : InQ(rq, p) => p \notin devBlocked
  <2>1. CASE devCurrent = NULL
    BY <2>1 DEF DevInv, DevType, OnlyOne
  <2>2. CASE devCurrent # NULL
    BY <2>2, InsertProcQ DEF DevInv, DevType, OnlyOne
  <2> QED BY <2>1, <2>2
<1> HIDE DEF rq
<1>3. DevType'
  BY <1>1, <1>2, DevScheduler DEF DevInv, DevType
<1>4. OnlyOne'
  BY <1>1, <1>2, DevScheduler, Maskers DEF DevInv, DevType, OnlyOne
<1>5. ASSUME NEW q \in Reader PROVE Operating(q)' /\ Private(q)'
  BY <1>1 DEF DevInv, Operating, Private
<1>6. ASSUME NEW q \in Masker PROVE Masked(q)'
  BY <1>1, DevEnabled DEF DevInv, Masked, Dev!StatusOf
<1> QED BY <1>3, <1>4, <1>5, <1>6 DEF DevInv

LEMMA DevDeviceDone ==
  ASSUME DevInv, NEW p \in Reader, Dev!DeviceDone(p)
  PROVE  DevInv'
<1>1. PICK st \in Status8 : d_status' = [d_status EXCEPT ![p] = st]
  BY DEF Dev!DeviceDone
<1>2. /\ device[p] = "BUSY" /\ device' = [device EXCEPT ![p] = "DONE"]
      /\ UNCHANGED <<devPc, devV0, devCurrent, devReady, semV, devBlocked>>
  BY DEF Dev!DeviceDone, Dev!kernel
<1>3. DevType' /\ OnlyOne'
  BY <1>1, <1>2 DEF DevInv, DevType, OnlyOne
<1>4. \A q \in Reader : Operating(q)' /\ Private(q)'
  BY <1>2 DEF DevInv, DevType, Operating, Private
<1>5. ASSUME NEW q \in Masker PROVE Masked(q)'
  <2>1. device[q] = "READY" => Dev!StatusOf(q)' = Dev!StatusOf(q)
    BY <1>1, <1>2, Maskers DEF DevInv, DevType, Dev!StatusOf
  <2>2. Operating(q)
    BY Maskers DEF DevInv
  <2> QED BY <1>2, <2>1, <2>2, Maskers DEF DevInv, DevType, Operating, Masked
<1> QED BY <1>3, <1>4, <1>5 DEF DevInv

(* The interrupt finds the process blocked, or it has not come to SYS8     *)
(* yet: then it does not mask, and the status goes to the one that runs.   *)
LEMMA DevDeviceInterrupt ==
  ASSUME DevInv, NEW p \in Reader, Dev!DeviceInterrupt(p)
  PROVE  DevInv'
<1>1. /\ Dev!Enabled /\ device[p] = "DONE"
      /\ device' = [device EXCEPT ![p] = "READY"]
      /\ semV' = [semV EXCEPT ![p] = semV[p] + 1]
      /\ UNCHANGED <<devPc, d_status>>
  BY DEF Dev!DeviceInterrupt
<1>2. \/ devPc[p] = "check" /\ p \in devBlocked /\ semV[p] = -1
      \/ devPc[p] = "sys8" /\ p \notin devBlocked /\ semV[p] = 0 /\ p \notin Masker
  BY <1>1, DevEnabled DEF DevInv, DevType, Operating
<1>3. /\ Dev!receivers(p) = IF p \in devBlocked THEN {p} ELSE {devCurrent}
      /\ Dev!woken(p) = {p} \cap devBlocked
  BY <1>2 DEF Dev!receivers, Dev!woken
<1>4. /\ \A q \in Reader :
           devV0'[q] = IF q \in Dev!receivers(p) THEN Dev!StatusOf(p) ELSE devV0[q]
      /\ devV0' \in [Reader -> {Dev!Own} \cup (Reader \X (Status8 \cup {0}))]
  <2>1. devV0' = [q \in Reader |->
                    IF q \in Dev!receivers(p) THEN Dev!StatusOf(p) ELSE devV0[q]]
    BY DEF Dev!DeviceInterrupt
  <2>2. Dev!StatusOf(p) \in Reader \X (Status8 \cup {0})
    BY DEF Dev!StatusOf, DevInv, DevType
  <2> QED BY <2>1, <2>2 DEF DevInv, DevType
<1> DEFINE rq == IF p \in devBlocked THEN insertProcQ(devReady, p) ELSE devReady
<1>5. devBlocked' = devBlocked \ {p}
  BY <1>3 DEF Dev!DeviceInterrupt
<1>6. /\ rq \in Seq(Reader) /\ NoDup(rq)
      /\ \A q \in Reader : InQ(rq, q) => q \notin devBlocked' /\ q # devCurrent
  <2>1. CASE p \in devBlocked
    BY <1>5, <2>1, InsertProcQ DEF DevInv, DevType, OnlyOne
  <2>2. CASE p \notin devBlocked
    BY <1>5, <2>2 DEF DevInv, DevType, OnlyOne
  <2> QED BY <2>1, <2>2
<1>7. IF devCurrent = NULL THEN Dev!scheduler(rq)
      ELSE devReady' = rq /\ UNCHANGED devCurrent
  <2>1. p \in Dev!woken(p) <=> p \in devBlocked
    BY <1>3
  <2> QED BY <2>1, SameOperators DEF Dev!DeviceInterrupt
<1> HIDE DEF rq
<1>8. /\ devCurrent' \in Reader \cup {NULL} /\ devReady' \in Seq(Reader)
      /\ OnlyOne'
  <2>1. CASE devCurrent = NULL
    BY <1>5, <1>6, <1>7, <2>1, DevScheduler, Maskers DEF DevInv, DevType, OnlyOne
  <2>2. CASE devCurrent # NULL
    BY <1>5, <1>6, <1>7, <2>2 DEF DevInv, DevType, OnlyOne
  <2> QED BY <2>1, <2>2
<1>9. DevType'
  <2>1. semV' \in [Reader -> Int] /\ device' \in [Reader -> {"READY", "BUSY", "DONE"}]
    BY <1>1 DEF DevInv, DevType
  <2>2. devBlocked' \subseteq Reader /\ UNCHANGED <<devPc, d_status>>
    BY <1>1, <1>5 DEF DevInv, DevType
  <2> QED BY <1>4, <1>8, <2>1, <2>2 DEF DevInv, DevType
<1>10. ASSUME NEW q \in Reader PROVE Operating(q)'
  BY <1>1, <1>2, <1>5 DEF DevInv, DevType, Operating
<1>11. ASSUME NEW q \in Reader PROVE Private(q)'
  <2>1. CASE q \in Dev!receivers(p)
    <3>1. devV0'[q] = <<p, d_status[p]>>
      BY <1>4, <2>1 DEF Dev!StatusOf
    <3>2. p \in Masker => q = p /\ devPc[p] = "check"
      BY <1>2, <1>3, <2>1
    <3> QED BY <1>1, <3>1, <3>2 DEF Private
  <2>2. CASE q \notin Dev!receivers(p)
    BY <1>1, <1>4, <2>2 DEF DevInv, Private
  <2> QED BY <2>1, <2>2
<1>12. ASSUME NEW q \in Masker PROVE Masked(q)'
  <2>1. devPc'[q] # "sys8" /\ Dev!StatusOf(q)' = Dev!StatusOf(q)
    BY <1>1, DevEnabled DEF Dev!StatusOf
  <2>2. CASE q = p
    BY <1>2, <1>3, <1>4, <2>1, <2>2 DEF Masked
  <2>3. CASE q # p
    <3>1. devPc[q] = "check" => q \notin Dev!receivers(p)
      BY <1>1, <1>3, <2>3, DevEnabled
    <3> QED BY <1>1, <1>4, <1>5, <2>1, <2>3, <3>1, Maskers DEF DevInv, Masked
  <2> QED BY <2>2, <2>3
<1> QED BY <1>8, <1>9, <1>10, <1>11, <1>12 DEF DevInv

LEMMA DevNext == DevInv /\ [Dev!Next]_devVars => DevInv'
<1> SUFFICES ASSUME DevInv, [Dev!Next]_devVars PROVE DevInv'
  OBVIOUS
<1>1. CASE UNCHANGED devVars
  BY <1>1 DEF devVars, DevInv, DevType, OnlyOne, Operating, Private, Masked,
              Dev!StatusOf
<1>2. CASE Dev!Next
  BY <1>2, DevLocalTimer, DevProcess, DevWaitIO, DevDeviceDone, DevDeviceInterrupt
     DEF Dev!Next
<1> QED BY <1>1, <1>2

-----------------------------------------------------------------------------
(* SYS6.  The arithmetic of a clock of WIDTH values.                       *)

Congruent(a, b) == \E k \in Int : a - b = k * WIDTH

LEMMA Width == WIDTH \in Nat \ {0} /\ SPAN \in Nat /\ 3 * SPAN < WIDTH
BY ResultsAssumption DEF Cpu!CpuAssumption

LEMMA DivMod ==
  ASSUME NEW a \in Int, NEW w \in Int, w > 0
  PROVE  /\ a % w \in 0..w - 1
         /\ a \div w \in Int /\ a = w * (a \div w) + (a % w)
OBVIOUS

LEMMA ModCongruent ==
  ASSUME NEW a \in Int
  PROVE  a % WIDTH \in 0..WIDTH - 1 /\ Congruent(a % WIDTH, a)
<1>1. WIDTH \in Int /\ WIDTH > 0
  BY Width
<1> DEFINE k == a \div WIDTH
           r == a % WIDTH
<1>2. r \in 0..WIDTH - 1 /\ k \in Int /\ a = WIDTH * k + r
  BY <1>1, DivMod
<1> HIDE DEF k, r
<1>3. r - a = (-k) * WIDTH /\ -k \in Int
  BY <1>1, <1>2
<1> QED BY <1>2, <1>3 DEF Congruent, r

LEMMA CongruentSum ==
  ASSUME NEW a \in Int, NEW b \in Int, NEW c \in Int, NEW d \in Int,
         Congruent(a, b), Congruent(c, d)
  PROVE  Congruent(a + c, b + d) /\ Congruent(a - c, b - d)
<1>1. PICK k \in Int : a - b = k * WIDTH
  BY DEF Congruent
<1>2. PICK l \in Int : c - d = l * WIDTH
  BY DEF Congruent
<1>3. (a + c) - (b + d) = (k + l) * WIDTH /\ k + l \in Int
  BY <1>1, <1>2, Width
<1>4. (a - c) - (b - d) = (k - l) * WIDTH /\ k - l \in Int
  BY <1>1, <1>2, Width
<1> QED BY <1>3, <1>4 DEF Congruent

LEMMA CongruentTrans ==
  ASSUME NEW a \in Int, NEW b \in Int, NEW c \in Int,
         Congruent(a, b), Congruent(b, c)
  PROVE  Congruent(a, c)
<1>1. PICK k \in Int : a - b = k * WIDTH
  BY DEF Congruent
<1>2. PICK l \in Int : b - c = l * WIDTH
  BY DEF Congruent
<1>3. a - c = (k + l) * WIDTH /\ k + l \in Int
  BY <1>1, <1>2, Width
<1> QED BY <1>3 DEF Congruent

LEMMA CongruentSame ==
  ASSUME NEW a \in Int
  PROVE  Congruent(a, a)
<1>1. a - a = 0 * WIDTH
  BY Width
<1> QED BY <1>1 DEF Congruent

LEMMA CongruentSmall ==
  ASSUME NEW a \in 0..WIDTH - 1, NEW b \in 0..WIDTH - 1, Congruent(a, b)
  PROVE  a = b
<1>1. PICK k \in Int : a - b = k * WIDTH
  BY DEF Congruent
<1>2. CASE k >= 1
  <2>1. k * WIDTH >= WIDTH
    BY <1>2, Width
  <2> QED BY <1>1, <2>1, Width
<1>3. CASE k <= -1
  <2>1. k * WIDTH <= -WIDTH
    BY <1>3, Width
  <2> QED BY <1>1, <2>1, Width
<1>4. CASE k = 0
  BY <1>1, <1>4, Width
<1> QED BY <1>2, <1>3, <1>4

LEMMA CongruentSym ==
  ASSUME NEW a \in Int, NEW b \in Int, Congruent(a, b)
  PROVE  Congruent(b, a)
<1>1. PICK k \in Int : a - b = k * WIDTH
  BY DEF Congruent
<1>2. b - a = (-k) * WIDTH /\ -k \in Int
  BY <1>1, Width
<1> QED BY <1>2 DEF Congruent

-----------------------------------------------------------------------------
(* SYS6.  What is charged, and to whom.                                    *)

CpuType ==
  /\ time \in Int /\ begin \in Int /\ time <= begin + SPAN
  /\ startTOD \in Int /\ ioProcTime \in Int
  /\ p_time \in [Proc -> Int]
  /\ currentProc \in Proc \cup {NULL}
  /\ readyQue \in Seq(Proc)
  /\ blocked \subseteq Proc
  /\ first # NULL => first.who \in Proc /\ first.cpu \in Int
  /\ ran \in Nat /\ handled \in Nat /\ ran + handled <= time - begin

(* What SYS6 would tell process p now, were the clock not to go round.     *)
Charge(p) ==
  IF p = currentProc THEN p_time[p] + (time - startTOD) - ioProcTime ELSE p_time[p]

(* An interrupt costs the process it returns to twice its time: once since *)
(* the clock goes on, and once since ioProcTime has the wrong sign.        *)
Charged ==
  first # NULL => Congruent(Charge(first.who), first.cpu + ran + 2 * handled)

Reported ==
  report # NULL => /\ report.ran \in Nat /\ report.handled \in Nat
                   /\ report.cpu = report.ran + 2 * report.handled

CpuInv == CpuType /\ Charged /\ Reported

LEMMA ChargeType ==
  ASSUME CpuType, NEW p \in Proc
  PROVE  Charge(p) \in Int
BY DEF CpuType, Charge

LEMMA CpuInit == Cpu!Init => CpuInv
<1> SUFFICES ASSUME Cpu!Init PROVE CpuInv
  OBVIOUS
<1>1. PICK q \in [1..Cardinality(Proc) -> Proc] : currentProc = Head(q) /\ readyQue = Tail(q)
  BY SameOperators DEF Cpu!Init
<1>2. q \in Seq(Proc) /\ q # <<>>
  <2>1. Cardinality(Proc) \in Nat /\ Cardinality(Proc) # 0
    BY ResultsAssumption, SameOperators, FS_CardinalityType, FS_EmptySet
       DEF Cpu!CpuAssumption
  <2> QED BY <1>1, <2>1
<1>3. currentProc \in Proc /\ readyQue \in Seq(Proc)
  BY <1>1, <1>2, HeadTailProperties
<1>4. begin \in Int /\ time = begin /\ startTOD \in Int
  <2>1. begin \in 0..WIDTH - 1 /\ time = begin /\ startTOD = time % WIDTH
    BY ResultsAssumption DEF Cpu!Init, Cpu!CpuAssumption, Cpu!STCK
  <2> QED BY <2>1, ModCongruent, Width
<1> QED BY <1>3, <1>4, Width DEF Cpu!Init, CpuInv, CpuType, Charged, Reported

(* A process that loses the processor is charged for its time. *)
LEMMA Used ==
  ASSUME CpuType, currentProc # NULL, NEW now \in Int, NEW t \in Int, NEW io \in Int,
         Congruent(now, t)
  PROVE  /\ Cpu!used(now, io) \in 0..WIDTH - 1
         /\ Congruent(Cpu!used(now, io), p_time[currentProc] + (t - startTOD) - io)
<1> DEFINE c == p_time[currentProc]
           x == c + (now - startTOD) - io
<1>1. c \in Int /\ startTOD \in Int /\ x \in Int
  BY DEF CpuType
<1>2. Cpu!used(now, io) = x % WIDTH
  BY DEF Cpu!used
<1> DEFINE b == c - startTOD - io
<1>3. b \in Int /\ x = now + b /\ c + (t - startTOD) - io = t + b
  BY <1>1
<1> HIDE DEF c, x, b
<1>4. Congruent(now + b, t + b)
  BY <1>3, CongruentSame, CongruentSum
<1>5. Congruent(x % WIDTH, x) /\ x % WIDTH \in 0..WIDTH - 1
  BY <1>1, ModCongruent
<1>6. Congruent(x % WIDTH, t + b)
  BY <1>1, <1>3, <1>4, <1>5, CongruentTrans
<1> QED BY <1>2, <1>3, <1>5, <1>6 DEF c

(* The next process owes nothing yet. *)
LEMMA Dispatched ==
  ASSUME CpuType, p_time' \in [Proc -> Int], time' \in Int,
         \A p \in Proc : Congruent(p_time'[p], Charge(p)),
         NEW now \in Int, Congruent(now, time'),
         NEW rq \in Seq(Proc), Cpu!scheduler(rq, now)
  PROVE  /\ currentProc' \in Proc \cup {NULL} /\ readyQue' \in Seq(Proc)
         /\ startTOD' \in Int /\ ioProcTime' \in Int
         /\ \A p \in Proc : Congruent(Charge(p)', Charge(p))
<1>1. /\ currentProc' = headProcQ(rq) /\ readyQue' = removeProcQ(rq)
      /\ ioProcTime' = 0
      /\ startTOD' = IF rq = <<>> THEN startTOD ELSE now
  BY SameOperators DEF Cpu!scheduler, emptyProcQ
<1>2. currentProc' \in Proc \cup {NULL} /\ readyQue' \in Seq(Proc)
  BY <1>1, RemoveProcQType
<1>3. startTOD' \in Int /\ ioProcTime' \in Int
  BY <1>1 DEF CpuType
<1>4. ASSUME NEW p \in Proc PROVE Congruent(Charge(p)', Charge(p))
  <2>1. CASE p # currentProc'
    BY <2>1 DEF Charge
  <2>2. CASE p = currentProc'
    <3>1. startTOD' = now
      <4>1. rq # <<>>
        BY <1>1, <2>2, ResultsAssumption DEF headProcQ, emptyProcQ, Cpu!CpuAssumption
      <4> QED BY <1>1, <4>1
    <3>2. PICK c \in Int : c = p_time'[p]
      <4>1. p_time'[p] \in Int
        OBVIOUS
      <4> QED BY <4>1
    <3>3. Charge(p)' = (time' - now) + c
      BY <1>1, <2>2, <3>1, <3>2 DEF Charge
    <3>4. Congruent(time' - now, 0) /\ Congruent(c, Charge(p))
      <4>1. Congruent(time' - now, time' - time')
        BY CongruentSame, CongruentSum
      <4> QED BY <3>2, <4>1
    <3>5. PICK e \in Int : e = Charge(p)
      BY ChargeType
    <3>6. PICK f \in Int : f = time' - now
      <4>1. time' - now \in Int
        OBVIOUS
      <4> QED BY <4>1
    <3>7. c \in Int
      BY <3>2
    <3>8. Congruent(f, 0) /\ Congruent(c, e)
      BY <3>4, <3>5, <3>6
    <3>9. Congruent(f + c, 0 + e)
      BY <3>7, <3>8, CongruentSum
    <3>10. 0 + e = e
      OBVIOUS
    <3> QED BY <3>3, <3>5, <3>6, <3>9, <3>10
  <2> QED BY <2>1, <2>2
<1> QED BY <1>2, <1>3, <1>4

(* A step that charges nobody for anything new. *)
LEMMA ChargedFrame ==
  ASSUME CpuInv, \A p \in Proc : Congruent(Charge(p)', Charge(p)) /\ Charge(p)' \in Int,
         UNCHANGED <<first, ran, handled, report>>
  PROVE  Charged' /\ Reported'
<1>1. Reported'
  BY DEF CpuInv, Reported
<1>2. Charged'
  <2> SUFFICES ASSUME first # NULL
               PROVE  Congruent(Charge(first.who)', first.cpu + ran + 2 * handled)
    BY DEF Charged
  <2>1. PICK p \in Proc : p = first.who
    BY DEF CpuInv, CpuType
  <2>2. /\ Congruent(Charge(p)', Charge(p)) /\ Charge(p)' \in Int
        /\ Congruent(Charge(p), first.cpu + ran + 2 * handled)
    BY <2>1 DEF CpuInv, Charged
  <2>3. Charge(p) \in Int /\ first.cpu + ran + 2 * handled \in Int
    <3>1. CpuType
      BY DEF CpuInv
    <3>2. first.cpu \in Int /\ ran \in Int /\ handled \in Int
      BY <3>1 DEF CpuType
    <3> QED BY <3>1, <3>2, ChargeType
  <2>4. Congruent(Charge(p)', first.cpu + ran + 2 * handled)
    BY <2>2, <2>3, CongruentTrans
  <2> QED BY <2>1, <2>4
<1> QED BY <1>1, <1>2

(* The clock goes on by e for the measured process, charged and owed.      *)
LEMMA ChargedOn ==
  ASSUME CpuInv, first # NULL, first' = first, NEW e \in Int,
         Congruent(Charge(first.who)', Charge(first.who) + e),
         Charge(first.who)' \in Int, ran' \in Int, handled' \in Int,
         ran' + 2 * handled' = ran + 2 * handled + e
  PROVE  Charged'
<1>1. CpuType /\ Charged
  BY DEF CpuInv
<1>2. first.who \in Proc /\ first.cpu \in Int /\ ran \in Int /\ handled \in Int
  BY <1>1 DEF CpuType
<1>3. PICK a \in Int : a = Charge(first.who)
  BY <1>1, <1>2, ChargeType
<1>4. PICK b \in Int : b = first.cpu + ran + 2 * handled
  BY <1>2
<1>5. Congruent(a, b)
  BY <1>1, <1>3, <1>4 DEF Charged
<1>6. Congruent(a + e, b + e)
  BY <1>5, CongruentSame, CongruentSum
<1>7. PICK c \in Int : c = Charge(first.who)'
  OBVIOUS
<1>8. Congruent(c, b + e)
  BY <1>3, <1>6, <1>7, CongruentTrans
<1>9. b + e = first.cpu + ran' + 2 * handled'
  <2>1. PICK f \in Int : f = first.cpu
    BY <1>2
  <2>2. PICK x \in Int : x = ran' + 2 * handled'
    <3>1. ran' + 2 * handled' \in Int
      OBVIOUS
    <3> QED BY <3>1
  <2>3. PICK y \in Int : y = ran + 2 * handled
    BY <1>2
  <2>4. x = y + e
    BY <2>2, <2>3
  <2>5. first.cpu + ran' + 2 * handled' = f + x
    BY <2>1, <2>2
  <2>6. b = f + y
    BY <1>2, <1>4, <2>1, <2>3
  <2> QED BY <2>4, <2>5, <2>6
<1>10. Congruent(Charge(first.who)', first.cpu + ran' + 2 * handled')
  BY <1>7, <1>8, <1>9
<1> QED BY <1>10 DEF Charged

(* The running process blocks, or its quantum ends: what it has used is    *)
(* charged to it, without the time that was spent in the handler.          *)
LEMMA CpuLeave ==
  ASSUME CpuInv, currentProc # NULL, time' \in Int, time <= time',
         time' <= begin + SPAN, UNCHANGED <<begin, first, ran, handled, report>>,
         blocked' \subseteq Proc,
         NEW now \in Int, Congruent(now, time'),
         NEW io \in Int, io = ioProcTime + (time' - time),
         p_time' = [p_time EXCEPT ![currentProc] = Cpu!used(now, io)],
         NEW rq \in Seq(Proc), Cpu!scheduler(rq, now)
  PROVE  CpuInv'
<1>1. CpuType
  BY DEF CpuInv
<1>2. currentProc \in Proc
  BY <1>1 DEF CpuType
<1>3. PICK t \in Int : t = time'
  OBVIOUS
<1>4. PICK u \in Int : u = Cpu!used(now, io) /\ Congruent(u, Charge(currentProc))
  <2>1. Congruent(now, t)
    BY <1>3
  <2>2. /\ Cpu!used(now, io) \in 0..WIDTH - 1
        /\ Congruent(Cpu!used(now, io), p_time[currentProc] + (t - startTOD) - io)
    BY <1>1, <2>1, Used
  <2>3. p_time[currentProc] + (t - startTOD) - io = Charge(currentProc)
    <3>1. /\ time \in Int /\ startTOD \in Int /\ ioProcTime \in Int
          /\ p_time[currentProc] \in Int /\ io = ioProcTime + (t - time)
      BY <1>1, <1>2, <1>3 DEF CpuType
    <3>2. Charge(currentProc) = p_time[currentProc] + (time - startTOD) - ioProcTime
      BY DEF Charge
    <3>3. PICK c \in Int : c = p_time[currentProc]
      BY <3>1
    <3>4. PICK s \in Int : s = startTOD
      BY <3>1
    <3>5. PICK x \in Int, y \in Int : x = time /\ y = ioProcTime
      BY <3>1
    <3>6. io = y + (t - x)
      BY <3>1, <3>5
    <3>7. c + (t - s) - io = c + (x - s) - y
      BY <3>6
    <3> QED BY <3>2, <3>3, <3>4, <3>5, <3>7
  <2>4. Cpu!used(now, io) \in Int
    BY <2>2, Width
  <2> QED BY <2>2, <2>3, <2>4
<1>5. p_time' \in [Proc -> Int]
  BY <1>1, <1>2, <1>4 DEF CpuType
<1>6. ASSUME NEW p \in Proc PROVE Congruent(p_time'[p], Charge(p))
  <2>1. CASE p = currentProc
    BY <1>1, <1>4, <2>1 DEF CpuType
  <2>2. CASE p # currentProc
    <3>1. p_time'[p] = Charge(p)
      BY <1>1, <2>2 DEF CpuType, Charge
    <3> QED BY <1>1, <3>1, ChargeType, CongruentSame
  <2> QED BY <2>1, <2>2
<1>7. /\ currentProc' \in Proc \cup {NULL} /\ readyQue' \in Seq(Proc)
      /\ startTOD' \in Int /\ ioProcTime' \in Int
      /\ \A p \in Proc : Congruent(Charge(p)', Charge(p))
  BY <1>1, <1>5, <1>6, Dispatched
<1>8. CpuType'
  <2>1. ran' + handled' <= time' - begin'
    <3>1. ran + handled <= time - begin /\ ran + handled \in Int
      BY <1>1 DEF CpuType
    <3>2. ran' + handled' = ran + handled /\ begin' = begin
      OBVIOUS
    <3>3. time \in Int /\ begin \in Int
      BY <1>1 DEF CpuType
    <3> QED BY <3>1, <3>2, <3>3
  <2>2. /\ currentProc' \in Proc \cup {NULL} /\ readyQue' \in Seq(Proc)
        /\ startTOD' \in Int /\ ioProcTime' \in Int
    BY <1>7
  <2> QED BY <1>1, <1>5, <2>1, <2>2 DEF CpuType
<1>9. ASSUME NEW p \in Proc PROVE Charge(p)' \in Int
  BY <1>8 DEF CpuType, Charge
<1>10. Charged' /\ Reported'
  BY <1>7, <1>9, ChargedFrame
<1> QED BY <1>8, <1>10 DEF CpuInv

LEMMA ClockNow ==
  ASSUME NEW t \in Int
  PROVE  t % WIDTH \in Int /\ Congruent(t % WIDTH, t)
BY ModCongruent, Width

LEMMA CpuBlock == CpuInv /\ Cpu!Block => CpuInv'
<1> SUFFICES ASSUME CpuInv, Cpu!Block PROVE CpuInv'
  OBVIOUS
<1>1. /\ time \in Int /\ time <= begin + SPAN /\ ioProcTime \in Int
      /\ readyQue \in Seq(Proc) /\ blocked \subseteq Proc
      /\ currentProc \in Proc \cup {NULL}
  BY DEF CpuInv, CpuType
<1>2. PICK now \in Int : now = Cpu!STCK /\ Congruent(now, time)
  BY <1>1, ClockNow DEF Cpu!STCK
<1>3. /\ currentProc # NULL
      /\ p_time' = [p_time EXCEPT ![currentProc] = Cpu!used(now, ioProcTime)]
      /\ blocked' = blocked \cup {currentProc}
      /\ Cpu!scheduler(readyQue, now)
      /\ UNCHANGED <<time, begin, first, ran, handled, report>>
  BY <1>2 DEF Cpu!Block, Cpu!measure
<1>4. ioProcTime = ioProcTime + (time' - time) /\ time <= time'
  BY <1>1, <1>3
<1> QED BY <1>1, <1>2, <1>3, <1>4, CpuLeave

LEMMA CpuQuantumEnd ==
  ASSUME CpuInv, NEW d \in Cpu!Duration, Cpu!QuantumEnd(d)
  PROVE  CpuInv'
<1>1. /\ time \in Int /\ ioProcTime \in Int
      /\ readyQue \in Seq(Proc) /\ blocked \subseteq Proc
      /\ currentProc \in Proc \cup {NULL}
  BY DEF CpuInv, CpuType
<1>2. d \in Nat
  BY DEF Cpu!Duration
<1>3. PICK now \in Int : now = (time + d) % WIDTH /\ Congruent(now, time + d)
  BY <1>1, <1>2, ClockNow
<1>4. PICK rq \in Seq(Proc) : rq = insertProcQ(readyQue, currentProc)
  <2>1. insertProcQ(readyQue, currentProc) \in Seq(Proc)
    BY <1>1, InsertProcQ DEF Cpu!QuantumEnd
  <2> QED BY <2>1
<1>5. /\ currentProc # NULL
      /\ time' = time + d /\ time + d <= begin + SPAN
      /\ p_time' = [p_time EXCEPT ![currentProc] = Cpu!used(now, ioProcTime + d)]
      /\ Cpu!scheduler(rq, now)
      /\ UNCHANGED <<blocked, begin, first, ran, handled, report>>
  BY <1>3, <1>4, SameOperators DEF Cpu!QuantumEnd, Cpu!Pass, Cpu!measure
<1>6. /\ ioProcTime + d = ioProcTime + (time' - time) /\ ioProcTime + d \in Int
      /\ time <= time' /\ time' <= begin + SPAN /\ time' \in Int
  BY <1>1, <1>2, <1>5
<1>7. Congruent(now, time') /\ blocked' \subseteq Proc
  BY <1>1, <1>3, <1>5
<1> QED BY <1>5, <1>6, <1>7, CpuLeave

LEMMA CpuCompute ==
  ASSUME CpuInv, NEW d \in Cpu!Duration, Cpu!Compute(d)
  PROVE  CpuInv'
<1>1. CpuType
  BY DEF CpuInv
<1>2. d \in Nat
  BY DEF Cpu!Duration
<1>3. /\ currentProc \in Proc
      /\ time + d <= begin + SPAN /\ time' = time + d
      /\ ran' = IF first # NULL /\ currentProc = first.who THEN ran + d ELSE ran
      /\ UNCHANGED <<begin, startTOD, ioProcTime, p_time, currentProc, readyQue, blocked,
                     first, handled, report>>
  BY <1>1 DEF Cpu!Compute, Cpu!Pass, Cpu!Measured, Cpu!charges, Cpu!queues, CpuType
<1>4. CpuType'
  BY <1>1, <1>2, <1>3 DEF CpuType
<1>5. Reported'
  BY <1>3 DEF CpuInv, Reported
<1>6. Charged'
  <2>1. CASE first = NULL
    BY <1>3, <2>1 DEF Charged
  <2>2. ASSUME first # NULL
        PROVE  Charged'
    <3>1. first.who \in Proc /\ ran \in Int /\ handled \in Int
      BY <1>1, <2>2 DEF CpuType
    <3>2. Charge(first.who) \in Int
      BY <1>1, <3>1, ChargeType
    <3>3. CASE currentProc = first.who
      <4>1. Charge(first.who)' = Charge(first.who) + d
        BY <1>1, <1>2, <1>3, <3>1, <3>3 DEF CpuType, Charge
      <4>2. ran' = ran + d /\ handled' = handled
        BY <1>3, <2>2, <3>3
      <4>3. Congruent(Charge(first.who)', Charge(first.who) + d)
        BY <1>2, <3>2, <4>1, CongruentSame
      <4>4. Charge(first.who)' \in Int /\ ran' \in Int
        BY <1>2, <3>1, <3>2, <4>1, <4>2
      <4>5. ran' + 2 * handled' = ran + 2 * handled + d
        BY <1>2, <3>1, <4>2
      <4> QED BY <1>2, <1>3, <2>2, <3>1, <4>2, <4>3, <4>4, <4>5, ChargedOn
    <3>4. CASE currentProc # first.who
      <4>1. Charge(first.who)' = Charge(first.who)
        BY <1>3, <3>4 DEF Charge
      <4>2. ran' = ran /\ handled' = handled
        BY <1>3, <3>4
      <4> QED BY <1>3, <4>1, <4>2 DEF CpuInv, Charged
    <3> QED BY <3>3, <3>4
  <2> QED BY <2>1, <2>2
<1> QED BY <1>4, <1>5, <1>6 DEF CpuInv

(* While the processor waits, an interrupt may bring the next process.     *)
LEMMA CpuIdle ==
  ASSUME CpuInv, currentProc = NULL, time' \in Int, time <= time',
         time' <= begin + SPAN,
         UNCHANGED <<begin, p_time, first, ran, handled, report>>,
         blocked' \subseteq Proc,
         NEW now \in Int, Congruent(now, time'),
         NEW rq \in Seq(Proc), Cpu!scheduler(rq, now)
  PROVE  CpuInv'
<1>1. CpuType
  BY DEF CpuInv
<1>2. p_time' \in [Proc -> Int]
  BY <1>1 DEF CpuType
<1>3. ASSUME NEW p \in Proc PROVE Congruent(p_time'[p], Charge(p))
  <2>1. p # currentProc
    BY ResultsAssumption DEF Cpu!CpuAssumption
  <2>2. p_time'[p] = Charge(p)
    BY <2>1 DEF Charge
  <2> QED BY <1>1, <2>2, ChargeType, CongruentSame
<1>4. /\ currentProc' \in Proc \cup {NULL} /\ readyQue' \in Seq(Proc)
      /\ startTOD' \in Int /\ ioProcTime' \in Int
      /\ \A p \in Proc : Congruent(Charge(p)', Charge(p))
  BY <1>1, <1>2, <1>3, Dispatched
<1>5. CpuType'
  <2>1. ran' + handled' <= time' - begin'
    <3>1. ran + handled <= time - begin /\ ran + handled \in Int
      BY <1>1 DEF CpuType
    <3>2. ran' + handled' = ran + handled /\ begin' = begin
      OBVIOUS
    <3>3. time \in Int /\ begin \in Int
      BY <1>1 DEF CpuType
    <3> QED BY <3>1, <3>2, <3>3
  <2>2. /\ currentProc' \in Proc \cup {NULL} /\ readyQue' \in Seq(Proc)
        /\ startTOD' \in Int /\ ioProcTime' \in Int
    BY <1>4
  <2> QED BY <1>1, <1>2, <2>1, <2>2 DEF CpuType
<1>6. ASSUME NEW p \in Proc PROVE Charge(p)' \in Int
  BY <1>5 DEF CpuType, Charge
<1>7. Charged' /\ Reported'
  BY <1>4, <1>6, ChargedFrame
<1> QED BY <1>5, <1>7 DEF CpuInv

(* The process goes on after an interrupt that took d: ioProcTime has the  *)
(* wrong sign, and it is charged twice.                                    *)
LEMMA CpuResume ==
  ASSUME CpuInv, currentProc # NULL, NEW d \in Nat, time' = time + d,
         time + d <= begin + SPAN,
         ioProcTime' \in Int, Congruent(ioProcTime', ioProcTime - d),
         handled' = (IF first # NULL /\ currentProc = first.who
                       THEN handled + d ELSE handled),
         UNCHANGED <<begin, startTOD, p_time, currentProc, first, ran, report>>,
         readyQue' \in Seq(Proc), blocked' \subseteq Proc
  PROVE  CpuInv'
<1>1. CpuType
  BY DEF CpuInv
<1>2. /\ time \in Int /\ begin \in Int /\ startTOD \in Int /\ ioProcTime \in Int
      /\ time' \in Int /\ ioProcTime - d \in Int
  BY <1>1 DEF CpuType
<1>3. CpuType'
  <2>1. ran \in Nat /\ handled \in Nat /\ ran + handled <= time - begin
    BY <1>1 DEF CpuType
  <2>2. handled' \in Nat /\ ran' = ran /\ handled' <= handled + d
    BY <2>1
  <2>3. ran' + handled' <= time' - begin'
    BY <1>2, <2>1, <2>2
  <2> QED BY <1>1, <1>2, <2>2, <2>3 DEF CpuType
<1>4. Reported'
  BY DEF CpuInv, Reported
<1>5. Charged'
  <2>1. CASE first = NULL
    BY <2>1 DEF Charged
  <2>2. ASSUME first # NULL
        PROVE  Charged'
    <3>1. first.who \in Proc /\ ran \in Int /\ handled \in Int
      BY <1>1, <2>2 DEF CpuType
    <3>2. Charge(first.who) \in Int /\ Charge(first.who)' \in Int
      <4>1. PICK p \in Proc : p = first.who
        BY <3>1
      <4>2. Charge(p) \in Int
        BY <1>1, ChargeType
      <4>3. Charge(p)' \in Int
        BY <1>3 DEF CpuType, Charge
      <4> QED BY <4>1, <4>2, <4>3
    <3>3. CASE currentProc = first.who
      <4>0. PICK c \in Int, x \in Int, s \in Int, y \in Int :
                c = p_time[currentProc] /\ x = time /\ s = startTOD /\ y = ioProcTime
        BY <1>1, <3>1, <3>3 DEF CpuType
      <4>1. PICK b \in Int : b = c + (x + d - s)
        OBVIOUS
      <4>2. PICK io \in Int : io = ioProcTime - d
        BY <1>1 DEF CpuType
      <4>3. PICK io2 \in Int : io2 = ioProcTime'
        BY <1>2
      <4>4. Congruent(b - io2, b - io)
        BY <1>2, <4>2, <4>3, CongruentSame, CongruentSum
      <4>5. Charge(first.who)' = b - io2
        <5>1. Charge(first.who)' = p_time[currentProc] + (time' - startTOD) - ioProcTime'
          BY <3>3 DEF Charge
        <5> QED BY <4>0, <4>1, <4>3, <5>1
      <4>6. Charge(first.who) + 2 * d = b - io
        <5>1. Charge(first.who) = c + (x - s) - y
          BY <3>3, <4>0 DEF Charge
        <5>2. io = y - d
          BY <4>0, <4>2
        <5>3. c + (x - s) - y + 2 * d = b - io
          BY <4>1, <5>2
        <5> QED BY <5>1, <5>3
      <4>7. Congruent(Charge(first.who)', Charge(first.who) + 2 * d)
        BY <4>4, <4>5, <4>6
      <4>8. ran' = ran /\ handled' = handled + d
        BY <2>2, <3>3
      <4>9. /\ ran' + 2 * handled' = ran + 2 * handled + 2 * d
            /\ ran' \in Int /\ handled' \in Int /\ 2 * d \in Int
        BY <3>1, <4>8
      <4> QED BY <2>2, <3>2, <4>7, <4>9, ChargedOn
    <3>4. CASE currentProc # first.who
      <4>1. Charge(first.who)' = Charge(first.who)
        BY <3>4 DEF Charge
      <4>2. ran' = ran /\ handled' = handled
        BY <3>4
      <4> QED BY <4>1, <4>2 DEF CpuInv, Charged
    <3> QED BY <3>3, <3>4
  <2> QED BY <2>1, <2>2
<1> QED BY <1>3, <1>4, <1>5 DEF CpuInv

LEMMA CpuInterrupt ==
  ASSUME CpuInv, NEW d \in Cpu!Duration, NEW woken \in SUBSET blocked,
         Cpu!Interrupt(d, woken)
  PROVE  CpuInv'
<1>1. CpuType
  BY DEF CpuInv
<1>2. d \in Nat
  BY DEF Cpu!Duration
<1>3. /\ time' = time + d /\ time + d <= begin + SPAN /\ blocked' = blocked \ woken
      /\ UNCHANGED <<begin, p_time, first, ran, report>>
  BY DEF Cpu!Interrupt, Cpu!Pass
<1>4. PICK q \in [1..Cpu!Cardinality(woken) -> woken] :
        IF currentProc = NULL
          THEN /\ Cpu!scheduler(readyQue \o q, (time + d) % WIDTH)
               /\ UNCHANGED handled
          ELSE /\ readyQue' = readyQue \o q
               /\ ioProcTime' = (ioProcTime - d) % WIDTH
               /\ handled' = IF Cpu!Measured THEN handled + d ELSE handled
               /\ UNCHANGED <<currentProc, startTOD>>
  BY DEF Cpu!Interrupt
<1>5. PICK rq \in Seq(Proc) : rq = readyQue \o q
  <2>1. woken \subseteq Proc /\ IsFiniteSet(woken)
    BY <1>1, ResultsAssumption, SameOperators, FS_Subset DEF CpuType, Cpu!CpuAssumption
  <2>2. PICK n \in Nat : n = Cpu!Cardinality(woken)
    BY <2>1, SameOperators, FS_CardinalityType
  <2>3. q \in Seq(Proc)
    BY <2>1, <2>2
  <2>4. readyQue \o q \in Seq(Proc)
    BY <1>1, <2>3 DEF CpuType
  <2> QED BY <2>4
<1>6. PICK now \in Int : now = (time + d) % WIDTH /\ Congruent(now, time + d)
  <2>1. PICK t \in Int : t = time + d
    BY <1>1, <1>2 DEF CpuType
  <2> QED BY <2>1, ClockNow
<1>7. /\ time' \in Int /\ time <= time' /\ time' <= begin + SPAN
      /\ Congruent(now, time') /\ blocked' \subseteq Proc
  BY <1>1, <1>2, <1>3, <1>6 DEF CpuType
<1>8. CASE currentProc = NULL
  <2>1. Cpu!scheduler(rq, now) /\ UNCHANGED handled
    BY <1>4, <1>5, <1>6, <1>8
  <2> QED BY <1>3, <1>7, <1>8, <2>1, CpuIdle
<1>9. CASE currentProc # NULL
  <2>1. /\ readyQue' = rq
        /\ ioProcTime' = (ioProcTime - d) % WIDTH
        /\ handled' = IF first # NULL /\ currentProc = first.who
                        THEN handled + d ELSE handled
        /\ UNCHANGED <<currentProc, startTOD>>
    BY <1>4, <1>5, <1>9 DEF Cpu!Measured
  <2>2. ioProcTime' \in Int /\ Congruent(ioProcTime', ioProcTime - d)
    <3>1. PICK x \in Int : x = ioProcTime - d
      BY <1>1, <1>2 DEF CpuType
    <3> QED BY <2>1, <3>1, ClockNow
  <2> QED BY <1>2, <1>3, <1>5, <1>7, <1>9, <2>1, <2>2, CpuResume
<1> QED BY <1>8, <1>9

(* SYS6 answers modulo WIDTH.                                              *)
LEMMA Answer ==
  ASSUME CpuType, currentProc # NULL
  PROVE  /\ Cpu!getcputime \in Int
         /\ Congruent(Cpu!getcputime, Charge(currentProc))
<1>1. time \in Int /\ ioProcTime \in Int
  BY DEF CpuType
<1>2. PICK now \in Int : now = Cpu!STCK /\ Congruent(now, time)
  BY <1>1, ClockNow DEF Cpu!STCK
<1>3. /\ Cpu!used(now, ioProcTime) \in 0..WIDTH - 1
      /\ Congruent(Cpu!used(now, ioProcTime),
                   p_time[currentProc] + (time - startTOD) - ioProcTime)
  BY <1>1, <1>2, Used
<1> QED BY <1>2, <1>3, Width DEF Cpu!getcputime, Charge

LEMMA CpuFirst == CpuInv /\ Cpu!FirstReading => CpuInv'
<1> SUFFICES ASSUME CpuInv, Cpu!FirstReading PROVE CpuInv'
  OBVIOUS
<1>1. CpuType
  BY DEF CpuInv
<1>2. /\ currentProc \in Proc /\ currentProc # NULL
      /\ first'.who = currentProc /\ first'.cpu = Cpu!getcputime
      /\ ran' = 0 /\ handled' = 0 /\ report' = NULL
      /\ UNCHANGED <<time, begin, startTOD, ioProcTime, p_time, currentProc, readyQue,
                     blocked>>
  BY <1>1 DEF Cpu!FirstReading, Cpu!charges, Cpu!queues, CpuType
<1>3. Cpu!getcputime \in Int /\ Congruent(Cpu!getcputime, Charge(currentProc))
  BY <1>1, <1>2, Answer
<1>4. time - begin \in Nat
  BY <1>1 DEF CpuType
<1>5. CpuType'
  BY <1>1, <1>2, <1>3, <1>4 DEF CpuType
<1>6. Charged'
  <2>1. PICK a \in Int : a = Cpu!getcputime
    BY <1>3
  <2>2. PICK b \in Int : b = Charge(currentProc)
    BY <1>1, <1>2, ChargeType
  <2>3. Congruent(b, a)
    BY <1>3, <2>1, <2>2, CongruentSym
  <2>4. first.who' = currentProc /\ first.cpu' = Cpu!getcputime
    BY <1>2
  <2>5. Charge(first.who)' = b
    BY <1>2, <2>2, <2>4 DEF Charge
  <2>6. (first.cpu + ran + 2 * handled)' = a
    BY <1>2, <2>1, <2>4
  <2> QED BY <2>3, <2>5, <2>6 DEF Charged
<1>7. Reported'
  BY <1>2 DEF Reported
<1> QED BY <1>5, <1>6, <1>7 DEF CpuInv

LEMMA CpuSecond == CpuInv /\ Cpu!SecondReading => CpuInv'
<1> SUFFICES ASSUME CpuInv, Cpu!SecondReading PROVE CpuInv'
  OBVIOUS
<1>1. CpuType /\ Charged
  BY DEF CpuInv
<1>2. /\ first # NULL /\ currentProc = first.who
      /\ report'.cpu = (Cpu!getcputime - first.cpu) % WIDTH
      /\ report'.ran = ran /\ report'.handled = handled
      /\ first' = NULL
      /\ UNCHANGED <<time, begin, startTOD, ioProcTime, p_time, currentProc, readyQue,
                     blocked, ran, handled>>
  BY DEF Cpu!SecondReading, Cpu!Measured, Cpu!charges, Cpu!queues
<1>3. /\ currentProc \in Proc /\ currentProc # NULL /\ first.cpu \in Int
      /\ ran \in Nat /\ handled \in Nat /\ ran + handled <= SPAN
  BY <1>1, <1>2, ResultsAssumption, Width DEF CpuType, Cpu!CpuAssumption
<1>4. CpuType'
  BY <1>1, <1>2 DEF CpuType
<1>5. PICK a \in Int : a = Cpu!getcputime /\ Congruent(a, Charge(currentProc))
  BY <1>1, <1>3, Answer
<1>6. PICK b \in Int : b = Charge(currentProc)
  BY <1>1, <1>3, ChargeType
<1>7. PICK f \in Int : f = first.cpu
  BY <1>3
<1>8. PICK e \in 0..WIDTH - 1 : e = ran + 2 * handled
  BY <1>3, Width
<1>9. Congruent(a, f + e)
  <2>1. Congruent(b, first.cpu + ran + 2 * handled)
    BY <1>1, <1>2, <1>6 DEF Charged
  <2>2. first.cpu + ran + 2 * handled = f + e
    BY <1>3, <1>7, <1>8
  <2>3. f + e \in Int /\ Congruent(b, f + e)
    BY <2>1, <2>2, <1>8, Width
  <2> QED BY <1>5, <1>6, <2>3, CongruentTrans
<1>10. PICK c \in 0..WIDTH - 1 : c = (a - f) % WIDTH /\ Congruent(c, a - f)
  <2>1. a - f \in Int
    OBVIOUS
  <2> QED BY <2>1, ModCongruent
<1>11. c = e
  <2>1. e \in Int /\ c \in Int /\ f + e \in Int
    BY Width
  <2>2. Congruent(a - f, (f + e) - f)
    BY <1>9, <2>1, CongruentSame, CongruentSum
  <2>3. (f + e) - f = e
    BY <2>1
  <2>4. Congruent(a - f, e)
    BY <2>2, <2>3
  <2>5. Congruent(c, e)
    BY <1>10, <2>1, <2>4, CongruentTrans
  <2> QED BY <2>5, CongruentSmall
<1>12. Reported'
  <2>1. report'.cpu = ran + 2 * handled
    BY <1>2, <1>5, <1>7, <1>8, <1>10, <1>11
  <2> QED BY <1>2, <1>3, <2>1 DEF Reported
<1>13. Charged'
  BY <1>2 DEF Charged
<1> QED BY <1>4, <1>12, <1>13 DEF CpuInv

(* Every step of the model of SYS6 keeps its invariant.                    *)
LEMMA CpuNext == CpuInv /\ [Cpu!Next]_cpuVars => CpuInv'
<1> SUFFICES ASSUME CpuInv, [Cpu!Next]_cpuVars PROVE CpuInv'
  OBVIOUS
<1>1. CASE Cpu!Block
  BY <1>1, CpuBlock
<1>2. CASE Cpu!FirstReading
  BY <1>2, CpuFirst
<1>3. CASE Cpu!SecondReading
  BY <1>3, CpuSecond
<1>4. ASSUME NEW d \in Cpu!Duration, Cpu!Compute(d) \/ Cpu!QuantumEnd(d)
      PROVE  CpuInv'
  BY <1>4, CpuCompute, CpuQuantumEnd
<1>5. ASSUME NEW d \in Cpu!Duration, NEW woken \in SUBSET blocked,
             Cpu!Interrupt(d, woken)
      PROVE  CpuInv'
  BY <1>5, CpuInterrupt
<1>6. CASE UNCHANGED cpuVars
  BY <1>6 DEF cpuVars, CpuInv, CpuType, Charged, Charge, Reported
<1> QED BY <1>1, <1>2, <1>3, <1>4, <1>5, <1>6 DEF Cpu!Next

-----------------------------------------------------------------------------
(* SYS10.                                                                  *)

Lengths == Text \cup {-n : n \in Negated}

TermType ==
  /\ pc \in {"run", "lock", "blocked", "loop", "wait", "unlock", "terminate"}
  /\ len \in Int /\ i \in Nat /\ status \in Int /\ failure \in Int
  /\ screen \in Seq(Nat) /\ start \in Nat
  /\ pc # "run" => len \in Lengths

(* The characters of this call are numbered from 1.                        *)
Numbered ==
  /\ start <= Len(screen)
  /\ \A n \in 1..Len(screen) - start : screen[start + n] = n

(* The process has not begun to write, or it writes: i characters are on   *)
(* the screen, and status is what the last operation left.                 *)
Before ==
  /\ pc \in {"lock", "blocked", "terminate"} => Len(screen) = start
  /\ pc = "lock" => failure = 0 /\ i = 0 /\ len >= 0

Writing ==
  /\ pc \in {"loop", "wait"} => /\ i <= len /\ Len(screen) = start + i
                                /\ failure = 0
                                /\ i > 0 => status = i - 1
  /\ pc = "wait" => i < len

(* All of it is written, or an operation failed.                           *)
Complete == failure = 0 /\ Len(screen) = start + len /\ (len > 0 => status = len - 1)

Failed ==
  /\ failure \in Status10 \ {5} /\ status = -failure
  /\ 0 <= len /\ Len(screen) <= start + len

Done ==
  /\ pc = "unlock" => Complete \/ Failed
  /\ pc = "run" => (len > 0 => Len(screen) <= start + len)

TermInv == TermType /\ Numbered /\ Before /\ Writing /\ Done

LEMMA TermStatus == 5 \in Status10 /\ Status10 \subseteq 1..255
BY ResultsAssumption DEF Term!WriteAssumption, Term!CHARTRANSMD

LEMMA LengthType == \A n \in Lengths : n \in Int
BY ResultsAssumption DEF Term!WriteAssumption, Lengths

LEMMA TermInit == Term!Init => TermInv
<1> SUFFICES ASSUME Term!Init PROVE TermInv
  OBVIOUS
<1>1. status \in Int
  BY TermStatus DEF Term!Init
<1> QED BY <1>1 DEF Term!Init, TermInv, TermType, Numbered, Before, Writing, Done

LEMMA TermCall ==
  ASSUME TermInv, NEW a \in Address, NEW n \in Lengths, Term!Call(a, n)
  PROVE  TermInv'
<1>1. /\ len' = n /\ n \in Int /\ start' = Len(screen) /\ failure' = 0 /\ i' = 0
      /\ screen' = screen /\ status' = status
      /\ pc' \in {"lock", "terminate"} /\ (pc' = "lock" => n >= 0)
  BY LengthType DEF Term!Call, Term!accepts
<1>2. Len(screen) \in Nat
  BY LenProperties DEF TermInv, TermType
<1>3. TermType'
  BY <1>1, <1>2 DEF TermInv, TermType
<1>4. Numbered'
  BY <1>1, <1>2 DEF Numbered
<1> QED BY <1>1, <1>3, <1>4 DEF TermInv, Before, Writing, Done

LEMMA TermLock == TermInv /\ Term!Lock => TermInv'
<1> SUFFICES ASSUME TermInv, Term!Lock PROVE TermInv'
  OBVIOUS
<1>1. /\ pc = "lock" /\ pc' \in {"loop", "blocked"}
      /\ UNCHANGED <<len, i, status, screen, start, failure>>
  BY DEF Term!Lock
<1>2. Len(screen) = start + 0 /\ start \in Nat
  BY <1>1 DEF TermInv, TermType, Before
<1> QED BY <1>1, <1>2 DEF TermInv, TermType, Numbered, Before, Writing, Done

LEMMA TermTransmit == TermInv /\ Term!Transmit => TermInv'
BY DEF Term!Transmit, TermInv, TermType, Numbered, Before, Writing, Done

LEMMA TermTransmitted == TermInv /\ Term!Transmitted => TermInv'
<1> SUFFICES ASSUME TermInv, Term!Transmitted PROVE TermInv'
  OBVIOUS
<1>1. PICK st \in Status10 :
        /\ screen' = IF st = 5 THEN Append(screen, i + 1) ELSE screen
        /\ failure' = IF st = 5 THEN failure ELSE st
        /\ status' = IF st # 5 THEN -st ELSE i
        /\ pc' = IF st # 5 THEN "unlock" ELSE "loop"
        /\ i' = i + 1
  BY DEF Term!Transmitted, Term!result, Term!after, Term!CHARTRANSMD
<1>2. pc = "wait" /\ UNCHANGED <<len, start>> /\ st \in Nat
  BY TermStatus DEF Term!Transmitted
<1>3. /\ len \in Int /\ i \in Nat /\ start \in Nat /\ screen \in Seq(Nat)
      /\ len \in Lengths /\ i < len /\ Len(screen) = start + i /\ failure = 0
  BY <1>2 DEF TermInv, TermType, Writing
<1>4. CASE st = 5
  <2>1. /\ screen' = Append(screen, i + 1) /\ failure' = 0 /\ status' = i
        /\ pc' = "loop" /\ i' = i + 1
    BY <1>1, <1>3, <1>4
  <2>2. /\ screen' \in Seq(Nat) /\ Len(screen') = start + (i + 1)
        /\ \A n \in 1..Len(screen) : screen'[n] = screen[n]
        /\ screen'[start + (i + 1)] = i + 1
    <3>1. /\ screen' \in Seq(Nat) /\ Len(screen') = Len(screen) + 1
          /\ \A n \in 1..Len(screen) : screen'[n] = screen[n]
          /\ screen'[Len(screen) + 1] = i + 1
      BY <1>3, <2>1, AppendProperties
    <3>2. Len(screen) + 1 = start + (i + 1)
      BY <1>3
    <3> QED BY <3>1, <3>2
  <2>3. Numbered'
    <3>1. start' <= Len(screen') /\ Len(screen') - start' = i + 1
      BY <1>2, <1>3, <2>2
    <3>2. ASSUME NEW n \in 1..i + 1
          PROVE  screen'[start + n] = n
      <4>1. CASE n = i + 1
        BY <2>2, <4>1
      <4>2. CASE n # i + 1
        <5>1. n \in 1..Len(screen) - start /\ start + n \in 1..Len(screen)
          BY <1>3, <4>2
        <5>2. screen[start + n] = n
          BY <5>1 DEF TermInv, Numbered
        <5> QED BY <2>2, <5>1, <5>2
      <4> QED BY <4>1, <4>2
    <3> QED BY <1>2, <3>1, <3>2 DEF Numbered
  <2>4. TermType'
    BY <1>2, <1>3, <2>1, <2>2 DEF TermInv, TermType
  <2>5. Writing'
    BY <1>2, <1>3, <2>1, <2>2 DEF Writing
  <2> QED BY <2>1, <2>3, <2>4, <2>5 DEF TermInv, Before, Done
<1>5. CASE st # 5
  <2>1. screen' = screen /\ failure' = st /\ status' = -st /\ pc' = "unlock" /\ i' = i + 1
    BY <1>1, <1>5
  <2>2. TermType'
    BY <1>2, <1>3, <2>1 DEF TermInv, TermType
  <2>3. Numbered'
    BY <1>2, <2>1 DEF TermInv, Numbered
  <2>4. Failed'
    BY <1>2, <1>3, <1>5, <2>1 DEF Failed
  <2> QED BY <2>1, <2>2, <2>3, <2>4 DEF TermInv, Before, Writing, Done
<1> QED BY <1>4, <1>5

LEMMA TermEndLoop == TermInv /\ Term!EndLoop => TermInv'
<1> SUFFICES ASSUME TermInv, Term!EndLoop PROVE TermInv'
  OBVIOUS
<1>1. /\ pc = "loop" /\ pc' = "unlock" /\ i >= len
      /\ UNCHANGED <<len, i, status, screen, start, failure>>
  BY DEF Term!EndLoop
<1>2. /\ len \in Int /\ i \in Nat /\ i <= len /\ Len(screen) = start + i /\ failure = 0
      /\ i > 0 => status = i - 1
  BY <1>1 DEF TermInv, TermType, Writing
<1>3. i = len
  BY <1>1, <1>2
<1>4. Complete'
  BY <1>1, <1>2, <1>3 DEF Complete
<1>5. TermType' /\ Numbered'
  BY <1>1 DEF TermInv, TermType, Numbered
<1> QED BY <1>1, <1>4, <1>5 DEF TermInv, Before, Writing, Done

LEMMA TermReturn == TermInv /\ Term!Return => TermInv'
<1> SUFFICES ASSUME TermInv, Term!Return PROVE TermInv'
  OBVIOUS
<1>1. /\ pc = "unlock" /\ pc' = "run"
      /\ UNCHANGED <<len, i, status, screen, start, failure>>
  BY DEF Term!Return
<1>2. TermType' /\ Numbered'
  BY <1>1 DEF TermInv, TermType, Numbered
<1>3. start \in Nat /\ len \in Int /\ Len(screen) \in Nat
  BY LenProperties DEF TermInv, TermType
<1>4. len > 0 => Len(screen) <= start + len
  BY <1>1, <1>3 DEF TermInv, Done, Complete, Failed
<1> QED BY <1>1, <1>2, <1>4 DEF TermInv, Before, Writing, Done

(* Every step of the model of SYS10 keeps its invariant.                   *)
LEMMA TermNext == TermInv /\ [Term!Next]_termVars => TermInv'
<1> SUFFICES ASSUME TermInv, [Term!Next]_termVars PROVE TermInv'
  OBVIOUS
<1>1. ASSUME NEW a \in Address, NEW n \in Lengths, Term!Call(a, n) PROVE TermInv'
  BY <1>1, TermCall
<1>2. CASE Term!Ended \/ UNCHANGED termVars
  BY <1>2 DEF Term!Ended, Term!vars, termVars, TermInv, TermType, Numbered, Before,
              Writing, Done, Complete, Failed
<1> QED BY <1>1, <1>2, TermLock, TermTransmit, TermTransmitted, TermEndLoop, TermReturn
        DEF Term!Next, Lengths

(* What a call has added is what Numbered says.                            *)
LEMMA OutputLength ==
  ASSUME TermInv
  PROVE  /\ Term!Output \in Seq(Nat) /\ Len(Term!Output) = Len(screen) - start
         /\ \A n \in 1..Len(screen) - start : Term!Output[n] = n
<1>1. /\ screen \in Seq(Nat) /\ start \in Nat /\ Len(screen) \in Nat /\ start <= Len(screen)
      /\ \A n \in 1..Len(screen) - start : screen[start + n] = n
  BY LenProperties DEF TermInv, TermType, Numbered
<1>2. /\ Term!Output = SubSeq(screen, start + 1, Len(screen))
  BY DEF Term!Output
<1>3. PICK a \in Int, b \in Int : a = start + 1 /\ b = Len(screen)
  BY <1>1
<1>4. \A k \in a..b : k \in 1..Len(screen)
  BY <1>1, <1>3
<1>5. /\ SubSeq(screen, a, b) \in Seq(Nat)
      /\ Len(SubSeq(screen, a, b)) = IF a <= b THEN b - a + 1 ELSE 0
      /\ \A k \in 1..b - a + 1 : SubSeq(screen, a, b)[k] = screen[a + k - 1]
  BY <1>1, <1>3, <1>4, SubSeqProperties
<1>6. Len(Term!Output) = Len(screen) - start
  BY <1>1, <1>2, <1>3, <1>5
<1>7. ASSUME NEW n \in 1..Len(screen) - start PROVE Term!Output[n] = n
  <2>1. n \in 1..b - a + 1 /\ a + n - 1 = start + n
    BY <1>1, <1>3
  <2> QED BY <1>1, <1>2, <1>3, <1>5, <2>1
<1> QED BY <1>2, <1>3, <1>5, <1>6, <1>7

LEMMA Prefix == TermInv => PrefixWritten
<1> SUFFICES ASSUME TermInv PROVE PrefixWritten
  OBVIOUS
<1>1. /\ Term!Output \in Seq(Nat) /\ Len(Term!Output) = Len(screen) - start
      /\ \A n \in 1..Len(screen) - start : Term!Output[n] = n
  BY OutputLength
<1>2. Term!Output = [n \in 1..Len(Term!Output) |-> n]
  <2>1. PICK s \in Seq(Nat) : s = Term!Output
    BY <1>1
  <2>2. s = [n \in 1..Len(s) |-> s[n]]
    OBVIOUS
  <2> QED BY <1>1, <2>1, <2>2
<1>3. /\ start \in Nat /\ len \in Int /\ i \in Nat /\ Len(screen) \in Nat
  BY LenProperties DEF TermInv, TermType
<1>4. len > 0 => Len(Term!Output) <= len
  <2>1. Len(screen) = start \/ (len > 0 => Len(screen) <= start + len)
    BY <1>3 DEF TermInv, TermType, Before, Writing, Done, Complete, Failed
  <2> QED BY <1>1, <1>3, <2>1
<1> QED BY <1>2, <1>4 DEF PrefixWritten, Term!PrefixWritten

(* status is what the handler's local variable held before only when the   *)
(* text is empty.                                                          *)
LEMMA ResultStep ==
  ASSUME 0 \notin Lengths, TermInv, [Term!Next]_termVars
  PROVE  pc = "unlock" /\ pc' = "run" =>
           IF v0' < 0 THEN v0' = -failure
                      ELSE failure = 0 /\ Len(Term!Output) = len
<1> SUFFICES ASSUME pc = "unlock", pc' = "run"
             PROVE  IF v0' < 0 THEN v0' = -failure
                      ELSE failure = 0 /\ Len(Term!Output) = len
  OBVIOUS
<1>1. v0' = status
  <2>1. \A a \in Address, n \in Lengths : ~Term!Call(a, n)
    BY DEF Term!Call
  <2>2. ~Term!Lock /\ ~Term!Transmit /\ ~Term!Transmitted /\ ~Term!EndLoop
    BY DEF Term!Lock, Term!Transmit, Term!Transmitted, Term!EndLoop
  <2>3. ~Term!Ended /\ ~UNCHANGED termVars
    BY DEF Term!Ended, Term!vars, termVars
  <2> QED BY <2>1, <2>2, <2>3 DEF Term!Next, Term!Return, Lengths
<1>2. /\ len \in Int /\ len # 0 /\ start \in Nat /\ Len(screen) \in Nat
      /\ Complete \/ Failed
  BY LenProperties DEF TermInv, TermType, Done
<1>3. Len(Term!Output) = Len(screen) - start /\ start <= Len(screen)
  BY OutputLength DEF TermInv, Numbered
<1>4. CASE Complete
  BY <1>1, <1>2, <1>3, <1>4 DEF Complete
<1>5. CASE Failed
  <2>1. failure \in Nat /\ failure > 0 /\ status = -failure
    BY <1>5, TermStatus DEF Failed
  <2> QED BY <1>1, <2>1
<1> QED BY <1>2, <1>4, <1>5

-----------------------------------------------------------------------------
(* The three calls side by side.                                           *)

ResultsInv == DevInv /\ CpuInv /\ TermInv

(* Only one of the three parts takes the steps.                            *)
LEMMA PartsStep ==
  ASSUME [Next]_vars
  PROVE  [Dev!Next]_devVars /\ [Cpu!Next]_cpuVars /\ [Term!Next]_termVars
BY DEF Next, Over, vars

LEMMA ResultsInit == Init => ResultsInv
BY DevInit, CpuInit, TermInit DEF Init, ResultsInv

LEMMA ResultsNext == ResultsInv /\ [Next]_vars => ResultsInv'
BY PartsStep, DevNext, CpuNext, TermNext DEF ResultsInv

(* The invariant of the three models. *)
LEMMA ResultsInvariant == FairSpec => []ResultsInv
<1>1. ResultsInv /\ [Next]_vars => ResultsInv'
  BY ResultsNext
<1> QED BY <1>1, ResultsInit, PTL DEF FairSpec

(* waitio and the interrupt handler: after SYS8 v0 of a process that masks *)
(* interrupts holds the status of its own operation, and its device is     *)
(* ready for the next one, whatever processes that do not mask do.         *)
THEOREM StatusDeliveredCorrect == FairSpec => []StatusDelivered
<1>1. ResultsInv => StatusDelivered
  <2> SUFFICES ASSUME ResultsInv, NEW p \in Masker, devPc[p] = "check", p \notin devBlocked
               PROVE  devV0[p] = Dev!StatusOf(p) /\ device[p] = "READY"
    BY DEF StatusDelivered, Dev!StatusDelivered, Dev!Delivered
  <2> QED BY Maskers DEF ResultsInv, DevInv, Operating, Masked
<1> QED BY <1>1, ResultsInvariant, PTL

(* interrupts.c:222-239: the status of an operation that was started with  *)
(* interrupts masked comes into the v0 of no other process, and into that  *)
(* of its own only by SYS8.  (That of any other operation may come into    *)
(* the v0 of every process, which interrupts.c:256 does not admit.)        *)
THEOREM PrivacyCorrect == FairSpec => []MaskedStatusPrivate
<1>1. ResultsInv => MaskedStatusPrivate
  BY DEF ResultsInv, DevInv, Private, MaskedStatusPrivate, Dev!MaskedStatusPrivate
<1> QED BY <1>1, ResultsInvariant, PTL

(* A process waits for its device exactly while the semaphore of the       *)
(* device is negative, and between operations it is 0 and the device idle, *)
(* also when the device was early.                                         *)
THEOREM SemaphoreCorrect == FairSpec => []DeviceSemaphore
<1>1. ResultsInv => DeviceSemaphore
  <2> SUFFICES ASSUME ResultsInv, NEW p \in Reader
               PROVE  /\ p \in devBlocked <=> semV[p] < 0
                      /\ devPc[p] \in {"compute", "use", "command"} =>
                           semV[p] = 0 /\ device[p] = "READY"
    BY DEF DeviceSemaphore, Dev!DeviceSemaphore
  <2>1. Operating(p) /\ devPc[p] \in {"compute", "use", "command", "sys8", "check"}
    BY DEF ResultsInv, DevInv, DevType
  <2> QED BY <2>1 DEF Operating
<1> QED BY <1>1, ResultsInvariant, PTL

(* p2test.c:321-322: between two SYS6 a process is charged at least what   *)
(* it ran.                                                                 *)
THEOREM ChargeCorrect == FairSpec => []NeverUndercharged
<1>1. ResultsInv => NeverUndercharged
  BY DEF ResultsInv, CpuInv, Reported, NeverUndercharged, Cpu!NeverUndercharged
<1> QED BY <1>1, ResultsInvariant, PTL

(* Without an interrupt that returns to it, it is charged exactly what it  *)
(* ran, whatever ran in between and wherever the clock went round.         *)
THEOREM ExactChargeCorrect == FairSpec => []ChargedWhatItRan
<1>1. ResultsInv => ChargedWhatItRan
  BY DEF ResultsInv, CpuInv, Reported, ChargedWhatItRan, Cpu!ChargedWhatItRan
<1> QED BY <1>1, ResultsInvariant, PTL

(* The exact charge: what the process ran, and twice the interrupts that   *)
(* returned to it, once since the clock goes on in the handler and once    *)
(* since interrupts.c:254 adds timeStart - timeEnd to it.                  *)
THEOREM InterruptsChargedTwice == FairSpec => []Reported
<1>1. ResultsInv => Reported
  BY DEF ResultsInv, CpuInv
<1> QED BY <1>1, ResultsInvariant, PTL

(* SYS10: the terminal shows a prefix of the text of this call, in order,  *)
(* each character once.                                                    *)
THEOREM PrefixCorrect == FairSpec => []PrefixWritten
<1>1. ResultsInv => PrefixWritten
  BY Prefix DEF ResultsInv
<1> QED BY <1>1, ResultsInvariant, PTL

(* SYS10 of a text that is not empty returns a negative number exactly     *)
(* when an operation of this call failed, namely minus its status;         *)
(* otherwise the whole text was written.  (Of an empty text it returns     *)
(* what the stack of the handler held.)                                    *)
THEOREM ResultCorrect ==
  ASSUME 0 \notin Text \cup {-n : n \in Negated}
  PROVE  FairSpec => ResultTellsFailure
<1>1. ResultsInv /\ [Next]_vars =>
        [pc = "unlock" /\ pc' = "run" =>
           IF v0' < 0 THEN v0' = -failure
                      ELSE failure = 0 /\ Len(Term!Output) = len]_termVars
  BY PartsStep, ResultStep DEF ResultsInv, Lengths
<1>2. ResultTellsFailure <=>
        [][pc = "unlock" /\ pc' = "run" =>
             IF v0' < 0 THEN v0' = -failure
                        ELSE failure = 0 /\ Len(Term!Output) = len]_termVars
  BY DEF ResultTellsFailure, Term!ResultTellsFailure, Term!vars, termVars
<1> QED BY <1>1, <1>2, ResultsInvariant, PTL DEF FairSpec
=============================================================================
