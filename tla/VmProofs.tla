------------------------------ MODULE VmProofs ------------------------------
(***************************************************************************)
(* Theorems about the VM support layer, for any number of processes and of *)
(* frames: where its processes are and what they are about (Control), that *)
(* disk 0 and the swap pool are each used by one process at a time         *)
(* (Exclusion), that the root ends when the user processes have            *)
(* (RootCounts), and whose page each frame holds (MemoryOK).               *)
(***************************************************************************)
EXTENDS VmSupport, ProcQTheorems, FiniteSetTheorems

Sem == {"masterSem", "swapPoolSem", "disk0sem"}

-----------------------------------------------------------------------------
(* The inductive invariant.                                                *)

(* A disk operation of tapeToDisk; one of the pager, under way or failed.  *)
Booting(p) == io[p] # None /\ io[p].back = "tape"
Paging(p) == io[p] # None /\ io[p].back # "tape"

(* The operation of a process agrees with its label and with what it knows *)
(* of its tape or its page fault.                                          *)
OperationOK(p) ==
  /\ pc[p] \in DiskLabel => io[p] # None
  /\ Booting(p) =>
       /\ pc[p] \in DiskLabel \cup {"dead"}
       /\ io[p].cmd = "write" /\ io[p].asid = p
       /\ io[p].cyl = block[p] /\ block[p] < Blocks
       /\ io[p].buf = TapeBuffer
  /\ Paging(p) =>
       /\ pc[p] \in DiskLabel \cup {"terminate", "clear"} \cup Ended
       /\ fNo[p] \in Frame /\ io[p].buf = fNo[p]
       /\ miss[p] \in Segment \X Page
       /\ io[p].back = "read" => io[p].cmd = "write"
       /\ io[p].back = "load" => /\ io[p].cmd = "read" /\ io[p].asid = p
                                 /\ io[p].cyl = pteIndex(miss[p][2])

Control(p) ==
  /\ OperationOK(p)
  /\ pc[p] \in {"read", "load", "leave"} =>
       fNo[p] \in Frame /\ miss[p] \in Segment \X Page
  /\ pc[p] \in {"pager", "frame"} => miss[p] # None
  /\ pc[p] = "tapeWait" => block[p] < Blocks
  /\ pc[p] \in {"transfer", "transferWait"} => diskCyl \in Index

RootControl ==
  /\ pc[Root] \in {"create", "wait"} => left \in 1..MAXUPROC
  /\ pc[Root] \in {"end", "dead"} => left = 0
  /\ pc[Root] = "dead" => \A p \in ASID : pc[p] \in {"exit", "dead"}
  /\ \A p \in ASID :
       pc[p] = "unborn" <=> pc[Root] = "create" /\ p > MAXUPROC - left

ControlInv == TypeOK /\ RootControl /\ \A p \in ASID : Control(p)

(* The queue of a semaphore holds, once each, processes that are where     *)
(* they wait for it; its length is what the value of the semaphore says.   *)
WaitLabel(s) ==
  CASE s = "masterSem" -> {"wait", "end"}
    [] s = "swapPoolSem" -> {"frame", "clear"}
    [] s = "disk0sem" -> {"seek"}

Queues ==
  \A s \in Sem :
    /\ NoDup(semQ[s])
    /\ Len(semQ[s]) = IF semV[s] < 0 THEN -semV[s] ELSE 0
    /\ \A p \in ASID \cup {Root} : InQ(semQ[s], p) =>
         /\ p \in IF s = "masterSem" THEN {Root} ELSE ASID
         /\ pc[p] \in WaitLabel(s)

(* Between the P and the V of diskIO; between those of pager() and of      *)
(* terminateUserProc, or with a disk operation of the pager, which it      *)
(* keeps for ever when the disk fails.                                     *)
HoldsDisk(p) ==
  /\ pc[p] \in {"seek", "seekWait", "transfer", "transferWait", "unlock"}
  /\ ~InQ(semQ["disk0sem"], p)

HoldsPool(p) ==
  \/ /\ pc[p] \in {"frame", "read", "load", "leave", "clear"}
     /\ ~InQ(semQ["swapPoolSem"], p)
  \/ Paging(p)

Mutex(v, H) ==
  /\ v <= 1 /\ (v = 1 => H = {})
  /\ \A p, q \in H : p = q

PoolHolders == {p \in ASID : HoldsPool(p)}
DiskHolders == {p \in ASID : HoldsDisk(p)}

Exclusion ==
  /\ Mutex(semV["swapPoolSem"], PoolHolders)
  /\ Mutex(semV["disk0sem"], DiskHolders)
  /\ \A p \in ASID : Paging(p) =>
       /\ pc[p] \notin Ended
       /\ pc[p] = "clear" => InQ(semQ["swapPoolSem"], p)

(* The root has used up no more V operations on masterSem than there are   *)
(* processes that are past theirs.                                         *)
Waits == IF pc[Root] = "create" THEN 0 ELSE MAXUPROC - left
Completed == {p \in ASID : pc[p] \in {"exit", "dead"}}

RootCounts == semV["masterSem"] + Waits <= Cardinality(Completed)

SemInv == Queues /\ Exclusion /\ RootCounts

(* Only processes that run own frames.                                     *)
Starting(p) == pc[p] \in {"unborn", "tape", "tapeWait"} \/ Booting(p)

Owners ==
  \A f \in Frame : swapPool[f] # Free =>
    pc[swapPool[f][1]] \notin Ended /\ ~Starting(swapPool[f][1])

(* The frame of a fault that is being handled is in no page table.         *)
Filling(q) == Paging(q) \/ pc[q] \in {"read", "load"}

Mapping(p, i) ==
  /\ tlb[p][i] \in {pte[p][i], Absent}
  /\ pte[p][i] \in Frame =>
       /\ swapPool[pte[p][i]] # Free
       /\ swapPool[pte[p][i]][1] = p
       /\ pteIndex(swapPool[pte[p][i]][2]) = i
       /\ \A q \in ASID : Filling(q) => pte[p][i] # fNo[q]

Arm ==
  \A p \in ASID : pc[p] \in {"transfer", "transferWait"} => diskCyl = io[p].cyl

MemoryInv ==
  /\ Owners
  /\ Arm
  /\ \A p \in ASID : pc[p] \notin Ended => \A i \in Index : Mapping(p, i)

Inv == ControlInv /\ SemInv /\ MemoryInv

-----------------------------------------------------------------------------
(* Facts about the constants and the operators.                            *)

LEMMA Constants ==
  /\ Root \notin ASID /\ ASID \subseteq Nat /\ ASID # {}
  /\ \A f \in Frame : f # Invalid /\ f # Absent /\ f # TapeBuffer
  /\ Index \subseteq 0..KUSEGPTESIZE - 1
  /\ 0..Blocks - 1 \subseteq Index
<1>1. Root \notin ASID /\ ASID \subseteq Nat /\ ASID # {}
  BY SizeAssumption DEF SizeAssumption, Root, ASID
<1>2. \A f \in Frame : f # Invalid /\ f # Absent /\ f # TapeBuffer
  BY SizeAssumption DEF SizeAssumption, Frame, Invalid, Absent, TapeBuffer
<1>3. Index \subseteq 0..KUSEGPTESIZE - 1
  BY SizeAssumption DEF SizeAssumption, Index, pteIndex, KUSEGPTESIZE
<1>4. 0..Blocks - 1 \subseteq Index
  BY DEF Index
<1> QED BY <1>1, <1>2, <1>3, <1>4

LEMMA PageIndex ==
  ASSUME NEW v \in Page
  PROVE  /\ pteIndex(v) \in Index
         /\ \A w \in Page : pteIndex(v) = pteIndex(w) => v = w
<1>1. pteIndex(v) \in Index
  BY DEF Index
<1>2. ASSUME NEW w \in Page, pteIndex(v) = pteIndex(w)
      PROVE  v = w
  BY <1>2, SizeAssumption DEF SizeAssumption, pteIndex, KUSEGPTESIZE
<1> QED BY <1>1, <1>2

LEMMA GetFrame ==
  ASSUME frameNo \in Frame
  PROVE  getFrame \in Frame
BY SizeAssumption DEF SizeAssumption, Frame, getFrame

(* SYS4 and SYS3 keep the types of the semaphores and of their queues.     *)
LEMMA SemaphoreTypes ==
  ASSUME TypeOK, NEW s \in Sem, NEW p \in ASID \cup {Root}, P(s, p) \/ V(s)
  PROVE  /\ semV' \in [Sem -> Int]
         /\ semQ' \in [Sem -> Seq(ASID \cup {Root})]
<1>1. semV \in [Sem -> Int] /\ semQ \in [Sem -> Seq(ASID \cup {Root})]
  BY DEF TypeOK, Sem
<1>2. semQ[s] \in Seq(ASID \cup {Root})
  BY <1>1
<1>3. /\ insertProcQ(semQ[s], p) \in Seq(ASID \cup {Root})
      /\ removeProcQ(semQ[s]) \in Seq(ASID \cup {Root})
  BY <1>2, InsertProcQ, RemoveProcQType
<1>4. CASE P(s, p)
  BY <1>1, <1>3, <1>4 DEF P
<1>5. CASE V(s)
  BY <1>1, <1>3, <1>5 DEF V
<1> QED BY <1>4, <1>5

LEMMA CreateUserControl ==
  ASSUME ControlInv, CreateUser
  PROVE  ControlInv'
<1> DEFINE n == MAXUPROC + 1 - left
<1>1. /\ pc[Root] = "create" /\ left \in 1..MAXUPROC /\ n \in ASID
      /\ UNCHANGED <<semV, semQ, block, io, paging, memory>>
  BY SizeAssumption DEF SizeAssumption, ASID, CreateUser, At, ControlInv,
     RootControl
<1>2. /\ \A q \in ASID : q > MAXUPROC - left => q = n \/ q > MAXUPROC - (left - 1)
      /\ n > MAXUPROC - left /\ ~(n > MAXUPROC - (left - 1))
      /\ \A q \in ASID : q > MAXUPROC - (left - 1) => q > MAXUPROC - left
      /\ left = 1 => \A q \in ASID : ~(q > MAXUPROC - (left - 1))
      /\ left # 1 => left - 1 \in 1..MAXUPROC
      /\ MAXUPROC \in 1..MAXUPROC /\ 1..MAXUPROC \subseteq 0..MAXUPROC
  BY <1>1, SizeAssumption DEF SizeAssumption, ASID
<1>3. /\ pc \in [ASID \cup {Root} -> RootLabel \cup UserLabel] /\ n # Root
      /\ pc[n] = "unborn"
  BY <1>1, <1>2, Constants DEF ControlInv, TypeOK, RootControl
<1>4. CASE left = 1
  <2>1. pc' = [pc EXCEPT ![n] = "tape", ![Root] = "wait"] /\ left' = MAXUPROC
    BY <1>4 DEF CreateUser
  <2> HIDE DEF n
  <2>2. TypeOK'
    BY <1>1, <1>2, <1>3, <2>1, Constants DEF RootLabel, ControlInv, TypeOK,
       paging, memory, UserLabel, DiskLabel, Ended
  <2>3. RootControl'
    BY <1>1, <1>2, <1>3, <1>4, <2>1, Constants DEF ControlInv, RootControl
  <2>4. ASSUME NEW q \in ASID
        PROVE  Control(q)'
    <3>1. pc'[q] = IF q = n THEN "tape" ELSE pc[q]
      BY <1>3, <2>1, Constants
    <3> QED BY <1>1, <1>3, <3>1 DEF ControlInv, Control, OperationOK,
               Booting, Paging, paging, memory, DiskLabel, Ended
  <2> QED BY <2>2, <2>3, <2>4 DEF ControlInv
<1>5. CASE left # 1
  <2> HIDE DEF n
  <2>1. /\ pc' \in [ASID \cup {Root} -> RootLabel \cup UserLabel]
        /\ \A x \in ASID \cup {Root} : pc'[x] = IF x = n THEN "tape" ELSE pc[x]
        /\ left' = left - 1
    <3>1. pc' = [pc EXCEPT ![n] = "tape", ![Root] = pc[Root]] /\ left' = left - 1
      BY <1>5, <1>3, Constants DEF CreateUser, n
    <3>2. "tape" \in UserLabel
      BY DEF UserLabel
    <3> QED BY <1>3, <3>1, <3>2
  <2>2. TypeOK'
    BY <1>1, <1>2, <1>3, <1>5, <2>1, Constants DEF RootLabel, ControlInv,
       TypeOK, paging, memory, UserLabel, DiskLabel, Ended
  <2>3. RootControl'
    BY <1>1, <1>2, <1>3, <1>5, <2>1, Constants DEF ControlInv, RootControl
  <2>4. ASSUME NEW q \in ASID
        PROVE  Control(q)'
    <3>1. pc'[q] = IF q = n THEN "tape" ELSE pc[q]
      BY <2>1
    <3> QED BY <1>1, <1>3, <3>1 DEF ControlInv, Control, OperationOK,
               Booting, Paging, paging, memory, DiskLabel, Ended
  <2> QED BY <2>2, <2>3, <2>4 DEF ControlInv
<1> QED BY <1>4, <1>5

LEMMA WaitForUserControl ==
  ASSUME ControlInv, WaitForUser
  PROVE  ControlInv'
<1>1. /\ pc[Root] = "wait" /\ left \in 1..MAXUPROC
      /\ \/ left = 1 /\ pc' = [pc EXCEPT ![Root] = "end"]
         \/ left # 1 /\ pc' = [pc EXCEPT ![Root] = "wait"]
      /\ left' = left - 1
      /\ UNCHANGED <<block, io, paging, memory>>
  BY DEF WaitForUser, At, Goto, ControlInv, RootControl
<1>2. semV' \in [Sem -> Int] /\ semQ' \in [Sem -> Seq(ASID \cup {Root})]
  BY SemaphoreTypes DEF ControlInv, Sem, WaitForUser
<1>3. TypeOK'
  <2>1. left' \in 0..MAXUPROC
    BY <1>1, SizeAssumption DEF SizeAssumption
  <2> QED BY <1>1, <1>2, <2>1, Constants DEF Sem, RootLabel, ControlInv,
             TypeOK, paging, memory, UserLabel, DiskLabel, Ended
<1>4. RootControl'
  BY <1>1, Constants, SizeAssumption DEF SizeAssumption, ControlInv,
     RootControl, TypeOK, paging, memory
<1>5. \A q \in ASID : Control(q)'
  BY <1>1, Constants DEF ControlInv, TypeOK, Control, OperationOK, Booting,
     Paging, paging, memory, DiskLabel, Ended
<1> QED BY <1>3, <1>4, <1>5 DEF ControlInv

(* The SYS2 of the root leaves its children dead, or before their own.     *)
LEMMA RootEndFacts ==
  ASSUME ControlInv, RootEnd
  PROVE  /\ pc[Root] = "end" /\ ~Blocked(Root) /\ left = 0
         /\ pc' \in [ASID \cup {Root} -> {"exit", "dead"}] /\ pc'[Root] = "dead"
         /\ \A p \in ASID : pc'[p] \in {pc[p], "dead"}
         /\ UNCHANGED <<semV, semQ, left, block, io, paging, memory>>
<1>1. PICK missed \in SUBSET {p \in ASID : pc[p] = "exit"} :
        pc' = [p \in ASID \cup {Root} |-> IF p \in missed THEN pc[p] ELSE "dead"]
  BY DEF RootEnd, ControlInv, TypeOK
<1>2. Root \notin missed
  BY Constants
<1>3. \A p \in missed : pc[p] = "exit"
  OBVIOUS
<1>4. /\ pc' \in [ASID \cup {Root} -> {"exit", "dead"}] /\ pc'[Root] = "dead"
      /\ \A p \in ASID : pc'[p] \in {pc[p], "dead"}
  BY <1>1, <1>2, <1>3
<1> QED BY <1>4 DEF RootEnd, At, ControlInv, RootControl

LEMMA RootEndControl ==
  ASSUME ControlInv, RootEnd
  PROVE  ControlInv'
<1>1. /\ pc[Root] = "end" /\ left = 0
      /\ pc' \in [ASID \cup {Root} -> {"exit", "dead"}] /\ pc'[Root] = "dead"
      /\ \A p \in ASID : pc'[p] \in {pc[p], "dead"}
      /\ UNCHANGED <<semV, semQ, left, block, io, paging, memory>>
  BY RootEndFacts
<1>2. TypeOK'
  BY <1>1, Constants DEF RootLabel, ControlInv, TypeOK, paging, memory,
     UserLabel, DiskLabel, Ended
<1>3. RootControl'
  BY <1>1, Constants, SizeAssumption DEF SizeAssumption, ControlInv,
     RootControl, TypeOK, paging, memory
<1>4. \A q \in ASID : Control(q)'
  BY <1>1, Constants DEF ControlInv, TypeOK, Control, OperationOK, Booting,
     Paging, paging, memory, DiskLabel, Ended
<1> QED BY <1>2, <1>3, <1>4 DEF ControlInv

LEMMA ReadTapeControl ==
  ASSUME ControlInv, NEW p \in ASID, ReadTape(p)
  PROVE  ControlInv'
<1>1. TypeOK'
  BY Constants DEF ReadTape, At, Goto, ControlInv, TypeOK, paging, memory,
     UserLabel, DiskLabel, Ended
<1>2. RootControl'
  BY Constants DEF ReadTape, At, Goto, ControlInv, RootControl, TypeOK,
     paging, memory
<1>3. \A q \in ASID : Control(q)'
  BY Constants DEF ReadTape, At, Goto, ControlInv, TypeOK, Control,
     OperationOK, Booting, Paging, paging, memory, DiskLabel, Ended
<1> QED BY <1>1, <1>2, <1>3 DEF ControlInv

LEMMA TapeDoneControl ==
  ASSUME ControlInv, NEW p \in ASID, TapeDone(p)
  PROVE  ControlInv'
<1> DEFINE op == [cmd |-> "write", asid |-> p, cyl |-> block[p],
                   buf |-> TapeBuffer, back |-> "tape"]
<1>1. block[p] \in 0..Blocks - 1 /\ block[p] \in Nat
  BY SizeAssumption DEF SizeAssumption, ControlInv, TypeOK, Control,
     TapeDone, At
<1>2. op \in Operation /\ op # None
  BY <1>1, Constants DEF Operation, None
<1>3. pc[p] = "tapeWait" /\ UNCHANGED <<semV, semQ, left, block, paging, memory>>
  BY DEF TapeDone, At
<1>4. CASE pc' = [pc EXCEPT ![p] = "lock"] /\ io' = [io EXCEPT ![p] = op]
  <2>1. TypeOK'
    BY <1>2, <1>3, <1>4, Constants DEF ControlInv, TypeOK, paging, memory,
       UserLabel, DiskLabel, Ended
  <2>2. RootControl'
    BY <1>3, <1>4, Constants DEF ControlInv, RootControl, TypeOK, paging,
       memory
  <2>3. \A q \in ASID : Control(q)'
    BY <1>1, <1>2, <1>3, <1>4 DEF op, ControlInv, TypeOK, Control,
       OperationOK, Booting, Paging, paging, memory, DiskLabel, Ended
  <2> QED BY <2>1, <2>2, <2>3 DEF ControlInv
<1>5. CASE pc' = [pc EXCEPT ![p] = "dead"] /\ io' = io
  <2>1. TypeOK'
    BY <1>3, <1>5, Constants DEF ControlInv, TypeOK, paging, memory,
       UserLabel, DiskLabel, Ended
  <2>2. RootControl'
    BY <1>3, <1>5, Constants DEF ControlInv, RootControl, TypeOK, paging,
       memory
  <2>3. \A q \in ASID : Control(q)'
    BY <1>3, <1>5 DEF ControlInv, TypeOK, Control, OperationOK, Booting,
       Paging, paging, memory, DiskLabel, Ended
  <2> QED BY <2>1, <2>2, <2>3 DEF ControlInv
<1> QED BY <1>4, <1>5 DEF TapeDone, Goto

LEMMA StartUserControl ==
  ASSUME ControlInv, NEW p \in ASID, StartUser(p)
  PROVE  ControlInv'
<1>1. TypeOK'
  BY Constants DEF StartUser, At, Goto, ControlInv, TypeOK, paging, memory,
     UserLabel, DiskLabel, Ended
<1>2. RootControl'
  BY Constants DEF StartUser, At, Goto, ControlInv, RootControl, TypeOK,
     paging, memory
<1>3. \A q \in ASID : Control(q)'
  BY Constants DEF StartUser, At, Goto, ControlInv, TypeOK, Control,
     OperationOK, Booting, Paging, paging, memory, DiskLabel, Ended
<1> QED BY <1>1, <1>2, <1>3 DEF ControlInv

LEMMA LockDiskControl ==
  ASSUME ControlInv, NEW p \in ASID, LockDisk(p)
  PROVE  ControlInv'
<1>1. TypeOK'
  <2>1. semV' \in [Sem -> Int] /\ semQ' \in [Sem -> Seq(ASID \cup {Root})]
    BY SemaphoreTypes DEF ControlInv, Sem, LockDisk
  <2> QED BY <2>1, Constants DEF LockDisk, At, Goto, Sem, ControlInv, TypeOK,
             paging, memory, UserLabel, DiskLabel, Ended
<1>2. RootControl'
  BY Constants DEF LockDisk, At, Goto, ControlInv, RootControl, TypeOK,
     paging, memory
<1>3. \A q \in ASID : Control(q)'
  BY Constants DEF LockDisk, At, Goto, ControlInv, TypeOK, Control,
     OperationOK, Booting, Paging, paging, memory, DiskLabel, Ended
<1> QED BY <1>1, <1>2, <1>3 DEF ControlInv

LEMMA SeekControl ==
  ASSUME ControlInv, NEW p \in ASID, Seek(p)
  PROVE  ControlInv'
<1>1. TypeOK'
  BY Constants DEF Seek, At, Goto, ControlInv, TypeOK, paging, memory,
     UserLabel, DiskLabel, Ended
<1>2. RootControl'
  BY Constants DEF Seek, At, Goto, ControlInv, RootControl, TypeOK, paging,
     memory
<1>3. \A q \in ASID : Control(q)'
  BY Constants DEF Seek, At, Goto, ControlInv, TypeOK, Control, OperationOK,
     Booting, Paging, paging, memory, DiskLabel, Ended
<1> QED BY <1>1, <1>2, <1>3 DEF ControlInv

LEMMA SeekDoneControl ==
  ASSUME ControlInv, NEW p \in ASID, SeekDone(p)
  PROVE  ControlInv'
<1>1. /\ pc[p] = "seekWait" /\ io[p] \in Operation
      /\ UNCHANGED <<semV, semQ, left, block, io, paging, pte, tlb, ram, disk>>
  BY DEF SeekDone, At, ControlInv, TypeOK, Control, OperationOK, DiskLabel
<1>2. io[p].cyl \in Index
  BY <1>1 DEF Operation
<1>3. /\ pc' = [pc EXCEPT ![p] = pc'[p]]
      /\ \/ pc'[p] = "transfer" /\ diskCyl' = io[p].cyl
         \/ Booting(p) /\ pc'[p] = "dead" /\ diskCyl' = diskCyl
         \/ Paging(p) /\ pc'[p] = "terminate" /\ diskCyl' = diskCyl
  BY <1>1 DEF SeekDone, Goto, failTo, Booting, Paging, ControlInv, TypeOK,
     Control, OperationOK, DiskLabel
<1>4. TypeOK'
  BY <1>1, <1>2, <1>3, Constants DEF ControlInv, TypeOK, paging, memory,
     UserLabel, DiskLabel, Ended
<1>5. RootControl'
  BY <1>1, <1>3, Constants DEF ControlInv, RootControl, TypeOK, paging, memory
<1>6. \A q \in ASID : Control(q)'
  BY <1>1, <1>2, <1>3, Constants DEF ControlInv, TypeOK, Control,
     OperationOK, Booting, Paging, paging, memory, DiskLabel, Ended
<1> QED BY <1>4, <1>5, <1>6 DEF ControlInv

LEMMA TransferControl ==
  ASSUME ControlInv, NEW p \in ASID, Transfer(p)
  PROVE  ControlInv'
<1>1. TypeOK'
  BY Constants DEF Transfer, At, Goto, ControlInv, TypeOK, paging, memory,
     UserLabel, DiskLabel, Ended
<1>2. RootControl'
  BY Constants DEF Transfer, At, Goto, ControlInv, RootControl, TypeOK,
     paging, memory
<1>3. \A q \in ASID : Control(q)'
  BY Constants DEF Transfer, At, Goto, ControlInv, TypeOK, Control,
     OperationOK, Booting, Paging, paging, memory, DiskLabel, Ended
<1> QED BY <1>1, <1>2, <1>3 DEF ControlInv

LEMMA TransferDoneControl ==
  ASSUME ControlInv, NEW p \in ASID, TransferDone(p)
  PROVE  ControlInv'
<1>1. /\ pc[p] = "transferWait" /\ io[p] \in Operation /\ diskCyl \in Index
      /\ UNCHANGED <<semV, semQ, left, block, io, paging, pte, tlb, diskCyl>>
  BY DEF TransferDone, At, ControlInv, TypeOK, Control, OperationOK, DiskLabel
<1>2. /\ io[p].asid \in ASID
      /\ bufferContents(p) \in Content
      /\ io[p].cmd = "read" => io[p].buf \in Frame
  <2>1. CASE Booting(p)
    <3>1. /\ block[p] \in 0..Blocks - 1
          /\ io[p].cmd = "write" /\ io[p].buf = TapeBuffer
      BY <1>1, <2>1, SizeAssumption DEF SizeAssumption, ControlInv, TypeOK,
         Control, OperationOK
    <3>2. bufferContents(p) = Image(p, block[p]) /\ block[p] \in Index
      BY <3>1, Constants DEF bufferContents
    <3> QED BY <1>1, <3>1, <3>2 DEF Content, Operation
  <2>2. CASE Paging(p)
    <3>1. io[p].buf \in Frame
      BY <2>2 DEF ControlInv, Control, OperationOK
    <3>2. bufferContents(p) = ram[io[p].buf]
      BY <3>1, Constants DEF bufferContents
    <3> QED BY <1>1, <3>1, <3>2 DEF Operation, ControlInv, TypeOK
  <2>3. Booting(p) \/ Paging(p)
    BY <1>1 DEF Booting, Paging, ControlInv, Control, OperationOK, DiskLabel
  <2> QED BY <2>1, <2>2, <2>3
<1>3. /\ ram' \in [Frame -> Content]
      /\ disk' \in [ASID -> [Index -> Content]]
  <2>1. /\ ram \in [Frame -> Content] /\ disk \in [ASID -> [Index -> Content]]
        /\ disk[io[p].asid][diskCyl] \in Content
    BY <1>1, <1>2 DEF ControlInv, TypeOK
  <2>2. \/ UNCHANGED <<ram, disk>>
        \/ /\ disk' = [disk EXCEPT ![io[p].asid][diskCyl] = bufferContents(p)]
           /\ ram' = ram
        \/ /\ io[p].cmd = "read" /\ disk' = disk
           /\ ram' = [ram EXCEPT ![io[p].buf] = disk[io[p].asid][diskCyl]]
    BY <1>1 DEF TransferDone, Operation
  <2> QED BY <1>1, <1>2, <2>1, <2>2
<1>4. /\ pc' = [pc EXCEPT ![p] = pc'[p]]
      /\ \/ pc'[p] = "unlock"
         \/ Booting(p) /\ pc'[p] = "dead"
         \/ Paging(p) /\ pc'[p] = "terminate"
  BY <1>1 DEF TransferDone, Goto, failTo, Booting, Paging, ControlInv,
     TypeOK, Control, OperationOK, DiskLabel
<1>5. TypeOK'
  BY <1>1, <1>3, <1>4, Constants DEF ControlInv, TypeOK, paging, memory,
     UserLabel, DiskLabel, Ended
<1>6. RootControl'
  BY <1>1, <1>4, Constants DEF ControlInv, RootControl, TypeOK, paging, memory
<1>7. \A q \in ASID : Control(q)'
  BY <1>1, <1>4, Constants DEF ControlInv, TypeOK, Control, OperationOK,
     Booting, Paging, paging, memory, DiskLabel, Ended
<1> QED BY <1>5, <1>6, <1>7 DEF ControlInv

LEMMA UnlockDiskControl ==
  ASSUME ControlInv, NEW p \in ASID, UnlockDisk(p)
  PROVE  ControlInv'
<1>1. /\ pc[p] = "unlock" /\ io[p] \in Operation /\ io[p].back \in {"tape", "read", "load"}
      /\ Goto(p, io[p].back)
      /\ block' = IF io[p].back = "tape"
                     THEN [block EXCEPT ![p] = @ + 1] ELSE block
      /\ io' = [io EXCEPT ![p] = None]
      /\ UNCHANGED <<left, paging, memory>>
  BY DEF UnlockDisk, At, ControlInv, TypeOK, Control, OperationOK, DiskLabel,
     Operation
<1>2. semV' \in [Sem -> Int] /\ semQ' \in [Sem -> Seq(ASID \cup {Root})]
  BY SemaphoreTypes DEF ControlInv, Sem, UnlockDisk
<1>3. \/ Booting(p) /\ io[p].back = "tape" /\ block[p] < Blocks
      \/ Paging(p) /\ io[p].back \in {"read", "load"}
  BY <1>1 DEF Booting, Paging, ControlInv, Control, OperationOK, DiskLabel
<1>4. block' \in [ASID -> 0..Blocks]
  BY <1>1, <1>3, SizeAssumption DEF SizeAssumption, ControlInv, TypeOK
<1>5. TypeOK'
  BY <1>1, <1>2, <1>4, Constants DEF Goto, Sem, ControlInv, TypeOK, paging,
     memory, UserLabel, DiskLabel, Ended
<1>6. RootControl'
  BY <1>1, Constants DEF Goto, ControlInv, RootControl, TypeOK, paging, memory
<1>7. \A q \in ASID : Control(q)'
  BY <1>1, <1>3, Constants DEF Goto, ControlInv, TypeOK, Control,
     OperationOK, Booting, Paging, paging, memory, DiskLabel, Ended
<1> QED BY <1>5, <1>6, <1>7 DEF ControlInv

LEMMA WriteControl ==
  ASSUME ControlInv, NEW p \in ASID, NEW v \in Data, Write(p, v)
  PROVE  ControlInv'
<1>0. pc[p] = "run" /\ pteIndex(v) \in Index
  BY PageIndex, SizeAssumption DEF SizeAssumption, Write, At
<1>1. tlb' \in [ASID -> [Index -> Frame \cup {Invalid, Absent}]]
  BY <1>0 DEF Write, refill, translation, ControlInv, TypeOK
<1>2. ram' \in [Frame -> Content]
  <2>1. Written(p, v) \in Content
    BY SizeAssumption DEF SizeAssumption, Content
  <2> QED BY <2>1 DEF Write, ControlInv, TypeOK
<1>3. TypeOK'
  BY <1>0, <1>1, <1>2, Constants DEF Write, ControlInv, TypeOK, paging,
     memory, UserLabel, DiskLabel, Ended
<1>4. RootControl'
  BY <1>0, Constants DEF Write, ControlInv, RootControl, TypeOK, paging, memory
<1>5. \A q \in ASID : Control(q)'
  BY <1>0 DEF Write, ControlInv, TypeOK, Control, OperationOK, Booting,
     Paging, paging, memory, DiskLabel, Ended
<1> QED BY <1>3, <1>4, <1>5 DEF ControlInv

LEMMA ReadControl ==
  ASSUME ControlInv, NEW p \in ASID, NEW v \in Page, Read(p, v)
  PROVE  ControlInv'
<1>0. pc[p] = "run" /\ pteIndex(v) \in Index
  BY PageIndex, SizeAssumption DEF SizeAssumption, Read, At
<1>1. tlb' \in [ASID -> [Index -> Frame \cup {Invalid, Absent}]]
  BY <1>0 DEF Read, refill, translation, ControlInv, TypeOK
<1>2. TypeOK'
  BY <1>0, <1>1, Constants DEF Read, ControlInv, TypeOK, paging, memory,
     UserLabel, DiskLabel, Ended
<1>3. RootControl'
  BY <1>0, Constants DEF Read, ControlInv, RootControl, TypeOK, paging, memory
<1>4. \A q \in ASID : Control(q)'
  BY <1>0 DEF Read, ControlInv, TypeOK, Control, OperationOK, Booting,
     Paging, paging, memory, DiskLabel, Ended
<1> QED BY <1>2, <1>3, <1>4 DEF ControlInv

LEMMA FaultControl ==
  ASSUME ControlInv, NEW p \in ASID, NEW seg \in Segment, NEW v \in Page, Fault(p, seg, v)
  PROVE  ControlInv'
<1>0. pc[p] = "run" /\ pteIndex(v) \in Index
  BY PageIndex, SizeAssumption DEF SizeAssumption, Fault, At
<1>1. tlb' \in [ASID -> [Index -> Frame \cup {Invalid, Absent}]]
  BY <1>0 DEF Fault, refill, translation, ControlInv, TypeOK
<1>2. /\ pc' = [pc EXCEPT ![p] = "pager"]
      /\ miss' = [miss EXCEPT ![p] = <<seg, v>>] /\ <<seg, v>> # None
      /\ UNCHANGED <<semV, semQ, left, block, io, fNo, frameNo, swapPool, pte, ram,
                 disk, diskCyl>>
  BY DEF Fault, Goto, None
<1>3. TypeOK'
  BY <1>0, <1>1, <1>2, Constants DEF ControlInv, TypeOK, paging, memory,
     UserLabel, DiskLabel, Ended
<1>4. RootControl'
  BY <1>0, <1>2, Constants DEF ControlInv, RootControl, TypeOK, paging, memory
<1>5. \A q \in ASID : Control(q)'
  BY <1>0, <1>2 DEF ControlInv, TypeOK, Control, OperationOK, Booting,
     Paging, paging, memory, DiskLabel, Ended
<1> QED BY <1>3, <1>4, <1>5 DEF ControlInv

LEMMA MissControl ==
  ASSUME ControlInv, NEW p \in ASID, Miss(p)
  PROVE  ControlInv'
<1>1. /\ pc[p] = "run" /\ pc' = [pc EXCEPT ![p] = "pager"]
      /\ miss' = [miss EXCEPT ![p] = BadCause] /\ BadCause # None
      /\ UNCHANGED <<semV, semQ, left, block, io, fNo, frameNo, swapPool, memory>>
  BY DEF Miss, At, Goto, BadCause, None
<1>2. TypeOK'
  BY <1>1, Constants DEF ControlInv, TypeOK, paging, memory, UserLabel,
     DiskLabel, Ended
<1>3. RootControl'
  BY <1>1, Constants DEF ControlInv, RootControl, TypeOK, paging, memory
<1>4. \A q \in ASID : Control(q)'
  BY <1>1 DEF ControlInv, TypeOK, Control, OperationOK, Booting, Paging,
     paging, memory, DiskLabel, Ended
<1> QED BY <1>2, <1>3, <1>4 DEF ControlInv

LEMMA EndUserControl ==
  ASSUME ControlInv, NEW p \in ASID, EndUser(p)
  PROVE  ControlInv'
<1>1. TypeOK'
  BY Constants DEF EndUser, At, Goto, ControlInv, TypeOK, paging, memory,
     UserLabel, DiskLabel, Ended
<1>2. RootControl'
  BY Constants DEF EndUser, At, Goto, ControlInv, RootControl, TypeOK,
     paging, memory
<1>3. \A q \in ASID : Control(q)'
  BY Constants DEF EndUser, At, Goto, ControlInv, TypeOK, Control,
     OperationOK, Booting, Paging, paging, memory, DiskLabel, Ended
<1> QED BY <1>1, <1>2, <1>3 DEF ControlInv

LEMMA EnterPagerControl ==
  ASSUME ControlInv, NEW p \in ASID, EnterPager(p)
  PROVE  ControlInv'
<1>1. TypeOK'
  <2>1. semV' \in [Sem -> Int] /\ semQ' \in [Sem -> Seq(ASID \cup {Root})]
    BY SemaphoreTypes DEF ControlInv, Sem, EnterPager
  <2> QED BY <2>1, Constants DEF EnterPager, At, Goto, Sem, ControlInv,
             TypeOK, paging, memory, UserLabel, DiskLabel, Ended
<1>2. RootControl'
  BY Constants DEF EnterPager, At, Goto, ControlInv, RootControl, TypeOK,
     paging, memory
<1>3. \A q \in ASID : Control(q)'
  BY Constants DEF EnterPager, At, Goto, ControlInv, TypeOK, Control,
     OperationOK, Booting, Paging, paging, memory, DiskLabel, Ended
<1> QED BY <1>1, <1>2, <1>3 DEF ControlInv

LEMMA RejectCauseControl ==
  ASSUME ControlInv, NEW p \in ASID, RejectCause(p)
  PROVE  ControlInv'
<1>1. TypeOK'
  <2>1. semV' \in [Sem -> Int] /\ semQ' \in [Sem -> Seq(ASID \cup {Root})]
    BY SemaphoreTypes DEF ControlInv, Sem, RejectCause
  <2> QED BY <2>1, Constants DEF RejectCause, At, Goto, Sem, ControlInv,
             TypeOK, paging, memory, UserLabel, DiskLabel, Ended
<1>2. RootControl'
  BY Constants DEF RejectCause, At, Goto, ControlInv, RootControl, TypeOK,
     paging, memory
<1>3. \A q \in ASID : Control(q)'
  BY Constants DEF RejectCause, At, Goto, ControlInv, TypeOK, Control,
     OperationOK, Booting, Paging, paging, memory, DiskLabel, Ended
<1> QED BY <1>1, <1>2, <1>3 DEF ControlInv

LEMMA ChooseFrameControl ==
  ASSUME ControlInv, NEW p \in ASID, ChooseFrame(p)
  PROVE  ControlInv'
<1>1. /\ pc[p] = "frame" /\ miss[p] \in Segment \X Page
      /\ frameNo' = getFrame /\ fNo' = [fNo EXCEPT ![p] = getFrame]
      /\ UNCHANGED <<semV, semQ, left, block, miss, swapPool, ram, disk, diskCyl>>
  BY DEF ChooseFrame, At, ControlInv, TypeOK, Control
<1>2. getFrame \in Frame
  BY GetFrame DEF ControlInv, TypeOK
<1>3. io[p] = None
  BY <1>1 DEF ControlInv, Control, OperationOK, Booting, Paging, DiskLabel,
     Ended
<1>4. CASE swapPool[getFrame] = Free
  <2>1. pc' = [pc EXCEPT ![p] = "read"] /\ UNCHANGED <<pte, tlb, io>>
    BY <1>4 DEF ChooseFrame, Goto
  <2>2. TypeOK'
    BY <1>1, <1>2, <2>1, Constants DEF ControlInv, TypeOK, paging, memory,
       UserLabel, DiskLabel, Ended
  <2>3. RootControl'
    BY <1>1, <2>1, Constants DEF ControlInv, RootControl, TypeOK, paging,
       memory
  <2>4. \A q \in ASID : Control(q)'
    BY <1>1, <1>2, <1>3, <2>1 DEF ControlInv, TypeOK, Control, OperationOK,
       Booting, Paging, paging, memory, DiskLabel, Ended
  <2> QED BY <2>2, <2>3, <2>4 DEF ControlInv
<1>5. CASE swapPool[getFrame] # Free
  <2> DEFINE owner == swapPool[getFrame][1]
             v == swapPool[getFrame][2]
             op == writeBack(p, owner, v)
  <2>1. /\ pc' = [pc EXCEPT ![p] = "lock"]
        /\ takeFrom(owner, v)
        /\ io' = [io EXCEPT ![p] = op]
    BY <1>5 DEF ChooseFrame, Goto
  <2>2. owner \in ASID /\ v \in Page
    BY <1>2, <1>5 DEF ControlInv, TypeOK
  <2>3. /\ op \in Operation /\ op # None
        /\ op.back = "read" /\ op.cmd = "write" /\ op.buf = getFrame
    BY <1>2, <2>2, PageIndex DEF writeBack, Operation, None
  <2> HIDE DEF op
  <2>4. TypeOK'
    <3>1. /\ pte' \in [ASID -> [Index -> Frame \cup {Invalid}]]
          /\ tlb' \in [ASID -> [Index -> Frame \cup {Invalid, Absent}]]
      BY <2>1 DEF takeFrom, TLBCLR, ControlInv, TypeOK
    <3> QED BY <1>1, <1>2, <2>1, <2>3, <3>1, Constants DEF ControlInv,
               TypeOK, paging, memory, UserLabel, DiskLabel, Ended
  <2>5. RootControl'
    BY <1>1, <2>1, Constants DEF ControlInv, RootControl, TypeOK, paging,
       memory
  <2>6. \A q \in ASID : Control(q)'
    BY <1>1, <1>2, <1>3, <2>1, <2>3 DEF ControlInv, TypeOK, Control,
       OperationOK, Booting, Paging, paging, memory, DiskLabel, Ended
  <2> QED BY <2>4, <2>5, <2>6 DEF ControlInv
<1> QED BY <1>4, <1>5

LEMMA ReadPageControl ==
  ASSUME ControlInv, NEW p \in ASID, ReadPage(p)
  PROVE  ControlInv'
<1> DEFINE op == readIn(p)
<1>1. /\ pc[p] = "read" /\ miss[p] \in Segment \X Page /\ fNo[p] \in Frame
      /\ pc' = [pc EXCEPT ![p] = "lock"] /\ io' = [io EXCEPT ![p] = op]
      /\ UNCHANGED <<semV, semQ, left, block, paging, memory>>
  BY DEF ReadPage, At, Goto, ControlInv, Control
<1>2. /\ op \in Operation /\ op # None
      /\ op = [cmd |-> "read", asid |-> p, cyl |-> pteIndex(miss[p][2]),
               buf |-> fNo[p], back |-> "load"]
  BY <1>1, PageIndex DEF readIn, Operation, None
<1> HIDE DEF op
<1>3. TypeOK'
  BY <1>1, <1>2, Constants DEF ControlInv, TypeOK, paging, memory, UserLabel,
     DiskLabel, Ended
<1>4. RootControl'
  BY <1>1, Constants DEF ControlInv, RootControl, TypeOK, paging, memory
<1>5. \A q \in ASID : Control(q)'
  BY <1>1, <1>2 DEF ControlInv, TypeOK, Control, OperationOK, Booting,
     Paging, paging, memory, DiskLabel, Ended
<1> QED BY <1>3, <1>4, <1>5 DEF ControlInv

LEMMA LoadPageControl ==
  ASSUME ControlInv, NEW p \in ASID, LoadPage(p)
  PROVE  ControlInv'
<1>1. /\ pc[p] = "load" /\ miss[p] \in Segment \X Page /\ fNo[p] \in Frame
      /\ swapPool' = [swapPool EXCEPT ![fNo[p]] = <<p, miss[p][2]>>]
      /\ pte' = [pte EXCEPT ![p][pteIndex(miss[p][2])] = fNo[p]]
      /\ TLBCLR
      /\ pc' = [pc EXCEPT ![p] = "leave"]
      /\ UNCHANGED <<semV, semQ, left, block, io, miss, fNo, frameNo, ram, disk, diskCyl>>
  BY DEF LoadPage, At, Goto, ControlInv, Control
<1>2. TypeOK'
  <2>1. pte' \in [ASID -> [Index -> Frame \cup {Invalid}]]
    BY <1>1 DEF ControlInv, TypeOK
  <2>2. tlb' \in [ASID -> [Index -> Frame \cup {Invalid, Absent}]]
    BY <1>1 DEF TLBCLR
  <2>3. swapPool' \in [Frame -> {Free} \cup (ASID \X Page)]
    BY <1>1 DEF ControlInv, TypeOK
  <2> QED BY <1>1, <2>1, <2>2, <2>3, Constants DEF ControlInv, TypeOK,
             paging, memory, UserLabel, DiskLabel, Ended
<1>3. RootControl'
  BY <1>1, Constants DEF ControlInv, RootControl, TypeOK, paging, memory
<1>4. \A q \in ASID : Control(q)'
  BY <1>1 DEF ControlInv, TypeOK, Control, OperationOK, Booting, Paging,
     paging, memory, DiskLabel, Ended
<1> QED BY <1>2, <1>3, <1>4 DEF ControlInv

LEMMA LeavePagerControl ==
  ASSUME ControlInv, NEW p \in ASID, LeavePager(p)
  PROVE  ControlInv'
<1>1. TypeOK'
  <2>1. semV' \in [Sem -> Int] /\ semQ' \in [Sem -> Seq(ASID \cup {Root})]
    BY SemaphoreTypes DEF ControlInv, Sem, LeavePager
  <2> QED BY <2>1, Constants DEF LeavePager, At, Goto, Sem, ControlInv,
             TypeOK, paging, memory, UserLabel, DiskLabel, Ended
<1>2. RootControl'
  BY Constants DEF LeavePager, At, Goto, ControlInv, RootControl, TypeOK,
     paging, memory
<1>3. \A q \in ASID : Control(q)'
  BY Constants DEF LeavePager, At, Goto, ControlInv, TypeOK, Control,
     OperationOK, Booting, Paging, paging, memory, DiskLabel, Ended
<1> QED BY <1>1, <1>2, <1>3 DEF ControlInv

LEMMA BeginTerminateControl ==
  ASSUME ControlInv, NEW p \in ASID, BeginTerminate(p)
  PROVE  ControlInv'
<1>1. TypeOK'
  <2>1. semV' \in [Sem -> Int] /\ semQ' \in [Sem -> Seq(ASID \cup {Root})]
    BY SemaphoreTypes DEF ControlInv, Sem, BeginTerminate
  <2> QED BY <2>1, Constants DEF BeginTerminate, At, Goto, Sem, ControlInv,
             TypeOK, paging, memory, UserLabel, DiskLabel, Ended
<1>2. RootControl'
  BY Constants DEF BeginTerminate, At, Goto, ControlInv, RootControl, TypeOK,
     paging, memory
<1>3. \A q \in ASID : Control(q)'
  BY Constants DEF BeginTerminate, At, Goto, ControlInv, TypeOK, Control,
     OperationOK, Booting, Paging, paging, memory, DiskLabel, Ended
<1> QED BY <1>1, <1>2, <1>3 DEF ControlInv

LEMMA ClearFramesControl ==
  ASSUME ControlInv, NEW p \in ASID, ClearFrames(p)
  PROVE  ControlInv'
<1>1. /\ pc[p] = "clear" /\ pc' = [pc EXCEPT ![p] = "signal"]
      /\ UNCHANGED <<left, block, io, miss, fNo, frameNo, pte, ram, disk, diskCyl>>
  BY DEF ClearFrames, At, Goto
<1>2. TypeOK'
  <2>1. semV' \in [Sem -> Int] /\ semQ' \in [Sem -> Seq(ASID \cup {Root})]
    BY SemaphoreTypes DEF ControlInv, Sem, ClearFrames
  <2>2. swapPool' \in [Frame -> {Free} \cup (ASID \X Page)]
    BY DEF ClearFrames, cleared, ControlInv, TypeOK
  <2>3. tlb' \in [ASID -> [Index -> Frame \cup {Invalid, Absent}]]
    BY DEF ClearFrames, TLBCLR
  <2> QED BY <1>1, <2>1, <2>2, <2>3, Constants DEF Sem, ControlInv, TypeOK,
             paging, memory, UserLabel, DiskLabel, Ended
<1>3. RootControl'
  BY <1>1, Constants DEF ControlInv, RootControl, TypeOK, paging, memory
<1>4. \A q \in ASID : Control(q)'
  BY <1>1 DEF ControlInv, TypeOK, Control, OperationOK, Booting, Paging,
     paging, memory, DiskLabel, Ended
<1> QED BY <1>2, <1>3, <1>4 DEF ControlInv

LEMMA SignalRootControl ==
  ASSUME ControlInv, NEW p \in ASID, SignalRoot(p)
  PROVE  ControlInv'
<1>1. TypeOK'
  <2>1. semV' \in [Sem -> Int] /\ semQ' \in [Sem -> Seq(ASID \cup {Root})]
    BY SemaphoreTypes DEF ControlInv, Sem, SignalRoot
  <2> QED BY <2>1, Constants DEF SignalRoot, At, Goto, Sem, ControlInv,
             TypeOK, paging, memory, UserLabel, DiskLabel, Ended
<1>2. RootControl'
  BY Constants DEF SignalRoot, At, Goto, ControlInv, RootControl, TypeOK,
     paging, memory
<1>3. \A q \in ASID : Control(q)'
  BY Constants DEF SignalRoot, At, Goto, ControlInv, TypeOK, Control,
     OperationOK, Booting, Paging, paging, memory, DiskLabel, Ended
<1> QED BY <1>1, <1>2, <1>3 DEF ControlInv

LEMMA ExitControl ==
  ASSUME ControlInv, NEW p \in ASID, Exit(p)
  PROVE  ControlInv'
<1>1. TypeOK'
  BY Constants DEF Exit, At, Goto, ControlInv, TypeOK, paging, memory,
     UserLabel, DiskLabel, Ended
<1>2. RootControl'
  BY Constants DEF Exit, At, Goto, ControlInv, RootControl, TypeOK, paging,
     memory
<1>3. \A q \in ASID : Control(q)'
  BY Constants DEF Exit, At, Goto, ControlInv, TypeOK, Control, OperationOK,
     Booting, Paging, paging, memory, DiskLabel, Ended
<1> QED BY <1>1, <1>2, <1>3 DEF ControlInv

LEMMA InitControl ==
  ASSUME Init
  PROVE  ControlInv
<1>1. TypeOK
  <2>1. <<>> \in Seq(ASID \cup {Root})
    OBVIOUS
  <2>2. POOLSIZE - 1 \in Frame /\ MAXUPROC \in 0..MAXUPROC
    BY SizeAssumption DEF SizeAssumption, Frame
  <2>3. 0 \in 0..Blocks /\ 0 \in 0..KUSEGPTESIZE - 1
    BY SizeAssumption DEF SizeAssumption, KUSEGPTESIZE
  <2> QED BY <2>1, <2>2, <2>3, Constants
          DEF Init, TypeOK, RootLabel, UserLabel, Content
<1>2. RootControl
  BY SizeAssumption, Constants DEF SizeAssumption, Init, RootControl, ASID
<1>3. \A p \in ASID : Control(p)
  BY Constants DEF Init, Control, OperationOK, Booting, Paging, DiskLabel
<1> QED BY <1>1, <1>2, <1>3 DEF ControlInv

LEMMA NextControl ==
  ASSUME ControlInv, [Next]_vars
  PROVE  ControlInv'
<1>1. CASE UNCHANGED vars
  <2>1. TypeOK'
    BY <1>1 DEF ControlInv, TypeOK, vars, paging, memory
  <2>2. RootControl'
    BY <1>1 DEF ControlInv, RootControl, vars
  <2>3. \A p \in ASID : Control(p)'
    BY <1>1 DEF ControlInv, Control, OperationOK, Booting, Paging, vars, paging,
                memory
  <2> QED BY <2>1, <2>2, <2>3 DEF ControlInv
<1>2. CASE RootStep
  BY <1>2, CreateUserControl, WaitForUserControl, RootEndControl DEF RootStep
<1>3. ASSUME NEW p \in ASID, SystemStep(p)
      PROVE  ControlInv'
  BY <1>3, ReadTapeControl, TapeDoneControl, StartUserControl, LockDiskControl,
     SeekControl, SeekDoneControl, TransferControl, TransferDoneControl,
     UnlockDiskControl, EnterPagerControl, RejectCauseControl,
     ChooseFrameControl, ReadPageControl, LoadPageControl, LeavePagerControl,
     BeginTerminateControl, ClearFramesControl, SignalRootControl, ExitControl
     DEF SystemStep
<1>4. ASSUME NEW p \in ASID, UserStep(p)
      PROVE  ControlInv'
  BY <1>4, WriteControl, ReadControl, FaultControl, MissControl, EndUserControl
     DEF UserStep
<1> QED BY <1>1, <1>2, <1>3, <1>4 DEF Next, Halted

(* Every process stays at the labels of its own code, and no step of one   *)
(* gives a variable a value the code cannot: disk operations name frames   *)
(* and cylinders that exist, for any number of processes and frames.       *)
THEOREM VmTypeCorrect == Spec => []TypeOK
<1>1. ControlInv => TypeOK
  BY DEF ControlInv
<1> QED BY <1>1, InitControl, NextControl, PTL DEF Spec

-----------------------------------------------------------------------------
(* The semaphores.                                                         *)

LEMMA InitSem ==
  ASSUME Init
  PROVE  SemInv
<1>1. Queues
  BY DEF Init, Queues, Sem, NoDup, InQ
<1>2. Exclusion
  BY DEF Init, Exclusion, Mutex, PoolHolders, DiskHolders, HoldsPool, HoldsDisk,
         Paging
<1>3. RootCounts
  <2>1. Completed = {}
    BY Constants DEF Init, Completed
  <2> QED BY <2>1, FS_EmptySet DEF Init, RootCounts, Waits
<1> QED BY <1>1, <1>2, <1>3 DEF SemInv

(* A process that waits is on the queue of one semaphore only, so whoever  *)
(* is at another label is not blocked; the value of a semaphore that has   *)
(* a queue is negative.                                                    *)
LEMMA QueueFacts ==
  ASSUME TypeOK, Queues, NEW s \in Sem
  PROVE  /\ semV[s] \in Int
         /\ semQ[s] \in Seq(ASID \cup {Root})
         /\ NoDup(semQ[s])
         /\ semV[s] >= 0 => semQ[s] = <<>> /\ \A x : ~InQ(semQ[s], x)
         /\ semV[s] < 0 => semQ[s] # <<>>
         /\ \A x : InQ(semQ[s], x) =>
              /\ x \in ASID \cup {Root}
              /\ s = "masterSem" => x = Root /\ pc[x] \in {"wait", "end"}
              /\ s = "swapPoolSem" => x \in ASID /\ pc[x] \in {"frame", "clear"}
              /\ s = "disk0sem" => x \in ASID /\ pc[x] = "seek"
<1>1. semV[s] \in Int /\ semQ[s] \in Seq(ASID \cup {Root}) /\ Len(semQ[s]) \in Nat
  BY DEF TypeOK, Sem
<1>2. NoDup(semQ[s]) /\ Len(semQ[s]) = IF semV[s] < 0 THEN -semV[s] ELSE 0
  BY DEF Queues
<1>3. semV[s] >= 0 => semQ[s] = <<>> /\ \A x : ~InQ(semQ[s], x)
  BY <1>1, <1>2 DEF InQ
<1>4. semV[s] < 0 => semQ[s] # <<>>
  BY <1>1, <1>2
<1>5. ASSUME NEW x, InQ(semQ[s], x)
      PROVE  /\ x \in ASID \cup {Root}
             /\ s = "masterSem" => x = Root /\ pc[x] \in {"wait", "end"}
             /\ s = "swapPoolSem" => x \in ASID /\ pc[x] \in {"frame", "clear"}
             /\ s = "disk0sem" => x \in ASID /\ pc[x] = "seek"
  <2>1. x \in ASID \cup {Root}
    BY <1>1, <1>5 DEF InQ
  <2>2. x \in (IF s = "masterSem" THEN {Root} ELSE ASID) /\ pc[x] \in WaitLabel(s)
    BY <1>5, <2>1 DEF Queues
  <2> QED BY <2>1, <2>2 DEF WaitLabel
<1> QED BY <1>1, <1>2, <1>3, <1>4, <1>5

(* SYS4 of a process that goes to a label where it may wait.               *)
LEMMA SemaphoreP ==
  ASSUME TypeOK, Queues, NEW s \in Sem,
         NEW p \in IF s = "masterSem" THEN {Root} ELSE ASID,
         NEW l \in WaitLabel(s),
         P(s, p), ~Blocked(p), pc' = [pc EXCEPT ![p] = l]
  PROVE  /\ Queues'
         /\ semV' = [semV EXCEPT ![s] = @ - 1]
         /\ \A t \in Sem \ {s} : semQ'[t] = semQ[t]
         /\ semV[s] >= 1 => semQ' = semQ
         /\ semV[s] < 1 => \A x : InQ(semQ'[s], x) <=> x = p \/ InQ(semQ[s], x)
<1> DEFINE S == ASID \cup {Root}
           q == insertProcQ(semQ[s], p)
<1>1. /\ semV \in [Sem -> Int] /\ semQ \in [Sem -> Seq(S)] /\ p \in S
      /\ semQ[s] \in Seq(S) /\ Len(semQ[s]) \in Nat
  BY DEF TypeOK, Sem
<1>2. /\ \A t \in Sem : ~InQ(semQ[t], p)
      /\ pc \in [S -> RootLabel \cup UserLabel]
  BY <1>1 DEF Blocked, TypeOK, Sem
<1>3. /\ Len(q) = Len(semQ[s]) + 1
      /\ \A x : InQ(q, x) <=> x = p \/ InQ(semQ[s], x)
      /\ NoDup(q)
  BY <1>1, <1>2, InsertProcQ DEF Queues
<1> HIDE DEF q
<1>4. /\ semV' = [semV EXCEPT ![s] = @ - 1]
      /\ semV[s] >= 1 => semQ' = semQ
      /\ semV[s] < 1 => semQ' = [semQ EXCEPT ![s] = q]
  BY <1>1 DEF P, q
<1>5. \A t \in Sem \ {s} : semQ'[t] = semQ[t] /\ semV'[t] = semV[t]
  BY <1>1, <1>4
<1>6. /\ semV'[s] = semV[s] - 1 /\ semV[s] \in Int
      /\ semV[s] < 1 => semQ'[s] = q
      /\ semV[s] >= 1 => semQ'[s] = semQ[s]
  BY <1>1, <1>4
<1>7. Queues'
  <2> SUFFICES ASSUME NEW t \in Sem
               PROVE  /\ NoDup(semQ'[t])
                      /\ Len(semQ'[t]) = IF semV'[t] < 0 THEN -semV'[t] ELSE 0
                      /\ \A x \in S : InQ(semQ'[t], x) =>
                           /\ x \in IF t = "masterSem" THEN {Root} ELSE ASID
                           /\ pc'[x] \in WaitLabel(t)
    BY DEF Queues
  <2>1. CASE t # s
    <3>1. semQ'[t] = semQ[t] /\ semV'[t] = semV[t]
      BY <1>5, <2>1
    <3>2. \A x \in S : InQ(semQ[t], x) => pc'[x] = pc[x]
      BY <1>2
    <3> QED BY <3>1, <3>2 DEF Queues
  <2>2. CASE t = s
    <3>1. NoDup(semQ'[s])
      BY <1>3, <1>6 DEF Queues
    <3>2. Len(semQ'[s]) = IF semV'[s] < 0 THEN -semV'[s] ELSE 0
      BY <1>1, <1>3, <1>6 DEF Queues
    <3>3. ASSUME NEW x \in S, InQ(semQ'[s], x)
          PROVE  /\ x \in IF s = "masterSem" THEN {Root} ELSE ASID
                 /\ pc'[x] \in WaitLabel(s)
      <4>1. x = p \/ InQ(semQ[s], x)
        BY <1>3, <1>6, <3>3
      <4> QED BY <1>2, <4>1 DEF Queues
    <3> QED BY <2>2, <3>1, <3>2, <3>3
  <2> QED BY <2>1, <2>2
<1> QED BY <1>3, <1>4, <1>5, <1>6, <1>7

(* SYS3: it wakes a process of the queue, if there is one.                 *)
LEMMA SemaphoreV ==
  ASSUME TypeOK, Queues, NEW s \in Sem, NEW p \in ASID, NEW l,
         V(s), ~Blocked(p), pc' = [pc EXCEPT ![p] = l]
  PROVE  /\ Queues'
         /\ semV' = [semV EXCEPT ![s] = @ + 1]
         /\ \A t \in Sem \ {s} : semQ'[t] = semQ[t]
         /\ semV[s] >= 0 => semQ' = semQ
         /\ \E h : \A x : InQ(semQ[s], x) => x = h \/ InQ(semQ'[s], x)
         /\ \A x : InQ(semQ'[s], x) => InQ(semQ[s], x)
<1> DEFINE S == ASID \cup {Root}
           q == removeProcQ(semQ[s])
           h == headProcQ(semQ[s])
<1>1. /\ semV \in [Sem -> Int] /\ semQ \in [Sem -> Seq(S)]
      /\ semQ[s] \in Seq(S) /\ Len(semQ[s]) \in Nat /\ semV[s] \in Int
  BY DEF TypeOK, Sem
<1>2. /\ \A t \in Sem : ~InQ(semQ[t], p)
      /\ pc \in [S -> RootLabel \cup UserLabel]
  BY <1>1 DEF Blocked, TypeOK, Sem
<1>3. semV[s] < 0 => /\ Len(q) = Len(semQ[s]) - 1
                     /\ \A x : InQ(q, x) => InQ(semQ[s], x)
                     /\ \A x : InQ(semQ[s], x) => x = h \/ InQ(q, x)
                     /\ NoDup(q)
  BY <1>1, QueueFacts, RemoveProcQ DEF Queues
<1> HIDE DEF q, h
<1>4. /\ semV' = [semV EXCEPT ![s] = @ + 1]
      /\ semV[s] >= 0 => semQ' = semQ
      /\ semV[s] < 0 => semQ' = [semQ EXCEPT ![s] = q]
  BY <1>1 DEF V, q
<1>5. \A t \in Sem \ {s} : semQ'[t] = semQ[t] /\ semV'[t] = semV[t]
  BY <1>1, <1>4
<1>6. /\ semV'[s] = semV[s] + 1
      /\ semV[s] < 0 => semQ'[s] = q
      /\ semV[s] >= 0 => semQ'[s] = semQ[s]
  BY <1>1, <1>4
<1>7. \A x : InQ(semQ'[s], x) => InQ(semQ[s], x)
  BY <1>1, <1>3, <1>6
<1>8. Queues'
  <2> SUFFICES ASSUME NEW t \in Sem
               PROVE  /\ NoDup(semQ'[t])
                      /\ Len(semQ'[t]) = IF semV'[t] < 0 THEN -semV'[t] ELSE 0
                      /\ \A x \in S : InQ(semQ'[t], x) =>
                           /\ x \in IF t = "masterSem" THEN {Root} ELSE ASID
                           /\ pc'[x] \in WaitLabel(t)
    BY DEF Queues
  <2>1. \A x \in S : InQ(semQ'[t], x) => InQ(semQ[t], x) /\ pc'[x] = pc[x]
    BY <1>2, <1>5, <1>7
  <2>2. CASE t # s
    <3>1. semQ'[t] = semQ[t] /\ semV'[t] = semV[t]
      BY <1>5, <2>2
    <3> QED BY <2>1, <3>1 DEF Queues
  <2>3. CASE t = s
    <3>1. NoDup(semQ'[s])
      BY <1>1, <1>3, <1>6 DEF Queues
    <3>2. Len(semQ'[s]) = IF semV'[s] < 0 THEN -semV'[s] ELSE 0
      BY <1>1, <1>3, <1>6 DEF Queues
    <3> QED BY <2>1, <2>3, <3>1, <3>2 DEF Queues
  <2> QED BY <2>2, <2>3
<1>9. \A x : InQ(semQ[s], x) => x = h \/ InQ(semQ'[s], x)
  BY <1>1, <1>3, <1>6
<1> QED BY <1>4, <1>5, <1>7, <1>8, <1>9

LEMMA CompletedFinite ==
  /\ IsFiniteSet(ASID) /\ Cardinality(ASID) = MAXUPROC /\ MAXUPROC \in Nat
  /\ Completed \subseteq ASID /\ IsFiniteSet(Completed)
  /\ Cardinality(Completed) \in Nat
<1>1. MAXUPROC \in Nat /\ ASID = 1..MAXUPROC /\ Completed \subseteq ASID
  BY SizeAssumption DEF SizeAssumption, ASID, Completed
<1>2. IsFiniteSet(ASID) /\ Cardinality(ASID) = MAXUPROC
  BY <1>1, FS_Interval
<1>3. IsFiniteSet(Completed)
  BY <1>1, <1>2, FS_Subset
<1> QED BY <1>1, <1>2, <1>3, FS_CardinalityType

LEMMA CompletedGrows ==
  ASSUME Completed \subseteq Completed'
  PROVE  /\ Cardinality(Completed) \in Nat /\ Cardinality(Completed') \in Nat
         /\ Cardinality(Completed) <= Cardinality(Completed')
<1>1. IsFiniteSet(ASID) /\ Completed' \subseteq ASID
  BY CompletedFinite DEF Completed
<1>2. IsFiniteSet(Completed')
  BY <1>1, FS_Subset
<1> QED BY <1>2, CompletedFinite, FS_Subset, FS_CardinalityType

LEMMA RootCountsFrame ==
  ASSUME TypeOK, RootCounts, Completed \subseteq Completed',
         semV'["masterSem"] = semV["masterSem"], Waits' = Waits
  PROVE  RootCounts'
<1>1. semV["masterSem"] \in Int /\ Waits \in Int
  BY SizeAssumption DEF SizeAssumption, TypeOK, Waits
<1> QED BY <1>1, CompletedGrows DEF RootCounts

(* A step of a process that does not touch the semaphores.                 *)
LEMMA SemFrame ==
  ASSUME ControlInv, SemInv, NEW p \in ASID, ~Blocked(p),
         UNCHANGED <<semV, semQ, left>>,
         \A q \in ASID \cup {Root} : q # p => pc'[q] = pc[q],
         \A q \in ASID : q # p => io'[q] = io[q],
         HoldsPool(p)' => HoldsPool(p), HoldsDisk(p)' => HoldsDisk(p),
         pc[p] \in {"exit", "dead"} => pc'[p] \in {"exit", "dead"},
         Paging(p)' => pc'[p] \notin Ended \cup {"clear"}
  PROVE  SemInv'
<1>1. \A s \in Sem : ~InQ(semQ[s], p)
  BY DEF Blocked, ControlInv, TypeOK, Sem
<1>2. Queues'
  <2>1. \A s \in Sem, q \in ASID \cup {Root} : InQ(semQ[s], q) => pc'[q] = pc[q]
    BY <1>1
  <2> QED BY <2>1 DEF SemInv, Queues
<1>3. Exclusion'
  <2>1. PoolHolders' \subseteq PoolHolders
    BY DEF PoolHolders, HoldsPool, Paging
  <2>2. DiskHolders' \subseteq DiskHolders
    BY DEF DiskHolders, HoldsDisk
  <2>3. \A q \in ASID : Paging(q)' =>
          /\ pc'[q] \notin Ended
          /\ pc'[q] = "clear" => InQ(semQ'["swapPoolSem"], q)
    BY DEF SemInv, Exclusion, Paging
  <2> QED BY <2>1, <2>2, <2>3 DEF SemInv, Exclusion, Mutex
<1>4. RootCounts'
  <2>1. Completed \subseteq Completed'
    BY DEF Completed
  <2>2. Waits' = Waits
    BY Constants DEF Waits
  <2> QED BY <2>1, <2>2, RootCountsFrame DEF ControlInv, SemInv
<1> QED BY <1>2, <1>3, <1>4 DEF SemInv

(* The actions that call neither SYS3 nor SYS4. *)
Quiet(p) ==
  \/ ReadTape(p) \/ TapeDone(p) \/ StartUser(p)
  \/ Seek(p) \/ SeekDone(p) \/ Transfer(p) \/ TransferDone(p)
  \/ \E v \in Data : Write(p, v)
  \/ \E v \in Page : Read(p, v)
  \/ \E seg \in Segment, v \in Page : Fault(p, seg, v)
  \/ Miss(p) \/ EndUser(p)
  \/ ChooseFrame(p) \/ ReadPage(p) \/ LoadPage(p) \/ Exit(p)

LEMMA QuietSem ==
  ASSUME ControlInv, SemInv, NEW p \in ASID, Quiet(p)
  PROVE  SemInv'
<1> DEFINE
      Kept ==
        /\ ~Blocked(p) /\ UNCHANGED <<semV, semQ, left>>
        /\ \A q \in ASID \cup {Root} : q # p => pc'[q] = pc[q]
        /\ \A q \in ASID : q # p => io'[q] = io[q]
      Lost ==
        /\ HoldsPool(p)' => HoldsPool(p)
        /\ HoldsDisk(p)' => HoldsDisk(p)
        /\ pc[p] \in {"exit", "dead"} => pc'[p] \in {"exit", "dead"}
        /\ Paging(p)' => pc'[p] \notin Ended \cup {"clear"}
<1>1. ASSUME ReadTape(p) PROVE Kept /\ Lost
  <2>1. Kept
    BY <1>1 DEF ReadTape, At, Goto, ControlInv, TypeOK
  <2>2. Lost
    BY <1>1 DEF ReadTape, At, Goto, failTo, HoldsPool, HoldsDisk, Paging,
       Booting, Blocked, Ended, DiskLabel, ControlInv, TypeOK, Control,
       OperationOK, SemInv, Exclusion
  <2> QED BY <2>1, <2>2
<1>2. ASSUME TapeDone(p) PROVE Kept /\ Lost
  <2>1. Kept /\ pc[p] = "tapeWait" /\ pc'[p] \in {"lock", "dead"}
    BY <1>2 DEF TapeDone, At, Goto, ControlInv, TypeOK
  <2>2. ~Paging(p)
    BY <2>1 DEF Paging, DiskLabel, Ended, ControlInv, Control, OperationOK
  <2>3. ~Paging(p)'
    <3>1. io'[p] = io[p] \/ io'[p].back = "tape"
      BY <1>2 DEF TapeDone, ControlInv, TypeOK
    <3> QED BY <2>2, <3>1 DEF Paging
  <2> QED BY <2>1, <2>2, <2>3 DEF HoldsPool, HoldsDisk
<1>3. ASSUME StartUser(p) PROVE Kept /\ Lost
  <2>1. Kept
    BY <1>3 DEF StartUser, At, Goto, ControlInv, TypeOK
  <2>2. Lost
    BY <1>3 DEF StartUser, At, Goto, failTo, HoldsPool, HoldsDisk, Paging,
       Booting, Blocked, Ended, DiskLabel, ControlInv, TypeOK, Control,
       OperationOK, SemInv, Exclusion
  <2> QED BY <2>1, <2>2
<1>4. ASSUME Seek(p) PROVE Kept /\ Lost
  <2>1. Kept
    BY <1>4 DEF Seek, At, Goto, ControlInv, TypeOK
  <2>2. Lost
    BY <1>4 DEF Seek, At, Goto, failTo, HoldsPool, HoldsDisk, Paging,
       Booting, Blocked, Ended, DiskLabel, ControlInv, TypeOK, Control,
       OperationOK, SemInv, Exclusion
  <2> QED BY <2>1, <2>2
<1>5. ASSUME SeekDone(p) PROVE Kept /\ Lost
  <2>1. Kept
    BY <1>5 DEF SeekDone, At, Goto, ControlInv, TypeOK
  <2>2. Lost
    BY <1>5 DEF SeekDone, At, Goto, failTo, HoldsPool, HoldsDisk, Paging,
       Booting, Blocked, Ended, DiskLabel, ControlInv, TypeOK, Control,
       OperationOK, SemInv, Exclusion
  <2> QED BY <2>1, <2>2
<1>6. ASSUME Transfer(p) PROVE Kept /\ Lost
  <2>1. Kept
    BY <1>6 DEF Transfer, At, Goto, ControlInv, TypeOK
  <2>2. Lost
    BY <1>6 DEF Transfer, At, Goto, failTo, HoldsPool, HoldsDisk, Paging,
       Booting, Blocked, Ended, DiskLabel, ControlInv, TypeOK, Control,
       OperationOK, SemInv, Exclusion
  <2> QED BY <2>1, <2>2
<1>7. ASSUME TransferDone(p) PROVE Kept /\ Lost
  <2>1. Kept
    BY <1>7 DEF TransferDone, At, Goto, ControlInv, TypeOK
  <2>2. Lost
    BY <1>7 DEF TransferDone, At, Goto, failTo, HoldsPool, HoldsDisk, Paging,
       Booting, Blocked, Ended, DiskLabel, ControlInv, TypeOK, Control,
       OperationOK, SemInv, Exclusion
  <2> QED BY <2>1, <2>2
<1>8. ASSUME NEW v \in Data, Write(p, v) PROVE Kept /\ Lost
  <2>1. Kept
    BY <1>8 DEF Write, At, Goto, ControlInv, TypeOK
  <2>2. Lost
    BY <1>8 DEF Write, At, Goto, failTo, HoldsPool, HoldsDisk, Paging,
       Booting, Blocked, Ended, DiskLabel, ControlInv, TypeOK, Control,
       OperationOK, SemInv, Exclusion
  <2> QED BY <2>1, <2>2
<1>9. ASSUME NEW v \in Page, Read(p, v) PROVE Kept /\ Lost
  <2>1. Kept
    BY <1>9 DEF Read, At, Goto, ControlInv, TypeOK
  <2>2. Lost
    BY <1>9 DEF Read, At, Goto, failTo, HoldsPool, HoldsDisk, Paging,
       Booting, Blocked, Ended, DiskLabel, ControlInv, TypeOK, Control,
       OperationOK, SemInv, Exclusion
  <2> QED BY <2>1, <2>2
<1>10. ASSUME NEW seg \in Segment, NEW v \in Page, Fault(p, seg, v) PROVE Kept /\ Lost
  <2>1. Kept
    BY <1>10 DEF Fault, At, Goto, ControlInv, TypeOK
  <2>2. Lost
    BY <1>10 DEF Fault, At, Goto, failTo, HoldsPool, HoldsDisk, Paging,
       Booting, Blocked, Ended, DiskLabel, ControlInv, TypeOK, Control,
       OperationOK, SemInv, Exclusion
  <2> QED BY <2>1, <2>2
<1>11. ASSUME Miss(p) PROVE Kept /\ Lost
  <2>1. Kept
    BY <1>11 DEF Miss, At, Goto, ControlInv, TypeOK
  <2>2. Lost
    BY <1>11 DEF Miss, At, Goto, failTo, HoldsPool, HoldsDisk, Paging,
       Booting, Blocked, Ended, DiskLabel, ControlInv, TypeOK, Control,
       OperationOK, SemInv, Exclusion
  <2> QED BY <2>1, <2>2
<1>12. ASSUME EndUser(p) PROVE Kept /\ Lost
  <2>1. Kept
    BY <1>12 DEF EndUser, At, Goto, ControlInv, TypeOK
  <2>2. Lost
    BY <1>12 DEF EndUser, At, Goto, failTo, HoldsPool, HoldsDisk, Paging,
       Booting, Blocked, Ended, DiskLabel, ControlInv, TypeOK, Control,
       OperationOK, SemInv, Exclusion
  <2> QED BY <2>1, <2>2
<1>13. ASSUME ChooseFrame(p) PROVE Kept /\ Lost
  <2>1. Kept
    BY <1>13 DEF ChooseFrame, At, Goto, ControlInv, TypeOK
  <2>2. Lost
    BY <1>13 DEF ChooseFrame, At, Goto, failTo, HoldsPool, HoldsDisk, Paging,
       Booting, Blocked, Ended, DiskLabel, ControlInv, TypeOK, Control,
       OperationOK, SemInv, Exclusion
  <2> QED BY <2>1, <2>2
<1>14. ASSUME ReadPage(p) PROVE Kept /\ Lost
  <2>1. Kept
    BY <1>14 DEF ReadPage, At, Goto, ControlInv, TypeOK
  <2>2. Lost
    BY <1>14 DEF ReadPage, At, Goto, failTo, HoldsPool, HoldsDisk, Paging,
       Booting, Blocked, Ended, DiskLabel, ControlInv, TypeOK, Control,
       OperationOK, SemInv, Exclusion
  <2> QED BY <2>1, <2>2
<1>15. ASSUME LoadPage(p) PROVE Kept /\ Lost
  <2>1. Kept
    BY <1>15 DEF LoadPage, At, Goto, ControlInv, TypeOK
  <2>2. Lost
    BY <1>15 DEF LoadPage, At, Goto, failTo, HoldsPool, HoldsDisk, Paging,
       Booting, Blocked, Ended, DiskLabel, ControlInv, TypeOK, Control,
       OperationOK, SemInv, Exclusion
  <2> QED BY <2>1, <2>2
<1>16. ASSUME Exit(p) PROVE Kept /\ Lost
  <2>1. Kept
    BY <1>16 DEF Exit, At, Goto, ControlInv, TypeOK
  <2>2. Lost
    BY <1>16 DEF Exit, At, Goto, failTo, HoldsPool, HoldsDisk, Paging,
       Booting, Blocked, Ended, DiskLabel, ControlInv, TypeOK, Control,
       OperationOK, SemInv, Exclusion
  <2> QED BY <2>1, <2>2
<1>17. Kept /\ Lost
  BY <1>1, <1>2, <1>3, <1>4, <1>5, <1>6, <1>7, <1>8, <1>9, <1>10, <1>11,
     <1>12, <1>13, <1>14, <1>15, <1>16 DEF Quiet
<1> QED BY <1>17, SemFrame

LEMMA LockDiskSem ==
  ASSUME ControlInv, SemInv, NEW p \in ASID, LockDisk(p)
  PROVE  SemInv'
<1>1. /\ pc[p] = "lock" /\ ~Blocked(p) /\ P("disk0sem", p) /\ io' = io
      /\ pc' = [pc EXCEPT ![p] = "seek"]
  BY DEF LockDisk, At, Goto
<1>2. /\ Queues'
      /\ semV' = [semV EXCEPT !["disk0sem"] = @ - 1]
      /\ \A t \in Sem \ {"disk0sem"} : semQ'[t] = semQ[t]
      /\ semV["disk0sem"] >= 1 => semQ' = semQ
      /\ semV["disk0sem"] < 1 =>
           \A x : InQ(semQ'["disk0sem"], x) <=> x = p \/ InQ(semQ["disk0sem"], x)
  <2>1. "disk0sem" \in Sem /\ "seek" \in WaitLabel("disk0sem")
    BY DEF Sem, WaitLabel
  <2> QED BY <1>1, <2>1, SemaphoreP DEF ControlInv, SemInv
<1>3. /\ semV["disk0sem"] \in Int /\ semV'["disk0sem"] = semV["disk0sem"] - 1
      /\ semV'["swapPoolSem"] = semV["swapPoolSem"]
      /\ semQ'["swapPoolSem"] = semQ["swapPoolSem"]
  BY <1>2 DEF ControlInv, TypeOK, Sem
<1>4. Exclusion'
  <2>1. PoolHolders' = PoolHolders
    BY <1>1, <1>3 DEF PoolHolders, HoldsPool, Paging, ControlInv, TypeOK
  <2>2. CASE semV["disk0sem"] = 1
    <3>1. DiskHolders = {} /\ DiskHolders' \subseteq DiskHolders \cup {p}
      BY <1>1, <1>2, <2>2 DEF SemInv, Exclusion, Mutex, DiskHolders,
         HoldsDisk, ControlInv, TypeOK
    <3> QED BY <1>1, <1>3, <2>1, <2>2, <3>1 DEF SemInv, Exclusion, Mutex,
               Paging, Ended, ControlInv, TypeOK
  <2>3. CASE semV["disk0sem"] < 1
    <3>1. DiskHolders' \subseteq DiskHolders
      BY <1>1, <1>2, <2>3 DEF DiskHolders, HoldsDisk, ControlInv, TypeOK
    <3> QED BY <1>1, <1>3, <2>1, <2>3, <3>1 DEF SemInv, Exclusion, Mutex,
               Paging, Ended, ControlInv, TypeOK
  <2>4. semV["disk0sem"] <= 1
    BY DEF SemInv, Exclusion, Mutex
  <2> QED BY <1>3, <2>2, <2>3, <2>4
<1>5. RootCounts'
  <2>1. semV'["masterSem"] = semV["masterSem"] /\ Waits' = Waits
    BY <1>1, <1>2, Constants DEF LockDisk, Waits, ControlInv, TypeOK
  <2>2. Completed \subseteq Completed'
    BY <1>1 DEF Completed, ControlInv, TypeOK
  <2> QED BY <2>1, <2>2, RootCountsFrame DEF ControlInv, SemInv
<1> QED BY <1>2, <1>4, <1>5 DEF SemInv

(* The P of the pager, and that of terminateUserProc. *)
LEMMA EnterPoolSem ==
  ASSUME ControlInv, SemInv, NEW p \in ASID, EnterPager(p) \/ BeginTerminate(p)
  PROVE  SemInv'
<1>1. PICK l \in {"frame", "clear"} :
        /\ pc[p] \in {"pager", "terminate"} /\ ~Blocked(p)
        /\ P("swapPoolSem", p) /\ UNCHANGED <<io, left>>
        /\ pc' = [pc EXCEPT ![p] = l]
  BY DEF EnterPager, BeginTerminate, At, Goto
<1>2. /\ Queues'
      /\ semV' = [semV EXCEPT !["swapPoolSem"] = @ - 1]
      /\ \A t \in Sem \ {"swapPoolSem"} : semQ'[t] = semQ[t]
      /\ semV["swapPoolSem"] >= 1 => semQ' = semQ
      /\ semV["swapPoolSem"] < 1 =>
           \A x : InQ(semQ'["swapPoolSem"], x) <=>
                  x = p \/ InQ(semQ["swapPoolSem"], x)
  <2>1. "swapPoolSem" \in Sem /\ l \in WaitLabel("swapPoolSem")
    BY DEF Sem, WaitLabel
  <2> QED BY <1>1, <2>1, SemaphoreP DEF ControlInv, SemInv
<1>3. /\ semV["swapPoolSem"] \in Int
      /\ semV'["swapPoolSem"] = semV["swapPoolSem"] - 1
      /\ semV'["disk0sem"] = semV["disk0sem"]
      /\ semQ'["disk0sem"] = semQ["disk0sem"]
  BY <1>2 DEF ControlInv, TypeOK, Sem
<1>4. Exclusion'
  <2>1. DiskHolders' = DiskHolders
    BY <1>1, <1>3 DEF DiskHolders, HoldsDisk, ControlInv, TypeOK
  <2>2. CASE semV["swapPoolSem"] = 1
    <3>1. PoolHolders = {} /\ ~Paging(p)
      BY <2>2 DEF SemInv, Exclusion, Mutex, PoolHolders, HoldsPool
    <3>2. PoolHolders' \subseteq PoolHolders \cup {p}
      BY <1>1, <1>2, <2>2 DEF PoolHolders, HoldsPool, Paging, ControlInv,
         TypeOK
    <3>3. \A q \in ASID : Paging(q)' =>
            /\ pc'[q] \notin Ended
            /\ pc'[q] = "clear" => InQ(semQ'["swapPoolSem"], q)
      BY <1>1, <1>2, <2>2, <3>1 DEF SemInv, Exclusion, Paging, ControlInv,
         TypeOK
    <3> QED BY <1>3, <2>1, <2>2, <3>1, <3>2, <3>3 DEF SemInv, Exclusion, Mutex
  <2>3. CASE semV["swapPoolSem"] < 1
    <3>1. PoolHolders' \subseteq PoolHolders
      BY <1>1, <1>2, <2>3 DEF PoolHolders, HoldsPool, Paging, ControlInv,
         TypeOK
    <3>2. \A q \in ASID : Paging(q)' =>
            /\ pc'[q] \notin Ended
            /\ pc'[q] = "clear" => InQ(semQ'["swapPoolSem"], q)
      BY <1>1, <1>2, <2>3 DEF SemInv, Exclusion, Paging, Ended, ControlInv,
         TypeOK
    <3> QED BY <1>3, <2>1, <2>3, <3>1, <3>2 DEF SemInv, Exclusion, Mutex
  <2>4. semV["swapPoolSem"] <= 1
    BY DEF SemInv, Exclusion, Mutex
  <2> QED BY <1>3, <2>2, <2>3, <2>4
<1>5. RootCounts'
  <2>1. semV'["masterSem"] = semV["masterSem"] /\ Waits' = Waits
    BY <1>1, <1>2, Constants DEF Waits, ControlInv, TypeOK
  <2>2. Completed \subseteq Completed'
    BY <1>1 DEF Completed, ControlInv, TypeOK
  <2> QED BY <2>1, <2>2, RootCountsFrame DEF ControlInv, SemInv
<1> QED BY <1>2, <1>4, <1>5 DEF SemInv

LEMMA UnlockDiskSem ==
  ASSUME ControlInv, SemInv, NEW p \in ASID, UnlockDisk(p)
  PROVE  SemInv'
<1>1. /\ pc[p] = "unlock" /\ ~Blocked(p) /\ V("disk0sem")
      /\ io' = [io EXCEPT ![p] = None] /\ io[p] # None
      /\ pc' = [pc EXCEPT ![p] = io[p].back]
      /\ \/ Booting(p) /\ io[p].back = "tape"
         \/ Paging(p) /\ io[p].back \in {"read", "load"}
  BY DEF UnlockDisk, At, Goto, Booting, Paging, Operation, DiskLabel,
     ControlInv, TypeOK, Control, OperationOK
<1>2. /\ Queues'
      /\ semV' = [semV EXCEPT !["disk0sem"] = @ + 1]
      /\ \A t \in Sem \ {"disk0sem"} : semQ'[t] = semQ[t]
      /\ semV["disk0sem"] >= 0 => semQ' = semQ
      /\ \E h : \A x : InQ(semQ["disk0sem"], x) =>
                        x = h \/ InQ(semQ'["disk0sem"], x)
      /\ \A x : InQ(semQ'["disk0sem"], x) => InQ(semQ["disk0sem"], x)
  <2>1. "disk0sem" \in Sem
    BY DEF Sem
  <2> QED BY <1>1, <2>1, SemaphoreV DEF ControlInv, SemInv
<1>3. /\ semV["disk0sem"] \in Int /\ semV'["disk0sem"] = semV["disk0sem"] + 1
      /\ semV'["swapPoolSem"] = semV["swapPoolSem"]
      /\ semQ'["swapPoolSem"] = semQ["swapPoolSem"]
  BY <1>2 DEF ControlInv, TypeOK, Sem
<1>4. Exclusion'
  <2>1. PoolHolders' \subseteq PoolHolders
    BY <1>1, <1>3 DEF PoolHolders, HoldsPool, Paging, ControlInv, TypeOK
  <2>2. ~InQ(semQ["disk0sem"], p)
    BY <1>1 DEF Blocked, ControlInv, TypeOK
  <2>3. DiskHolders = {p} /\ semV["disk0sem"] <= 0
    BY <1>1, <1>3, <2>2 DEF SemInv, Exclusion, Mutex, DiskHolders, HoldsDisk
  <2>4. \A q \in DiskHolders' : InQ(semQ["disk0sem"], q) /\ ~InQ(semQ'["disk0sem"], q)
    BY <1>1, <2>3 DEF DiskHolders, HoldsDisk, ControlInv, TypeOK
  <2>5. Mutex(semV'["disk0sem"], DiskHolders')
    BY <1>2, <1>3, <2>3, <2>4 DEF Mutex
  <2>6. \A q \in ASID : Paging(q)' =>
          /\ pc'[q] \notin Ended
          /\ pc'[q] = "clear" => InQ(semQ'["swapPoolSem"], q)
    BY <1>1, <1>3 DEF SemInv, Exclusion, Paging, ControlInv, TypeOK
  <2> QED BY <1>3, <2>1, <2>5, <2>6 DEF SemInv, Exclusion, Mutex
<1>5. RootCounts'
  <2>1. semV'["masterSem"] = semV["masterSem"] /\ Waits' = Waits
    BY <1>1, <1>2, Constants DEF UnlockDisk, Waits, ControlInv, TypeOK
  <2>2. Completed \subseteq Completed'
    BY <1>1 DEF Completed, ControlInv, TypeOK
  <2> QED BY <2>1, <2>2, RootCountsFrame DEF ControlInv, SemInv
<1> QED BY <1>2, <1>4, <1>5 DEF SemInv

(* The V of the pager, of its way out for a bad cause, and of              *)
(* terminateUserProc.                                                      *)
LEMMA LeavePoolSem ==
  ASSUME ControlInv, SemInv, NEW p \in ASID,
         RejectCause(p) \/ LeavePager(p) \/ ClearFrames(p)
  PROVE  SemInv'
<1>1. PICK l \in {"terminate", "run", "signal"} :
        /\ pc[p] \in {"frame", "leave", "clear"} /\ ~Blocked(p)
        /\ V("swapPoolSem") /\ UNCHANGED <<io, left>>
        /\ pc' = [pc EXCEPT ![p] = l]
  BY DEF RejectCause, LeavePager, ClearFrames, At, Goto
<1>2. /\ Queues'
      /\ semV' = [semV EXCEPT !["swapPoolSem"] = @ + 1]
      /\ \A t \in Sem \ {"swapPoolSem"} : semQ'[t] = semQ[t]
      /\ semV["swapPoolSem"] >= 0 => semQ' = semQ
      /\ \E h : \A x : InQ(semQ["swapPoolSem"], x) =>
                        x = h \/ InQ(semQ'["swapPoolSem"], x)
      /\ \A x : InQ(semQ'["swapPoolSem"], x) => InQ(semQ["swapPoolSem"], x)
  <2>1. "swapPoolSem" \in Sem
    BY DEF Sem
  <2> QED BY <1>1, <2>1, SemaphoreV DEF ControlInv, SemInv
<1>3. /\ semV["swapPoolSem"] \in Int
      /\ semV'["swapPoolSem"] = semV["swapPoolSem"] + 1
      /\ semV'["disk0sem"] = semV["disk0sem"]
      /\ semQ'["disk0sem"] = semQ["disk0sem"]
  BY <1>2 DEF ControlInv, TypeOK, Sem
<1>4. Exclusion'
  <2>1. DiskHolders' \subseteq DiskHolders
    BY <1>1, <1>3 DEF DiskHolders, HoldsDisk, ControlInv, TypeOK
  <2>2. ~InQ(semQ["swapPoolSem"], p)
    BY <1>1 DEF Blocked, ControlInv, TypeOK
  <2>3. PoolHolders = {p} /\ semV["swapPoolSem"] <= 0
    BY <1>1, <1>3, <2>2 DEF SemInv, Exclusion, Mutex, PoolHolders, HoldsPool
  <2>4. \A q \in ASID : ~Paging(q) /\ ~Paging(q)'
    <3>1. ~Paging(p)
      BY <1>1, <2>2 DEF DiskLabel, Ended, ControlInv, Control, OperationOK,
         SemInv, Exclusion
    <3>2. \A q \in ASID : ~Paging(q)
      BY <2>3, <3>1 DEF PoolHolders, HoldsPool
    <3> QED BY <1>1, <3>2 DEF Paging
  <2>5. \A q \in PoolHolders' :
          InQ(semQ["swapPoolSem"], q) /\ ~InQ(semQ'["swapPoolSem"], q)
    <3> SUFFICES ASSUME NEW q \in ASID, HoldsPool(q)'
                 PROVE  InQ(semQ["swapPoolSem"], q) /\ ~InQ(semQ'["swapPoolSem"], q)
      BY DEF PoolHolders
    <3>1. /\ pc'[q] \in {"frame", "read", "load", "leave", "clear"}
          /\ ~InQ(semQ'["swapPoolSem"], q)
      BY <2>4 DEF HoldsPool
    <3>2. q # p /\ pc'[q] = pc[q]
      BY <1>1, <3>1 DEF ControlInv, TypeOK
    <3>3. ~HoldsPool(q)
      BY <2>3, <3>2 DEF PoolHolders
    <3> QED BY <3>1, <3>2, <3>3 DEF HoldsPool
  <2>6. Mutex(semV'["swapPoolSem"], PoolHolders')
    BY <1>2, <1>3, <2>3, <2>5 DEF Mutex
  <2> QED BY <1>3, <2>1, <2>4, <2>6 DEF SemInv, Exclusion, Mutex
<1>5. RootCounts'
  <2>1. semV'["masterSem"] = semV["masterSem"] /\ Waits' = Waits
    BY <1>1, <1>2, Constants DEF Waits, ControlInv, TypeOK
  <2>2. Completed \subseteq Completed'
    BY <1>1 DEF Completed, ControlInv, TypeOK
  <2> QED BY <2>1, <2>2, RootCountsFrame DEF ControlInv, SemInv
<1> QED BY <1>2, <1>4, <1>5 DEF SemInv

(* The V of a process that completes counts for the root. *)
LEMMA SignalRootSem ==
  ASSUME ControlInv, SemInv, NEW p \in ASID, SignalRoot(p)
  PROVE  SemInv'
<1>1. /\ pc[p] = "signal" /\ ~Blocked(p) /\ V("masterSem") /\ UNCHANGED <<io, left>>
      /\ pc' = [pc EXCEPT ![p] = "exit"]
  BY DEF SignalRoot, At, Goto
<1>2. /\ Queues'
      /\ semV' = [semV EXCEPT !["masterSem"] = @ + 1]
      /\ \A t \in Sem \ {"masterSem"} : semQ'[t] = semQ[t]
  <2>1. "masterSem" \in Sem
    BY DEF Sem
  <2> QED BY <1>1, <2>1, SemaphoreV DEF ControlInv, SemInv
<1>3. /\ semV["masterSem"] \in Int /\ semV'["masterSem"] = semV["masterSem"] + 1
      /\ semV'["swapPoolSem"] = semV["swapPoolSem"]
      /\ semV'["disk0sem"] = semV["disk0sem"]
      /\ semQ'["swapPoolSem"] = semQ["swapPoolSem"]
      /\ semQ'["disk0sem"] = semQ["disk0sem"]
  BY <1>2 DEF ControlInv, TypeOK, Sem
<1>4. Exclusion'
  <2>1. PoolHolders' = PoolHolders /\ DiskHolders' = DiskHolders
    BY <1>1, <1>3 DEF PoolHolders, HoldsPool, DiskHolders, HoldsDisk, Paging,
                      ControlInv, TypeOK
  <2>2. \A q \in ASID : Paging(q)' =>
          /\ pc'[q] \notin Ended
          /\ pc'[q] = "clear" => InQ(semQ'["swapPoolSem"], q)
    BY <1>1, <1>3 DEF SemInv, Exclusion, Paging, Ended, ControlInv, TypeOK
  <2> QED BY <1>3, <2>1, <2>2 DEF SemInv, Exclusion, Mutex
<1>5. RootCounts'
  <2>1. p \notin Completed /\ Completed' = Completed \cup {p}
    BY <1>1 DEF Completed, ControlInv, TypeOK
  <2>2. Cardinality(Completed') = Cardinality(Completed) + 1
    BY <2>1, CompletedFinite, FS_AddElement
  <2>3. Cardinality(Completed) \in Nat
    BY CompletedFinite
  <2>4. Waits' = Waits /\ Waits \in Int
    BY <1>1, Constants, SizeAssumption
       DEF SizeAssumption, Waits, ControlInv, TypeOK
  <2> QED BY <1>3, <2>2, <2>3, <2>4 DEF RootCounts, SemInv
<1> QED BY <1>2, <1>4, <1>5 DEF SemInv

LEMMA CreateUserSem ==
  ASSUME ControlInv, SemInv, CreateUser
  PROVE  SemInv'
<1> DEFINE n == MAXUPROC + 1 - left
<1>1. /\ pc[Root] = "create" /\ left \in 1..MAXUPROC /\ n \in ASID /\ n # Root
      /\ UNCHANGED <<semV, semQ, io>> /\ ~Blocked(Root)
  BY Constants, SizeAssumption
     DEF SizeAssumption, ASID, CreateUser, At, ControlInv, RootControl
<1>2. n > MAXUPROC - left
  BY <1>1, SizeAssumption DEF SizeAssumption
<1>3. /\ pc \in [ASID \cup {Root} -> RootLabel \cup UserLabel]
      /\ pc[n] = "unborn"
  BY <1>1, <1>2 DEF ControlInv, TypeOK, RootControl
<1> HIDE DEF n
<1>4. /\ pc'[n] = "tape"
      /\ \A q \in ASID : q # n => pc'[q] = pc[q]
      /\ pc'[Root] = IF left = 1 THEN "wait" ELSE "create"
      /\ left' = IF left = 1 THEN MAXUPROC ELSE left - 1
  BY <1>1, <1>3, Constants DEF CreateUser, n
<1>5. Queues'
  <2>1. \A s \in Sem, q \in ASID \cup {Root} :
          InQ(semQ[s], q) => q # n /\ q # Root
    BY <1>1, <1>3, QueueFacts DEF Blocked, ControlInv, SemInv, Sem, TypeOK
  <2>2. \A s \in Sem, q \in ASID \cup {Root} : InQ(semQ[s], q) => pc'[q] = pc[q]
    BY <1>4, <2>1
  <2> QED BY <1>1, <2>2 DEF SemInv, Queues
<1>6. Exclusion'
  <2>1. PoolHolders' = PoolHolders /\ DiskHolders' = DiskHolders
    BY <1>1, <1>3, <1>4 DEF PoolHolders, HoldsPool, DiskHolders, HoldsDisk, Paging
  <2>2. \A q \in ASID : Paging(q)' =>
          /\ pc'[q] \notin Ended
          /\ pc'[q] = "clear" => InQ(semQ'["swapPoolSem"], q)
    BY <1>1, <1>3, <1>4 DEF SemInv, Exclusion, Paging, Ended
  <2> QED BY <1>1, <2>1, <2>2 DEF SemInv, Exclusion, Mutex
<1>7. RootCounts'
  <2>1. Completed' = Completed
    BY <1>1, <1>3, <1>4 DEF Completed
  <2>2. Waits = 0 /\ Waits' = 0
    BY <1>1, <1>4, SizeAssumption DEF SizeAssumption, Waits
  <2> QED BY <1>1, <2>1, <2>2, RootCountsFrame DEF ControlInv, SemInv
<1> QED BY <1>5, <1>6, <1>7 DEF SemInv

LEMMA WaitForUserSem ==
  ASSUME ControlInv, SemInv, WaitForUser
  PROVE  SemInv'
<1>1. PICK l \in {"wait", "end"} :
        /\ pc[Root] = "wait" /\ ~Blocked(Root) /\ P("masterSem", Root)
        /\ pc' = [pc EXCEPT ![Root] = l] /\ io' = io
        /\ left \in 1..MAXUPROC /\ left' = left - 1
  BY DEF WaitForUser, At, Goto, ControlInv, RootControl
<1>2. /\ Queues'
      /\ semV' = [semV EXCEPT !["masterSem"] = @ - 1]
      /\ \A t \in Sem \ {"masterSem"} : semQ'[t] = semQ[t]
  <2>1. "masterSem" \in Sem /\ l \in WaitLabel("masterSem")
    BY DEF Sem, WaitLabel
  <2> QED BY <1>1, <2>1, SemaphoreP DEF ControlInv, SemInv
<1>3. /\ semV["masterSem"] \in Int /\ semV'["masterSem"] = semV["masterSem"] - 1
      /\ semV'["swapPoolSem"] = semV["swapPoolSem"]
      /\ semV'["disk0sem"] = semV["disk0sem"]
      /\ semQ'["swapPoolSem"] = semQ["swapPoolSem"]
      /\ semQ'["disk0sem"] = semQ["disk0sem"]
  BY <1>2 DEF ControlInv, TypeOK, Sem
<1>4. \A q \in ASID : pc'[q] = pc[q]
  BY <1>1, Constants
<1>5. Exclusion'
  <2>1. PoolHolders' = PoolHolders /\ DiskHolders' = DiskHolders
    BY <1>1, <1>3, <1>4 DEF PoolHolders, HoldsPool, DiskHolders, HoldsDisk, Paging
  <2>2. \A q \in ASID : Paging(q)' =>
          /\ pc'[q] \notin Ended
          /\ pc'[q] = "clear" => InQ(semQ'["swapPoolSem"], q)
    BY <1>1, <1>3, <1>4 DEF SemInv, Exclusion, Paging
  <2> QED BY <1>3, <2>1, <2>2 DEF SemInv, Exclusion, Mutex
<1>6. RootCounts'
  <2>1. Completed' = Completed
    BY <1>4 DEF Completed
  <2>2. Waits \in Int /\ Waits' = Waits + 1
    BY <1>1, SizeAssumption DEF SizeAssumption, Waits, ControlInv, TypeOK
  <2>3. Cardinality(Completed) \in Nat
    BY <2>1, CompletedGrows
  <2> QED BY <1>3, <2>1, <2>2, <2>3 DEF RootCounts, SemInv
<1> QED BY <1>2, <1>5, <1>6 DEF SemInv

(* When the root is past its loop and not blocked, all have completed. *)
LEMMA AllCompleted ==
  ASSUME ControlInv, SemInv, pc[Root] = "end", ~Blocked(Root)
  PROVE  \A p \in ASID : pc[p] \in {"exit", "dead"}
<1>1. left = 0
  BY DEF ControlInv, RootControl
<1>2. semV["masterSem"] \in Int /\ semV["masterSem"] >= 0
  <2> DEFINE q == semQ["masterSem"]
  <2>1. "masterSem" \in Sem /\ "masterSem" \in DOMAIN semQ
    BY DEF Sem, ControlInv, TypeOK
  <2>2. /\ semV["masterSem"] \in Int /\ q \in Seq(ASID \cup {Root})
        /\ semV["masterSem"] < 0 => q # <<>>
        /\ \A x : InQ(q, x) => x = Root
    BY <2>1, QueueFacts DEF ControlInv, SemInv
  <2>3. q = <<>>
    <3> SUFFICES ASSUME q # <<>> PROVE FALSE
      OBVIOUS
    <3>1. 1 \in 1..Len(q)
      BY <2>2
    <3>2. InQ(q, q[1])
      BY <3>1 DEF InQ
    <3> QED BY <2>1, <2>2, <3>2 DEF Blocked
  <2> QED BY <2>2, <2>3
<1>3. MAXUPROC <= Cardinality(Completed)
  <2>1. Waits = MAXUPROC
    BY <1>1, CompletedFinite DEF Waits
  <2> QED BY <1>2, <2>1, CompletedFinite DEF SemInv, RootCounts
<1>4. Completed = ASID
  <2>1. Cardinality(Completed) <= Cardinality(ASID)
    BY CompletedFinite, FS_Subset
  <2>2. Cardinality(Completed) = Cardinality(ASID)
    BY <1>3, <2>1, CompletedFinite
  <2> QED BY <2>2, CompletedFinite, FS_Subset
<1> QED BY <1>4 DEF Completed

LEMMA RootEndSem ==
  ASSUME ControlInv, SemInv, RootEnd
  PROVE  SemInv'
<1>1. /\ pc[Root] = "end" /\ ~Blocked(Root) /\ pc'[Root] = "dead"
      /\ \A p \in ASID : pc'[p] \in {"exit", "dead"}
      /\ UNCHANGED <<semV, semQ, left, io>>
  BY RootEndFacts
<1>2. \A p \in ASID : pc[p] \in {"exit", "dead"}
  BY <1>1, AllCompleted
<1>3. \A s \in Sem, x \in ASID \cup {Root} : ~InQ(semQ[s], x)
  <2>1. \A x : ~InQ(semQ["swapPoolSem"], x) /\ ~InQ(semQ["disk0sem"], x)
    <3>1. "swapPoolSem" \in Sem /\ "disk0sem" \in Sem
      BY DEF Sem
    <3> QED BY <1>2, <3>1, QueueFacts DEF ControlInv, SemInv
  <2>2. \A x : ~InQ(semQ["masterSem"], x)
    <3>1. "masterSem" \in Sem /\ "masterSem" \in DOMAIN semQ
      BY DEF Sem, ControlInv, TypeOK
    <3> QED BY <1>1, <3>1, QueueFacts DEF Blocked, ControlInv, SemInv
  <2> QED BY <2>1, <2>2 DEF Sem
<1>4. Queues'
  BY <1>1, <1>3 DEF SemInv, Queues
<1>5. Exclusion'
  <2>1. \A p \in ASID : ~Paging(p) /\ ~Paging(p)'
    BY <1>1, <1>2 DEF SemInv, Exclusion, Paging, Ended
  <2>2. PoolHolders' = {} /\ DiskHolders' = {}
    BY <1>1, <2>1 DEF PoolHolders, DiskHolders, HoldsPool, HoldsDisk
  <2> QED BY <1>1, <2>1, <2>2 DEF SemInv, Exclusion, Mutex
<1>6. RootCounts'
  <2>1. Completed \subseteq Completed'
    BY <1>1 DEF Completed
  <2>2. Waits' = Waits
    BY <1>1 DEF Waits
  <2> QED BY <1>1, <2>1, <2>2, RootCountsFrame DEF ControlInv, SemInv
<1> QED BY <1>4, <1>5, <1>6 DEF SemInv

LEMMA NextSem ==
  ASSUME ControlInv, SemInv, [Next]_vars
  PROVE  SemInv'
<1>1. CASE UNCHANGED vars
  <2>1. PoolHolders' = PoolHolders /\ DiskHolders' = DiskHolders
    BY <1>1 DEF PoolHolders, HoldsPool, DiskHolders, HoldsDisk, Paging, vars
  <2>2. Exclusion'
    BY <1>1, <2>1 DEF SemInv, Exclusion, Paging, vars
  <2>3. Queues'
    BY <1>1 DEF SemInv, Queues, vars
  <2>4. RootCounts'
    BY <1>1 DEF SemInv, RootCounts, Waits, Completed, vars
  <2> QED BY <2>2, <2>3, <2>4 DEF SemInv
<1>2. CASE RootStep
  BY <1>2, CreateUserSem, WaitForUserSem, RootEndSem DEF RootStep
<1>3. ASSUME NEW p \in ASID, SystemStep(p)
      PROVE  SemInv'
  BY <1>3, QuietSem, LockDiskSem, UnlockDiskSem, EnterPoolSem, LeavePoolSem,
     SignalRootSem DEF SystemStep, Quiet
<1>4. ASSUME NEW p \in ASID, UserStep(p)
      PROVE  SemInv'
  BY <1>4, QuietSem DEF UserStep, Quiet
<1> QED BY <1>1, <1>2, <1>3, <1>4 DEF Next, Halted

-----------------------------------------------------------------------------
(* The memory.                                                             *)

(* Who is within diskIO, or handles a fault, holds the semaphore, and no   *)
(* one else does.                                                          *)
LEMMA Holders ==
  ASSUME ControlInv, SemInv, NEW p \in ASID
  PROVE  /\ pc[p] \in {"seekWait", "transfer", "transferWait", "unlock"} => HoldsDisk(p)
         /\ Filling(p) \/ pc[p] = "leave" => HoldsPool(p)
         /\ pc[p] \in {"frame", "clear"} /\ ~Blocked(p) => HoldsPool(p)
         /\ \A q \in ASID : HoldsDisk(p) /\ HoldsDisk(q) => p = q
         /\ \A q \in ASID : HoldsPool(p) /\ HoldsPool(q) => p = q
<1>1. /\ InQ(semQ["disk0sem"], p) => pc[p] = "seek"
      /\ InQ(semQ["swapPoolSem"], p) => pc[p] \in {"frame", "clear"} /\ Blocked(p)
  <2>1. /\ "disk0sem" \in Sem /\ "swapPoolSem" \in Sem
        /\ "swapPoolSem" \in DOMAIN semQ
    BY DEF Sem, ControlInv, TypeOK
  <2> QED BY <2>1, QueueFacts DEF Blocked, ControlInv, SemInv
<1>2. /\ pc[p] \in {"seekWait", "transfer", "transferWait", "unlock"} => HoldsDisk(p)
      /\ Filling(p) \/ pc[p] = "leave" => HoldsPool(p)
      /\ pc[p] \in {"frame", "clear"} /\ ~Blocked(p) => HoldsPool(p)
  BY <1>1 DEF HoldsDisk, HoldsPool, Filling
<1>3. /\ \A q \in ASID : HoldsDisk(p) /\ HoldsDisk(q) => p = q
      /\ \A q \in ASID : HoldsPool(p) /\ HoldsPool(q) => p = q
  BY DEF SemInv, Exclusion, Mutex, DiskHolders, PoolHolders
<1> QED BY <1>2, <1>3

LEMMA InitMemory ==
  ASSUME Init
  PROVE  MemoryInv
<1>1. Owners
  BY DEF Init, Owners
<1>2. Arm
  BY Constants DEF Init, Arm
<1>3. \A p \in ASID, i \in Index : Mapping(p, i)
  BY Constants DEF Init, Mapping
<1> QED BY <1>1, <1>2, <1>3 DEF MemoryInv

(* A step of a process that leaves the tables alone.                       *)
LEMMA MemoryFrame ==
  ASSUME ControlInv, MemoryInv, NEW p \in ASID,
         UNCHANGED <<swapPool, pte>>,
         \A q \in ASID, i \in Index : tlb'[q][i] \in {tlb[q][i], pte[q][i], Absent},
         \A q \in ASID : q # p => pc'[q] = pc[q] /\ io'[q] = io[q] /\ fNo'[q] = fNo[q],
         Filling(p)' => Filling(p) /\ fNo'[p] = fNo[p],
         pc[p] \in Ended => pc'[p] \in Ended,
         pc'[p] \in Ended => pc[p] \in Ended \/ Starting(p),
         Starting(p)' => pc[p] \in Ended \/ Starting(p)
  PROVE  /\ Owners'
         /\ \A q \in ASID : pc'[q] \notin Ended => \A i \in Index : Mapping(q, i)'
<1>1. \A q \in ASID : q # p => (Starting(q)' <=> Starting(q)) /\ (Filling(q)' <=> Filling(q))
  BY DEF Starting, Filling, Booting, Paging
<1>2. Owners'
  <2> SUFFICES ASSUME NEW f \in Frame, swapPool[f] # Free
               PROVE  pc'[swapPool[f][1]] \notin Ended /\ ~Starting(swapPool[f][1])'
    BY DEF Owners
  <2>1. swapPool[f][1] \in ASID
    BY DEF ControlInv, TypeOK
  <2> QED BY <1>1, <2>1 DEF MemoryInv, Owners
<1>3. ASSUME NEW q \in ASID, pc'[q] \notin Ended, NEW i \in Index
      PROVE  Mapping(q, i)'
  <2>1. Mapping(q, i)
    BY <1>3 DEF MemoryInv
  <2>2. \A r \in ASID : Filling(r)' => Filling(r) /\ fNo'[r] = fNo[r]
    BY <1>1
  <2> QED BY <2>1, <2>2 DEF Mapping
<1> QED BY <1>2, <1>3

LEMMA ArmFrame ==
  ASSUME Arm, NEW p \in ASID, diskCyl' = diskCyl,
         \A q \in ASID : q # p => pc'[q] = pc[q] /\ io'[q] = io[q],
         pc'[p] \in {"transfer", "transferWait"} =>
           pc[p] \in {"transfer", "transferWait"} /\ io'[p] = io[p]
  PROVE  Arm'
BY DEF Arm

(* The actions that leave the swap pool table, the page tables and the     *)
(* arm of the disk alone.                                                  *)
Harmless(p) ==
  \/ ReadTape(p) \/ TapeDone(p) \/ StartUser(p)
  \/ LockDisk(p) \/ Seek(p) \/ Transfer(p) \/ TransferDone(p) \/ UnlockDisk(p)
  \/ \E v \in Data : Write(p, v)
  \/ \E v \in Page : Read(p, v)
  \/ \E seg \in Segment, v \in Page : Fault(p, seg, v)
  \/ Miss(p) \/ EndUser(p)
  \/ EnterPager(p) \/ RejectCause(p) \/ ReadPage(p) \/ LeavePager(p)
  \/ BeginTerminate(p) \/ SignalRoot(p) \/ Exit(p)

LEMMA HarmlessMemory ==
  ASSUME ControlInv, MemoryInv, NEW p \in ASID, Harmless(p)
  PROVE  MemoryInv'
<1> DEFINE
      Others ==
        /\ UNCHANGED <<swapPool, pte, diskCyl>>
        /\ \A q \in ASID : q # p => pc'[q] = pc[q] /\ io'[q] = io[q] /\ fNo'[q] = fNo[q]
      Tlb == \A q \in ASID, i \in Index : tlb'[q][i] \in {tlb[q][i], pte[q][i], Absent}
      Own ==
        /\ Filling(p)' => Filling(p) /\ fNo'[p] = fNo[p]
        /\ pc[p] \in Ended => pc'[p] \in Ended
        /\ pc'[p] \in Ended => pc[p] \in Ended \/ Starting(p)
        /\ Starting(p)' => pc[p] \in Ended \/ Starting(p)
        /\ pc'[p] \in {"transfer", "transferWait"} =>
             pc[p] \in {"transfer", "transferWait"} /\ io'[p] = io[p]
<1>1. ASSUME ReadTape(p) PROVE Others /\ Tlb /\ Own
  <2>1. Others
    BY <1>1 DEF ReadTape, Goto, paging, memory, ControlInv, TypeOK
  <2>2. Tlb
    BY <1>1 DEF ReadTape, memory
  <2>3. Own
    BY <1>1 DEF ReadTape, At, Goto, failTo, paging, Filling, Starting,
       Paging, Booting, Ended, DiskLabel, ControlInv, TypeOK, Control,
       OperationOK
  <2> QED BY <2>1, <2>2, <2>3
<1>2. ASSUME TapeDone(p) PROVE Others /\ Tlb /\ Own
  <2>1. Others
    BY <1>2 DEF TapeDone, Goto, paging, memory, ControlInv, TypeOK
  <2>2. Tlb
    BY <1>2 DEF TapeDone, memory
  <2>3. Own
    BY <1>2 DEF TapeDone, At, Goto, failTo, paging, Filling, Starting,
       Paging, Booting, Ended, DiskLabel, ControlInv, TypeOK, Control,
       OperationOK
  <2> QED BY <2>1, <2>2, <2>3
<1>3. ASSUME StartUser(p) PROVE Others /\ Tlb /\ Own
  <2>1. Others
    BY <1>3 DEF StartUser, Goto, paging, memory, ControlInv, TypeOK
  <2>2. Tlb
    BY <1>3 DEF StartUser, memory
  <2>3. Own
    BY <1>3 DEF StartUser, At, Goto, failTo, paging, Filling, Starting,
       Paging, Booting, Ended, DiskLabel, ControlInv, TypeOK, Control,
       OperationOK
  <2> QED BY <2>1, <2>2, <2>3
<1>4. ASSUME LockDisk(p) PROVE Others /\ Tlb /\ Own
  <2>1. Others
    BY <1>4 DEF LockDisk, Goto, paging, memory, ControlInv, TypeOK
  <2>2. Tlb
    BY <1>4 DEF LockDisk, memory
  <2>3. Own
    BY <1>4 DEF LockDisk, At, Goto, failTo, paging, Filling, Starting,
       Paging, Booting, Ended, DiskLabel, ControlInv, TypeOK, Control,
       OperationOK
  <2> QED BY <2>1, <2>2, <2>3
<1>5. ASSUME Seek(p) PROVE Others /\ Tlb /\ Own
  <2>1. Others
    BY <1>5 DEF Seek, Goto, paging, memory, ControlInv, TypeOK
  <2>2. Tlb
    BY <1>5 DEF Seek, memory
  <2>3. Own
    BY <1>5 DEF Seek, At, Goto, failTo, paging, Filling, Starting, Paging,
       Booting, Ended, DiskLabel, ControlInv, TypeOK, Control, OperationOK
  <2> QED BY <2>1, <2>2, <2>3
<1>6. ASSUME Transfer(p) PROVE Others /\ Tlb /\ Own
  <2>1. Others
    BY <1>6 DEF Transfer, Goto, paging, memory, ControlInv, TypeOK
  <2>2. Tlb
    BY <1>6 DEF Transfer, memory
  <2>3. Own
    BY <1>6 DEF Transfer, At, Goto, failTo, paging, Filling, Starting,
       Paging, Booting, Ended, DiskLabel, ControlInv, TypeOK, Control,
       OperationOK
  <2> QED BY <2>1, <2>2, <2>3
<1>7. ASSUME TransferDone(p) PROVE Others /\ Tlb /\ Own
  <2>1. Others
    BY <1>7 DEF TransferDone, Goto, paging, memory, ControlInv, TypeOK
  <2>2. Tlb
    BY <1>7 DEF TransferDone, memory
  <2>3. Own
    BY <1>7 DEF TransferDone, At, Goto, failTo, paging, Filling, Starting,
       Paging, Booting, Ended, DiskLabel, ControlInv, TypeOK, Control,
       OperationOK
  <2> QED BY <2>1, <2>2, <2>3
<1>8. ASSUME UnlockDisk(p) PROVE Others /\ Tlb /\ Own
  <2>1. Others
    BY <1>8 DEF UnlockDisk, Goto, paging, memory, ControlInv, TypeOK
  <2>2. Tlb
    BY <1>8 DEF UnlockDisk, memory
  <2>3. Own
    <3>1. /\ pc[p] = "unlock" /\ io[p] # None /\ io'[p] = None /\ fNo'[p] = fNo[p]
          /\ pc'[p] = io[p].back /\ io[p].back \in {"tape", "read", "load"}
      BY <1>8 DEF UnlockDisk, At, Goto, paging, Operation, DiskLabel,
         ControlInv, TypeOK, Control, OperationOK
    <3> QED BY <3>1 DEF Filling, Starting, Paging, Booting, Ended
  <2> QED BY <2>1, <2>2, <2>3
<1>9. ASSUME NEW v \in Data, Write(p, v) PROVE Others /\ Tlb /\ Own
  <2>1. Others
    BY <1>9 DEF Write, Goto, paging, memory, ControlInv, TypeOK
  <2>2. Tlb
    BY <1>9 DEF Write, refill, translation, ControlInv, TypeOK
  <2>3. Own
    BY <1>9 DEF Write, At, Goto, failTo, paging, Filling, Starting, Paging,
       Booting, Ended, DiskLabel, ControlInv, TypeOK, Control, OperationOK
  <2> QED BY <2>1, <2>2, <2>3
<1>10. ASSUME NEW v \in Page, Read(p, v) PROVE Others /\ Tlb /\ Own
  <2>1. Others
    BY <1>10 DEF Read, Goto, paging, memory, ControlInv, TypeOK
  <2>2. Tlb
    BY <1>10 DEF Read, refill, translation, ControlInv, TypeOK
  <2>3. Own
    BY <1>10 DEF Read, At, Goto, failTo, paging, Filling, Starting, Paging,
       Booting, Ended, DiskLabel, ControlInv, TypeOK, Control, OperationOK
  <2> QED BY <2>1, <2>2, <2>3
<1>11. ASSUME NEW seg \in Segment, NEW v \in Page, Fault(p, seg, v) PROVE Others /\ Tlb /\ Own
  <2>1. Others
    BY <1>11 DEF Fault, Goto, paging, memory, ControlInv, TypeOK
  <2>2. Tlb
    BY <1>11 DEF Fault, refill, translation, ControlInv, TypeOK
  <2>3. Own
    BY <1>11 DEF Fault, At, Goto, failTo, paging, Filling, Starting, Paging,
       Booting, Ended, DiskLabel, ControlInv, TypeOK, Control, OperationOK
  <2> QED BY <2>1, <2>2, <2>3
<1>12. ASSUME Miss(p) PROVE Others /\ Tlb /\ Own
  <2>1. Others
    BY <1>12 DEF Miss, Goto, paging, memory, ControlInv, TypeOK
  <2>2. Tlb
    BY <1>12 DEF Miss, memory
  <2>3. Own
    BY <1>12 DEF Miss, At, Goto, failTo, paging, Filling, Starting, Paging,
       Booting, Ended, DiskLabel, ControlInv, TypeOK, Control, OperationOK
  <2> QED BY <2>1, <2>2, <2>3
<1>13. ASSUME EndUser(p) PROVE Others /\ Tlb /\ Own
  <2>1. Others
    BY <1>13 DEF EndUser, Goto, paging, memory, ControlInv, TypeOK
  <2>2. Tlb
    BY <1>13 DEF EndUser, memory
  <2>3. Own
    BY <1>13 DEF EndUser, At, Goto, failTo, paging, Filling, Starting,
       Paging, Booting, Ended, DiskLabel, ControlInv, TypeOK, Control,
       OperationOK
  <2> QED BY <2>1, <2>2, <2>3
<1>14. ASSUME EnterPager(p) PROVE Others /\ Tlb /\ Own
  <2>1. Others
    BY <1>14 DEF EnterPager, Goto, paging, memory, ControlInv, TypeOK
  <2>2. Tlb
    BY <1>14 DEF EnterPager, memory
  <2>3. Own
    BY <1>14 DEF EnterPager, At, Goto, failTo, paging, Filling, Starting,
       Paging, Booting, Ended, DiskLabel, ControlInv, TypeOK, Control,
       OperationOK
  <2> QED BY <2>1, <2>2, <2>3
<1>15. ASSUME RejectCause(p) PROVE Others /\ Tlb /\ Own
  <2>1. Others
    BY <1>15 DEF RejectCause, Goto, paging, memory, ControlInv, TypeOK
  <2>2. Tlb
    BY <1>15 DEF RejectCause, memory
  <2>3. Own
    BY <1>15 DEF RejectCause, At, Goto, failTo, paging, Filling, Starting,
       Paging, Booting, Ended, DiskLabel, ControlInv, TypeOK, Control,
       OperationOK
  <2> QED BY <2>1, <2>2, <2>3
<1>16. ASSUME ReadPage(p) PROVE Others /\ Tlb /\ Own
  <2>1. Others
    BY <1>16 DEF ReadPage, Goto, paging, memory, ControlInv, TypeOK
  <2>2. Tlb
    BY <1>16 DEF ReadPage, memory
  <2>3. Own
    <3>1. /\ pc[p] = "read" /\ pc'[p] = "lock" /\ fNo'[p] = fNo[p]
          /\ io'[p].back = "load"
      BY <1>16 DEF ReadPage, readIn, At, Goto, paging, ControlInv, TypeOK
    <3> QED BY <3>1 DEF Filling, Starting, Paging, Booting, Ended
  <2> QED BY <2>1, <2>2, <2>3
<1>17. ASSUME LeavePager(p) PROVE Others /\ Tlb /\ Own
  <2>1. Others
    BY <1>17 DEF LeavePager, Goto, paging, memory, ControlInv, TypeOK
  <2>2. Tlb
    BY <1>17 DEF LeavePager, memory
  <2>3. Own
    BY <1>17 DEF LeavePager, At, Goto, failTo, paging, Filling, Starting,
       Paging, Booting, Ended, DiskLabel, ControlInv, TypeOK, Control,
       OperationOK
  <2> QED BY <2>1, <2>2, <2>3
<1>18. ASSUME BeginTerminate(p) PROVE Others /\ Tlb /\ Own
  <2>1. Others
    BY <1>18 DEF BeginTerminate, Goto, paging, memory, ControlInv, TypeOK
  <2>2. Tlb
    BY <1>18 DEF BeginTerminate, memory
  <2>3. Own
    BY <1>18 DEF BeginTerminate, At, Goto, failTo, paging, Filling, Starting,
       Paging, Booting, Ended, DiskLabel, ControlInv, TypeOK, Control,
       OperationOK
  <2> QED BY <2>1, <2>2, <2>3
<1>19. ASSUME SignalRoot(p) PROVE Others /\ Tlb /\ Own
  <2>1. Others
    BY <1>19 DEF SignalRoot, Goto, paging, memory, ControlInv, TypeOK
  <2>2. Tlb
    BY <1>19 DEF SignalRoot, memory
  <2>3. Own
    BY <1>19 DEF SignalRoot, At, Goto, failTo, paging, Filling, Starting,
       Paging, Booting, Ended, DiskLabel, ControlInv, TypeOK, Control,
       OperationOK
  <2> QED BY <2>1, <2>2, <2>3
<1>20. ASSUME Exit(p) PROVE Others /\ Tlb /\ Own
  <2>1. Others
    BY <1>20 DEF Exit, Goto, paging, memory, ControlInv, TypeOK
  <2>2. Tlb
    BY <1>20 DEF Exit, memory
  <2>3. Own
    BY <1>20 DEF Exit, At, Goto, failTo, paging, Filling, Starting, Paging,
       Booting, Ended, DiskLabel, ControlInv, TypeOK, Control, OperationOK
  <2> QED BY <2>1, <2>2, <2>3
<1>21. Others /\ Tlb /\ Own
  BY <1>1, <1>2, <1>3, <1>4, <1>5, <1>6, <1>7, <1>8, <1>9, <1>10, <1>11,
     <1>12, <1>13, <1>14, <1>15, <1>16, <1>17, <1>18, <1>19, <1>20 DEF Harmless
<1> QED BY <1>21, MemoryFrame, ArmFrame DEF MemoryInv

(* The arm moves for the process that holds the disk. *)
LEMMA SeekDoneMemory ==
  ASSUME ControlInv, SemInv, MemoryInv, NEW p \in ASID, SeekDone(p)
  PROVE  MemoryInv'
<1>1. /\ pc[p] = "seekWait" /\ io[p] # None
      /\ UNCHANGED <<io, fNo, swapPool, pte, tlb>>
      /\ \A q \in ASID : q # p => pc'[q] = pc[q]
      /\ \/ pc'[p] = "transfer" /\ diskCyl' = io[p].cyl
         \/ Booting(p) /\ pc'[p] = "dead" /\ diskCyl' = diskCyl
         \/ Paging(p) /\ pc'[p] = "terminate" /\ diskCyl' = diskCyl
  BY DEF SeekDone, At, Goto, failTo, paging, Booting, Paging, DiskLabel,
         ControlInv, TypeOK, Control, OperationOK
<1>2. /\ Owners'
      /\ \A q \in ASID : pc'[q] \notin Ended => \A i \in Index : Mapping(q, i)'
  <2>1. /\ Filling(p)' => Filling(p)
        /\ pc[p] \notin Ended
        /\ pc'[p] \in Ended => Starting(p)
        /\ Starting(p)' => Starting(p)
    BY <1>1 DEF Filling, Starting, Booting, Paging, Ended
  <2> QED BY <1>1, <2>1, MemoryFrame
<1>3. \A q \in ASID : pc[q] \in {"transfer", "transferWait"} => q = p
  <2>1. HoldsDisk(p)
    BY <1>1, Holders
  <2>2. \A q \in ASID : pc[q] \in {"transfer", "transferWait"} => HoldsDisk(q)
    BY Holders
  <2> QED BY <2>1, <2>2, Holders
<1>4. Arm'
  BY <1>1, <1>3 DEF Arm
<1> QED BY <1>2, <1>4 DEF MemoryInv

(* The frame is taken from the only process that can reach it. *)
LEMMA ChooseFrameMemory ==
  ASSUME ControlInv, SemInv, MemoryInv, NEW p \in ASID, ChooseFrame(p)
  PROVE  MemoryInv'
<1> DEFINE f == getFrame
<1>1. /\ pc[p] = "frame" /\ f \in Frame /\ pc'[p] \in {"read", "lock"}
      /\ fNo' = [fNo EXCEPT ![p] = f]
      /\ UNCHANGED <<swapPool, diskCyl>>
      /\ \A q \in ASID : q # p => pc'[q] = pc[q] /\ io'[q] = io[q]
  BY GetFrame DEF ChooseFrame, At, Goto, ControlInv, TypeOK
<1>2. \A q \in ASID : Filling(q)' => q = p
  <2>1. HoldsPool(p) /\ \A q \in ASID : Filling(q) => q = p
    BY <1>1, Holders DEF ChooseFrame, At
  <2> QED BY <1>1, <2>1 DEF Filling, Paging
<1>3. \A q \in ASID : /\ pc'[q] \in Ended <=> pc[q] \in Ended
                      /\ Starting(q)' => Starting(q)
  <2>1. io'[p] = io[p] \/ io'[p].back = "read"
    BY DEF ChooseFrame, writeBack, ControlInv, TypeOK
  <2> QED BY <1>1, <2>1 DEF Starting, Booting, Ended
<1>4. Owners'
  <2>1. \A g \in Frame : swapPool[g] # Free => swapPool[g][1] \in ASID
    BY DEF ControlInv, TypeOK
  <2> QED BY <1>1, <1>3, <2>1 DEF MemoryInv, Owners
<1>5. Arm'
  BY <1>1, ArmFrame DEF MemoryInv
<1> HIDE DEF f
<1>6. ASSUME NEW q \in ASID, pc'[q] \notin Ended, NEW i \in Index
      PROVE  Mapping(q, i)'
  <2>1. /\ tlb[q][i] \in {pte[q][i], Absent}
        /\ pte[q][i] \in Frame =>
             /\ swapPool[pte[q][i]] # Free
             /\ swapPool[pte[q][i]][1] = q
             /\ pteIndex(swapPool[pte[q][i]][2]) = i
    BY <1>3, <1>6 DEF MemoryInv, Mapping
  <2>2. CASE swapPool[f] = Free
    <3>1. pte' = pte /\ tlb' = tlb
      BY <2>2 DEF ChooseFrame, f
    <3>2. pte[q][i] \in Frame => pte[q][i] # f
      BY <2>1, <2>2
    <3> QED BY <1>1, <1>2, <2>1, <3>1, <3>2 DEF Mapping, ControlInv, TypeOK
  <2>3. CASE swapPool[f] # Free
    <3> DEFINE o == swapPool[f][1]
               j == pteIndex(swapPool[f][2])
    <3>1. /\ pte' = [pte EXCEPT ![o][j] = Invalid]
          /\ tlb' = [r \in ASID |-> [k \in Index |-> Absent]]
      BY <2>3 DEF ChooseFrame, takeFrom, TLBCLR, f
    <3>2. /\ o \in ASID /\ j \in Index
      BY <1>1, <2>3, PageIndex DEF ControlInv, TypeOK
    <3>3. pte'[q][i] = IF q = o /\ i = j THEN Invalid ELSE pte[q][i]
      BY <3>1, <3>2 DEF ControlInv, TypeOK
    <3>4. pte'[q][i] \in Frame => pte'[q][i] = pte[q][i] /\ pte[q][i] # f
      BY <2>1, <3>3, Constants
    <3>5. tlb'[q][i] = Absent
      BY <3>1
    <3> QED BY <1>1, <1>2, <2>1, <3>4, <3>5 DEF Mapping, ControlInv, TypeOK
  <2> QED BY <2>2, <2>3
<1> QED BY <1>4, <1>5, <1>6 DEF MemoryInv

(* The frame that gets its new owner was in no page table. *)
LEMMA LoadPageMemory ==
  ASSUME ControlInv, SemInv, MemoryInv, NEW p \in ASID, LoadPage(p)
  PROVE  MemoryInv'
<1> DEFINE f == fNo[p]
           v == miss[p][2]
           j == pteIndex(v)
<1>1. /\ pc[p] = "load" /\ f \in Frame /\ v \in Page /\ j \in Index
      /\ pc' = [pc EXCEPT ![p] = "leave"]
      /\ swapPool' = [swapPool EXCEPT ![f] = <<p, v>>]
      /\ pte' = [pte EXCEPT ![p][j] = f]
      /\ tlb' = [r \in ASID |-> [k \in Index |-> Absent]]
      /\ UNCHANGED <<io, fNo, diskCyl>>
  BY PageIndex DEF LoadPage, At, Goto, TLBCLR, ControlInv, Control
<1>2. io[p] = None
  BY <1>1 DEF DiskLabel, Ended, Booting, Paging, ControlInv, Control, OperationOK
<1>3. \A q \in ASID : ~Filling(q)'
  <2>1. HoldsPool(p) /\ \A q \in ASID : Filling(q) => q = p
    BY <1>1, Holders DEF Filling
  <2> QED BY <1>1, <1>2, <2>1 DEF Filling, Paging, ControlInv, TypeOK
<1>4. \A q \in ASID : /\ pc'[q] \in Ended <=> pc[q] \in Ended
                      /\ Starting(q)' <=> Starting(q)
  BY <1>1 DEF Starting, Booting, Ended, ControlInv, TypeOK
<1> HIDE DEF f, j, v
<1>5. Owners'
  <2>1. ASSUME NEW g \in Frame, swapPool'[g] # Free
        PROVE  \E q \in ASID : swapPool'[g][1] = q /\ pc'[q] \notin Ended /\ ~Starting(q)'
    <3>1. CASE g = f
      <4>1. swapPool'[g][1] = p
        BY <1>1, <3>1 DEF ControlInv, TypeOK
      <4> QED BY <1>1, <1>2, <4>1 DEF Starting, Booting, Ended, ControlInv, TypeOK
    <3>2. CASE g # f
      <4>1. swapPool'[g] = swapPool[g] /\ swapPool[g][1] \in ASID
        BY <1>1, <2>1, <3>2 DEF ControlInv, TypeOK
      <4> QED BY <1>4, <2>1, <4>1 DEF MemoryInv, Owners
    <3> QED BY <3>1, <3>2
  <2> QED BY <2>1 DEF Owners, Starting, Booting
<1>6. Arm'
  BY <1>1, ArmFrame DEF MemoryInv, ControlInv, TypeOK
<1>7. ASSUME NEW q \in ASID, pc'[q] \notin Ended, NEW i \in Index
      PROVE  Mapping(q, i)'
  <2>1. pte[q][i] \in Frame =>
          /\ swapPool[pte[q][i]] # Free
          /\ swapPool[pte[q][i]][1] = q
          /\ pteIndex(swapPool[pte[q][i]][2]) = i
          /\ pte[q][i] # f
    BY <1>1, <1>4, <1>7 DEF MemoryInv, Mapping, Filling, f
  <2>2. pte'[q][i] = IF q = p /\ i = j THEN f ELSE pte[q][i]
    BY <1>1 DEF ControlInv, TypeOK
  <2>3. tlb'[q][i] = Absent
    BY <1>1
  <2>4. CASE q = p /\ i = j
    <3>1. swapPool'[f] = <<p, v>> /\ <<p, v>> # Free
      BY <1>1 DEF Free, ControlInv, TypeOK
    <3> QED BY <1>3, <2>2, <2>3, <2>4, <3>1 DEF Mapping, j
  <2>5. CASE ~(q = p /\ i = j)
    <3>1. pte'[q][i] = pte[q][i]
      BY <2>2, <2>5
    <3>2. pte[q][i] \in Frame => swapPool'[pte[q][i]] = swapPool[pte[q][i]]
      BY <1>1, <2>1 DEF ControlInv, TypeOK
    <3> QED BY <1>3, <2>1, <2>3, <3>1, <3>2 DEF Mapping
  <2> QED BY <2>4, <2>5
<1> QED BY <1>5, <1>6, <1>7 DEF MemoryInv

LEMMA ClearFramesMemory ==
  ASSUME ControlInv, SemInv, MemoryInv, NEW p \in ASID, ClearFrames(p)
  PROVE  MemoryInv'
<1>1. /\ pc[p] = "clear" /\ pc' = [pc EXCEPT ![p] = "signal"]
      /\ swapPool' = cleared(p)
      /\ tlb' = [r \in ASID |-> [k \in Index |-> Absent]]
      /\ UNCHANGED <<io, fNo, pte, diskCyl>>
  BY DEF ClearFrames, At, Goto, TLBCLR
<1>2. \A g \in Frame : swapPool'[g] = IF swapPool[g] # Free /\ swapPool[g][1] = p
                                        THEN Free ELSE swapPool[g]
  BY <1>1 DEF cleared
<1>3. \A q \in ASID : q # p =>
        /\ pc'[q] = pc[q]
        /\ Starting(q)' <=> Starting(q)
        /\ Filling(q)' <=> Filling(q)
  BY <1>1 DEF Starting, Filling, Booting, Paging, ControlInv, TypeOK
<1>4. pc'[p] = "signal"
  BY <1>1 DEF ControlInv, TypeOK
<1>5. Owners'
  <2>1. ASSUME NEW g \in Frame, swapPool'[g] # Free
        PROVE  \E q \in ASID : swapPool'[g][1] = q /\ pc'[q] \notin Ended /\ ~Starting(q)'
    <3>1. swapPool'[g] = swapPool[g] /\ swapPool[g][1] \in ASID \ {p}
      BY <1>2, <2>1 DEF ControlInv, TypeOK
    <3> QED BY <1>3, <2>1, <3>1 DEF MemoryInv, Owners
  <2> QED BY <2>1 DEF Owners, Starting, Booting
<1>6. Arm'
  BY <1>1, <1>3, <1>4, ArmFrame DEF MemoryInv
<1>7. ASSUME NEW q \in ASID, pc'[q] \notin Ended, NEW i \in Index
      PROVE  Mapping(q, i)'
  <2>1. q # p
    BY <1>4, <1>7 DEF Ended
  <2>2. Mapping(q, i)
    BY <1>3, <1>7, <2>1 DEF MemoryInv
  <2>3. pte[q][i] \in Frame => swapPool'[pte[q][i]] = swapPool[pte[q][i]]
    BY <1>2, <2>1, <2>2 DEF Mapping
  <2>4. \A r \in ASID : Filling(r)' => Filling(r)
    BY <1>1, <1>3, <1>4 DEF Filling, Paging
  <2>5. tlb'[q][i] = Absent
    BY <1>1
  <2> QED BY <1>1, <2>2, <2>3, <2>4, <2>5 DEF Mapping
<1> QED BY <1>5, <1>6, <1>7 DEF MemoryInv

LEMMA RootMemory ==
  ASSUME ControlInv, SemInv, MemoryInv, RootStep
  PROVE  MemoryInv'
<1>1. CASE CreateUser
  <2>1. PICK n \in ASID :
          /\ n = MAXUPROC + 1 - left /\ n # Root /\ n > MAXUPROC - left
          /\ pc[Root] = "create"
    BY <1>1, Constants, SizeAssumption
       DEF SizeAssumption, ASID, CreateUser, At, ControlInv, RootControl
  <2>2. pc[n] = "unborn"
    BY <2>1 DEF ControlInv, RootControl
  <2>3. /\ pc'[n] = "tape"
        /\ \A q \in ASID : q # n => pc'[q] = pc[q]
        /\ UNCHANGED <<io, paging, memory>>
    BY <1>1, <2>1, Constants DEF CreateUser, ControlInv, TypeOK
  <2>4. io[n] = None
    BY <2>1, <2>2 DEF DiskLabel, Ended, Booting, Paging, ControlInv, Control, OperationOK
  <2>5. /\ ~Filling(n)' /\ pc[n] \notin Ended /\ pc'[n] \notin Ended
        /\ Starting(n)
    BY <2>2, <2>3, <2>4 DEF Filling, Starting, Paging, Ended
  <2>6. UNCHANGED <<io, fNo, swapPool, pte, tlb, diskCyl>>
    BY <2>3 DEF paging, memory
  <2>7. Arm'
    BY <2>1, <2>3, <2>6, ArmFrame DEF MemoryInv
  <2> QED BY <2>1, <2>3, <2>5, <2>6, <2>7, MemoryFrame DEF MemoryInv
<1>2. CASE WaitForUser
  <2>1. /\ \A q \in ASID : pc'[q] = pc[q]
        /\ UNCHANGED <<io, fNo, swapPool, pte, tlb, diskCyl>>
    BY <1>2, Constants DEF WaitForUser, Goto, paging, memory, ControlInv, TypeOK
  <2>2. \A q \in ASID : (Starting(q)' <=> Starting(q)) /\ (Filling(q)' <=> Filling(q))
    BY <2>1 DEF Starting, Filling, Booting, Paging
  <2>3. PICK p \in ASID : TRUE
    BY Constants
  <2>4. Arm'
    BY <2>1 DEF MemoryInv, Arm
  <2> QED BY <2>1, <2>2, <2>3, <2>4, MemoryFrame DEF MemoryInv
<1>3. CASE RootEnd
  <2>1. /\ pc[Root] = "end" /\ ~Blocked(Root)
        /\ pc'[Root] = "dead" /\ \A p \in ASID : pc'[p] \in {"exit", "dead"}
        /\ UNCHANGED swapPool
    BY <1>3, RootEndFacts DEF paging
  <2>2. \A p \in ASID : pc[p] \in {"exit", "dead"}
    BY <2>1, AllCompleted
  <2>3. \A f \in Frame : swapPool[f] = Free
    BY <2>2 DEF MemoryInv, Owners, Ended, ControlInv, TypeOK
  <2> QED BY <2>1, <2>3 DEF MemoryInv, Owners, Arm, Ended
<1> QED BY <1>1, <1>2, <1>3 DEF RootStep

LEMMA NextMemory ==
  ASSUME ControlInv, SemInv, MemoryInv, [Next]_vars
  PROVE  MemoryInv'
<1>1. CASE UNCHANGED vars
  BY <1>1 DEF MemoryInv, Owners, Arm, Mapping, Starting, Filling, Booting, Paging,
              vars, paging, memory
<1>2. CASE RootStep
  BY <1>2, RootMemory
<1>3. ASSUME NEW p \in ASID, SystemStep(p)
      PROVE  MemoryInv'
  BY <1>3, HarmlessMemory, SeekDoneMemory, ChooseFrameMemory, LoadPageMemory,
     ClearFramesMemory DEF SystemStep, Harmless
<1>4. ASSUME NEW p \in ASID, UserStep(p)
      PROVE  MemoryInv'
  BY <1>4, HarmlessMemory DEF UserStep, Harmless
<1> QED BY <1>1, <1>2, <1>3, <1>4 DEF Next, Halted

-----------------------------------------------------------------------------
(* The theorems.                                                           *)

THEOREM VmInvariant == Spec => []Inv
<1>1. Init => Inv
  BY InitControl, InitSem, InitMemory DEF Inv
<1>2. Inv /\ [Next]_vars => Inv'
  BY NextControl, NextSem, NextMemory DEF Inv
<1> QED BY <1>1, <1>2, PTL DEF Spec

(* Two processes never share a frame through their page tables, and no     *)
(* stale translation survives in the TLB, whatever the pager does between  *)
(* the accesses of the programs.                                           *)
THEOREM SwapPoolCorrect == Spec => []SwapPoolOK
<1>1. ASSUME Inv PROVE SwapPoolOK
  <2> SUFFICES ASSUME NEW p \in ASID, pc[p] \notin Ended, NEW v \in Page
               PROVE  LET e == pte[p][pteIndex(v)] IN
                        /\ e \in Frame => swapPool[e] = <<p, v>>
                        /\ tlb[p][pteIndex(v)] \in {e, Absent}
    BY DEF SwapPoolOK
  <2> DEFINE e == pte[p][pteIndex(v)]
  <2>1. Mapping(p, pteIndex(v))
    BY <1>1, PageIndex DEF Inv, MemoryInv
  <2>2. ASSUME e \in Frame PROVE swapPool[e] = <<p, v>>
    <3>1. /\ swapPool[e] # Free /\ swapPool[e][1] = p
          /\ pteIndex(swapPool[e][2]) = pteIndex(v)
      BY <2>1, <2>2 DEF Mapping
    <3>2. swapPool[e] \in ASID \X Page
      BY <1>1, <2>2, <3>1 DEF Inv, ControlInv, TypeOK
    <3>3. swapPool[e][2] = v
      BY <3>1, <3>2, PageIndex
    <3> QED BY <3>1, <3>2, <3>3
  <2> QED BY <2>1, <2>2 DEF Mapping
<1> QED BY <1>1, VmInvariant, PTL

(* The disk never transfers a frame that a program can reach: the pager    *)
(* unmaps a frame before it writes it out, and maps it after it was read.  *)
THEOREM DmaCorrect == Spec => []DmaSafe
<1>1. ASSUME Inv PROVE DmaSafe
  <2> SUFFICES ASSUME NEW q \in ASID, pc[q] = "transferWait",
                      NEW p \in ASID, pc[p] \notin Ended, NEW i \in Index
               PROVE  pte[p][i] # io[q].buf /\ tlb[p][i] # io[q].buf
    BY DEF DmaSafe
  <2>1. /\ tlb[p][i] \in {pte[p][i], Absent}
        /\ pte[p][i] \in Frame => (Filling(q) => pte[p][i] # fNo[q])
    BY <1>1 DEF Inv, MemoryInv, Mapping
  <2>2. pte[p][i] \in Frame \cup {Invalid}
    BY <1>1 DEF Inv, ControlInv, TypeOK
  <2>3. \/ io[q].buf = TapeBuffer
        \/ Filling(q) /\ io[q].buf = fNo[q] /\ fNo[q] \in Frame
    BY <1>1 DEF Inv, ControlInv, Control, OperationOK, Booting, Paging, Filling,
                DiskLabel
  <2> QED BY <2>1, <2>2, <2>3, Constants DEF Invalid, Absent, TapeBuffer
<1> QED BY <1>1, VmInvariant, PTL

(* A transfer begins where the same process moved the arm, because disk0sem *)
(* is held from before the seek until after the transfer.                  *)
THEOREM ArmCorrect == Spec => []ArmInPlace
<1>1. Inv => ArmInPlace
  BY DEF Inv, MemoryInv, Arm, ArmInPlace
<1> QED BY <1>1, VmInvariant, PTL

(* The root is past its P operations on masterSem only when every user     *)
(* process has ended and the swap pool is empty, also when some were       *)
(* killed without a V.                                                     *)
THEOREM GracefulEndCorrect == Spec => []GracefulEnd
<1>1. ASSUME Inv PROVE GracefulEnd
  <2> SUFFICES ASSUME pc[Root] \in {"end", "dead"}, ~Blocked(Root)
               PROVE  /\ \A p \in ASID : pc[p] \in {"exit", "dead"}
                      /\ \A f \in Frame : swapPool[f] = Free
    BY DEF GracefulEnd
  <2>1. \A p \in ASID : pc[p] \in {"exit", "dead"}
    BY <1>1, AllCompleted DEF Inv, ControlInv, RootControl
  <2>2. \A f \in Frame : swapPool[f] = Free
    BY <1>1, <2>1 DEF Inv, MemoryInv, Owners, Ended, ControlInv, TypeOK
  <2> QED BY <2>1, <2>2
<1> QED BY <1>1, VmInvariant, PTL
=============================================================================
