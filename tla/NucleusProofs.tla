---------------------------- MODULE NucleusProofs ----------------------------
(***************************************************************************)
(* Proofs about Nucleus, for any number of pcbs, semaphores and ports.     *)
(***************************************************************************)
EXTENDS Nucleus, ProcQTheorems, FiniteSetTheorems

-----------------------------------------------------------------------------
(* Every pcb in use is in one place, and a free one in none: what each of  *)
(* the moves of the kernel does to that, for queues of any length.         *)

(* OnePlace, as a predicate of the ready queue, the running process, the   *)
(* semaphore queues, the p_semAdd fields and the free pcbs.                *)
Placed(rq, cur, sq, sa, free) ==
  /\ NoDup(rq) /\ \A s \in Sem : NoDup(sq[s])
  /\ \A p \in Proc, s \in Sem : InQ(sq[s], p) <=> sa[p] = s
  /\ \A p \in free : p # cur /\ ~InQ(rq, p) /\ sa[p] = NULL
  /\ \A p \in Proc \ free :
       /\ p = cur => ~InQ(rq, p) /\ sa[p] = NULL
       /\ InQ(rq, p) => sa[p] = NULL
       /\ p = cur \/ InQ(rq, p) \/ sa[p] # NULL

PlaceTypes(rq, cur, sq, sa, free) ==
  /\ rq \in Seq(Proc)
  /\ cur \in Proc \cup {NULL}
  /\ sq \in [Sem -> Seq(Proc)]
  /\ sa \in [Proc -> Sem \cup {NULL}]
  /\ free \in SUBSET Proc

(* The scheduler takes the head of the ready queue. *)
LEMMA PlaceDispatch ==
  ASSUME NEW rq, NEW sq, NEW sa, NEW free,
         PlaceTypes(rq, NULL, sq, sa, free), Placed(rq, NULL, sq, sa, free)
  PROVE  Placed(removeProcQ(rq), headProcQ(rq), sq, sa, free)
<1>1. CASE rq = <<>>
  BY <1>1 DEF removeProcQ, headProcQ, emptyProcQ
<1>2. CASE rq # <<>>
  <2> DEFINE h == headProcQ(rq)
             r == removeProcQ(rq)
  <2>1. rq \in Seq(Proc)
    BY DEF PlaceTypes
  <2>2. /\ h \in Proc
        /\ InQ(rq, h)
        /\ \A x : InQ(r, x) => InQ(rq, x)
        /\ \A x : InQ(rq, x) => x = h \/ InQ(r, x)
        /\ NoDup(rq) => NoDup(r) /\ ~InQ(r, h)
    BY <1>2, <2>1, RemoveProcQ
  <2> HIDE DEF h, r
  <2>3. Placed(r, h, sq, sa, free)
    BY <2>2, ProcAssumption DEF Placed, PlaceTypes
  <2> QED BY <2>3 DEF h, r
<1> QED BY <1>1, <1>2

(* The running process is put back at the tail of the ready queue. *)
LEMMA PlacePreempt ==
  ASSUME NEW rq, NEW cur \in Proc, NEW sq, NEW sa, NEW free,
         PlaceTypes(rq, cur, sq, sa, free), Placed(rq, cur, sq, sa, free)
  PROVE  Placed(insertProcQ(rq, cur), NULL, sq, sa, free)
<1> DEFINE r == insertProcQ(rq, cur)
<1>1. /\ \A x : InQ(r, x) <=> x = cur \/ InQ(rq, x)
      /\ NoDup(rq) /\ ~InQ(rq, cur) => NoDup(r)
  BY InsertProcQ DEF PlaceTypes
<1> HIDE DEF r
<1>2. cur \notin free /\ ~InQ(rq, cur) /\ sa[cur] = NULL
  BY DEF Placed
<1>3. Placed(r, NULL, sq, sa, free)
  BY <1>1, <1>2, ProcAssumption DEF Placed, PlaceTypes
<1> QED BY <1>3 DEF r

(* The running process is blocked on semaphore s. *)
LEMMA PlaceBlock ==
  ASSUME NEW rq, NEW cur \in Proc, NEW sq, NEW sa, NEW free, NEW s \in Sem,
         PlaceTypes(rq, cur, sq, sa, free), Placed(rq, cur, sq, sa, free)
  PROVE  Placed(rq, NULL, [sq EXCEPT ![s] = insertProcQ(@, cur)],
                [sa EXCEPT ![cur] = s], free)
<1> DEFINE r == insertProcQ(sq[s], cur)
           sqN == [sq EXCEPT ![s] = r]
           saN == [sa EXCEPT ![cur] = s]
<1>1. sq[s] \in Seq(Proc)
  BY DEF PlaceTypes
<1>2. /\ \A x : InQ(r, x) <=> x = cur \/ InQ(sq[s], x)
      /\ NoDup(sq[s]) /\ ~InQ(sq[s], cur) => NoDup(r)
  BY <1>1, InsertProcQ
<1>3. cur \notin free /\ ~InQ(rq, cur) /\ sa[cur] = NULL
  BY DEF Placed
<1>4. /\ \A t \in Sem : sqN[t] = IF t = s THEN r ELSE sq[t]
      /\ \A p \in Proc : saN[p] = IF p = cur THEN s ELSE sa[p]
  BY DEF PlaceTypes
<1>5. \A t \in Sem : ~InQ(sq[t], cur) /\ t # NULL
  BY <1>3, SemAssumption DEF Placed
<1> HIDE DEF r, sqN, saN
<1>6. \A t \in Sem : NoDup(sqN[t])
  BY <1>2, <1>4, <1>5 DEF Placed
<1>7. \A p \in Proc, t \in Sem : InQ(sqN[t], p) <=> saN[p] = t
  BY <1>2, <1>4, <1>5 DEF Placed
<1>8. Placed(rq, NULL, sqN, saN, free)
  BY <1>3, <1>4, <1>5, <1>6, <1>7, ProcAssumption DEF Placed, PlaceTypes
<1> QED BY <1>8 DEF r, sqN, saN

(* A V takes the head of the queue of s to the tail of the ready queue. *)
LEMMA PlaceWake ==
  ASSUME NEW rq, NEW cur, NEW sq, NEW sa, NEW free, NEW s \in Sem,
         PlaceTypes(rq, cur, sq, sa, free), Placed(rq, cur, sq, sa, free),
         sq[s] # <<>>
  PROVE  Placed(insertProcQ(rq, headProcQ(sq[s])), cur,
                [sq EXCEPT ![s] = removeProcQ(@)],
                [sa EXCEPT ![headProcQ(sq[s])] = NULL], free)
<1> DEFINE h == headProcQ(sq[s])
           q == removeProcQ(sq[s])
           r == insertProcQ(rq, h)
           sqN == [sq EXCEPT ![s] = q]
           saN == [sa EXCEPT ![h] = NULL]
<1>1. sq[s] \in Seq(Proc) /\ rq \in Seq(Proc)
  BY DEF PlaceTypes
<1>2. /\ h \in Proc
      /\ InQ(sq[s], h)
      /\ \A x : InQ(q, x) => InQ(sq[s], x)
      /\ \A x : InQ(sq[s], x) => x = h \/ InQ(q, x)
      /\ NoDup(sq[s]) => NoDup(q) /\ ~InQ(q, h)
  BY <1>1, RemoveProcQ
<1>3. /\ \A x : InQ(r, x) <=> x = h \/ InQ(rq, x)
      /\ NoDup(rq) /\ ~InQ(rq, h) => NoDup(r)
  BY <1>1, <1>2, InsertProcQ
<1>4. /\ \A t \in Sem : sqN[t] = IF t = s THEN q ELSE sq[t]
      /\ \A p \in Proc : saN[p] = IF p = h THEN NULL ELSE sa[p]
  BY <1>2 DEF PlaceTypes
<1> HIDE DEF h, q, r, sqN, saN
<1>5. /\ sa[h] = s /\ s # NULL
      /\ h \notin free /\ h # cur /\ ~InQ(rq, h)
  BY <1>2, SemAssumption DEF Placed
<1>6. /\ NoDup(r)
      /\ \A t \in Sem : NoDup(sqN[t])
  BY <1>2, <1>3, <1>4, <1>5 DEF Placed
<1>7. ASSUME NEW p \in Proc, NEW t \in Sem
      PROVE  InQ(sqN[t], p) <=> saN[p] = t
  <2>1. t # NULL
    BY SemAssumption
  <2>2. InQ(sq[t], p) <=> sa[p] = t
    BY DEF Placed
  <2>3. NoDup(sq[s])
    BY DEF Placed
  <2>4. CASE t = s
    BY <1>2, <1>4, <2>1, <2>2, <2>3, <2>4
  <2>5. CASE t # s
    BY <1>4, <1>5, <2>1, <2>2, <2>5
  <2> QED BY <2>4, <2>5
<1>8. Placed(r, cur, sqN, saN, free)
  BY <1>3, <1>4, <1>5, <1>6, <1>7 DEF Placed, PlaceTypes
<1> QED BY <1>8 DEF h, q, r, sqN, saN

(* The clock tick takes all of the queue of s to the ready queue. *)
LEMMA PlaceWakeAll ==
  ASSUME NEW rq, NEW cur, NEW sq, NEW sa, NEW free, NEW s \in Sem,
         PlaceTypes(rq, cur, sq, sa, free), Placed(rq, cur, sq, sa, free)
  PROVE  Placed(rq \o sq[s], cur, [sq EXCEPT ![s] = <<>>],
                [p \in Proc |-> IF InQ(sq[s], p) THEN NULL ELSE sa[p]], free)
<1> DEFINE r == rq \o sq[s]
           sqN == [sq EXCEPT ![s] = <<>>]
           saN == [p \in Proc |-> IF InQ(sq[s], p) THEN NULL ELSE sa[p]]
<1>1. sq[s] \in Seq(Proc) /\ rq \in Seq(Proc)
  BY DEF PlaceTypes
<1>2. /\ \A x : InQ(r, x) <=> InQ(rq, x) \/ InQ(sq[s], x)
      /\ NoDup(rq) /\ NoDup(sq[s]) /\ (\A x : ~(InQ(rq, x) /\ InQ(sq[s], x)))
           => NoDup(r)
  BY <1>1, JoinQueues
<1>3. \A x : InQ(sq[s], x) => x \in Proc
  BY <1>1, ElementOfSeq DEF InQ
<1>4. /\ \A t \in Sem : sqN[t] = IF t = s THEN <<>> ELSE sq[t]
      /\ \A p \in Proc : saN[p] = IF InQ(sq[s], p) THEN NULL ELSE sa[p]
  BY DEF PlaceTypes
<1>5. (\A x : ~InQ(<<>>, x)) /\ NoDup(<<>>)
  BY DEF InQ, NoDup
<1> HIDE DEF r, sqN, saN
<1>6. \A x : InQ(sq[s], x) =>
        sa[x] = s /\ s # NULL /\ x \notin free /\ x # cur /\ ~InQ(rq, x)
  BY <1>3, SemAssumption DEF Placed
<1>7. /\ NoDup(r)
      /\ \A t \in Sem : NoDup(sqN[t])
  BY <1>2, <1>4, <1>5, <1>6 DEF Placed
<1>8. ASSUME NEW p \in Proc, NEW t \in Sem
      PROVE  InQ(sqN[t], p) <=> saN[p] = t
  <2>1. t # NULL
    BY SemAssumption
  <2>2. InQ(sq[t], p) <=> sa[p] = t
    BY DEF Placed
  <2>3. InQ(sq[s], p) <=> sa[p] = s
    BY DEF Placed
  <2> QED BY <1>4, <1>5, <2>1, <2>2, <2>3
<1>9. \A p \in free : p # cur /\ ~InQ(r, p) /\ saN[p] = NULL
  BY <1>2, <1>4, <1>6 DEF Placed, PlaceTypes
<1>10. ASSUME NEW p \in Proc \ free
       PROVE  /\ p = cur => ~InQ(r, p) /\ saN[p] = NULL
              /\ InQ(r, p) => saN[p] = NULL
              /\ p = cur \/ InQ(r, p) \/ saN[p] # NULL
  BY <1>2, <1>4, <1>6 DEF Placed
<1>11. Placed(r, cur, sqN, saN, free)
  BY <1>7, <1>8, <1>9, <1>10 DEF Placed
<1> QED BY <1>11 DEF r, sqN, saN

(* A pcb of the free list becomes ready. *)
LEMMA PlaceCreate ==
  ASSUME NEW rq, NEW cur, NEW sq, NEW sa, NEW free, NEW p \in free,
         PlaceTypes(rq, cur, sq, sa, free), Placed(rq, cur, sq, sa, free)
  PROVE  Placed(insertProcQ(rq, p), cur, sq, sa, free \ {p})
<1> DEFINE r == insertProcQ(rq, p)
<1>1. /\ \A x : InQ(r, x) <=> x = p \/ InQ(rq, x)
      /\ NoDup(rq) /\ ~InQ(rq, p) => NoDup(r)
  BY InsertProcQ DEF PlaceTypes
<1> HIDE DEF r
<1>2. p \in Proc /\ p # cur /\ ~InQ(rq, p) /\ sa[p] = NULL
  BY DEF Placed, PlaceTypes
<1>3. Placed(r, cur, sq, sa, free \ {p})
  BY <1>1, <1>2 DEF Placed
<1> QED BY <1>3 DEF r

(* A ready pcb that outProcQ finds is freed. *)
LEMMA PlaceFreeReady ==
  ASSUME NEW rq, NEW cur, NEW sq, NEW sa, NEW free, NEW p \in Proc,
         PlaceTypes(rq, cur, sq, sa, free), Placed(rq, cur, sq, sa, free),
         p \notin free, outFinds(rq, p)
  PROVE  Placed(outProcQ(rq, p), cur, sq, sa, free \cup {p})
<1> DEFINE r == outProcQ(rq, p)
<1>1. /\ InQ(rq, p)
      /\ \A x : InQ(r, x) => InQ(rq, x)
      /\ \A x : InQ(rq, x) => x = p \/ InQ(r, x)
      /\ NoDup(rq) => NoDup(r) /\ ~InQ(r, p)
  BY OutProcQ DEF PlaceTypes
<1> HIDE DEF r
<1>2. p # cur /\ sa[p] = NULL
  BY <1>1 DEF Placed
<1>3. Placed(r, cur, sq, sa, free \cup {p})
  BY <1>1, <1>2 DEF Placed
<1> QED BY <1>3 DEF r

(* A blocked pcb that outProcQ finds on the queue of s is freed. *)
LEMMA PlaceFreeBlocked ==
  ASSUME NEW rq, NEW cur, NEW sq, NEW sa, NEW free, NEW p \in Proc,
         NEW s \in Sem,
         PlaceTypes(rq, cur, sq, sa, free), Placed(rq, cur, sq, sa, free),
         outFinds(sq[s], p)
  PROVE  Placed(rq, cur, [sq EXCEPT ![s] = outProcQ(@, p)],
                [sa EXCEPT ![p] = NULL], free \cup {p})
<1> DEFINE q == outProcQ(sq[s], p)
           sqN == [sq EXCEPT ![s] = q]
           saN == [sa EXCEPT ![p] = NULL]
<1>1. sq[s] \in Seq(Proc)
  BY DEF PlaceTypes
<1>2. /\ InQ(sq[s], p)
      /\ \A x : InQ(q, x) => InQ(sq[s], x)
      /\ \A x : InQ(sq[s], x) => x = p \/ InQ(q, x)
      /\ NoDup(sq[s]) => NoDup(q) /\ ~InQ(q, p)
  BY <1>1, OutProcQ
<1>3. /\ \A t \in Sem : sqN[t] = IF t = s THEN q ELSE sq[t]
      /\ \A x \in Proc : saN[x] = IF x = p THEN NULL ELSE sa[x]
  BY DEF PlaceTypes
<1> HIDE DEF q, sqN, saN
<1>4. /\ sa[p] = s /\ s # NULL
      /\ p \notin free /\ p # cur /\ ~InQ(rq, p)
  BY <1>2, SemAssumption DEF Placed
<1>5. \A t \in Sem : NoDup(sqN[t])
  BY <1>2, <1>3 DEF Placed
<1>6. ASSUME NEW x \in Proc, NEW t \in Sem
      PROVE  InQ(sqN[t], x) <=> saN[x] = t
  <2>1. t # NULL
    BY SemAssumption
  <2>2. InQ(sq[t], x) <=> sa[x] = t
    BY DEF Placed
  <2>3. NoDup(sq[s])
    BY DEF Placed
  <2>4. CASE t = s
    BY <1>2, <1>3, <2>1, <2>2, <2>3, <2>4
  <2>5. CASE t # s
    BY <1>3, <1>4, <2>1, <2>2, <2>5
  <2> QED BY <2>4, <2>5
<1>7. Placed(rq, cur, sqN, saN, free \cup {p})
  BY <1>3, <1>4, <1>5, <1>6 DEF Placed, PlaceTypes
<1> QED BY <1>7 DEF q, sqN, saN

(* The running process is freed. *)
LEMMA PlaceFreeCurrent ==
  ASSUME NEW rq, NEW cur \in Proc, NEW sq, NEW sa, NEW free,
         PlaceTypes(rq, cur, sq, sa, free), Placed(rq, cur, sq, sa, free)
  PROVE  Placed(rq, NULL, sq, sa, free \cup {cur})
BY ProcAssumption DEF Placed, PlaceTypes

-----------------------------------------------------------------------------
(* Types of the pieces the actions are made of.                            *)

(* The clock and the semaphore of every port are semaphores. *)
LEMMA DevSemIsSem ==
  /\ Clock \in DevSem /\ Clock \in Sem
  /\ \A r \in Port : semIndex(r) \in DevSem /\ semIndex(r) \in Sem
BY DEF Sem, DevSem

(* The scheduler leaves the processor's state well typed. *)
LEMMA SchedulerType ==
  ASSUME NEW rq \in Seq(Proc), NEW cnt \in Int, NEW sft \in Int,
         machine \in {"live", "halt", "panic", "lost"},
         scheduler(rq, cnt, sft)
  PROVE  /\ readyQue' \in Seq(Proc)
         /\ currentProc' \in Proc \cup {NULL}
         /\ waiting' \in BOOLEAN
         /\ machine' \in {"live", "halt", "panic", "lost"}
<1>1. noReady(cnt, sft) \in {"live", "halt", "panic", "lost"}
  BY DEF noReady
<1> QED BY <1>1, RemoveProcQType DEF scheduler, emptyProcQ

(* So does the return from an interrupt. *)
LEMMA ResumeType ==
  ASSUME TypeOK, NEW rq \in Seq(Proc), NEW sft \in Int, resume(rq, sft)
  PROVE  /\ readyQue' \in Seq(Proc)
         /\ currentProc' \in Proc \cup {NULL}
         /\ waiting' \in BOOLEAN
         /\ machine' \in {"live", "halt", "panic", "lost"}
<1>1. CASE waiting
  BY <1>1, SchedulerType DEF resume, TypeOK
<1>2. CASE ~waiting
  BY <1>2 DEF resume, TypeOK
<1> QED BY <1>1, <1>2

(* A V moves a pcb from the queue of its semaphore to the ready queue. *)
LEMMA UnblockType ==
  ASSUME TypeOK, NEW s \in Sem, NEW v, unblock(s, v)
  PROVE  /\ readyAfterV(s, v) \in Seq(Proc)
         /\ semQ' \in [Sem -> Seq(Proc)]
         /\ p_semAdd' \in [Proc -> Sem \cup {NULL}]
         /\ waitsOn' \in [Proc -> Port \cup {NULL}]
<1>1. CASE wakes(s, v)
  <2>1. semQ[s] \in Seq(Proc) /\ semQ[s] # <<>>
    BY <1>1 DEF TypeOK, wakes
  <2>2. headProcQ(semQ[s]) \in Proc /\ removeProcQ(semQ[s]) \in Seq(Proc)
    BY <2>1, RemoveProcQ
  <2>3. readyAfterV(s, v) \in Seq(Proc)
    BY <1>1, <2>2, InsertProcQ DEF TypeOK, readyAfterV
  <2> QED BY <1>1, <2>1, <2>2, <2>3 DEF unblock, removeBlocked, TypeOK
<1>2. CASE ~wakes(s, v)
  BY <1>2 DEF unblock, readyAfterV, TypeOK
<1> QED BY <1>1, <1>2

(* startKill opens the outermost frame, that of the running process. *)
LEMMA StartKillType ==
  ASSUME TypeOK, Running, startKill
  PROVE  TypeOK'
<1>1. currentProc \in Proc
  BY DEF TypeOK, Running
<1>2. <<currentProc>> \in Seq(Proc) /\ <<currentProc>>[1] = currentProc
  BY <1>1
<1> QED BY <1>1, <1>2 DEF startKill, TypeOK, cpu, tree, Running

(* P, WAITCLOCK and WAITIO block the running process or return. *)
LEMMA WaitType ==
  ASSUME TypeOK, NEW s \in Sem, wait(s)
  PROVE  /\ currentProc \in Proc
         /\ procCnt' \in Int
         /\ sftBlkCnt' \in Int
         /\ readyQue' \in Seq(Proc)
         /\ currentProc' \in Proc \cup {NULL}
         /\ waiting' \in BOOLEAN
         /\ semV' \in [Sem -> Int]
         /\ semQ' \in [Sem -> Seq(Proc)]
         /\ p_semAdd' \in [Proc -> Sem \cup {NULL}]
         /\ p_prnt' \in [Proc -> Proc \cup {NULL}]
         /\ kids' \in [Proc -> Seq(Proc)]
         /\ p_new' \in [Proc -> SUBSET TrapType]
         /\ pcbFree' \in SUBSET Proc
         /\ devReg' \in [Port -> {"READY", "BUSY", "DONE"}]
         /\ machine' \in {"live", "halt", "panic", "lost"}
         /\ kstack' = <<>> /\ kstack' \in Seq(Proc)
<1>1. currentProc \in Proc /\ kstack = <<>> /\ kstack \in Seq(Proc)
  BY DEF TypeOK, wait, Running
<1>2. /\ procCnt' \in Int /\ p_prnt' \in [Proc -> Proc \cup {NULL}]
      /\ kids' \in [Proc -> Seq(Proc)] /\ p_new' \in [Proc -> SUBSET TrapType]
      /\ pcbFree' \in SUBSET Proc
      /\ devReg' \in [Port -> {"READY", "BUSY", "DONE"}]
      /\ semV' \in [Sem -> Int]
  BY DEF TypeOK, wait, tree
<1>3. CASE semV[s] - 1 < 0
  <2>1. /\ insertBlocked(s, currentProc) /\ sftBlkCnt' = softBlock(s)
        /\ scheduler(readyQue, procCnt, softBlock(s))
    BY <1>3 DEF wait
  <2>2. softBlock(s) \in Int
    BY DEF softBlock, TypeOK
  <2>3. insertProcQ(semQ[s], currentProc) \in Seq(Proc)
    BY <1>1, InsertProcQ DEF TypeOK
  <2>4. semQ' \in [Sem -> Seq(Proc)] /\ p_semAdd' \in [Proc -> Sem \cup {NULL}]
    BY <1>1, <2>1, <2>3 DEF insertBlocked, TypeOK
  <2>5. /\ readyQue' \in Seq(Proc) /\ currentProc' \in Proc \cup {NULL}
        /\ waiting' \in BOOLEAN
        /\ machine' \in {"live", "halt", "panic", "lost"}
    BY <2>1, <2>2, SchedulerType DEF TypeOK
  <2> QED BY <1>1, <1>2, <2>1, <2>2, <2>4, <2>5 DEF wait
<1>4. CASE ~(semV[s] - 1 < 0)
  BY <1>1, <1>2, <1>4 DEF wait, cpu, TypeOK
<1> QED BY <1>3, <1>4

(* The frame of terminateprocess that ends is that of a pcb, and what is   *)
(* left of the stack still starts with the running process.                *)
LEMMA FrameType ==
  ASSUME TypeOK, kstack # <<>>
  PROVE  /\ top \in Proc
         /\ currentProc \in Proc
         /\ Len(kstack) \in Nat \ {0}
         /\ Front(kstack) \in Seq(Proc)
         /\ Len(Front(kstack)) = Len(kstack) - 1
         /\ \A i \in 1..Len(kstack) - 1 : Front(kstack)[i] = kstack[i]
         /\ Front(kstack) # <<>> => Front(kstack)[1] = currentProc
<1>1. kstack \in Seq(Proc) /\ currentProc \in Proc /\ kstack[1] = currentProc
  BY DEF TypeOK
<1>2. Len(kstack) \in Nat \ {0}
  BY <1>1, EmptySeq
<1>3. top \in Proc
  BY <1>1, <1>2, ElementOfSeq DEF top, Last
<1>4. \A i \in 1..Len(kstack) - 1 : kstack[i] \in Proc
  BY <1>1, <1>2, ElementOfSeq
<1>5. /\ Front(kstack) \in Seq(Proc)
      /\ Len(Front(kstack)) =
           IF 1 <= Len(kstack) - 1 THEN Len(kstack) - 1 - 1 + 1 ELSE 0
      /\ \A i \in 1..Len(kstack) - 1 - 1 + 1 :
           Front(kstack)[i] = kstack[1 + i - 1]
  BY <1>2, <1>4, SubSeqProperties DEF Front
<1>6. /\ Len(Front(kstack)) = Len(kstack) - 1
      /\ \A i \in 1..Len(kstack) - 1 : Front(kstack)[i] = kstack[i]
  <2> DEFINE n == Len(kstack)
             f == Front(kstack)
  <2> HIDE DEF n, f
  <2>0. n \in Nat \ {0} /\ Len(f) = IF 1 <= n - 1 THEN n - 1 - 1 + 1 ELSE 0
    BY <1>2, <1>5 DEF n, f
  <2>a. Len(f) = n - 1
    BY <2>0
  <2>1. Len(Front(kstack)) = Len(kstack) - 1
    BY <2>a DEF n, f
  <2>2. ASSUME NEW i \in 1..Len(kstack) - 1 PROVE Front(kstack)[i] = kstack[i]
    <3>1. i \in 1..Len(kstack) - 1 - 1 + 1 /\ 1 + i - 1 = i
      BY <1>2
    <3> QED BY <1>5, <3>1
  <2> QED BY <2>1, <2>2
<1>7. ASSUME Front(kstack) # <<>> PROVE Front(kstack)[1] = currentProc
  <2>1. Len(Front(kstack)) \in Nat \ {0}
    BY <1>5, <1>7, EmptySeq
  <2>2. 1 \in 1..Len(kstack) - 1
    BY <1>2, <1>6, <2>1
  <2> QED BY <1>1, <1>6, <2>2
<1> QED BY <1>1, <1>2, <1>3, <1>5, <1>6, <1>7

-----------------------------------------------------------------------------
(* Type correctness.                                                       *)

LEMMA TypeInit == Init => TypeOK
<1> SUFFICES ASSUME Init PROVE TypeOK
  OBVIOUS
<1>1. /\ currentProc \in Proc /\ readyQue \in Seq(Proc) /\ kstack = <<>>
      /\ semQ \in [Sem -> Seq(Proc)] /\ kids \in [Proc -> Seq(Proc)]
      /\ kstack \in Seq(Proc)
  BY EmptySeq DEF Init
<1>2. semV \in [Sem -> Int]
  BY DEF Init
<1>3. /\ p_semAdd \in [Proc -> Sem \cup {NULL}]
      /\ p_prnt \in [Proc -> Proc \cup {NULL}]
      /\ p_new \in [Proc -> SUBSET TrapType]
      /\ devReg \in [Port -> {"READY", "BUSY", "DONE"}]
      /\ waitsOn \in [Proc -> Port \cup {NULL}]
  BY DEF Init
<1>4. procCnt \in Int /\ sftBlkCnt \in Int /\ pcbFree \in SUBSET Proc
  BY DEF Init
<1>5. waiting \in BOOLEAN /\ machine \in {"live", "halt", "panic", "lost"}
  BY DEF Init
<1> QED BY <1>1, <1>2, <1>3, <1>4, <1>5 DEF TypeOK

(* Every end of a frame of terminateprocess of a descendant. *)
LEMMA BuryType ==
  ASSUME TypeOK, kstack # <<>>, bury
  PROVE  /\ procCnt' \in Int
         /\ pcbFree' \in SUBSET Proc
         /\ p_new' \in [Proc -> SUBSET TrapType]
         /\ waitsOn' \in [Proc -> Port \cup {NULL}]
BY FrameType DEF TypeOK, bury

LEMMA TypeSysCall == TypeOK /\ SysCall => TypeOK'
<1> SUFFICES ASSUME TypeOK, SysCall PROVE TypeOK'
  OBVIOUS
<1>1. CASE CreateProcess
  <2>1. CASE pcbFree = {}
    BY <1>1, <2>1 DEF CreateProcess, TypeOK, vars
  <2>2. CASE pcbFree # {}
    <3>1. PICK p \in pcbFree :
            /\ pcbFree' = pcbFree \ {p}
            /\ insertChild(currentProc, p)
            /\ readyQue' = insertProcQ(readyQue, p)
            /\ procCnt' = procCnt + 1
            /\ UNCHANGED <<sftBlkCnt, currentProc, waiting, semV, semQ,
                           p_semAdd, p_new, devReg, machine, kstack, waitsOn>>
      BY <1>1, <2>2 DEF CreateProcess
    <3>2. p \in Proc /\ currentProc \in Proc
      BY <1>1 DEF CreateProcess, Running, TypeOK
    <3>3. readyQue' \in Seq(Proc)
      BY <3>1, <3>2, InsertProcQ DEF TypeOK
    <3>4. <<p>> \o kids[currentProc] \in Seq(Proc)
      BY <3>2, ConcatProperties DEF TypeOK
    <3>5. /\ kids' \in [Proc -> Seq(Proc)]
          /\ p_prnt' \in [Proc -> Proc \cup {NULL}]
      BY <3>1, <3>2, <3>4 DEF insertChild, TypeOK
    <3> QED BY <3>1, <3>3, <3>5 DEF TypeOK
  <2> QED BY <2>1, <2>2
<1>2. CASE TerminateProcess \/ WaitIOBadLine
  BY <1>2, StartKillType DEF TerminateProcess, WaitIOBadLine
<1>3. ASSUME NEW s \in USem, V(s) PROVE TypeOK'
  <2>1. s \in Sem
    BY DEF Sem
  <2>2. unblock(s, semV[s] + 1) /\ readyQue' = readyAfterV(s, semV[s] + 1)
    BY <1>3 DEF V
  <2> QED BY <1>3, <2>1, <2>2, UnblockType DEF V, tree, TypeOK
<1>4. ASSUME NEW s \in USem, P(s) PROVE TypeOK'
  <2>1. s \in Sem /\ wait(s)
    BY <1>4 DEF Sem, P
  <2> QED BY <1>4, <2>1, WaitType DEF P, TypeOK
<1>5. CASE WaitForClock
  <2>1. wait(Clock) /\ waitsOn' = waitsOn
    BY <1>5 DEF WaitForClock
  <2> QED BY <2>1, DevSemIsSem, WaitType DEF TypeOK
<1>6. ASSUME NEW r \in Port, WaitIO(r) PROVE TypeOK'
  <2>1. wait(semIndex(r)) /\ semIndex(r) \in Sem
    BY <1>6, DevSemIsSem DEF WaitIO
  <2>2. waitsOn' \in [Proc -> Port \cup {NULL}]
    BY <1>6, <2>1, WaitType DEF WaitIO, TypeOK
  <2> QED BY <2>1, <2>2, WaitType DEF TypeOK
<1>7. ASSUME NEW type \in TrapType, SpecTrapVec(type) PROVE TypeOK'
  <2>1. CASE type \in TrapType /\ type \notin p_new[currentProc]
    <3>1. p_new' = [p_new EXCEPT ![currentProc] = @ \cup {type}]
      BY <1>7, <2>1 DEF SpecTrapVec
    <3>2. p_new' \in [Proc -> SUBSET TrapType]
      BY <3>1 DEF TypeOK
    <3> QED BY <1>7, <2>1, <3>2 DEF SpecTrapVec, cpu, tree, TypeOK
  <2>2. CASE ~(type \in TrapType /\ type \notin p_new[currentProc])
    BY <1>7, <2>2, StartKillType DEF SpecTrapVec
  <2> QED BY <2>1, <2>2
<1>8. ASSUME NEW type \in TrapType, PassUpOrDie(type) PROVE TypeOK'
  <2>1. CASE type \in p_new[currentProc]
    BY <1>8, <2>1 DEF PassUpOrDie, vars, TypeOK
  <2>2. CASE type \notin p_new[currentProc]
    BY <1>8, <2>2, StartKillType DEF PassUpOrDie
  <2> QED BY <2>1, <2>2
<1> QED BY <1>1, <1>2, <1>3, <1>4, <1>5, <1>6, <1>7, <1>8 DEF SysCall

(* outChild looks for p on a list that p is on. *)
LEMMA SiblingPosition ==
  ASSUME TreeOK, NEW p \in Proc, p_prnt[p] \in Proc
  PROVE  /\ sibAt(p) \in 1..Len(kids[p_prnt[p]])
         /\ kids[p_prnt[p]][sibAt(p)] = p
<1>1. \E i \in 1..Len(kids[p_prnt[p]]) : kids[p_prnt[p]][i] = p
  BY DEF TreeOK, InQ
<1> QED BY <1>1 DEF sibAt

(* The handler acknowledges a port that exists. *)
LEMMA ServedPort ==
  ASSUME NEW r \in Port, DeviceInterrupt(r)
  PROVE  servedPort(r) \in Port
<1>1. CASE r[1] # TERMINT
  BY <1>1 DEF servedPort
<1>2. CASE r[1] = TERMINT /\ ~receiverReady(r[2])
  BY <1>2 DEF servedPort, receiverReady
<1>3. CASE r[1] = TERMINT /\ receiverReady(r[2])
  <2>1. devReg[r] = "DONE"
    BY DEF DeviceInterrupt, Serviced, Pending
  <2>2. /\ r = <<r[1], r[2], r[3]>>
        /\ r[3] \in {0, 1}
    BY PortAssumption
  <2>3. r # <<TERMINT, r[2], 1>>
    BY <1>3, <2>1 DEF receiverReady
  <2> QED BY <1>3, <2>2, <2>3 DEF servedPort
<1> QED BY <1>1, <1>2, <1>3

LEMMA TypeKillStep == TypeOK /\ TreeOK /\ KillStep => TypeOK'
<1> SUFFICES ASSUME TypeOK, TreeOK, KillStep PROVE TypeOK'
  OBVIOUS
<1>1. kstack # <<>>
  BY DEF KillStep, KillChild, KillCurrent, KillReady, KillUnfound, KillBlocked,
         KillTrap, Descendant, Childless
<1>2. CASE KillChild
  <2>1. top \in Proc /\ kids[top] \in Seq(Proc) /\ kids[top] # <<>>
    BY <1>1, <1>2, FrameType DEF KillChild, TypeOK
  <2>2. Head(kids[top]) \in Proc /\ Tail(kids[top]) \in Seq(Proc)
    BY <2>1, HeadTailProperties
  <2>3. kids' \in [Proc -> Seq(Proc)] /\ p_prnt' \in [Proc -> Proc \cup {NULL}]
    BY <1>2, <2>2 DEF KillChild, TypeOK
  <2>4. /\ kstack' \in Seq(Proc)
        /\ \A i \in 1..Len(kstack) : kstack'[i] = kstack[i]
    BY <1>2, <2>2, AppendProperties DEF KillChild, TypeOK
  <2>5. currentProc # NULL /\ kstack'[1] = currentProc
    <3>1. 1 \in 1..Len(kstack) /\ currentProc # NULL /\ kstack[1] = currentProc
      BY <1>1, FrameType DEF TypeOK
    <3> QED BY <2>4, <3>1
  <2> QED BY <1>2, <2>3, <2>4, <2>5 DEF KillChild, cpu, TypeOK
<1>3. CASE KillCurrent
  <2>1. /\ readyQue' \in Seq(Proc)
        /\ currentProc' \in Proc \cup {NULL}
        /\ waiting' \in BOOLEAN
        /\ machine' \in {"live", "halt", "panic", "lost"}
    BY <1>3, SchedulerType DEF KillCurrent, TypeOK
  <2>2. kids' \in [Proc -> Seq(Proc)] /\ p_prnt' \in [Proc -> Proc \cup {NULL}]
    <3>1. top \in Proc
      BY <1>1, FrameType
    <3>2. CASE p_prnt[top] = NULL
      BY <1>3, <3>2 DEF KillCurrent, outChild, TypeOK
    <3>3. CASE p_prnt[top] # NULL
      <4>1. p_prnt[top] \in Proc /\ kids[p_prnt[top]] \in Seq(Proc)
        BY <3>1, <3>3 DEF TypeOK
      <4>2. RemoveAt(kids[p_prnt[top]], sibAt(top)) \in Seq(Proc)
        BY <3>1, <4>1, SiblingPosition, RemoveAtPosition
      <4> QED BY <1>3, <3>1, <3>3, <4>1, <4>2 DEF KillCurrent, outChild, TypeOK
    <3> QED BY <3>2, <3>3
  <2>3. kstack' = <<>> /\ kstack' \in Seq(Proc)
    BY <1>3, EmptySeq DEF KillCurrent
  <2> QED BY <1>1, <1>3, <2>1, <2>2, <2>3, BuryType DEF KillCurrent, TypeOK
<1>4. CASE KillReady
  <2>1. readyQue' \in Seq(Proc)
    BY <1>4, OutProcQ DEF KillReady, TypeOK
  <2> QED BY <1>1, <1>4, <2>1, FrameType, BuryType DEF KillReady, TypeOK
<1>5. CASE KillUnfound
  BY <1>1, <1>5, FrameType, BuryType DEF KillUnfound, TypeOK
<1>6. CASE KillBlocked
  <2> DEFINE s == p_semAdd[top]
  <2>1. s \in Sem
    BY <1>1, <1>6, FrameType DEF KillBlocked, NotBlocked, TypeOK
  <2>2. outProcQ(semQ[s], top) \in Seq(Proc)
    BY <1>6, <2>1, OutProcQ DEF KillBlocked, TypeOK
  <2>3. semQ' \in [Sem -> Seq(Proc)] /\ semV' \in [Sem -> Int]
    BY <1>6, <2>1, <2>2 DEF KillBlocked, giveBack, TypeOK
  <2>4. p_semAdd' = [p_semAdd EXCEPT ![top] = NULL] /\ sftBlkCnt' \in Int
    BY <1>6 DEF KillBlocked, TypeOK
  <2>5. p_semAdd' \in [Proc -> Sem \cup {NULL}]
    BY <2>4 DEF TypeOK
  <2> QED BY <1>1, <1>6, <2>3, <2>4, <2>5, FrameType, BuryType
          DEF KillBlocked, TypeOK
<1>7. CASE KillTrap
  <2>1. currentProc \in Proc
    BY <1>1, FrameType
  <2>2. /\ kstack' \in Seq(Proc)
        /\ kstack' # <<>> => kstack'[1] = currentProc
    BY <1>7, <2>1, EmptySeq DEF KillTrap, afterTrap
  <2> QED BY <1>1, <1>7, <2>2 DEF KillTrap, cpu, tree, TypeOK
<1> QED BY <1>2, <1>3, <1>4, <1>5, <1>6, <1>7 DEF KillStep

LEMMA TypeInterrupt == TypeOK /\ Interrupt => TypeOK'
<1> SUFFICES ASSUME TypeOK, Interrupt PROVE TypeOK'
  OBVIOUS
<1>1. CASE LocalTimer
  <2>1. preempted \in Seq(Proc)
    BY InsertProcQ DEF preempted, TypeOK
  <2>2. /\ readyQue' \in Seq(Proc)
        /\ currentProc' \in Proc \cup {NULL}
        /\ waiting' \in BOOLEAN
        /\ machine' \in {"live", "halt", "panic", "lost"}
    BY <1>1, <2>1, SchedulerType DEF LocalTimer, TypeOK
  <2>3. kstack' = <<>>
    BY <1>1 DEF LocalTimer, Interruptible
  <2> QED BY <1>1, <2>2, <2>3 DEF LocalTimer, tree, TypeOK
<1>2. CASE IntervalTimer
  <2>1. semQ[Clock] \in Seq(Proc) /\ Len(semQ[Clock]) \in Nat
    BY DevSemIsSem, LenProperties DEF TypeOK
  <2>2. readyQue \o semQ[Clock] \in Seq(Proc)
    BY <2>1, JoinQueues DEF TypeOK
  <2>3. sftBlkCnt - Len(semQ[Clock]) \in Int
    BY <2>1 DEF TypeOK
  <2>4. /\ readyQue' \in Seq(Proc)
        /\ currentProc' \in Proc \cup {NULL}
        /\ waiting' \in BOOLEAN
        /\ machine' \in {"live", "halt", "panic", "lost"}
    BY <1>2, <2>2, <2>3, ResumeType DEF IntervalTimer
  <2>5. semQ' \in [Sem -> Seq(Proc)] /\ semV' \in [Sem -> Int]
    <3>1. semQ' = [semQ EXCEPT ![Clock] = <<>>] /\ semV' = [semV EXCEPT ![Clock] = 0]
      BY <1>2 DEF IntervalTimer
    <3>2. <<>> \in Seq(Proc)
      BY EmptySeq
    <3>3. semQ \in [Sem -> Seq(Proc)] /\ semV \in [Sem -> Int]
      BY DEF TypeOK
    <3>4. semQ' \in [Sem -> Seq(Proc)]
      BY <3>1, <3>2, <3>3
    <3>5. semV' \in [Sem -> Int]
      <4>1. \A n \in Int : [semV EXCEPT ![Clock] = n] \in [Sem -> Int]
        BY <3>3
      <4> QED BY <3>1, <4>1
    <3> QED BY <3>4, <3>5
  <2>6. /\ p_semAdd' \in [Proc -> Sem \cup {NULL}]
        /\ waitsOn' \in [Proc -> Port \cup {NULL}]
    BY <1>2 DEF IntervalTimer, TypeOK
  <2>7. kstack' = <<>>
    BY <1>2 DEF IntervalTimer, Interruptible
  <2> QED BY <1>2, <2>3, <2>4, <2>5, <2>6, <2>7 DEF IntervalTimer, tree, TypeOK
<1>3. ASSUME NEW r \in Port, DeviceInterrupt(r) PROVE TypeOK'
  <2> DEFINE h == servedPort(r)
             s == semIndex(h)
             v == semV[s] + 1
             sft == IF wakes(s, v) THEN sftBlkCnt - 1 ELSE sftBlkCnt
  <2>1. h \in Port
    BY <1>3, ServedPort
  <2>2. s \in Sem
    BY <2>1, DevSemIsSem
  <2>3. sft \in Int
    BY DEF TypeOK
  <2>4. /\ acknowledge(h)
        /\ semV' = [semV EXCEPT ![s] = v]
        /\ unblock(s, v)
        /\ sftBlkCnt' = sft
        /\ resume(readyAfterV(s, v), sft)
    BY <1>3 DEF DeviceInterrupt
  <2> HIDE DEF h, s, v, sft
  <2>5. /\ readyAfterV(s, v) \in Seq(Proc)
        /\ semQ' \in [Sem -> Seq(Proc)]
        /\ p_semAdd' \in [Proc -> Sem \cup {NULL}]
        /\ waitsOn' \in [Proc -> Port \cup {NULL}]
    BY <2>2, <2>4, UnblockType
  <2>6. /\ readyQue' \in Seq(Proc)
        /\ currentProc' \in Proc \cup {NULL}
        /\ waiting' \in BOOLEAN
        /\ machine' \in {"live", "halt", "panic", "lost"}
    BY <2>3, <2>4, <2>5, ResumeType
  <2>7. devReg' \in [Port -> {"READY", "BUSY", "DONE"}]
    BY <2>4 DEF acknowledge, TypeOK
  <2>8. semV' \in [Sem -> Int]
    BY <2>2, <2>4 DEF v, TypeOK
  <2>9. kstack' = <<>>
    BY <1>3 DEF DeviceInterrupt, Interruptible
  <2> QED BY <1>3, <2>3, <2>4, <2>5, <2>6, <2>7, <2>8, <2>9
          DEF DeviceInterrupt, tree, TypeOK
<1> QED BY <1>1, <1>2, <1>3 DEF Interrupt

LEMMA TypeDevice == TypeOK /\ Device => TypeOK'
BY DEF TypeOK, Device, StartIO, DeviceCompletes, cpu, tree

LEMMA TypeNext == TypeOK /\ TreeOK /\ [Next]_vars => TypeOK'
<1> SUFFICES ASSUME TypeOK, TreeOK, [Next]_vars PROVE TypeOK'
  OBVIOUS
<1>1. CASE Stopped \/ UNCHANGED vars
  BY <1>1 DEF Stopped, vars, TypeOK
<1> QED BY <1>1, TypeSysCall, TypeKillStep, TypeInterrupt, TypeDevice DEF Next

-----------------------------------------------------------------------------
(* The inductive invariant.                                                *)

(* The process tree has no cycle, and the frames of terminateprocess go    *)
(* down the tree: so no pcb is in two frames, and no descendant is the     *)
(* running process.                                                        *)
Ranked(rank) ==
  /\ \A p \in Proc : p_prnt[p] # NULL => rank[p_prnt[p]] < rank[p]
  /\ \A i, j \in 1..Len(kstack) : i < j => rank[kstack[i]] < rank[kstack[j]]

(* The pcbs being killed are in use, and all but the outermost one have    *)
(* been taken from their parents.                                          *)
FramesOK ==
  /\ \A i \in 1..Len(kstack) : kstack[i] \notin pcbFree
  /\ \A i \in 2..Len(kstack) : p_prnt[kstack[i]] = NULL

StackOK == FramesOK /\ \E rank \in [Proc -> Nat] : Ranked(rank)

WaitOK == waiting => currentProc = NULL

IInv == TypeOK /\ TreeOK /\ OnePlace /\ StackOK /\ WaitOK /\ ProcAccounting

(* OnePlace, as Placed says it. *)
LEMMA OnePlaceIsPlaced ==
  /\ OnePlace <=>
       (machine # "lost" =>
          Placed(readyQue, currentProc, semQ, p_semAdd, pcbFree))
  /\ OnePlace' <=>
       (machine' # "lost" =>
          Placed(readyQue', currentProc', semQ', p_semAdd', pcbFree'))
BY DEF OnePlace, Placed

LEMMA IInvInit == Init => IInv
<1> SUFFICES ASSUME Init PROVE IInv
  OBVIOUS
<1>1. PICK p \in Proc :
        /\ currentProc = p /\ pcbFree = Proc \ {p} /\ procCnt = 1
        /\ readyQue = <<>> /\ waiting = FALSE /\ kstack = <<>>
        /\ semQ = [s \in Sem |-> <<>>]
        /\ p_semAdd = [q \in Proc |-> NULL]
        /\ p_prnt = [q \in Proc |-> NULL]
        /\ kids = [q \in Proc |-> <<>>]
  BY DEF Init
<1>2. (\A x : ~InQ(<<>>, x)) /\ NoDup(<<>>)
  BY DEF InQ, NoDup
<1>3. TypeOK
  BY TypeInit
<1>4. TreeOK
  BY <1>1, <1>2, ProcAssumption DEF TreeOK
<1>5. OnePlace
  <2>1. p # NULL /\ NULL \notin Sem
    BY ProcAssumption, SemAssumption
  <2> QED BY <1>1, <1>2, <2>1 DEF OnePlace
<1>6. StackOK
  <2>1. FramesOK
    BY <1>1 DEF FramesOK
  <2>2. [q \in Proc |-> 0] \in [Proc -> Nat]
    OBVIOUS
  <2>3. Ranked([q \in Proc |-> 0])
    BY <1>1 DEF Ranked
  <2> QED BY <2>1, <2>2, <2>3 DEF StackOK
<1>7. WaitOK
  BY <1>1 DEF WaitOK
<1>8. ProcAccounting
  <2>1. Proc \ pcbFree = {p}
    BY <1>1
  <2> QED BY <1>1, <2>1, FS_Singleton DEF ProcAccounting
<1> QED BY <1>3, <1>4, <1>5, <1>6, <1>7, <1>8 DEF IInv

-----------------------------------------------------------------------------
(* The process tree and the free pcbs change in few actions.               *)

BuryDescendant == KillReady \/ KillUnfound \/ KillBlocked

LEMMA TreeSteps ==
  ASSUME [Next]_vars
  PROVE  \/ CreateProcess
         \/ KillChild
         \/ KillCurrent
         \/ BuryDescendant
         \/ UNCHANGED <<procCnt, p_prnt, kids, pcbFree>>
<1>1. CASE UNCHANGED vars \/ Stopped
  BY <1>1 DEF Stopped, vars
<1>2. CASE SysCall
  BY <1>2 DEF SysCall, TerminateProcess, WaitIOBadLine, V, P, WaitForClock,
              WaitIO, wait, SpecTrapVec, PassUpOrDie, startKill, tree, vars
<1>3. CASE KillStep
  BY <1>3 DEF KillStep, KillTrap, BuryDescendant, tree
<1>4. CASE Interrupt
  BY <1>4 DEF Interrupt, LocalTimer, IntervalTimer, DeviceInterrupt, tree
<1>5. CASE Device
  BY <1>5 DEF Device, StartIO, DeviceCompletes, tree
<1> QED BY <1>1, <1>2, <1>3, <1>4, <1>5 DEF Next

(* The end of the frame of a descendant: a pcb in use without parent or    *)
(* children is freed.                                                      *)
LEMMA BuriedDescendant ==
  ASSUME IInv, BuryDescendant
  PROVE  /\ top \in Proc /\ top \notin pcbFree /\ top # currentProc
         /\ kstack # <<>> /\ machine = "live"
         /\ p_prnt[top] = NULL /\ kids[top] = <<>>
         /\ bury
         /\ kstack' = Front(kstack)
         /\ UNCHANGED <<p_prnt, kids, currentProc, waiting>>
<1>1. /\ kstack # <<>> /\ machine = "live" /\ kids[top] = <<>>
      /\ top # currentProc /\ bury /\ kstack' = Front(kstack)
      /\ UNCHANGED <<p_prnt, kids, currentProc, waiting>>
  BY DEF BuryDescendant, KillReady, KillUnfound, KillBlocked, Descendant,
         Childless
<1>2. /\ top \in Proc /\ Len(kstack) \in Nat \ {0} /\ kstack[1] = currentProc
  BY <1>1, FrameType DEF IInv, TypeOK
<1>3. Len(kstack) \in 2..Len(kstack) /\ Len(kstack) \in 1..Len(kstack)
  BY <1>1, <1>2 DEF top, Last
<1>4. top \notin pcbFree /\ p_prnt[top] = NULL
  BY <1>3 DEF IInv, StackOK, FramesOK, top, Last
<1> QED BY <1>1, <1>2, <1>4

(* The running process dies last. *)
LEMMA BuriedCurrent ==
  ASSUME IInv, KillCurrent
  PROVE  /\ top \in Proc /\ top \notin pcbFree /\ top = currentProc
         /\ kids[top] = <<>> /\ kstack # <<>> /\ machine = "live"
<1>1. /\ kstack # <<>> /\ machine = "live" /\ kids[top] = <<>>
      /\ top = currentProc
  BY DEF KillCurrent, Childless
<1>2. top \in Proc /\ Len(kstack) \in 1..Len(kstack)
  BY <1>1, FrameType DEF IInv
<1> QED BY <1>1, <1>2 DEF IInv, StackOK, FramesOK, top, Last

LEMMA AccountingNext == IInv /\ [Next]_vars => ProcAccounting'
<1> SUFFICES ASSUME IInv, [Next]_vars PROVE ProcAccounting'
  OBVIOUS
<1> DEFINE used == Proc \ pcbFree
<1>1. IsFiniteSet(used) /\ procCnt = Cardinality(used)
  <2>1. IsFiniteSet(Proc) /\ used \subseteq Proc
    BY ProcAssumption
  <2> QED BY <2>1, FS_Subset DEF IInv, ProcAccounting
<1>2. ASSUME NEW p \in Proc, p \notin pcbFree, procCnt' = procCnt - 1,
             pcbFree' = pcbFree \cup {p}
      PROVE  ProcAccounting'
  <2>1. Proc \ pcbFree' = used \ {p} /\ p \in used
    BY <1>2
  <2> QED BY <1>1, <1>2, <2>1, FS_RemoveElement DEF ProcAccounting
<1>3. CASE CreateProcess
  <2>1. CASE pcbFree = {}
    BY <1>3, <2>1 DEF CreateProcess, vars, IInv, ProcAccounting
  <2>2. CASE pcbFree # {}
    <3>1. PICK p \in pcbFree : pcbFree' = pcbFree \ {p} /\ procCnt' = procCnt + 1
      BY <1>3, <2>2 DEF CreateProcess
    <3>2. p \in Proc
      BY DEF IInv, TypeOK
    <3>3. Proc \ pcbFree' = used \cup {p} /\ p \notin used
      BY <3>1, <3>2
    <3> QED BY <1>1, <3>1, <3>3, FS_AddElement DEF ProcAccounting
  <2> QED BY <2>1, <2>2
<1>4. CASE KillChild
  BY <1>4 DEF KillChild, IInv, ProcAccounting
<1>5. CASE KillCurrent
  BY <1>2, <1>5, BuriedCurrent DEF KillCurrent, bury
<1>6. CASE BuryDescendant
  BY <1>2, <1>6, BuriedDescendant DEF bury
<1>7. CASE UNCHANGED <<procCnt, p_prnt, kids, pcbFree>>
  BY <1>7 DEF IInv, ProcAccounting
<1> QED BY <1>3, <1>4, <1>5, <1>6, <1>7, TreeSteps

LEMMA TreeNext == IInv /\ [Next]_vars => TreeOK'
<1> SUFFICES ASSUME IInv, [Next]_vars PROVE TreeOK'
  OBVIOUS
<1>0. /\ kids \in [Proc -> Seq(Proc)] /\ pcbFree \subseteq Proc
      /\ p_prnt \in [Proc -> Proc \cup {NULL}] /\ NULL \notin Proc
  BY ProcAssumption DEF IInv, TypeOK
<1>1. CASE CreateProcess
  <2>1. CASE pcbFree = {}
    BY <1>1, <2>1 DEF CreateProcess, vars, IInv, TreeOK
  <2>2. CASE pcbFree # {}
    <3>1. PICK p \in pcbFree :
            pcbFree' = pcbFree \ {p} /\ insertChild(currentProc, p)
      BY <1>1, <2>2 DEF CreateProcess
    <3> DEFINE c == currentProc
               q == <<p>> \o kids[c]
    <3>2. p \in Proc /\ c \in Proc /\ c \notin pcbFree
      <4>1. c \in Proc /\ machine # "lost"
        BY <1>1 DEF CreateProcess, Running, IInv, TypeOK
      <4> QED BY <1>0, <4>1 DEF IInv, OnePlace
    <3>3. /\ \A x : InQ(q, x) <=> x = p \/ InQ(kids[c], x)
          /\ NoDup(kids[c]) /\ ~InQ(kids[c], p) => NoDup(q)
      <4>1. <<p>> \in Seq(Proc) /\ kids[c] \in Seq(Proc)
        BY <1>0, <3>2
      <4>2. (\A x : InQ(<<p>>, x) <=> x = p) /\ NoDup(<<p>>)
        BY DEF InQ, NoDup
      <4> QED BY <4>1, <4>2, JoinQueues
    <3>4. kids' = [kids EXCEPT ![c] = q] /\ p_prnt' = [p_prnt EXCEPT ![p] = c]
      BY <3>1 DEF insertChild
    <3>5. p_prnt[p] = NULL /\ kids[p] = <<>>
      BY <3>2 DEF IInv, TreeOK
    <3> HIDE DEF c, q
    <3> QED BY <1>0, <3>1, <3>2, <3>3, <3>4, <3>5 DEF IInv, TreeOK
  <2> QED BY <2>1, <2>2
<1>2. CASE KillChild
  <2>1. top \in Proc /\ kids[top] \in Seq(Proc) /\ kids[top] # <<>>
    BY <1>0, <1>2, FrameType DEF KillChild, IInv
  <2> DEFINE c == Head(kids[top])
             q == Tail(kids[top])
  <2>2. c = headProcQ(kids[top]) /\ q = removeProcQ(kids[top])
    BY <2>1 DEF headProcQ, removeProcQ, emptyProcQ
  <2>3. /\ c \in Proc
        /\ InQ(kids[top], c)
        /\ \A x : InQ(q, x) => InQ(kids[top], x)
        /\ \A x : InQ(kids[top], x) => x = c \/ InQ(q, x)
        /\ NoDup(kids[top]) => NoDup(q) /\ ~InQ(q, c)
    BY <2>1, <2>2, RemoveProcQ
  <2>4. /\ kids' = [kids EXCEPT ![top] = q]
        /\ p_prnt' = [p_prnt EXCEPT ![c] = NULL]
        /\ pcbFree' = pcbFree
    BY <1>2 DEF KillChild
  <2> HIDE DEF c, q
  <2>5. p_prnt[c] = top
    BY <2>1, <2>3 DEF IInv, TreeOK
  <2>6. top \notin pcbFree
    BY <2>1 DEF IInv, TreeOK
  <2> QED BY <1>0, <2>1, <2>3, <2>4, <2>5, <2>6 DEF IInv, TreeOK
<1>3. CASE KillCurrent
  <2>1. top \in Proc /\ kids[top] = <<>>
    BY <1>3, BuriedCurrent
  <2>2. outChild(top) /\ pcbFree' = pcbFree \cup {top}
    BY <1>3 DEF KillCurrent, bury
  <2>3. CASE p_prnt[top] = NULL
    BY <2>1, <2>2, <2>3 DEF outChild, IInv, TreeOK
  <2>4. CASE p_prnt[top] # NULL
    <3> DEFINE m == p_prnt[top]
               q == RemoveAt(kids[m], sibAt(top))
    <3>1. m \in Proc /\ kids[m] \in Seq(Proc)
      BY <1>0, <2>1, <2>4
    <3>2. sibAt(top) \in 1..Len(kids[m]) /\ kids[m][sibAt(top)] = top
      BY <2>1, <3>1, SiblingPosition DEF IInv
    <3>3. /\ \A x : InQ(q, x) => InQ(kids[m], x)
          /\ \A x : InQ(kids[m], x) => x = top \/ InQ(q, x)
          /\ NoDup(kids[m]) => NoDup(q) /\ ~InQ(q, top)
      BY <3>1, <3>2, RemoveAtPosition
    <3>4. /\ kids' = [kids EXCEPT ![m] = q]
          /\ p_prnt' = [p_prnt EXCEPT ![top] = NULL]
      BY <2>2, <2>4 DEF outChild
    <3>5. InQ(kids[m], top) /\ m # top
      <4>1. InQ(kids[m], top)
        BY <2>1, <3>1 DEF IInv, TreeOK
      <4>2. ~InQ(<<>>, top)
        BY DEF InQ
      <4> QED BY <2>1, <4>1, <4>2
    <3>6. p_prnt[top] = m
      OBVIOUS
    <3> HIDE DEF m, q
    <3> QED BY <1>0, <2>1, <2>2, <3>1, <3>3, <3>4, <3>5, <3>6 DEF IInv, TreeOK
  <2> QED BY <2>3, <2>4
<1>4. CASE BuryDescendant
  BY <1>4, BuriedDescendant DEF bury, IInv, TreeOK
<1>5. CASE UNCHANGED <<procCnt, p_prnt, kids, pcbFree>>
  BY <1>5 DEF IInv, TreeOK
<1> QED BY <1>1, <1>2, <1>3, <1>4, <1>5, TreeSteps

-----------------------------------------------------------------------------
(* The frames of terminateprocess.                                         *)

(* A new stack that is empty, or holds the running process only. *)
LEMMA FreshStack ==
  ASSUME IInv, [Next]_vars, UNCHANGED <<p_prnt, pcbFree>>,
         \/ kstack' = <<>>
         \/ /\ kstack' = <<currentProc>>
            /\ currentProc \in Proc /\ currentProc \notin pcbFree
  PROVE  StackOK'
<1>1. PICK rank \in [Proc -> Nat] : Ranked(rank)
  BY DEF IInv, StackOK
<1>2. Ranked(rank)'
  BY <1>1 DEF Ranked
<1>3. FramesOK'
  BY DEF FramesOK
<1> QED BY <1>2, <1>3 DEF StackOK

(* A running process is in use. *)
LEMMA CurrentInUse ==
  ASSUME IInv, machine # "lost", currentProc # NULL
  PROVE  currentProc \in Proc /\ currentProc \notin pcbFree
BY DEF IInv, TypeOK, OnePlace

LEMMA StackNext == IInv /\ [Next]_vars => StackOK'
<1> SUFFICES ASSUME IInv, [Next]_vars PROVE StackOK'
  OBVIOUS
<1>0. /\ p_prnt \in [Proc -> Proc \cup {NULL}] /\ pcbFree \subseteq Proc
      /\ kstack \in Seq(Proc) /\ Len(kstack) \in Nat /\ NULL \notin Proc
  BY ProcAssumption, LenProperties DEF IInv, TypeOK
<1>1. PICK rank \in [Proc -> Nat] : Ranked(rank)
  BY DEF IInv, StackOK
<1>2. CASE UNCHANGED <<p_prnt, pcbFree, kstack>>
  BY <1>2 DEF IInv, StackOK, FramesOK, Ranked
<1>3. CASE CreateProcess
  <2>1. CASE pcbFree = {}
    BY <1>2, <1>3, <2>1 DEF CreateProcess, vars
  <2>2. CASE pcbFree # {}
    <3>1. PICK p \in pcbFree :
            /\ pcbFree' = pcbFree \ {p} /\ insertChild(currentProc, p)
            /\ kstack' = kstack
      BY <1>3, <2>2 DEF CreateProcess
    <3>2. kstack' = <<>> /\ currentProc \in Proc /\ currentProc \notin pcbFree
      BY <1>3, <3>1, CurrentInUse DEF CreateProcess, Running
    <3>3. /\ p \in Proc /\ p # currentProc
          /\ \A x \in Proc : p_prnt[x] # p
          /\ p_prnt' = [p_prnt EXCEPT ![p] = currentProc]
      <4>1. p \in Proc /\ kids[p] = <<>> /\ \A x : ~InQ(<<>>, x)
        BY <1>0 DEF IInv, TreeOK, InQ
      <4> QED BY <3>1, <3>2, <4>1 DEF insertChild, IInv, TreeOK
    <3>4. PICK rankN \in [Proc -> Nat] :
            rankN = [rank EXCEPT ![p] = rank[currentProc] + 1]
      <4>1. rank[currentProc] + 1 \in Nat
        BY <3>2
      <4> QED BY <4>1
    <3>5. ASSUME NEW x \in Proc, p_prnt'[x] # NULL
          PROVE  rankN[p_prnt'[x]] < rankN[x]
      <4>1. CASE x = p
        BY <1>0, <3>2, <3>3, <3>4, <4>1
      <4>2. CASE x # p
        BY <1>0, <1>1, <3>3, <3>4, <3>5, <4>2 DEF Ranked
      <4> QED BY <4>1, <4>2
    <3>6. Ranked(rankN)'
      BY <3>2, <3>5 DEF Ranked
    <3>7. FramesOK'
      BY <3>2 DEF FramesOK
    <3> QED BY <3>4, <3>6, <3>7 DEF StackOK
  <2> QED BY <2>1, <2>2
<1>4. CASE Running /\ startKill
  BY <1>4, FreshStack, CurrentInUse DEF Running, startKill, tree
<1>5. CASE KillChild
  <2> DEFINE c == Head(kids[top])
             n == Len(kstack)
  <2>1. /\ top \in Proc /\ kids[top] \in Seq(Proc) /\ kids[top] # <<>>
        /\ n \in Nat \ {0} /\ top = kstack[n]
    BY <1>5, FrameType DEF KillChild, IInv, TypeOK, top, Last
  <2>2. c \in Proc /\ InQ(kids[top], c)
    <3>1. c = headProcQ(kids[top])
      BY <2>1 DEF headProcQ, emptyProcQ
    <3> QED BY <2>1, <3>1, RemoveProcQ
  <2>3. /\ kstack' = Append(kstack, c)
        /\ p_prnt' = [p_prnt EXCEPT ![c] = NULL]
        /\ pcbFree' = pcbFree
    BY <1>5 DEF KillChild
  <2>4. p_prnt[c] = top /\ c \notin pcbFree
    BY <1>0, <2>1, <2>2 DEF IInv, TreeOK
  <2> HIDE DEF c, n
  <2>5. /\ Len(kstack') = n + 1 /\ kstack'[n + 1] = c
        /\ \A i \in 1..n : kstack'[i] = kstack[i]
    BY <1>0, <2>2, <2>3, AppendProperties DEF n
  <2>6. \A i \in 1..n : kstack[i] \in Proc /\ kstack[i] \notin pcbFree
    BY <1>0, ElementOfSeq DEF n, IInv, StackOK, FramesOK
  <2>7. \A i \in 1..n : rank[kstack[i]] <= rank[top]
    <3>1. rank[top] \in Nat
      BY <2>1
    <3>2. \A i \in 1..n : i < n => rank[kstack[i]] < rank[kstack[n]]
      BY <1>1, <2>1 DEF Ranked, n
    <3>3. \A i \in 1..n : rank[kstack[i]] \in Nat
      BY <2>6
    <3> QED BY <2>1, <3>1, <3>2, <3>3
  <2>8. rank[top] < rank[c]
    BY <1>0, <1>1, <2>1, <2>2, <2>4 DEF Ranked
  <2>9. \A i \in 1..n : rank[kstack[i]] < rank[c]
    <3>1. rank[top] \in Nat /\ rank[c] \in Nat
      BY <2>1, <2>2
    <3>2. \A i \in 1..n : rank[kstack[i]] \in Nat
      BY <2>6
    <3> QED BY <2>7, <2>8, <3>1, <3>2
  <2>10. FramesOK'
    <3>1. \A i \in 1..n + 1 : kstack'[i] \notin pcbFree'
      BY <2>1, <2>3, <2>4, <2>5, <2>6
    <3>2. ASSUME NEW i \in 2..n + 1 PROVE p_prnt'[kstack'[i]] = NULL
      <4>1. CASE i = n + 1
        BY <1>0, <2>2, <2>3, <2>5, <4>1
      <4>2. CASE i # n + 1
        <5>1. i \in 1..n /\ i \in 2..n
          BY <2>1, <4>2
        <5>2. p_prnt[kstack[i]] = NULL
          BY <5>1 DEF n, IInv, StackOK, FramesOK
        <5> QED BY <1>0, <2>3, <2>5, <2>6, <5>1, <5>2
      <4> QED BY <4>1, <4>2
    <3> QED BY <2>5, <3>1, <3>2 DEF FramesOK
  <2>11. Ranked(rank)'
    <3>1. \A p \in Proc : p_prnt'[p] # NULL => rank[p_prnt'[p]] < rank[p]
      BY <1>0, <1>1, <2>2, <2>3 DEF Ranked
    <3>2. ASSUME NEW i \in 1..n + 1, NEW j \in 1..n + 1, i < j
          PROVE  rank[kstack'[i]] < rank[kstack'[j]]
      <4>1. i \in 1..n /\ kstack'[i] = kstack[i]
        BY <2>1, <2>5, <3>2
      <4>2. CASE j = n + 1
        BY <2>5, <2>9, <4>1, <4>2
      <4>3. CASE j # n + 1
        <5>1. j \in 1..n /\ kstack'[j] = kstack[j]
          BY <2>1, <2>5, <4>3
        <5> QED BY <1>1, <3>2, <4>1, <5>1 DEF Ranked, n
      <4> QED BY <4>2, <4>3
    <3> QED BY <2>5, <3>1, <3>2 DEF Ranked
  <2> QED BY <2>10, <2>11 DEF StackOK
<1>6. CASE KillCurrent
  <2>1. kstack' = <<>> /\ outChild(top) /\ top \in Proc
    BY <1>6, BuriedCurrent DEF KillCurrent
  <2>2. \A p \in Proc : p_prnt'[p] = p_prnt[p] \/ p_prnt'[p] = NULL
    BY <1>0, <2>1 DEF outChild
  <2>3. Ranked(rank)'
    BY <1>1, <2>1, <2>2 DEF Ranked
  <2>4. FramesOK'
    BY <2>1 DEF FramesOK
  <2> QED BY <2>3, <2>4 DEF StackOK
<1>7. CASE BuryDescendant
  <2> DEFINE n == Len(kstack)
  <2>1. /\ kstack' = Front(kstack) /\ p_prnt' = p_prnt /\ kstack # <<>>
        /\ pcbFree' = pcbFree \cup {top}
    BY <1>7, BuriedDescendant DEF bury
  <2>2. /\ n \in Nat \ {0} /\ top = kstack[n] /\ Len(kstack') = n - 1
        /\ \A i \in 1..n - 1 : kstack'[i] = kstack[i]
    BY <2>1, FrameType DEF IInv, top, Last
  <2>3. \A i \in 1..n : kstack[i] \in Proc
    BY <1>0, ElementOfSeq
  <2> HIDE DEF n
  <2>4. ASSUME NEW i \in 1..n - 1 PROVE kstack[i] # top
    <3>1. i \in 1..n /\ n \in 1..n /\ i < n
      BY <2>2
    <3>2. rank[kstack[i]] < rank[top]
      BY <1>1, <2>2, <3>1 DEF Ranked, n
    <3>3. rank[top] \in Nat
      BY <2>2, <2>3, <3>1
    <3> QED BY <3>2, <3>3
  <2>5. FramesOK'
    <3>1. \A i \in 1..n - 1 : kstack'[i] \notin pcbFree'
      <4>1. \A i \in 1..n : kstack[i] \notin pcbFree
        BY DEF IInv, StackOK, FramesOK, n
      <4> QED BY <2>1, <2>2, <2>4, <4>1
    <3>2. \A i \in 2..n - 1 : p_prnt'[kstack'[i]] = NULL
      <4>1. \A i \in 2..n : p_prnt[kstack[i]] = NULL
        BY DEF IInv, StackOK, FramesOK, n
      <4> QED BY <2>1, <2>2, <4>1
    <3> QED BY <2>2, <3>1, <3>2 DEF FramesOK
  <2>6. Ranked(rank)'
    <3>1. \A p \in Proc : p_prnt'[p] # NULL => rank[p_prnt'[p]] < rank[p]
      BY <1>1, <2>1 DEF Ranked
    <3>2. \A i, j \in 1..n - 1 : i < j => rank[kstack'[i]] < rank[kstack'[j]]
      BY <1>1, <2>2 DEF Ranked, n
    <3> QED BY <2>2, <3>1, <3>2 DEF Ranked
  <2> QED BY <2>5, <2>6 DEF StackOK
<1>8. CASE KillTrap
  <2>1. currentProc \in Proc /\ currentProc \notin pcbFree
    BY <1>8, CurrentInUse
       DEF KillTrap, Descendant, Childless, IInv, TypeOK
  <2> QED BY <1>8, <2>1, FreshStack DEF KillTrap, afterTrap, tree
<1>9. CASE SysCall
  BY <1>2, <1>3, <1>4, <1>9
     DEF SysCall, TerminateProcess, WaitIOBadLine, V, P, WaitForClock, WaitIO,
         wait, SpecTrapVec, PassUpOrDie, tree, vars
<1>10. CASE Interrupt \/ Device \/ Stopped \/ UNCHANGED vars
  BY <1>2, <1>10 DEF Interrupt, LocalTimer, IntervalTimer, DeviceInterrupt,
                     Device, StartIO, DeviceCompletes, Stopped, tree, vars
<1> QED BY <1>5, <1>6, <1>7, <1>8, <1>9, <1>10
        DEF Next, KillStep, BuryDescendant

-----------------------------------------------------------------------------
(* The places of the pcbs.                                                 *)

(* A blocked process finds a semaphore descriptor: the descriptors in use  *)
(* have different first processes, and none of those is the running one.   *)
LEMMA DescriptorAvailable ==
  ASSUME IInv, Running, NEW s \in Sem
  PROVE  canBlock(s)
<1> DEFINE active == {t \in Sem : semQ[t] # <<>>}
           others == Proc \ {currentProc}
           first == [t \in active |-> headProcQ(semQ[t])]
<1>1. currentProc \in Proc
  BY CurrentInUse DEF Running
<1>2. Placed(readyQue, currentProc, semQ, p_semAdd, pcbFree)
  BY OnePlaceIsPlaced DEF IInv, Running
<1>3. \A t \in active : headProcQ(semQ[t]) \in Proc /\ InQ(semQ[t], headProcQ(semQ[t]))
  BY RemoveProcQ DEF IInv, TypeOK
<1>4. \A t \in active : p_semAdd[headProcQ(semQ[t])] = t
  BY <1>2, <1>3 DEF Placed
<1>5. p_semAdd[currentProc] = NULL /\ NULL \notin Sem
  BY <1>1, <1>2, SemAssumption DEF Placed
<1>6. first \in Injection(active, others)
  <2>1. first \in [active -> others]
    BY <1>3, <1>4, <1>5
  <2>2. IsInjective(first)
    BY <1>4 DEF IsInjective
  <2> QED BY <2>1, <2>2 DEF Injection
<1>7. IsFiniteSet(others) /\ Cardinality(others) = MAXPROC - 1
  BY <1>1, ProcAssumption, FS_RemoveElement DEF MAXPROC
<1>8. IsFiniteSet(active) /\ Cardinality(active) <= Cardinality(others)
  <2> HIDE DEF active, others, first
  <2> QED BY <1>6, <1>7, FS_Injection
<1>9. MAXPROC \in Nat /\ Cardinality(active) \in Nat
  BY <1>8, ProcAssumption, FS_CardinalityType DEF MAXPROC
<1>10. Cardinality(active) < MAXPROC
  BY <1>7, <1>8, <1>9
<1> QED BY <1>10 DEF canBlock

(* The end of a handler in the scheduler. *)
LEMMA PlaceScheduler ==
  ASSUME TypeOK', NEW rq \in Seq(Proc), NEW cnt, NEW sft,
         Placed(rq, NULL, semQ', p_semAdd', pcbFree'),
         scheduler(rq, cnt, sft)
  PROVE  OnePlace'
<1>1. PlaceTypes(rq, NULL, semQ', p_semAdd', pcbFree')
  BY DEF PlaceTypes, TypeOK
<1>2. Placed(readyQue', currentProc', semQ', p_semAdd', pcbFree')
  BY <1>1, PlaceDispatch DEF scheduler
<1> QED BY <1>2, OnePlaceIsPlaced

(* The end of an interrupt. *)
LEMMA PlaceResume ==
  ASSUME TypeOK', WaitOK, NEW rq \in Seq(Proc), NEW sft,
         Placed(rq, currentProc, semQ', p_semAdd', pcbFree'),
         resume(rq, sft)
  PROVE  OnePlace'
<1>1. CASE waiting
  <2>1. currentProc = NULL
    BY <1>1 DEF WaitOK
  <2> QED BY <1>1, <2>1, PlaceScheduler DEF resume
<1>2. CASE ~waiting
  BY <1>2, OnePlaceIsPlaced DEF resume
<1> QED BY <1>1, <1>2

(* The V of SYS3 and of the device interrupts. *)
LEMMA PlaceV ==
  ASSUME IInv, machine # "lost", NEW s \in Sem, NEW v, unblock(s, v)
  PROVE  Placed(readyAfterV(s, v), currentProc, semQ', p_semAdd', pcbFree)
<1>1. /\ Placed(readyQue, currentProc, semQ, p_semAdd, pcbFree)
      /\ PlaceTypes(readyQue, currentProc, semQ, p_semAdd, pcbFree)
  BY OnePlaceIsPlaced DEF IInv, TypeOK, PlaceTypes
<1>2. CASE wakes(s, v)
  <2>1. /\ semQ[s] # <<>>
        /\ semQ' = [semQ EXCEPT ![s] = removeProcQ(@)]
        /\ p_semAdd' = [p_semAdd EXCEPT ![headProcQ(semQ[s])] = NULL]
        /\ readyAfterV(s, v) = insertProcQ(readyQue, headProcQ(semQ[s]))
    BY <1>2 DEF wakes, unblock, removeBlocked, readyAfterV
  <2> QED BY <1>1, <2>1, PlaceWake
<1>3. CASE ~wakes(s, v)
  BY <1>1, <1>3 DEF unblock, readyAfterV
<1> QED BY <1>2, <1>3

(* The P of SYS4, SYS7 and SYS8. *)
LEMMA PlaceP ==
  ASSUME IInv, TypeOK', NEW s \in Sem, wait(s)
  PROVE  OnePlace'
<1>1. /\ Placed(readyQue, currentProc, semQ, p_semAdd, pcbFree)
      /\ PlaceTypes(readyQue, currentProc, semQ, p_semAdd, pcbFree)
  BY OnePlaceIsPlaced DEF IInv, TypeOK, PlaceTypes, wait, Running
<1>2. CASE semV[s] - 1 < 0
  <2>1. currentProc \in Proc /\ canBlock(s) /\ pcbFree' = pcbFree
    BY CurrentInUse, DescriptorAvailable DEF wait, Running, tree
  <2>2. /\ semQ' = [semQ EXCEPT ![s] = insertProcQ(@, currentProc)]
        /\ p_semAdd' = [p_semAdd EXCEPT ![currentProc] = s]
        /\ scheduler(readyQue, procCnt, softBlock(s))
    BY <1>2, <2>1 DEF wait, insertBlocked
  <2>3. Placed(readyQue, NULL, semQ', p_semAdd', pcbFree')
    BY <1>1, <2>1, <2>2, PlaceBlock
  <2> QED BY <2>2, <2>3, PlaceScheduler DEF IInv, TypeOK
<1>3. CASE ~(semV[s] - 1 < 0)
  BY <1>1, <1>3, OnePlaceIsPlaced DEF wait, cpu, tree
<1> QED BY <1>2, <1>3

LEMMA PlaceKillStep == IInv /\ TypeOK' /\ KillStep => OnePlace'
<1> SUFFICES ASSUME IInv, TypeOK', KillStep PROVE OnePlace'
  OBVIOUS
<1>1. machine # "lost"
  BY DEF KillStep, KillChild, KillCurrent, KillReady, KillUnfound, KillBlocked,
         KillTrap, Descendant, Childless
<1>2. /\ Placed(readyQue, currentProc, semQ, p_semAdd, pcbFree)
      /\ PlaceTypes(readyQue, currentProc, semQ, p_semAdd, pcbFree)
  BY <1>1, OnePlaceIsPlaced DEF IInv, TypeOK, PlaceTypes
<1>3. CASE KillChild \/ KillTrap
  BY <1>2, <1>3, OnePlaceIsPlaced DEF KillChild, KillTrap, cpu, tree
<1>4. CASE KillCurrent
  <2>1. currentProc \in Proc /\ pcbFree' = pcbFree \cup {currentProc}
    BY <1>4, BuriedCurrent DEF KillCurrent, bury
  <2>2. Placed(readyQue, NULL, semQ', p_semAdd', pcbFree')
    BY <1>2, <1>4, <2>1, PlaceFreeCurrent DEF KillCurrent
  <2> QED BY <1>4, <2>2, PlaceScheduler DEF KillCurrent, IInv, TypeOK
<1>5. CASE KillReady
  <2>1. /\ top \in Proc /\ top \notin pcbFree
        /\ pcbFree' = pcbFree \cup {top} /\ currentProc' = currentProc
    BY <1>5, BuriedDescendant DEF BuryDescendant, bury
  <2>2. /\ outFinds(readyQue, top) /\ readyQue' = outProcQ(readyQue, top)
        /\ UNCHANGED <<semQ, p_semAdd>>
    BY <1>5 DEF KillReady
  <2> QED BY <1>2, <2>1, <2>2, PlaceFreeReady, OnePlaceIsPlaced
<1>6. CASE KillUnfound
  <2>1. top \in Proc /\ top \notin pcbFree /\ top # currentProc
    BY <1>6, BuriedDescendant DEF BuryDescendant
  <2>2. ASSUME p_semAdd[top] # NULL PROVE FALSE
    <3>1. semQ[p_semAdd[top]] = <<>> /\ p_semAdd[top] \in Sem
      BY <1>6, <2>1, <2>2 DEF KillUnfound, NotBlocked, IInv, TypeOK
    <3>2. InQ(semQ[p_semAdd[top]], top)
      BY <1>2, <2>1, <3>1 DEF Placed
    <3> QED BY <3>1, <3>2 DEF InQ
  <2>3. InQ(readyQue, top)
    BY <1>2, <2>1, <2>2 DEF Placed
  <2>4. machine' = "lost"
    BY <1>6, <2>3 DEF KillUnfound
  <2> QED BY <2>4, OnePlaceIsPlaced
<1>7. CASE KillBlocked
  <2> DEFINE s == p_semAdd[top]
  <2>1. /\ top \in Proc
        /\ pcbFree' = pcbFree \cup {top} /\ currentProc' = currentProc
    BY <1>7, BuriedDescendant DEF BuryDescendant, bury
  <2>2. /\ s \in Sem
        /\ outFinds(semQ[s], top)
        /\ semQ' = [semQ EXCEPT ![s] = outProcQ(@, top)]
        /\ p_semAdd' = [p_semAdd EXCEPT ![top] = NULL]
        /\ readyQue' = readyQue
    BY <1>7, <2>1 DEF KillBlocked, NotBlocked, IInv, TypeOK
  <2> QED BY <1>2, <2>1, <2>2, PlaceFreeBlocked, OnePlaceIsPlaced
<1> QED BY <1>3, <1>4, <1>5, <1>6, <1>7 DEF KillStep

LEMMA PlaceSysCall == IInv /\ TypeOK' /\ SysCall => OnePlace'
<1> SUFFICES ASSUME IInv, TypeOK', SysCall PROVE OnePlace'
  OBVIOUS
<1>1. CASE UNCHANGED <<readyQue, currentProc, semQ, p_semAdd, pcbFree, machine>>
  BY <1>1, OnePlaceIsPlaced DEF IInv
<1>2. CASE CreateProcess
  <2>1. CASE pcbFree = {}
    BY <1>1, <1>2, <2>1 DEF CreateProcess, vars
  <2>2. CASE pcbFree # {}
    <3>1. PICK p \in pcbFree :
            /\ pcbFree' = pcbFree \ {p}
            /\ readyQue' = insertProcQ(readyQue, p)
            /\ UNCHANGED <<currentProc, semQ, p_semAdd, machine>>
      BY <1>2, <2>2 DEF CreateProcess
    <3>2. /\ Placed(readyQue, currentProc, semQ, p_semAdd, pcbFree)
          /\ PlaceTypes(readyQue, currentProc, semQ, p_semAdd, pcbFree)
      BY <1>2, OnePlaceIsPlaced
         DEF IInv, TypeOK, PlaceTypes, CreateProcess, Running
    <3> QED BY <3>1, <3>2, PlaceCreate, OnePlaceIsPlaced
  <2> QED BY <2>1, <2>2
<1>3. ASSUME NEW s \in USem, V(s) PROVE OnePlace'
  <2>1. /\ s \in Sem /\ machine # "lost"
        /\ unblock(s, semV[s] + 1) /\ readyQue' = readyAfterV(s, semV[s] + 1)
        /\ UNCHANGED <<currentProc, pcbFree>>
    BY <1>3 DEF V, Running, Sem, tree
  <2> QED BY <2>1, PlaceV, OnePlaceIsPlaced
<1>4. ASSUME NEW s \in Sem, wait(s) PROVE OnePlace'
  BY <1>4, PlaceP
<1>5. CASE startKill
  BY <1>1, <1>5 DEF startKill, cpu, tree
<1>6. \A s \in USem : s \in Sem
  BY DEF Sem
<1> QED BY <1>1, <1>2, <1>3, <1>4, <1>5, <1>6, DevSemIsSem
        DEF SysCall, TerminateProcess, WaitIOBadLine, P, WaitForClock, WaitIO,
            SpecTrapVec, PassUpOrDie, cpu, tree, vars

LEMMA PlaceInterrupt == IInv /\ TypeOK' /\ Interrupt => OnePlace'
<1> SUFFICES ASSUME IInv, TypeOK', Interrupt PROVE OnePlace'
  OBVIOUS
<1>1. Interruptible
  BY DEF Interrupt, LocalTimer, IntervalTimer, DeviceInterrupt
<1>2. /\ Placed(readyQue, currentProc, semQ, p_semAdd, pcbFree)
      /\ PlaceTypes(readyQue, currentProc, semQ, p_semAdd, pcbFree)
  BY <1>1, OnePlaceIsPlaced DEF IInv, TypeOK, PlaceTypes, Interruptible
<1>3. CASE LocalTimer
  <2>1. preempted \in Seq(Proc)
    BY InsertProcQ DEF preempted, IInv, TypeOK
  <2>2. Placed(preempted, NULL, semQ, p_semAdd, pcbFree)
    BY <1>2, PlacePreempt DEF preempted, IInv, TypeOK
  <2>3. /\ scheduler(preempted, procCnt, sftBlkCnt)
        /\ UNCHANGED <<semQ, p_semAdd, pcbFree>>
    BY <1>3 DEF LocalTimer, tree
  <2> QED BY <2>1, <2>2, <2>3, PlaceScheduler
<1>4. CASE IntervalTimer
  <2> DEFINE rq == readyQue \o semQ[Clock]
             sft == sftBlkCnt - Len(semQ[Clock])
  <2>1. rq \in Seq(Proc)
    BY DevSemIsSem, JoinQueues DEF IInv, TypeOK
  <2>2. /\ semQ' = [semQ EXCEPT ![Clock] = <<>>]
        /\ p_semAdd' = [p \in Proc |->
                          IF InQ(semQ[Clock], p) THEN NULL ELSE p_semAdd[p]]
        /\ pcbFree' = pcbFree
        /\ resume(rq, sft)
    BY <1>4 DEF IntervalTimer, tree
  <2> HIDE DEF sft
  <2>3. Placed(rq, currentProc, semQ', p_semAdd', pcbFree')
    <3>1. Placed(rq, currentProc, [semQ EXCEPT ![Clock] = <<>>],
                 [p \in Proc |->
                    IF InQ(semQ[Clock], p) THEN NULL ELSE p_semAdd[p]], pcbFree)
      <4>1. Clock \in Sem
        BY DevSemIsSem
      <4> QED BY <1>2, <4>1, PlaceWakeAll
    <3> HIDE DEF rq
    <3> QED BY <2>2, <3>1
  <2> HIDE DEF rq
  <2> QED BY <2>1, <2>2, <2>3, PlaceResume DEF IInv
<1>5. ASSUME NEW r \in Port, DeviceInterrupt(r) PROVE OnePlace'
  <2> DEFINE h == servedPort(r)
             s == semIndex(h)
             v == semV[s] + 1
             sft == IF wakes(s, v) THEN sftBlkCnt - 1 ELSE sftBlkCnt
  <2>1. s \in Sem
    BY <1>5, ServedPort, DevSemIsSem
  <2>2. unblock(s, v) /\ resume(readyAfterV(s, v), sft) /\ pcbFree' = pcbFree
    BY <1>5 DEF DeviceInterrupt, tree
  <2> HIDE DEF h, s, v, sft
  <2>3. readyAfterV(s, v) \in Seq(Proc)
    BY <2>1, <2>2, UnblockType DEF IInv
  <2>4. Placed(readyAfterV(s, v), currentProc, semQ', p_semAdd', pcbFree')
    BY <1>1, <2>1, <2>2, PlaceV DEF Interruptible
  <2> QED BY <2>2, <2>3, <2>4, PlaceResume DEF IInv
<1> QED BY <1>3, <1>4, <1>5 DEF Interrupt

LEMMA PlaceNext == IInv /\ TypeOK' /\ [Next]_vars => OnePlace'
<1> SUFFICES ASSUME IInv, TypeOK', [Next]_vars PROVE OnePlace'
  OBVIOUS
<1>1. CASE Device \/ Stopped \/ UNCHANGED vars
  <2>1. UNCHANGED <<readyQue, currentProc, semQ, p_semAdd, pcbFree, machine>>
    BY <1>1 DEF Device, StartIO, DeviceCompletes, Stopped, cpu, tree, vars
  <2> QED BY <2>1, OnePlaceIsPlaced DEF IInv
<1> QED BY <1>1, PlaceSysCall, PlaceKillStep, PlaceInterrupt DEF Next

-----------------------------------------------------------------------------
(* WAIT is executed only when no process runs.                             *)

LEMMA SchedulerWait ==
  ASSUME NEW rq, NEW cnt, NEW sft, scheduler(rq, cnt, sft)
  PROVE  WaitOK'
BY DEF scheduler, headProcQ, WaitOK

LEMMA WaitNext == IInv /\ [Next]_vars => WaitOK'
<1> SUFFICES ASSUME IInv, [Next]_vars PROVE WaitOK'
  OBVIOUS
<1>1. CASE UNCHANGED <<waiting, currentProc>>
  BY <1>1 DEF IInv, WaitOK
<1>2. ASSUME NEW s, wait(s) PROVE WaitOK'
  BY <1>1, <1>2, SchedulerWait DEF wait, cpu
<1>3. ASSUME NEW rq, NEW sft, resume(rq, sft) PROVE WaitOK'
  BY <1>1, <1>3, SchedulerWait DEF resume
<1>4. CASE SysCall
  BY <1>1, <1>2, <1>4
     DEF SysCall, CreateProcess, TerminateProcess, WaitIOBadLine, V, P,
         WaitForClock, WaitIO, SpecTrapVec, PassUpOrDie, startKill, cpu, vars
<1>5. CASE KillStep
  BY <1>1, <1>5, SchedulerWait
     DEF KillStep, KillChild, KillCurrent, KillReady, KillUnfound, KillBlocked,
         KillTrap, cpu
<1>6. CASE Interrupt
  BY <1>3, <1>6, SchedulerWait
     DEF Interrupt, LocalTimer, IntervalTimer, DeviceInterrupt
<1>7. CASE Device \/ Stopped \/ UNCHANGED vars
  BY <1>1, <1>7 DEF Device, StartIO, DeviceCompletes, Stopped, cpu, vars
<1> QED BY <1>4, <1>5, <1>6, <1>7 DEF Next

-----------------------------------------------------------------------------
(* The theorems.                                                           *)

LEMMA IInvNext == IInv /\ [Next]_vars => IInv'
<1> SUFFICES ASSUME IInv, [Next]_vars PROVE IInv'
  OBVIOUS
<1>1. TypeOK'
  BY TypeNext DEF IInv
<1> QED BY <1>1, TreeNext, PlaceNext, StackNext, WaitNext, AccountingNext
        DEF IInv

LEMMA IInvCorrect == Spec => []IInv
BY IInvInit, IInvNext, PTL DEF Spec

(* Every variable keeps its type, and the recursion of terminateprocess    *)
(* always starts at the running process.                                   *)
THEOREM TypeCorrect == Spec => []TypeOK
<1>1. IInv => TypeOK
  BY DEF IInv
<1> QED BY <1>1, IInvCorrect, PTL

(* procCnt counts the pcbs in use, whatever is created and killed and      *)
(* wherever a recursive kill is abandoned.                                 *)
THEOREM ProcAccountingCorrect == Spec => []ProcAccounting
<1>1. IInv => ProcAccounting
  BY DEF IInv
<1> QED BY <1>1, IInvCorrect, PTL

(* No process is lost or in two places, until a kill leaves a freed pcb on *)
(* the ready queue.                                                        *)
THEOREM OnePlaceCorrect == Spec => []OnePlace
<1>1. IInv => OnePlace
  BY DEF IInv
<1> QED BY <1>1, IInvCorrect, PTL

(* The child lists and the parent pointers always agree.                   *)
THEOREM TreeCorrect == Spec => []TreeOK
<1>1. IInv => TreeOK
  BY DEF IInv
<1> QED BY <1>1, IInvCorrect, PTL
==============================================================================
