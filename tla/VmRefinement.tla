---------------------------- MODULE VmRefinement ----------------------------
(***************************************************************************)
(* Paging is invisible: the VM support layer implements the virtual memory *)
(* of module VirtualMemory, for any number of processes, frames and pages, *)
(* as long as the programs use no page of the shared segment, which the    *)
(* pager takes for one of segment 2.                                       *)
(***************************************************************************)
EXTENDS VmProofs

PrivateOnly == 3 \notin Segment

-----------------------------------------------------------------------------
(* The part of the inductive invariant that is about contents.             *)

(* While a process starts, disk 0 holds the part of the tape it has read.  *)
StartData(p) ==
  /\ \A i \in Index : i < block[p] => disk[p][i] = Image(p, i)
  /\ \A i \in Index : i >= Blocks => disk[p][i] = Blank
  /\ Booting(p) /\ pc[p] = "unlock" => disk[p][block[p]] = Image(p, block[p])

(* The disk operation of q writes out the page of a process.               *)
Evicting(q) == io[q] # None /\ io[q].back = "read"

(* That process has started and no longer reaches the page, and after the  *)
(* transfer the page is on the disk.                                       *)
EvictData(q) ==
  /\ ~Starting(io[q].asid)
  /\ pc[io[q].asid] \notin Ended => pte[io[q].asid][io[q].cyl] \notin Frame
  /\ pc[q] = "unlock" => disk[io[q].asid][io[q].cyl] = ram[io[q].buf]

(* The page of a fault is in no frame; after the transfer the frame holds  *)
(* what the disk holds; at the end the page is in the frame.               *)
FaultData(p) ==
  /\ Filling(p) \/ (pc[p] \in {"pager", "frame"} /\ miss[p] # BadCause) =>
       pte[p][pteIndex(miss[p][2])] \notin Frame
  /\ pc[p] = "load" \/ (Paging(p) /\ io[p].back = "load" /\ pc[p] = "unlock") =>
       ram[fNo[p]] = disk[p][pteIndex(miss[p][2])]
  /\ pc[p] = "leave" => pte[p][pteIndex(miss[p][2])] = fNo[p]

(* The swap pool table is right, except for a frame that is being filled.  *)
TableExact ==
  \A f \in Frame :
    swapPool[f] # Free /\ (\A q \in ASID : Filling(q) => fNo[q] # f)
      => pte[swapPool[f][1]][pteIndex(swapPool[f][2])] = f

DataInv ==
  /\ TableExact
  /\ \A p \in ASID :
       /\ pc[p] \notin Ended /\ Starting(p) => StartData(p)
       /\ Evicting(p) => EvictData(p)
       /\ pc[p] \notin Ended => FaultData(p)

-----------------------------------------------------------------------------
(* The refinement mapping, case by case.                                   *)

Out(q, p, i) == Evicting(q) /\ io[q].asid = p /\ io[q].cyl = i

PageAt(p, v, i) ==
  /\ pc[p] \in Ended => Contents(p, v) = Gone
  /\ pc[p] \notin Ended /\ Starting(p) => Contents(p, v) = InitialContents(p, v)
  /\ pc[p] \notin Ended /\ ~Starting(p) =>
       /\ pte[p][i] \in Frame => Contents(p, v) = ram[pte[p][i]]
       /\ pte[p][i] \notin Frame =>
            /\ \A q \in ASID : Out(q, p, i) => Contents(p, v) = ram[fNo[q]]
            /\ (\A q \in ASID : ~Out(q, p, i)) => Contents(p, v) = disk[p][i]

Pages == \A p \in ASID, v \in Page : PageAt(p, v, pteIndex(v))

LEMMA EvictingIsPaging ==
  ASSUME ControlInv, SemInv, NEW q \in ASID, Evicting(q)
  PROVE  /\ Paging(q) /\ Filling(q) /\ HoldsPool(q)
         /\ io[q].buf = fNo[q] /\ fNo[q] \in Frame /\ io[q].cmd = "write"
         /\ io[q].asid \in ASID /\ io[q].cyl \in Index
         /\ \A r \in ASID : HoldsPool(r) => r = q
<1>1. Paging(q) /\ Filling(q)
  BY DEF Evicting, Paging, Filling
<1>2. HoldsPool(q)
  BY <1>1 DEF HoldsPool
<1>3. io[q] \in Operation
  BY DEF Evicting, ControlInv, TypeOK
<1> QED BY <1>1, <1>2, <1>3, Holders DEF Evicting, Operation, ControlInv,
                                         Control, OperationOK

LEMMA PagesAre == ControlInv /\ SemInv => Pages
<1> SUFFICES ASSUME ControlInv, SemInv, NEW p \in ASID, NEW v \in Page
             PROVE  PageAt(p, v, pteIndex(v))
  BY DEF Pages
<1> DEFINE i == pteIndex(v)
           leaving == {q \in ASID : io[q] # None /\ io[q].back = "read" /\
                                      io[q].asid = p /\ io[q].cyl = i}
<1>1. /\ pc[p] \in Ended => Contents(p, v) = Gone
      /\ pc[p] \notin Ended /\ Starting(p) => Contents(p, v) = InitialContents(p, v)
      /\ pc[p] \notin Ended /\ ~Starting(p) /\ pte[p][i] \in Frame =>
           Contents(p, v) = ram[pte[p][i]]
  BY DEF Contents, Starting, Booting
<1>2. pc[p] \notin Ended /\ ~Starting(p) /\ pte[p][i] \notin Frame =>
        Contents(p, v) = IF leaving # {} THEN ram[io[CHOOSE q \in leaving : TRUE].buf]
                                         ELSE disk[p][i]
  BY DEF Contents, Starting, Booting
<1>3. ASSUME NEW q \in ASID, Out(q, p, i)
      PROVE  leaving # {} /\ io[CHOOSE r \in leaving : TRUE].buf = fNo[q]
  <2>1. q \in leaving
    BY <1>3 DEF Out, Evicting
  <2>2. (CHOOSE r \in leaving : TRUE) \in leaving
    BY <2>1
  <2>3. ASSUME NEW r \in leaving PROVE r = q
    <3>1. Evicting(r) /\ Evicting(q) /\ r \in ASID
      BY <1>3 DEF Out, Evicting
    <3> QED BY <3>1, EvictingIsPaging
  <2>4. io[q].buf = fNo[q]
    BY <1>3, EvictingIsPaging DEF Out
  <2> QED BY <2>1, <2>2, <2>3, <2>4
<1>4. (\A q \in ASID : ~Out(q, p, i)) => leaving = {}
  BY DEF Out, Evicting
<1> HIDE DEF leaving
<1> QED BY <1>1, <1>2, <1>3, <1>4 DEF PageAt

LEMMA NextPages == ControlInv' /\ SemInv' => Pages'
BY PagesAre, PTL

(* The abstract step of a step that changes at most one page, or ends one  *)
(* process.                                                                *)
Same(p, v) == Contents(p, v)' = Contents(p, v)

VMStep == [VM!Next]_([p \in ASID |-> [v \in Page |-> Contents(p, v)]])

LEMMA Invisible ==
  ASSUME \A p \in ASID, v \in Page : Same(p, v)
  PROVE  VMStep
BY DEF VMStep, Same

LEMMA EndIsExit ==
  ASSUME NEW p \in ASID, \A v \in Page : Contents(p, v)' = Gone,
         \A q \in ASID, v \in Page : q # p => Same(q, v)
  PROVE  VMStep
<1>1. VM!Exit(p)
  BY DEF VM!Exit, Same
<1> QED BY <1>1 DEF VMStep, VM!Next

LEMMA WriteIsWrite ==
  ASSUME NEW p \in ASID, NEW v \in Page, Contents(p, v) # Gone,
         Contents(p, v)' = Written(p, v),
         \A q \in ASID, w \in Page : ~(q = p /\ w = v) => Same(q, w)
  PROVE  VMStep
<1>1. VM!Write(p, v)
  BY DEF VM!Write, Same
<1> QED BY <1>1 DEF VMStep, VM!Next

-----------------------------------------------------------------------------
(* Steps that move no page.                                                *)

LEMMA InitData ==
  ASSUME Init
  PROVE  /\ DataInv
         /\ VM!Init
<1>1. TableExact
  BY DEF Init, TableExact
<1>2. ASSUME NEW p \in ASID
      PROVE  /\ pc[p] = "unborn" /\ io[p] = None
             /\ StartData(p) /\ ~Evicting(p) /\ FaultData(p)
  <2>1. pc[p] = "unborn" /\ io[p] = None
    BY Constants DEF Init
  <2>2. StartData(p)
    <3>1. block[p] = 0 /\ \A i \in Index : disk[p][i] = Blank /\ i \in Nat
      BY Constants DEF Init
    <3> QED BY <2>1, <3>1 DEF StartData, Booting
  <2> QED BY <2>1, <2>2 DEF Evicting, FaultData, Filling, Paging
<1>3. VM!Init
  BY <1>2 DEF VM!Init, Contents, Ended
<1> QED BY <1>1, <1>2, <1>3 DEF DataInv

(* What the step of p leaves alone of the other processes. *)
Others(p) ==
  \A q \in ASID : q # p =>
    /\ pc'[q] = pc[q] /\ io'[q] = io[q] /\ fNo'[q] = fNo[q]
    /\ miss'[q] = miss[q] /\ block'[q] = block[q]

LEMMA OthersAlike ==
  ASSUME NEW p \in ASID, Others(p), NEW q \in ASID, q # p
  PROVE  /\ Starting(q)' <=> Starting(q)
         /\ Booting(q)' <=> Booting(q)
         /\ Paging(q)' <=> Paging(q)
         /\ Filling(q)' <=> Filling(q)
         /\ Evicting(q)' <=> Evicting(q)
BY DEF Others, Starting, Booting, Paging, Filling, Evicting

LEMMA DataFrame ==
  ASSUME ControlInv, SemInv, DataInv, NEW p \in ASID, Others(p),
         UNCHANGED <<pte, ram, disk>>,
         \A f \in Frame : swapPool'[f] \in {swapPool[f], Free},
         Filling(p) => Filling(p)' /\ fNo'[p] = fNo[p],
         Starting(p)' => Starting(p),
         pc[p] \in Ended => pc'[p] \in Ended,
         pc'[p] \notin Ended /\ Starting(p)' => StartData(p)',
         Evicting(p)' => /\ Evicting(p) /\ io'[p] = io[p]
                         /\ pc'[p] = "unlock" => pc[p] = "unlock",
         pc'[p] \notin Ended => FaultData(p)'
  PROVE  DataInv'
<1>1. \A q \in ASID : /\ Starting(q)' => Starting(q)
                      /\ pc'[q] \notin Ended => pc[q] \notin Ended
  BY OthersAlike DEF Others
<1>2. TableExact'
  <2>1. \A q \in ASID : Filling(q) => Filling(q)' /\ fNo'[q] = fNo[q]
    BY OthersAlike DEF Others
  <2> QED BY <2>1 DEF DataInv, TableExact
<1>3. ASSUME NEW q \in ASID, pc'[q] \notin Ended, Starting(q)'
      PROVE  StartData(q)'
  <2>1. CASE q = p
    BY <1>3, <2>1
  <2>2. CASE q # p
    BY <1>1, <1>3, <2>2, OthersAlike DEF DataInv, StartData, Others
  <2> QED BY <2>1, <2>2
<1>4. ASSUME NEW q \in ASID, Evicting(q)'
      PROVE  EvictData(q)'
  <2>1. Evicting(q) /\ io'[q] = io[q] /\ (pc'[q] = "unlock" => pc[q] = "unlock")
    BY <1>4, OthersAlike DEF Others
  <2>2. io[q].asid \in ASID /\ EvictData(q)
    BY <2>1, EvictingIsPaging DEF DataInv
  <2>3. \A r \in ASID : r = io[q].asid =>
          ~Starting(r)' /\ (pc'[r] \notin Ended => pc[r] \notin Ended)
    BY <1>1, <2>2 DEF EvictData
  <2> QED BY <2>1, <2>2, <2>3 DEF EvictData, Starting, Booting
<1>5. ASSUME NEW q \in ASID, pc'[q] \notin Ended
      PROVE  FaultData(q)'
  <2>1. CASE q = p
    BY <1>5, <2>1
  <2>2. CASE q # p
    BY <1>1, <1>5, <2>2, OthersAlike DEF DataInv, FaultData, Others
  <2> QED BY <2>1, <2>2
<1> QED BY <1>2, <1>3, <1>4, <1>5 DEF DataInv

LEMMA ContentsFrame ==
  ASSUME ControlInv, SemInv, NEW p \in ASID, Others(p), Pages, Pages',
         UNCHANGED <<pte, ram, disk>>,
         Evicting(p)' <=> Evicting(p), Evicting(p) => io'[p] = io[p] /\ fNo'[p] = fNo[p],
         NEW x \in ASID, NEW v \in Page,
         x # p \/ /\ pc'[p] \in Ended <=> pc[p] \in Ended
                  /\ Starting(p)' <=> Starting(p)
  PROVE  Same(x, v)
<1> DEFINE i == pteIndex(v)
<1>1. PageAt(x, v, i) /\ PageAt(x, v, i)'
  BY DEF Pages
<1>2. \A q \in ASID : (Out(q, x, i)' <=> Out(q, x, i)) /\ (Out(q, x, i) => fNo'[q] = fNo[q])
  BY OthersAlike DEF Out, Others
<1>3. /\ pc'[x] \in Ended <=> pc[x] \in Ended
      /\ Starting(x)' <=> Starting(x)
  BY OthersAlike DEF Others
<1>4. InitialContents(x, v)' = InitialContents(x, v)
  BY DEF InitialContents
<1>5. CASE pc[x] \notin Ended /\ ~Starting(x) /\ pte[x][i] \notin Frame
  <2>1. CASE \E q \in ASID : Out(q, x, i)
    BY <1>1, <1>2, <1>3, <1>5, <2>1 DEF PageAt, Same
  <2>2. CASE \A q \in ASID : ~Out(q, x, i)
    BY <1>1, <1>2, <1>3, <1>5, <2>2 DEF PageAt, Same
  <2> QED BY <2>1, <2>2
<1>6. CASE ~(pc[x] \notin Ended /\ ~Starting(x) /\ pte[x][i] \notin Frame)
  BY <1>1, <1>3, <1>4, <1>6 DEF PageAt, Same
<1> QED BY <1>5, <1>6

LEMMA KeepsPages ==
  ASSUME ControlInv, SemInv, NEW p \in ASID, Others(p), Pages, Pages',
         UNCHANGED <<pte, ram, disk>>,
         Evicting(p)' <=> Evicting(p), Evicting(p) => io'[p] = io[p] /\ fNo'[p] = fNo[p],
         pc'[p] \in Ended <=> pc[p] \in Ended,
         Starting(p)' <=> Starting(p)
  PROVE  VMStep
<1>1. \A x \in ASID, v \in Page : Same(x, v)
  BY ContentsFrame
<1> QED BY <1>1, Invisible

LEMMA LosesPages ==
  ASSUME ControlInv, SemInv, NEW p \in ASID, Others(p), Pages, Pages',
         UNCHANGED <<pte, ram, disk>>,
         Evicting(p)' <=> Evicting(p), Evicting(p) => io'[p] = io[p] /\ fNo'[p] = fNo[p],
         pc'[p] \in Ended
  PROVE  VMStep
<1>1. \A x \in ASID, v \in Page : x # p => Same(x, v)
  BY ContentsFrame
<1>2. \A v \in Page : Contents(p, v)' = Gone
  BY DEF Pages, PageAt, Gone
<1> QED BY <1>1, <1>2, EndIsExit

(* The actions after which every page is where it was. *)
Calm(p) ==
  \/ ReadTape(p) \/ LockDisk(p) \/ Seek(p) \/ Transfer(p)
  \/ \E v \in Page : Read(p, v)
  \/ \E seg \in Segment, v \in Page : Fault(p, seg, v)
  \/ Miss(p) \/ EndUser(p)
  \/ EnterPager(p) \/ RejectCause(p) \/ ReadPage(p) \/ LeavePager(p)
  \/ BeginTerminate(p) \/ SignalRoot(p) \/ Exit(p)

LEMMA CalmData ==
  ASSUME PrivateOnly, ControlInv, SemInv, MemoryInv, DataInv, Pages, Pages',
         NEW p \in ASID, Calm(p)
  PROVE  DataInv' /\ VMStep
<1> DEFINE
      Alone == Others(p) /\ UNCHANGED <<swapPool, pte, ram, disk>>
      Alike ==
        /\ Filling(p) => Filling(p)' /\ fNo'[p] = fNo[p]
        /\ Starting(p)' <=> Starting(p)
        /\ pc'[p] \in Ended <=> pc[p] \in Ended
        /\ Evicting(p)' <=> Evicting(p)
        /\ Evicting(p) => /\ io'[p] = io[p] /\ fNo'[p] = fNo[p]
                          /\ pc'[p] # "unlock"
      Start == pc'[p] \notin Ended /\ Starting(p)' => StartData(p)'
      Fit == pc'[p] \notin Ended => FaultData(p)'
<1>1. ASSUME ReadTape(p) PROVE Alone /\ Alike /\ Start /\ Fit
  <2>1. Alone
    BY <1>1 DEF ReadTape, Others, Goto, paging, memory, ControlInv, TypeOK
  <2>2. Alike
    BY <1>1 DEF ReadTape, At, Goto, paging, Filling, Starting, Evicting,
       Paging, Booting, Ended, DiskLabel, ControlInv, TypeOK, Control,
       OperationOK
  <2>3. Start
    BY <1>1, <2>2 DEF ReadTape, At, Goto, paging, memory, DataInv, StartData,
       Booting, Starting, Ended, ControlInv, TypeOK
  <2>4. Fit
    BY <1>1, <2>2 DEF ReadTape, At, Goto, paging, memory, DataInv, FaultData,
       Filling, Paging, Ended, DiskLabel, ControlInv, TypeOK, Control,
       OperationOK
  <2> QED BY <2>1, <2>2, <2>3, <2>4
<1>2. ASSUME LockDisk(p) PROVE Alone /\ Alike /\ Start /\ Fit
  <2>1. Alone
    BY <1>2 DEF LockDisk, Others, Goto, paging, memory, ControlInv, TypeOK
  <2>2. Alike
    BY <1>2 DEF LockDisk, At, Goto, paging, Filling, Starting, Evicting,
       Paging, Booting, Ended, DiskLabel, ControlInv, TypeOK, Control,
       OperationOK
  <2>3. Start
    BY <1>2, <2>2 DEF LockDisk, At, Goto, paging, memory, DataInv, StartData,
       Booting, Starting, Ended, ControlInv, TypeOK
  <2>4. Fit
    BY <1>2, <2>2 DEF LockDisk, At, Goto, paging, memory, DataInv, FaultData,
       Filling, Paging, Ended, DiskLabel, ControlInv, TypeOK, Control,
       OperationOK
  <2> QED BY <2>1, <2>2, <2>3, <2>4
<1>3. ASSUME Seek(p) PROVE Alone /\ Alike /\ Start /\ Fit
  <2>1. Alone
    BY <1>3 DEF Seek, Others, Goto, paging, memory, ControlInv, TypeOK
  <2>2. Alike
    BY <1>3 DEF Seek, At, Goto, paging, Filling, Starting, Evicting, Paging,
       Booting, Ended, DiskLabel, ControlInv, TypeOK, Control, OperationOK
  <2>3. Start
    BY <1>3, <2>2 DEF Seek, At, Goto, paging, memory, DataInv, StartData,
       Booting, Starting, Ended, ControlInv, TypeOK
  <2>4. Fit
    BY <1>3, <2>2 DEF Seek, At, Goto, paging, memory, DataInv, FaultData,
       Filling, Paging, Ended, DiskLabel, ControlInv, TypeOK, Control,
       OperationOK
  <2> QED BY <2>1, <2>2, <2>3, <2>4
<1>4. ASSUME Transfer(p) PROVE Alone /\ Alike /\ Start /\ Fit
  <2>1. Alone
    BY <1>4 DEF Transfer, Others, Goto, paging, memory, ControlInv, TypeOK
  <2>2. Alike
    BY <1>4 DEF Transfer, At, Goto, paging, Filling, Starting, Evicting,
       Paging, Booting, Ended, DiskLabel, ControlInv, TypeOK, Control,
       OperationOK
  <2>3. Start
    BY <1>4, <2>2 DEF Transfer, At, Goto, paging, memory, DataInv, StartData,
       Booting, Starting, Ended, ControlInv, TypeOK
  <2>4. Fit
    BY <1>4, <2>2 DEF Transfer, At, Goto, paging, memory, DataInv, FaultData,
       Filling, Paging, Ended, DiskLabel, ControlInv, TypeOK, Control,
       OperationOK
  <2> QED BY <2>1, <2>2, <2>3, <2>4
<1>5. ASSUME NEW v \in Page, Read(p, v) PROVE Alone /\ Alike /\ Start /\ Fit
  <2>1. Alone
    BY <1>5 DEF Read, Others, Goto, paging, memory, ControlInv, TypeOK
  <2>2. Alike
    BY <1>5 DEF Read, At, Goto, paging, Filling, Starting, Evicting, Paging,
       Booting, Ended, DiskLabel, ControlInv, TypeOK, Control, OperationOK
  <2>3. Start
    BY <1>5, <2>2 DEF Read, At, Goto, paging, memory, DataInv, StartData,
       Booting, Starting, Ended, ControlInv, TypeOK
  <2>4. Fit
    BY <1>5, <2>2 DEF Read, At, Goto, paging, memory, DataInv, FaultData,
       Filling, Paging, Ended, DiskLabel, ControlInv, TypeOK, Control,
       OperationOK
  <2> QED BY <2>1, <2>2, <2>3, <2>4
<1>6. ASSUME NEW seg \in Segment, NEW v \in Page, Fault(p, seg, v) PROVE Alone /\ Alike /\ Start /\ Fit
  <2>1. Alone
    BY <1>6 DEF Fault, Others, Goto, paging, memory, ControlInv, TypeOK
  <2>2. Alike
    BY <1>6 DEF Fault, At, Goto, paging, Filling, Starting, Evicting, Paging,
       Booting, Ended, DiskLabel, ControlInv, TypeOK, Control, OperationOK
  <2>3. Start
    BY <1>6, <2>2 DEF Fault, At, Goto, paging, memory, DataInv, StartData,
       Booting, Starting, Ended, ControlInv, TypeOK
  <2>4. Fit
    <3>1. /\ pc[p] = "run" /\ pc'[p] = "pager" /\ miss'[p] = <<seg, v>> /\ pte' = pte
      BY <1>6 DEF Fault, At, Goto, ControlInv, TypeOK
    <3>2. pte[p][pteIndex(v)] = Invalid
      <4>1. translation(p, seg, v) = Invalid /\ seg # 3
        BY <1>6 DEF Fault, PrivateOnly
      <4>2. tlb[p][pteIndex(v)] \in {pte[p][pteIndex(v)], Absent}
        BY <3>1, PageIndex DEF MemoryInv, Mapping, Ended
      <4> QED BY <4>1, <4>2 DEF translation, Absent, Invalid
    <3>3. ~Paging(p)'
      BY <1>6, <3>1 DEF Fault, Paging, Ended, DiskLabel, ControlInv, Control,
         OperationOK
    <3> QED BY <3>1, <3>2, <3>3, Constants DEF FaultData, Filling
  <2> QED BY <2>1, <2>2, <2>3, <2>4
<1>7. ASSUME Miss(p) PROVE Alone /\ Alike /\ Start /\ Fit
  <2>1. Alone
    BY <1>7 DEF Miss, Others, Goto, paging, memory, ControlInv, TypeOK
  <2>2. Alike
    BY <1>7 DEF Miss, At, Goto, paging, Filling, Starting, Evicting, Paging,
       Booting, Ended, DiskLabel, ControlInv, TypeOK, Control, OperationOK
  <2>3. Start
    BY <1>7, <2>2 DEF Miss, At, Goto, paging, memory, DataInv, StartData,
       Booting, Starting, Ended, ControlInv, TypeOK
  <2>4. Fit
    <3>1. pc'[p] = "pager" /\ miss'[p] = BadCause
      BY <1>7 DEF Miss, Goto, ControlInv, TypeOK
    <3>2. ~Paging(p)'
      BY <1>7 DEF Miss, At, Paging, Ended, DiskLabel, ControlInv, Control,
         OperationOK
    <3> QED BY <3>1, <3>2 DEF FaultData, Filling
  <2> QED BY <2>1, <2>2, <2>3, <2>4
<1>8. ASSUME EndUser(p) PROVE Alone /\ Alike /\ Start /\ Fit
  <2>1. Alone
    BY <1>8 DEF EndUser, Others, Goto, paging, memory, ControlInv, TypeOK
  <2>2. Alike
    BY <1>8 DEF EndUser, At, Goto, paging, Filling, Starting, Evicting,
       Paging, Booting, Ended, DiskLabel, ControlInv, TypeOK, Control,
       OperationOK
  <2>3. Start
    BY <1>8, <2>2 DEF EndUser, At, Goto, paging, memory, DataInv, StartData,
       Booting, Starting, Ended, ControlInv, TypeOK
  <2>4. Fit
    BY <1>8, <2>2 DEF EndUser, At, Goto, paging, memory, DataInv, FaultData,
       Filling, Paging, Ended, DiskLabel, ControlInv, TypeOK, Control,
       OperationOK
  <2> QED BY <2>1, <2>2, <2>3, <2>4
<1>9. ASSUME EnterPager(p) PROVE Alone /\ Alike /\ Start /\ Fit
  <2>1. Alone
    BY <1>9 DEF EnterPager, Others, Goto, paging, memory, ControlInv, TypeOK
  <2>2. Alike
    BY <1>9 DEF EnterPager, At, Goto, paging, Filling, Starting, Evicting,
       Paging, Booting, Ended, DiskLabel, ControlInv, TypeOK, Control,
       OperationOK
  <2>3. Start
    BY <1>9, <2>2 DEF EnterPager, At, Goto, paging, memory, DataInv,
       StartData, Booting, Starting, Ended, ControlInv, TypeOK
  <2>4. Fit
    BY <1>9, <2>2 DEF EnterPager, At, Goto, paging, memory, DataInv,
       FaultData, Filling, Paging, Ended, DiskLabel, ControlInv, TypeOK,
       Control, OperationOK
  <2> QED BY <2>1, <2>2, <2>3, <2>4
<1>10. ASSUME RejectCause(p) PROVE Alone /\ Alike /\ Start /\ Fit
  <2>1. Alone
    BY <1>10 DEF RejectCause, Others, Goto, paging, memory, ControlInv, TypeOK
  <2>2. Alike
    BY <1>10 DEF RejectCause, At, Goto, paging, Filling, Starting, Evicting,
       Paging, Booting, Ended, DiskLabel, ControlInv, TypeOK, Control,
       OperationOK
  <2>3. Start
    BY <1>10, <2>2 DEF RejectCause, At, Goto, paging, memory, DataInv,
       StartData, Booting, Starting, Ended, ControlInv, TypeOK
  <2>4. Fit
    BY <1>10, <2>2 DEF RejectCause, At, Goto, paging, memory, DataInv,
       FaultData, Filling, Paging, Ended, DiskLabel, ControlInv, TypeOK,
       Control, OperationOK
  <2> QED BY <2>1, <2>2, <2>3, <2>4
<1>11. ASSUME ReadPage(p) PROVE Alone /\ Alike /\ Start /\ Fit
  <2>1. Alone
    BY <1>11 DEF ReadPage, Others, Goto, paging, memory, ControlInv, TypeOK
  <2>2. Alike /\ Paging(p)' /\ pc[p] = "read" /\ pc'[p] = "lock"
    <3>1. /\ pc[p] = "read" /\ pc'[p] = "lock" /\ fNo'[p] = fNo[p]
          /\ io'[p] = readIn(p)
      BY <1>11 DEF ReadPage, At, Goto, paging, ControlInv, TypeOK
    <3>2. io[p] = None
      BY <3>1 DEF Ended, DiskLabel, Booting, Paging, ControlInv, Control,
         OperationOK
    <3>3. readIn(p) # None /\ readIn(p).back = "load"
      BY DEF readIn, None
    <3> QED BY <3>1, <3>2, <3>3 DEF Filling, Starting, Evicting, Paging,
               Booting, Ended
  <2>3. Start
    BY <2>2 DEF Starting, Booting, Paging
  <2>4. Fit
    BY <1>11, <2>2 DEF ReadPage, paging, memory, DataInv, FaultData, Filling,
       Ended
  <2> QED BY <2>1, <2>2, <2>3, <2>4
<1>12. ASSUME LeavePager(p) PROVE Alone /\ Alike /\ Start /\ Fit
  <2>1. Alone
    BY <1>12 DEF LeavePager, Others, Goto, paging, memory, ControlInv, TypeOK
  <2>2. Alike
    BY <1>12 DEF LeavePager, At, Goto, paging, Filling, Starting, Evicting,
       Paging, Booting, Ended, DiskLabel, ControlInv, TypeOK, Control,
       OperationOK
  <2>3. Start
    BY <1>12, <2>2 DEF LeavePager, At, Goto, paging, memory, DataInv,
       StartData, Booting, Starting, Ended, ControlInv, TypeOK
  <2>4. Fit
    BY <1>12, <2>2 DEF LeavePager, At, Goto, paging, memory, DataInv,
       FaultData, Filling, Paging, Ended, DiskLabel, ControlInv, TypeOK,
       Control, OperationOK
  <2> QED BY <2>1, <2>2, <2>3, <2>4
<1>13. ASSUME BeginTerminate(p) PROVE Alone /\ Alike /\ Start /\ Fit
  <2>1. Alone
    BY <1>13 DEF BeginTerminate, Others, Goto, paging, memory, ControlInv,
       TypeOK
  <2>2. Alike
    BY <1>13 DEF BeginTerminate, At, Goto, paging, Filling, Starting,
       Evicting, Paging, Booting, Ended, DiskLabel, ControlInv, TypeOK,
       Control, OperationOK
  <2>3. Start
    BY <1>13, <2>2 DEF BeginTerminate, At, Goto, paging, memory, DataInv,
       StartData, Booting, Starting, Ended, ControlInv, TypeOK
  <2>4. Fit
    BY <1>13, <2>2 DEF BeginTerminate, At, Goto, paging, memory, DataInv,
       FaultData, Filling, Paging, Ended, DiskLabel, ControlInv, TypeOK,
       Control, OperationOK
  <2> QED BY <2>1, <2>2, <2>3, <2>4
<1>14. ASSUME SignalRoot(p) PROVE Alone /\ Alike /\ Start /\ Fit
  <2>1. Alone
    BY <1>14 DEF SignalRoot, Others, Goto, paging, memory, ControlInv, TypeOK
  <2>2. Alike
    BY <1>14 DEF SignalRoot, At, Goto, paging, Filling, Starting, Evicting,
       Paging, Booting, Ended, DiskLabel, ControlInv, TypeOK, Control,
       OperationOK
  <2>3. Start
    BY <1>14, <2>2 DEF SignalRoot, At, Goto, paging, memory, DataInv,
       StartData, Booting, Starting, Ended, ControlInv, TypeOK
  <2>4. Fit
    BY <1>14, <2>2 DEF SignalRoot, At, Goto, paging, memory, DataInv,
       FaultData, Filling, Paging, Ended, DiskLabel, ControlInv, TypeOK,
       Control, OperationOK
  <2> QED BY <2>1, <2>2, <2>3, <2>4
<1>15. ASSUME Exit(p) PROVE Alone /\ Alike /\ Start /\ Fit
  <2>1. Alone
    BY <1>15 DEF Exit, Others, Goto, paging, memory, ControlInv, TypeOK
  <2>2. Alike
    BY <1>15 DEF Exit, At, Goto, paging, Filling, Starting, Evicting, Paging,
       Booting, Ended, DiskLabel, ControlInv, TypeOK, Control, OperationOK
  <2>3. Start
    BY <1>15, <2>2 DEF Exit, At, Goto, paging, memory, DataInv, StartData,
       Booting, Starting, Ended, ControlInv, TypeOK
  <2>4. Fit
    BY <1>15, <2>2 DEF Exit, At, Goto, paging, memory, DataInv, FaultData,
       Filling, Paging, Ended, DiskLabel, ControlInv, TypeOK, Control,
       OperationOK
  <2> QED BY <2>1, <2>2, <2>3, <2>4
<1>16. Alone /\ Alike /\ Start /\ Fit
  BY <1>1, <1>2, <1>3, <1>4, <1>5, <1>6, <1>7, <1>8, <1>9, <1>10, <1>11,
     <1>12, <1>13, <1>14, <1>15 DEF Calm
<1>17. DataInv'
  BY <1>16, DataFrame
<1>18. VMStep
  BY <1>16, KeepsPages
<1> QED BY <1>17, <1>18

-----------------------------------------------------------------------------
(* Steps of the start-up, and of disk operations.                          *)

LEMMA TapeDoneData ==
  ASSUME ControlInv, SemInv, DataInv, Pages, Pages', NEW p \in ASID, TapeDone(p)
  PROVE  DataInv' /\ VMStep
<1> DEFINE op == [cmd |-> "write", asid |-> p, cyl |-> block[p],
                   buf |-> TapeBuffer, back |-> "tape"]
<1>1. /\ pc[p] = "tapeWait" /\ Others(p)
      /\ UNCHANGED <<swapPool, pte, ram, disk, block, miss, fNo>>
  BY DEF TapeDone, At, Others, Goto, paging, memory, ControlInv, TypeOK
<1>2. io[p] = None /\ ~Filling(p) /\ Starting(p) /\ ~Evicting(p)
  BY <1>1 DEF ControlInv, TypeOK, Control, OperationOK, Booting, Paging,
     Filling, Starting, Evicting, DiskLabel, Ended
<1>3. CASE pc'[p] = "lock" /\ io'[p] = op
  <2>1. op # None /\ op.back = "tape"
    BY DEF None
  <2>2. Starting(p)' /\ Booting(p)' /\ ~Filling(p)' /\ ~Evicting(p)'
    BY <1>3, <2>1 DEF Starting, Booting, Filling, Paging, Evicting
  <2>3. StartData(p)'
    BY <1>1, <1>2, <1>3 DEF DataInv, StartData, Ended
  <2>4. FaultData(p)'
    BY <1>3, <2>2 DEF FaultData, Filling
  <2>5. DataInv'
    BY <1>1, <1>2, <1>3, <2>2, <2>3, <2>4, DataFrame DEF Ended
  <2>6. VMStep
    BY <1>1, <1>2, <1>3, <2>2, KeepsPages DEF Ended
  <2> QED BY <2>5, <2>6
<1>4. CASE pc'[p] = "dead" /\ io' = io
  <2>1. ~Evicting(p)' /\ pc'[p] \in Ended
    BY <1>2, <1>4 DEF Evicting, Ended
  <2>2. DataInv'
    BY <1>1, <1>2, <1>4, <2>1, DataFrame
  <2>3. VMStep
    BY <1>1, <1>2, <1>4, <2>1, LosesPages
  <2> QED BY <2>2, <2>3
<1>5. \/ pc'[p] = "lock" /\ io'[p] = op
      \/ pc'[p] = "dead" /\ io' = io
  BY DEF TapeDone, Goto, ControlInv, TypeOK
<1> QED BY <1>3, <1>4, <1>5

(* A disk operation that does not succeed, or a seek. *)
LEMMA DeviceData ==
  ASSUME ControlInv, SemInv, DataInv, Pages, Pages', NEW p \in ASID,
         pc[p] \in {"seekWait", "transferWait"}, Others(p),
         UNCHANGED <<swapPool, pte, ram, disk, block, io, miss, fNo>>,
         pc'[p] \in {"transfer", failTo(p)}
  PROVE  DataInv' /\ VMStep
<1>1. /\ Filling(p) <=> Paging(p)
      /\ Filling(p)' <=> Paging(p)
      /\ Booting(p)' <=> Booting(p)
      /\ Paging(p)' <=> Paging(p)
      /\ Starting(p)' <=> Booting(p)
      /\ Starting(p) <=> Booting(p)
      /\ Evicting(p)' <=> Evicting(p)
      /\ pc[p] \notin Ended /\ pc'[p] # "unlock"
      /\ Booting(p) <=> ~Paging(p)
  BY DEF failTo, Filling, Starting, Booting, Paging, Evicting, Ended,
     ControlInv, Control, OperationOK, DiskLabel
<1>2. FaultData(p)'
  BY <1>1 DEF DataInv, FaultData, failTo
<1>3. Starting(p)' => StartData(p)'
  BY <1>1 DEF DataInv, StartData
<1>4. DataInv'
  BY <1>1, <1>2, <1>3, DataFrame
<1>5. ASSUME pc'[p] \in Ended PROVE VMStep
  BY <1>1, <1>5, LosesPages
<1>6. ASSUME pc'[p] \notin Ended PROVE VMStep
  BY <1>1, <1>6, KeepsPages
<1> QED BY <1>4, <1>5, <1>6

LEMMA SeekDoneData ==
  ASSUME ControlInv, SemInv, DataInv, Pages, Pages', NEW p \in ASID, SeekDone(p)
  PROVE  DataInv' /\ VMStep
<1>1. /\ pc[p] = "seekWait" /\ Others(p)
      /\ UNCHANGED <<swapPool, pte, ram, disk, block, io, miss, fNo>>
      /\ pc'[p] \in {"transfer", failTo(p)}
  BY DEF SeekDone, At, Others, Goto, paging, memory, ControlInv, TypeOK
<1> QED BY <1>1, DeviceData

LEMMA StartUserData ==
  ASSUME ControlInv, SemInv, MemoryInv, DataInv, Pages, Pages', NEW p \in ASID,
         StartUser(p)
  PROVE  DataInv' /\ VMStep
<1>1. /\ pc[p] = "tape" /\ pc'[p] = "run" /\ block[p] = Blocks /\ Others(p)
      /\ UNCHANGED <<swapPool, pte, ram, disk, io, fNo>>
  BY DEF StartUser, At, Others, Goto, paging, memory, ControlInv, TypeOK
<1>2. /\ io[p] = None /\ ~Filling(p) /\ ~Filling(p)' /\ ~Evicting(p) /\ ~Evicting(p)'
      /\ Starting(p) /\ ~Starting(p)' /\ pc[p] \notin Ended /\ pc'[p] \notin Ended
  BY <1>1 DEF ControlInv, TypeOK, Control, OperationOK, Booting, Paging,
     Filling, Starting, Evicting, DiskLabel, Ended
<1>3. FaultData(p)'
  BY <1>1, <1>2 DEF FaultData, Filling
<1>4. DataInv'
  BY <1>1, <1>2, <1>3, DataFrame
<1>5. ASSUME NEW v \in Page PROVE Same(p, v)
  <2> DEFINE i == pteIndex(v)
  <2>1. PageAt(p, v, i) /\ PageAt(p, v, i)' /\ i \in Index /\ i = pteIndex(v)
    BY PageIndex DEF Pages
  <2> HIDE DEF i
  <2>2. pte[p][i] \notin Frame
    BY <1>2, <2>1 DEF MemoryInv, Mapping, Owners
  <2>3. \A q \in ASID : ~Out(q, p, i)'
    <3> SUFFICES ASSUME NEW q \in ASID, Out(q, p, i)' PROVE FALSE
      OBVIOUS
    <3>1. Out(q, p, i)
      BY <1>1 DEF Out, Evicting
    <3> QED BY <1>2, <3>1 DEF Out, DataInv, EvictData
  <2>4. disk[p][i] = InitialContents(p, v)
    <3>1. i \in Nat /\ Blocks \in Nat
      BY <2>1, Constants, SizeAssumption DEF SizeAssumption, KUSEGPTESIZE
    <3>2. StartData(p)
      BY <1>2 DEF DataInv
    <3> QED BY <1>1, <2>1, <3>1, <3>2 DEF StartData, InitialContents
  <2> QED BY <1>1, <1>2, <2>1, <2>2, <2>3, <2>4 DEF PageAt, Same
<1>6. \A x \in ASID, v \in Page : x # p => Same(x, v)
  BY <1>1, <1>2, ContentsFrame
<1> QED BY <1>4, <1>5, <1>6, Invisible

LEMMA UnlockDiskData ==
  ASSUME ControlInv, SemInv, DataInv, Pages, Pages', NEW p \in ASID, UnlockDisk(p)
  PROVE  DataInv' /\ VMStep
<1>1. /\ pc[p] = "unlock" /\ pc'[p] = io[p].back /\ io[p] # None /\ io'[p] = None
      /\ io[p] \in Operation /\ pc[p] \notin Ended /\ pc'[p] \notin Ended
      /\ Others(p) /\ UNCHANGED <<swapPool, pte, ram, disk, miss, fNo>>
      /\ block'[p] = IF io[p].back = "tape" THEN block[p] + 1 ELSE block[p]
      /\ block[p] \in Nat
  <2>1. io[p] # None /\ io[p] \in Operation /\ pc[p] = "unlock"
    BY DEF UnlockDisk, At, ControlInv, TypeOK, Control, OperationOK, DiskLabel
  <2>2. block[p] \in Nat
    BY SizeAssumption DEF ControlInv, TypeOK, SizeAssumption
  <2> QED BY <2>1, <2>2 DEF UnlockDisk, At, Others, Goto, paging, memory,
             ControlInv, TypeOK, Operation, Ended
<1>2. /\ ~Evicting(p)' /\ ~Booting(p)' /\ ~Paging(p)'
      /\ Starting(p) <=> io[p].back = "tape"
      /\ Starting(p)' <=> io[p].back = "tape"
      /\ Filling(p) <=> io[p].back # "tape"
      /\ Filling(p)' <=> io[p].back # "tape"
      /\ Evicting(p) <=> io[p].back = "read"
  BY <1>1 DEF Evicting, Booting, Paging, Starting, Filling, Operation
<1>3. Starting(p)' => StartData(p)'
  <2> SUFFICES ASSUME io[p].back = "tape" PROVE StartData(p)'
    BY <1>2
  <2>1. StartData(p) /\ Booting(p)
    BY <1>1, <1>2 DEF DataInv, Booting
  <2>2. \A i \in Index : i \in Nat /\ (i < block[p] + 1 => i < block[p] \/ i = block[p])
    BY <1>1, Constants
  <2> QED BY <1>1, <1>2, <2>1, <2>2 DEF StartData
<1>4. FaultData(p)'
  BY <1>1, <1>2 DEF DataInv, FaultData, Operation, Paging
<1>5. DataInv'
  BY <1>1, <1>2, <1>3, <1>4, DataFrame
<1>6. ASSUME io[p].back # "read" PROVE VMStep
  BY <1>1, <1>2, <1>6, KeepsPages
<1>7. ASSUME io[p].back = "read" PROVE VMStep
  <2>1. ASSUME NEW x \in ASID, NEW v \in Page
        PROVE  Same(x, v)
    <3> DEFINE i == pteIndex(v)
    <3>1. PageAt(x, v, i) /\ PageAt(x, v, i)'
      BY DEF Pages
    <3>2. /\ pc'[x] \in Ended <=> pc[x] \in Ended
          /\ Starting(x)' <=> Starting(x)
      BY <1>1, <1>2, OthersAlike DEF Others
    <3>3. InitialContents(x, v)' = InitialContents(x, v)
      BY DEF InitialContents
    <3>4. ASSUME NEW q \in ASID
          PROVE  Out(q, x, i)' <=> (q # p /\ Out(q, x, i))
      <4>1. q # p => (Evicting(q)' <=> Evicting(q)) /\ io'[q] = io[q]
        BY <1>1, OthersAlike DEF Others
      <4> HIDE DEF i
      <4> QED BY <1>2, <4>1 DEF Out
    <3>5. CASE Out(p, x, i)
      <4>1. EvictData(p) /\ \A q \in ASID : Out(q, x, i) => q = p
        BY <3>5, EvictingIsPaging DEF Out, DataInv
      <4>2. io[p].buf = fNo[p]
        BY <3>5, EvictingIsPaging DEF Out
      <4>3. ~Starting(x) /\ disk[x][i] = ram[fNo[p]]
        BY <1>1, <3>5, <4>1, <4>2 DEF EvictData, Out
      <4>4. \A q \in ASID : ~Out(q, x, i)'
        BY <3>4, <4>1
      <4>5. pc[x] \notin Ended => pte[x][i] \notin Frame
        BY <3>5, <4>1 DEF EvictData, Out
      <4> QED BY <1>1, <3>1, <3>2, <3>5, <4>3, <4>4, <4>5 DEF PageAt, Same
    <3>6. CASE ~Out(p, x, i)
      <4>1. \A q \in ASID : (Out(q, x, i)' <=> Out(q, x, i)) /\ fNo'[q] = fNo[q]
        BY <1>1, <3>4, <3>6
      <4>2. CASE \E q \in ASID : Out(q, x, i)
        BY <1>1, <3>1, <3>2, <3>3, <4>1, <4>2 DEF PageAt, Same
      <4>3. CASE \A q \in ASID : ~Out(q, x, i)
        BY <1>1, <3>1, <3>2, <3>3, <4>1, <4>3 DEF PageAt, Same
      <4> QED BY <4>2, <4>3
    <3> QED BY <3>5, <3>6
  <2> QED BY <2>1, Invisible
<1> QED BY <1>5, <1>6, <1>7

-----------------------------------------------------------------------------
(* Steps that change memory, page tables or the swap pool.                 *)

(* A page that stays in its frame, or on its way out, or on the disk.      *)
Stays(x, i) ==
  \/ pte[x][i] \in Frame /\ pte'[x][i] = pte[x][i] /\ ram'[pte[x][i]] = ram[pte[x][i]]
  \/ /\ pte[x][i] \notin Frame /\ pte'[x][i] \notin Frame
     /\ \A q \in ASID : Out(q, x, i)' <=> Out(q, x, i)
     /\ \A q \in ASID : Out(q, x, i) => ram'[fNo'[q]] = ram[fNo[q]]
     /\ (\A q \in ASID : ~Out(q, x, i)) => disk'[x][i] = disk[x][i]

LEMMA StaysSame ==
  ASSUME Pages, Pages', NEW x \in ASID, NEW v \in Page,
         pc'[x] \in Ended <=> pc[x] \in Ended,
         Starting(x)' <=> Starting(x),
         pc[x] \notin Ended /\ ~Starting(x) => Stays(x, pteIndex(v))
  PROVE  Same(x, v)
<1> DEFINE i == pteIndex(v)
<1>1. PageAt(x, v, i) /\ PageAt(x, v, i)'
  BY DEF Pages
<1>2. InitialContents(x, v)' = InitialContents(x, v)
  BY DEF InitialContents
<1>3. CASE pc[x] \in Ended \/ Starting(x)
  BY <1>1, <1>2, <1>3 DEF PageAt, Same
<1>4. CASE pc[x] \notin Ended /\ ~Starting(x)
  <2>1. Stays(x, i)
    BY <1>4
  <2> HIDE DEF i
  <2>2. CASE pte[x][i] \in Frame
    BY <1>1, <1>4, <2>1, <2>2 DEF PageAt, Same, Stays
  <2>3. CASE pte[x][i] \notin Frame /\ \E q \in ASID : Out(q, x, i)
    <3>1. PICK q \in ASID : Out(q, x, i)
      BY <2>3
    <3>2. /\ pte'[x][i] \notin Frame /\ Out(q, x, i)'
          /\ ram'[fNo'[q]] = ram[fNo[q]]
      BY <2>1, <2>3, <3>1 DEF Stays
    <3> QED BY <1>1, <1>4, <2>3, <3>1, <3>2 DEF PageAt, Same
  <2>4. CASE pte[x][i] \notin Frame /\ \A q \in ASID : ~Out(q, x, i)
    BY <1>1, <1>4, <2>1, <2>4 DEF PageAt, Same, Stays
  <2> QED BY <2>2, <2>3, <2>4
<1> QED BY <1>3, <1>4

(* Only one process at a time handles a fault with a frame of its own.     *)
LEMMA Alone ==
  ASSUME ControlInv, SemInv, NEW p \in ASID, HoldsPool(p), NEW q \in ASID, q # p
  PROVE  /\ ~Filling(q) /\ ~Evicting(q) /\ ~Paging(q)
         /\ pc[q] \notin {"read", "load", "leave"}
BY Holders, EvictingIsPaging DEF Filling

(* A transfer that succeeds. *)
Done(p) ==
  /\ pc[p] = "transferWait" /\ pc'[p] = "unlock" /\ Others(p)
  /\ diskCyl = io[p].cyl
  /\ UNCHANGED <<swapPool, pte, block, io, miss, fNo>>

LEMMA DoneFacts ==
  ASSUME ControlInv, NEW p \in ASID, Done(p)
  PROVE  /\ io[p] # None /\ io[p] \in Operation /\ io[p].cyl \in Index
         /\ ram \in [Frame -> Content] /\ disk \in [ASID -> [Index -> Content]]
         /\ \A q \in ASID :
              /\ pc'[q] \in Ended <=> pc[q] \in Ended
              /\ Starting(q)' <=> Starting(q)
              /\ Booting(q)' <=> Booting(q)
              /\ Paging(q)' <=> Paging(q)
              /\ Filling(q)' <=> Filling(q)
              /\ Evicting(q)' <=> Evicting(q)
              /\ \A x, i : Out(q, x, i)' <=> Out(q, x, i)
              /\ q # p => pc'[q] = pc[q]
<1>1. /\ io[p] # None /\ io[p] \in Operation /\ io[p].cyl \in Index
      /\ ram \in [Frame -> Content] /\ disk \in [ASID -> [Index -> Content]]
  BY DEF Done, ControlInv, TypeOK, Control, OperationOK, DiskLabel, Operation
<1>2. ASSUME NEW q \in ASID
      PROVE  /\ pc'[q] \in Ended <=> pc[q] \in Ended
             /\ Starting(q)' <=> Starting(q)
             /\ Booting(q)' <=> Booting(q)
             /\ Paging(q)' <=> Paging(q)
             /\ Filling(q)' <=> Filling(q)
             /\ Evicting(q)' <=> Evicting(q)
             /\ \A x, i : Out(q, x, i)' <=> Out(q, x, i)
             /\ q # p => pc'[q] = pc[q]
  BY DEF Done, Others, Ended, Starting, Booting, Paging, Filling, Evicting, Out
<1> QED BY <1>1, <1>2

LEMMA TapeBlockWritten ==
  ASSUME ControlInv, SemInv, DataInv, Pages, Pages', NEW p \in ASID, Done(p),
         Booting(p), UNCHANGED ram,
         disk' = [disk EXCEPT ![io[p].asid][diskCyl] = bufferContents(p)]
  PROVE  DataInv' /\ VMStep
<1>1. /\ io[p].asid = p /\ diskCyl = block[p] /\ block[p] < Blocks
      /\ block[p] \in Index /\ bufferContents(p) = Image(p, block[p])
  BY DoneFacts DEF ControlInv, Control, OperationOK, bufferContents, Done
<1>2. /\ \A x \in ASID, i \in Index :
           ~(x = p /\ i = block[p]) => disk'[x][i] = disk[x][i]
      /\ \A x \in ASID : x # p => disk'[x] = disk[x]
      /\ disk'[p][block[p]] = Image(p, block[p])
  BY <1>1, DoneFacts
<1>3. Starting(p) /\ ~Paging(p) /\ pc[p] \notin Ended /\ pc'[p] \notin Ended
  BY DEF Starting, Booting, Paging, Done, Ended
<1>4. StartData(p)'
  <2>1. StartData(p)
    BY <1>3 DEF DataInv
  <2>2. \A i \in Index : i \in Nat /\ (i < block[p] \/ i >= Blocks => i # block[p])
    BY <1>1, Constants, SizeAssumption DEF SizeAssumption
  <2> QED BY <1>1, <1>2, <2>1, <2>2 DEF StartData, Done
<1>5. TableExact'
  BY DoneFacts DEF DataInv, TableExact, Done
<1>6. ASSUME NEW q \in ASID, pc'[q] \notin Ended, Starting(q)'
      PROVE  StartData(q)'
  <2>1. CASE q = p
    BY <1>4, <2>1
  <2>2. CASE q # p
    BY <1>2, <1>6, <2>2, DoneFacts DEF DataInv, StartData, Done
  <2> QED BY <2>1, <2>2
<1>7. ASSUME NEW q \in ASID, Evicting(q)'
      PROVE  EvictData(q)'
  <2>1. /\ Evicting(q) /\ EvictData(q) /\ q # p
        /\ io[q].asid \in ASID /\ io[q].cyl \in Index /\ io[q].asid # p
    BY <1>3, <1>7, DoneFacts, EvictingIsPaging DEF DataInv, EvictData
  <2> QED BY <1>2, <2>1, DoneFacts DEF EvictData, Done
<1>8. ASSUME NEW q \in ASID, pc'[q] \notin Ended
      PROVE  FaultData(q)'
  <2>1. CASE q = p
    BY <1>3, <2>1, DoneFacts DEF FaultData, Filling, Done
  <2>2. CASE q # p
    BY <1>2, <1>8, <2>2, DoneFacts DEF DataInv, FaultData, Done
  <2> QED BY <2>1, <2>2
<1>9. ASSUME NEW x \in ASID, NEW v \in Page
      PROVE  Same(x, v)
  <2>1. ASSUME pc[x] \notin Ended, ~Starting(x)
        PROVE  Stays(x, pteIndex(v))
    <3>1. x # p
      BY <1>3, <2>1
    <3> QED BY <1>2, <3>1, DoneFacts DEF Stays, Done
  <2> QED BY <2>1, StaysSame, DoneFacts
<1>10. DataInv'
  BY <1>5, <1>6, <1>7, <1>8 DEF DataInv
<1> QED BY <1>9, <1>10, Invisible

LEMMA PageWritten ==
  ASSUME ControlInv, SemInv, DataInv, Pages, Pages', NEW p \in ASID, Done(p),
         Evicting(p), UNCHANGED ram,
         disk' = [disk EXCEPT ![io[p].asid][diskCyl] = bufferContents(p)]
  PROVE  DataInv' /\ VMStep
<1> DEFINE o == io[p].asid
           c == io[p].cyl
<1>1. /\ Paging(p) /\ Filling(p) /\ HoldsPool(p) /\ o \in ASID /\ c \in Index
      /\ fNo[p] \in Frame /\ io[p].buf = fNo[p] /\ ~Booting(p)
      /\ diskCyl = c /\ EvictData(p) /\ o = io[p].asid /\ c = io[p].cyl
  BY EvictingIsPaging DEF DataInv, Done, Booting, Evicting
<1>2. bufferContents(p) = ram[fNo[p]]
  BY <1>1, Constants DEF bufferContents
<1> HIDE DEF o, c
<1>3. /\ \A x \in ASID, i \in Index : ~(x = o /\ i = c) => disk'[x][i] = disk[x][i]
      /\ \A x \in ASID : x # o => disk'[x] = disk[x]
      /\ disk'[o][c] = ram[fNo[p]]
  BY <1>1, <1>2, DoneFacts
<1>4. ~Starting(o)
  BY <1>1 DEF EvictData
<1>5. TableExact'
  BY DoneFacts DEF DataInv, TableExact, Done
<1>6. ASSUME NEW q \in ASID, pc'[q] \notin Ended, Starting(q)'
      PROVE  StartData(q)'
  <2>1. Starting(q) /\ q # o /\ q # p /\ pc[q] \notin Ended
    BY <1>1, <1>4, <1>6, DoneFacts DEF Starting, Done
  <2> QED BY <1>3, <2>1, DoneFacts DEF DataInv, StartData, Done
<1>7. ASSUME NEW q \in ASID, Evicting(q)'
      PROVE  EvictData(q)'
  <2>1. q = p
    BY <1>1, <1>7, DoneFacts, Alone
  <2> QED BY <1>1, <1>3, <2>1, DoneFacts DEF EvictData, Done
<1>8. ASSUME NEW q \in ASID, pc'[q] \notin Ended
      PROVE  FaultData(q)'
  <2>1. CASE q = p
    BY <1>1, <2>1, DoneFacts DEF DataInv, FaultData, Done, Evicting, Ended
  <2>2. CASE q # p
    <3>1. ~Filling(q) /\ pc[q] # "load" /\ ~Paging(q)
      BY <1>1, <2>2, Alone
    <3> QED BY <1>8, <2>2, <3>1, DoneFacts DEF DataInv, FaultData, Done
  <2> QED BY <2>1, <2>2
<1>9. ASSUME NEW x \in ASID, NEW v \in Page
      PROVE  Same(x, v)
  <2>1. ASSUME pc[x] \notin Ended, ~Starting(x)
        PROVE  Stays(x, pteIndex(v))
    <3> DEFINE i == pteIndex(v)
    <3>1. i \in Index
      BY PageIndex
    <3> HIDE DEF i
    <3>2. (\A q \in ASID : ~Out(q, x, i)) => disk'[x][i] = disk[x][i]
      <4> SUFFICES ASSUME ~Out(p, x, i) PROVE disk'[x][i] = disk[x][i]
        OBVIOUS
      <4> QED BY <1>1, <1>3, <3>1 DEF Out
    <3>3. Stays(x, i)
      BY <3>2, DoneFacts DEF Stays, Done
    <3> QED BY <3>3 DEF i
  <2> QED BY <2>1, StaysSame, DoneFacts
<1>10. DataInv'
  BY <1>5, <1>6, <1>7, <1>8 DEF DataInv
<1> QED BY <1>9, <1>10, Invisible

LEMMA PageRead ==
  ASSUME ControlInv, SemInv, MemoryInv, DataInv, Pages, Pages', NEW p \in ASID, Done(p),
         Paging(p), io[p].back = "load", UNCHANGED disk,
         ram' = [ram EXCEPT ![io[p].buf] = disk[io[p].asid][diskCyl]]
  PROVE  DataInv' /\ VMStep
<1> DEFINE c == pteIndex(miss[p][2])
<1>1. /\ Filling(p) /\ HoldsPool(p) /\ ~Booting(p) /\ ~Evicting(p)
      /\ fNo[p] \in Frame /\ io[p].buf = fNo[p] /\ io[p].asid = p
      /\ diskCyl = c /\ c \in Index /\ c = pteIndex(miss[p][2])
  BY DoneFacts DEF Filling, HoldsPool, Booting, Evicting, Paging, ControlInv,
     Control, OperationOK, Done
<1> HIDE DEF c
<1>2. /\ \A f \in Frame : f # fNo[p] => ram'[f] = ram[f]
      /\ ram'[fNo[p]] = disk[p][c]
  BY <1>1, DoneFacts
<1>3. TableExact'
  BY DoneFacts DEF DataInv, TableExact, Done
<1>4. ASSUME NEW q \in ASID, pc'[q] \notin Ended, Starting(q)'
      PROVE  StartData(q)'
  <2>1. Starting(q) /\ q # p /\ pc[q] \notin Ended
    BY <1>1, <1>4, DoneFacts DEF Starting, Done
  <2> QED BY <2>1, DoneFacts DEF DataInv, StartData, Done
<1>5. ASSUME NEW q \in ASID PROVE ~Evicting(q) /\ ~Evicting(q)'
  BY <1>1, DoneFacts, Alone
<1>6. ASSUME NEW q \in ASID, pc'[q] \notin Ended
      PROVE  FaultData(q)'
  <2>1. CASE q = p
    BY <1>1, <1>2, <2>1, <1>6, DoneFacts DEF DataInv, FaultData, Done
  <2>2. CASE q # p
    <3>1. ~Filling(q) /\ pc[q] # "load" /\ ~Paging(q)
      BY <1>1, <2>2, Alone
    <3> QED BY <1>6, <2>2, <3>1, DoneFacts DEF DataInv, FaultData, Done
  <2> QED BY <2>1, <2>2
<1>7. ASSUME NEW x \in ASID, NEW v \in Page
      PROVE  Same(x, v)
  <2>1. ASSUME pc[x] \notin Ended, ~Starting(x)
        PROVE  Stays(x, pteIndex(v))
    <3> DEFINE i == pteIndex(v)
    <3>1. pte[x][i] \in Frame => pte[x][i] # fNo[p]
      BY <1>1, <2>1, PageIndex DEF MemoryInv, Mapping
    <3> HIDE DEF i
    <3>2. \A q \in ASID : ~Out(q, x, i) /\ ~Out(q, x, i)'
      BY <1>5 DEF Out
    <3>3. Stays(x, i)
      BY <1>2, <3>1, <3>2 DEF Stays, Done
    <3> QED BY <3>3 DEF i
  <2> QED BY <2>1, StaysSame, DoneFacts
<1>8. DataInv'
  BY <1>3, <1>4, <1>5, <1>6 DEF DataInv
<1> QED BY <1>7, <1>8, Invisible

LEMMA TransferDoneData ==
  ASSUME ControlInv, SemInv, MemoryInv, DataInv, Pages, Pages', NEW p \in ASID,
         TransferDone(p)
  PROVE  DataInv' /\ VMStep
<1>1. /\ pc[p] = "transferWait" /\ Others(p) /\ diskCyl = io[p].cyl
      /\ UNCHANGED <<swapPool, pte, block, io, miss, fNo>>
      /\ \/ pc'[p] = failTo(p) /\ UNCHANGED <<ram, disk>>
         \/ /\ pc'[p] = "unlock" /\ io[p].cmd = "write" /\ UNCHANGED ram
            /\ disk' = [disk EXCEPT ![io[p].asid][diskCyl] = bufferContents(p)]
         \/ /\ pc'[p] = "unlock" /\ io[p].cmd # "write" /\ UNCHANGED disk
            /\ ram' = [ram EXCEPT ![io[p].buf] = disk[io[p].asid][diskCyl]]
  BY DEF TransferDone, At, Others, Goto, paging, memory, ControlInv, TypeOK,
     MemoryInv, Arm
<1>2. /\ io[p].cmd = "write" => Booting(p) \/ Evicting(p)
      /\ io[p].cmd # "write" => Paging(p) /\ io[p].back = "load"
  <2>1. io[p] # None /\ io[p] \in Operation
    BY <1>1 DEF ControlInv, TypeOK, Control, OperationOK, DiskLabel
  <2> QED BY <2>1 DEF ControlInv, Control, OperationOK, Booting, Evicting, Paging,
             Operation
<1>3. CASE pc'[p] = failTo(p) /\ UNCHANGED <<ram, disk>>
  BY <1>1, <1>3, DeviceData
<1>4. CASE /\ pc'[p] = "unlock" /\ io[p].cmd = "write" /\ UNCHANGED ram
           /\ disk' = [disk EXCEPT ![io[p].asid][diskCyl] = bufferContents(p)]
  <2>1. Done(p)
    BY <1>1, <1>4 DEF Done
  <2> QED BY <1>2, <1>4, <2>1, TapeBlockWritten, PageWritten
<1>5. CASE /\ pc'[p] = "unlock" /\ io[p].cmd # "write" /\ UNCHANGED disk
           /\ ram' = [ram EXCEPT ![io[p].buf] = disk[io[p].asid][diskCyl]]
  <2>1. Done(p)
    BY <1>1, <1>5 DEF Done
  <2> QED BY <1>2, <1>5, <2>1, PageRead
<1> QED BY <1>1, <1>3, <1>4, <1>5

LEMMA WriteData ==
  ASSUME ControlInv, SemInv, MemoryInv, DataInv, Pages, Pages', NEW p \in ASID,
         NEW v \in Page, Write(p, v)
  PROVE  DataInv' /\ VMStep
<1> DEFINE i == pteIndex(v)
           t == pte[p][i]
<1>1. /\ pc[p] = "run" /\ t \in Frame /\ ram' = [ram EXCEPT ![t] = Written(p, v)]
      /\ UNCHANGED <<pc, block, io, miss, fNo, swapPool, pte, disk>>
  <2>1. /\ pc[p] = "run" /\ translation(p, 2, v) \in Frame
        /\ ram' = [ram EXCEPT ![translation(p, 2, v)] = Written(p, v)]
        /\ UNCHANGED <<pc, block, io, miss, fNo, swapPool, pte, disk>>
    BY DEF Write, At, paging
  <2>2. translation(p, 2, v) = pte[p][i]
    <3>1. tlb[p][i] \in {pte[p][i], Absent}
      BY <2>1, PageIndex DEF MemoryInv, Mapping, Ended
    <3> QED BY <3>1 DEF translation
  <2> QED BY <2>1, <2>2
<1>2. /\ \A f \in Frame : f # t => ram'[f] = ram[f]
      /\ ram'[t] = Written(p, v)
  BY <1>1 DEF ControlInv, TypeOK
<1>3. /\ pc[p] \notin Ended /\ ~Starting(p)
      /\ \A q \in ASID : Filling(q) => fNo[q] # t
      /\ swapPool[t][1] = p /\ pteIndex(swapPool[t][2]) = i
  <2>1. io[p] = None
    BY <1>1 DEF ControlInv, TypeOK, Control, OperationOK, Booting, Paging,
       DiskLabel, Ended
  <2>2. pc[p] \notin Ended /\ ~Starting(p)
    BY <1>1, <2>1 DEF Ended, Starting, Booting
  <2> QED BY <1>1, <2>2, PageIndex DEF MemoryInv, Mapping
<1>4. \A q \in ASID : /\ Starting(q)' <=> Starting(q)
                      /\ Booting(q)' <=> Booting(q)
                      /\ Paging(q)' <=> Paging(q)
                      /\ Filling(q)' <=> Filling(q)
                      /\ Evicting(q)' <=> Evicting(q)
                      /\ \A x, j : Out(q, x, j)' <=> Out(q, x, j)
  BY <1>1 DEF Starting, Booting, Paging, Filling, Evicting, Out
<1>5. TableExact' /\ \A q \in ASID : pc'[q] \notin Ended /\ Starting(q)' => StartData(q)'
  BY <1>1, <1>4 DEF DataInv, TableExact, StartData
<1>6. ASSUME NEW q \in ASID, Evicting(q)'
      PROVE  EvictData(q)'
  <2>1. /\ Evicting(q) /\ EvictData(q) /\ io[q].asid \in ASID
        /\ io[q].buf = fNo[q] /\ fNo[q] \in Frame /\ fNo[q] # t
    BY <1>3, <1>4, <1>6, EvictingIsPaging DEF DataInv
  <2> HIDE DEF t
  <2> QED BY <1>1, <1>2, <1>4, <2>1 DEF EvictData
<1>7. ASSUME NEW q \in ASID, pc'[q] \notin Ended
      PROVE  FaultData(q)'
  <2>1. pc[q] = "load" \/ Paging(q) => fNo[q] \in Frame /\ fNo[q] # t
    BY <1>3 DEF Filling, ControlInv, Control, OperationOK
  <2>2. FaultData(q)
    BY <1>1, <1>7 DEF DataInv
  <2> HIDE DEF t
  <2> QED BY <1>1, <1>2, <1>4, <2>1, <2>2 DEF FaultData
<1>8. DataInv'
  BY <1>5, <1>6, <1>7 DEF DataInv
<1>9. Contents(p, v) = ram[t] /\ Contents(p, v)' = Written(p, v)
  BY <1>1, <1>2, <1>3, <1>4 DEF Pages, PageAt
<1>10. Contents(p, v) # Gone
  <2>1. ram[t] \in Content
    BY <1>1 DEF ControlInv, TypeOK
  <2>2. ASSUME NEW c \in Content PROVE c # Gone
    <3>1. Len(Gone) = 1 /\ Len(Blank) = 0
      BY DEF Gone, Blank
    <3>2. \A q, j : Len(Image(q, j)) = 3 /\ Len(Written(q, j)) = 3
      BY DEF Image, Written
    <3> QED BY <3>1, <3>2 DEF Content
  <2> QED BY <1>9, <2>1, <2>2
<1>11. ASSUME NEW x \in ASID, NEW w \in Page, ~(x = p /\ w = v)
       PROVE  Same(x, w)
  <2>1. ASSUME pc[x] \notin Ended, ~Starting(x)
        PROVE  Stays(x, pteIndex(w))
    <3> DEFINE j == pteIndex(w)
    <3>1. pte[x][j] \in Frame => pte[x][j] # t
      <4> SUFFICES ASSUME pte[x][j] = t, t \in Frame PROVE FALSE
        OBVIOUS
      <4>1. swapPool[t][1] = x /\ pteIndex(swapPool[t][2]) = j
        BY <2>1, PageIndex DEF MemoryInv, Mapping
      <4>2. x = p /\ i = j
        BY <1>3, <4>1
      <4> QED BY <1>11, <4>2, PageIndex
    <3>2. ASSUME NEW q \in ASID, Out(q, x, j)
          PROVE  ram'[fNo'[q]] = ram[fNo[q]]
      <4>1. fNo[q] \in Frame /\ fNo[q] # t
        BY <1>3, <3>2, EvictingIsPaging DEF Out
      <4> QED BY <1>1, <1>2, <4>1
    <3>3. pte' = pte /\ disk' = disk
      BY <1>1
    <3>4. \A q \in ASID : Out(q, x, j)' <=> Out(q, x, j)
      BY <1>4
    <3>5. pte[x][j] \in Frame => ram'[pte[x][j]] = ram[pte[x][j]]
      BY <1>2, <3>1
    <3> HIDE DEF j
    <3>6. Stays(x, j)
      BY <3>2, <3>3, <3>4, <3>5 DEF Stays
    <3> QED BY <3>6 DEF j
  <2>2. pc' = pc /\ (Starting(x)' <=> Starting(x))
    BY <1>1, <1>4
  <2> QED BY <2>1, <2>2, StaysSame
<1>12. VMStep
  BY <1>9, <1>10, <1>11, WriteIsWrite
<1> QED BY <1>8, <1>12

LEMMA ChooseFrameData ==
  ASSUME ControlInv, SemInv, MemoryInv, DataInv, Pages, Pages', NEW p \in ASID,
         ChooseFrame(p)
  PROVE  DataInv' /\ VMStep
<1> DEFINE f == getFrame
<1>1. /\ pc[p] = "frame" /\ ~Blocked(p) /\ miss[p] # BadCause /\ Others(p)
      /\ fNo'[p] = f /\ f \in Frame /\ f = getFrame
      /\ UNCHANGED <<block, miss, swapPool, ram, disk>>
  BY GetFrame DEF ChooseFrame, At, Others, Goto, paging, memory, ControlInv, TypeOK
<1> HIDE DEF f
<1>2. /\ io[p] = None /\ HoldsPool(p) /\ ~Filling(p) /\ ~Evicting(p) /\ ~Starting(p)
      /\ pc[p] \notin Ended
  BY <1>1, Holders DEF ControlInv, TypeOK, Control, OperationOK, Booting, Paging,
     Filling, Evicting, Starting, DiskLabel, Ended
<1>3. pte[p][pteIndex(miss[p][2])] \notin Frame
  BY <1>1, <1>2 DEF DataInv, FaultData
<1>4. CASE swapPool[f] = Free
  <2>1. pc'[p] = "read" /\ UNCHANGED <<pte, io>>
    BY <1>1, <1>4 DEF ChooseFrame, Goto, ControlInv, TypeOK
  <2>2. ~Evicting(p)' /\ ~Starting(p)' /\ ~Paging(p)' /\ pc'[p] \notin Ended
    BY <1>2, <2>1 DEF Evicting, Starting, Booting, Paging, Ended
  <2>3. FaultData(p)'
    BY <1>1, <1>3, <2>1, <2>2 DEF FaultData
  <2>4. DataInv'
    BY <1>1, <1>2, <2>1, <2>2, <2>3, DataFrame
  <2>5. VMStep
    BY <1>1, <1>2, <2>1, <2>2, KeepsPages
  <2> QED BY <2>4, <2>5
<1>5. CASE swapPool[f] # Free
  <2> DEFINE o == swapPool[f][1]
             c == pteIndex(swapPool[f][2])
             op == writeBack(p, o, swapPool[f][2])
  <2>1. /\ pc'[p] = "lock" /\ io'[p] = op
        /\ pte' = [pte EXCEPT ![o][c] = Invalid]
    BY <1>1, <1>5 DEF ChooseFrame, Goto, takeFrom, ControlInv, TypeOK
  <2>2. /\ op # None /\ op.back = "read" /\ op.asid = o /\ op.cyl = c
        /\ op.buf = f
    BY <1>1 DEF writeBack, None
  <2>3. o \in ASID /\ c \in Index
    BY <1>1, <1>5, PageIndex DEF ControlInv, TypeOK
  <2>4. /\ pc[o] \notin Ended /\ ~Starting(o)
        /\ pte[o][c] = f
    <3>1. \A q \in ASID : ~Filling(q)
      BY <1>2, Alone
    <3> QED BY <1>1, <1>5, <3>1 DEF MemoryInv, Owners, DataInv, TableExact
  <2>5. o = swapPool[f][1] /\ c = pteIndex(swapPool[f][2])
    OBVIOUS
  <2> HIDE DEF o, c, op
  <2>6. /\ Paging(p)' /\ Filling(p)' /\ Evicting(p)' /\ ~Booting(p)' /\ ~Starting(p)'
        /\ pc'[p] \notin Ended
    BY <2>1, <2>2 DEF Paging, Filling, Evicting, Booting, Starting, Ended
  <2>7. /\ pte'[o][c] = Invalid /\ Invalid \notin Frame
        /\ \A x \in ASID, i \in Index : ~(x = o /\ i = c) => pte'[x][i] = pte[x][i]
    BY <2>1, <2>3, Constants DEF ControlInv, TypeOK
  <2>8. TableExact'
    <3> SUFFICES ASSUME NEW g \in Frame, swapPool[g] # Free, g # f
                 PROVE  pte'[swapPool[g][1]][pteIndex(swapPool[g][2])] = g
      BY <1>1, <2>6 DEF TableExact
    <3>1. \A q \in ASID : ~Filling(q)
      BY <1>2, Alone
    <3>2. pte[swapPool[g][1]][pteIndex(swapPool[g][2])] = g
      BY <3>1 DEF DataInv, TableExact
    <3>3. swapPool[g][1] \in ASID /\ pteIndex(swapPool[g][2]) \in Index
      BY PageIndex DEF ControlInv, TypeOK
    <3> QED BY <2>4, <2>7, <3>2, <3>3
  <2>9. ASSUME NEW q \in ASID, pc'[q] \notin Ended, Starting(q)'
        PROVE  StartData(q)'
    <3>1. q # p /\ Starting(q) /\ pc[q] \notin Ended /\ pc'[q] = pc[q]
      BY <1>1, <2>6, <2>9, OthersAlike DEF Others
    <3> QED BY <1>1, <3>1, OthersAlike DEF DataInv, StartData
  <2>10. ASSUME NEW q \in ASID, Evicting(q)'
         PROVE  EvictData(q)'
    <3>1. q = p
      BY <1>1, <1>2, <2>10, OthersAlike, Alone
    <3>2. ASSUME NEW x \in ASID, x = o PROVE ~Starting(x)'
      <4>1. x # p => (Starting(x)' <=> Starting(x))
        BY <1>1, OthersAlike
      <4> QED BY <2>4, <2>6, <3>2, <4>1
    <3> QED BY <2>1, <2>2, <2>3, <2>7, <3>1, <3>2 DEF EvictData, Starting, Booting
  <2>11. ASSUME NEW q \in ASID, pc'[q] \notin Ended
         PROVE  FaultData(q)'
    <3>1. \A i \in Index : pte[q][i] \notin Frame => pte'[q][i] \notin Frame
      BY <2>7
    <3>2. CASE q = p
      <4>1. miss[p] \in Segment \X Page
        <5>1. miss[p] # None
          BY <1>1 DEF ControlInv, Control
        <5> QED BY <1>1, <5>1 DEF ControlInv, TypeOK
      <4>2. pteIndex(miss[p][2]) \in Index
        BY <4>1, PageIndex
      <4>3. pte'[p][pteIndex(miss[p][2])] \notin Frame
        BY <1>3, <3>1, <3>2, <4>2
      <4> QED BY <1>1, <2>1, <2>2, <3>2, <4>3 DEF FaultData
    <3>3. CASE q # p
      <4>1. /\ ~Filling(q) /\ pc[q] \notin {"load", "leave"} /\ ~Paging(q)
        BY <1>2, <3>3, Alone
      <4>2. ~Filling(q)' /\ ~Paging(q)' /\ pc'[q] = pc[q] /\ miss'[q] = miss[q]
        BY <1>1, <3>3, <4>1, OthersAlike DEF Others
      <4>3. ASSUME pc[q] \in {"pager", "frame"}, miss[q] # BadCause
            PROVE  pte'[q][pteIndex(miss[q][2])] \notin Frame
        <5>1. pte[q][pteIndex(miss[q][2])] \notin Frame
          BY <2>11, <4>2, <4>3 DEF DataInv, FaultData
        <5>2. miss[q] \in Segment \X Page
          BY <4>3 DEF ControlInv, TypeOK, Control
        <5> QED BY <3>1, <5>1, <5>2, PageIndex
      <4> QED BY <4>1, <4>2, <4>3 DEF FaultData
    <3> QED BY <3>2, <3>3
  <2>12. ASSUME NEW x \in ASID, NEW w \in Page
         PROVE  Same(x, w)
    <3> DEFINE i == pteIndex(w)
    <3>1. i \in Index
      BY PageIndex
    <3>2. PageAt(x, w, i) /\ PageAt(x, w, i)'
      BY DEF Pages
    <3>3. /\ pc'[x] \in Ended <=> pc[x] \in Ended
          /\ Starting(x)' <=> Starting(x)
      BY <1>1, <1>2, <2>6, OthersAlike DEF Others
    <3>4. ASSUME NEW q \in ASID
          PROVE  ~Out(q, x, i) /\ (Out(q, x, i)' <=> q = p /\ x = o /\ i = c)
      <4>1. ~Evicting(q) /\ (q # p => ~Evicting(q)')
        BY <1>1, <1>2, Alone, OthersAlike
      <4> HIDE DEF i
      <4>2. Out(p, x, i)' <=> x = o /\ i = c
        BY <2>1, <2>2, <2>6 DEF Out
      <4> QED BY <4>1, <4>2 DEF Out
    <3>5. CASE x = o /\ i = c
      <4>1. Out(p, x, i)' /\ pte'[x][i] \notin Frame /\ fNo'[p] = f
        BY <1>1, <2>7, <3>4, <3>5
      <4>2. Contents(x, w)' = ram'[f]
        BY <2>4, <3>2, <3>3, <3>5, <4>1 DEF PageAt
      <4>3. Contents(x, w) = ram[f]
        BY <1>1, <2>4, <3>2, <3>5 DEF PageAt
      <4> QED BY <1>1, <4>2, <4>3 DEF Same
    <3>6. CASE ~(x = o /\ i = c)
      <4> HIDE DEF i
      <4>1. \A q \in ASID : ~Out(q, x, i) /\ ~Out(q, x, i)'
        BY <3>4, <3>6
      <4>2. pte'[x][i] = pte[x][i]
        BY <2>7, <3>1, <3>6
      <4>3. Stays(x, i)
        BY <1>1, <4>1, <4>2 DEF Stays
      <4> QED BY <3>3, <4>3, StaysSame DEF i
    <3> QED BY <3>5, <3>6
  <2>13. DataInv'
    BY <2>8, <2>9, <2>10, <2>11 DEF DataInv
  <2> QED BY <2>12, <2>13, Invisible
<1> QED BY <1>4, <1>5

LEMMA LoadPageData ==
  ASSUME ControlInv, SemInv, DataInv, Pages, Pages', NEW p \in ASID, LoadPage(p)
  PROVE  DataInv' /\ VMStep
<1>1. PICK j \in Index : j = pteIndex(miss[p][2])
  BY PageIndex DEF LoadPage, At, ControlInv, TypeOK, Control
<1>2. PICK f \in Frame : f = fNo[p]
  BY DEF LoadPage, At, ControlInv, Control
<1>3. /\ pc[p] = "load" /\ pc'[p] = "leave" /\ Others(p)
      /\ swapPool'[f] = <<p, miss[p][2]>>
      /\ \A g \in Frame : g # f => swapPool'[g] = swapPool[g]
      /\ pte'[p][j] = f
      /\ \A x \in ASID, i \in Index : ~(x = p /\ i = j) => pte'[x][i] = pte[x][i]
      /\ UNCHANGED <<block, io, miss, fNo, ram, disk>>
  BY <1>1, <1>2 DEF LoadPage, At, Goto, Others, ControlInv, TypeOK
<1>4. /\ io[p] = None /\ Filling(p) /\ ~Filling(p)' /\ ~Starting(p) /\ ~Starting(p)'
      /\ pc[p] \notin Ended /\ pc'[p] \notin Ended
  BY <1>3 DEF ControlInv, TypeOK, Control, OperationOK, Booting, Paging, Filling,
     Starting, DiskLabel, Ended
<1>5. ASSUME NEW q \in ASID
      PROVE  /\ ~Evicting(q) /\ ~Evicting(q)'
             /\ q # p => /\ ~Filling(q) /\ ~Filling(q)'
                         /\ pc[q] # "leave" /\ pc'[q] # "leave"
  <2>1. HoldsPool(p) /\ ~Evicting(p) /\ ~Evicting(p)'
    BY <1>3, <1>4, Holders DEF Evicting
  <2>2. q # p => ~Filling(q) /\ ~Evicting(q) /\ pc[q] # "leave"
    BY <2>1, Alone
  <2> QED BY <1>3, <2>1, <2>2, OthersAlike DEF Others
<1>6. pte[p][j] \notin Frame /\ ram[f] = disk[p][j]
  BY <1>1, <1>2, <1>3, <1>4 DEF DataInv, FaultData
<1>7. TableExact'
  <2> SUFFICES ASSUME NEW g \in Frame, swapPool'[g] # Free
               PROVE  pte'[swapPool'[g][1]][pteIndex(swapPool'[g][2])] = g
    BY DEF TableExact
  <2>1. CASE g = f
    BY <1>1, <1>3, <2>1
  <2>2. CASE g # f
    <3>1. swapPool'[g] = swapPool[g] /\ swapPool[g] # Free
      BY <1>3, <2>2
    <3>2. \A q \in ASID : Filling(q) => fNo[q] # g
      BY <1>2, <1>5, <2>2
    <3>3. pte[swapPool[g][1]][pteIndex(swapPool[g][2])] = g
      BY <3>1, <3>2 DEF DataInv, TableExact
    <3>4. swapPool[g][1] \in ASID /\ pteIndex(swapPool[g][2]) \in Index
      BY <3>1, PageIndex DEF ControlInv, TypeOK
    <3> QED BY <1>3, <1>6, <3>1, <3>3, <3>4
  <2> QED BY <2>1, <2>2
<1>8. ASSUME NEW q \in ASID, pc'[q] \notin Ended, Starting(q)'
      PROVE  StartData(q)'
  <2>1. q # p /\ Starting(q) /\ pc'[q] = pc[q] /\ (Booting(q)' <=> Booting(q))
    BY <1>3, <1>4, <1>8, OthersAlike DEF Others
  <2> QED BY <1>3, <1>8, <2>1 DEF DataInv, StartData
<1>9. ASSUME NEW q \in ASID, pc'[q] \notin Ended
      PROVE  FaultData(q)'
  <2>1. CASE q = p
    BY <1>1, <1>2, <1>3, <1>4, <2>1 DEF FaultData, Filling
  <2>2. CASE q # p
    <3>1. pc'[q] = pc[q] /\ miss'[q] = miss[q]
      BY <1>3, <2>2 DEF Others
    <3>2. ~Filling(q)' /\ pc'[q] # "leave"
      BY <1>5, <2>2
    <3>3. ASSUME pc[q] \in {"pager", "frame"}, miss[q] # BadCause
          PROVE  pte'[q][pteIndex(miss[q][2])] \notin Frame
      <4>1. pte[q][pteIndex(miss[q][2])] \notin Frame
        BY <1>9, <3>1, <3>3 DEF DataInv, FaultData
      <4>2. miss[q] \in Segment \X Page
        BY <3>3 DEF ControlInv, TypeOK, Control
      <4> QED BY <1>3, <2>2, <4>1, <4>2, PageIndex
    <3> QED BY <3>1, <3>2, <3>3 DEF FaultData, Filling
  <2> QED BY <2>1, <2>2
<1>10. DataInv'
  BY <1>5, <1>7, <1>8, <1>9 DEF DataInv
<1>11. ASSUME NEW x \in ASID, NEW w \in Page
       PROVE  Same(x, w)
  <2>1. PICK i \in Index : i = pteIndex(w)
    BY PageIndex
  <2>2. PageAt(x, w, i) /\ PageAt(x, w, i)'
    BY <2>1 DEF Pages
  <2>3. /\ pc'[x] \in Ended <=> pc[x] \in Ended
        /\ Starting(x)' <=> Starting(x)
    BY <1>3, <1>4, OthersAlike DEF Others
  <2>4. \A q \in ASID : ~Out(q, x, i) /\ ~Out(q, x, i)'
    BY <1>5 DEF Out
  <2>5. CASE x = p /\ i = j
    <3>1. Contents(x, w) = disk[p][j]
      BY <1>4, <1>6, <2>2, <2>4, <2>5 DEF PageAt
    <3>2. Contents(x, w)' = ram'[f]
      BY <1>3, <1>4, <2>2, <2>5 DEF PageAt
    <3> QED BY <1>3, <1>6, <3>1, <3>2 DEF Same
  <2>6. CASE ~(x = p /\ i = j)
    <3>1. pte'[x][i] = pte[x][i]
      BY <1>3, <2>6
    <3>2. Stays(x, i)
      BY <1>3, <2>4, <3>1 DEF Stays
    <3> QED BY <2>1, <2>3, <3>2, StaysSame
  <2> QED BY <2>5, <2>6
<1> QED BY <1>10, <1>11, Invisible

LEMMA ClearFramesData ==
  ASSUME ControlInv, SemInv, DataInv, Pages, Pages', NEW p \in ASID, ClearFrames(p)
  PROVE  DataInv' /\ VMStep
<1>1. /\ pc[p] = "clear" /\ ~Blocked(p) /\ pc'[p] = "signal" /\ Others(p)
      /\ \A f \in Frame : swapPool'[f] \in {swapPool[f], Free}
      /\ UNCHANGED <<pte, ram, disk, io>>
  BY DEF ClearFrames, At, Goto, cleared, Others, ControlInv, TypeOK
<1>2. ~Paging(p)
  <2>1. ~InQ(semQ["swapPoolSem"], p)
    BY <1>1 DEF Blocked, ControlInv, TypeOK
  <2> QED BY <1>1, <2>1 DEF SemInv, Exclusion
<1>3. /\ ~Filling(p) /\ ~Starting(p) /\ ~Starting(p)' /\ ~Evicting(p) /\ ~Evicting(p)'
      /\ pc'[p] \in Ended /\ pc[p] \notin Ended
  BY <1>1, <1>2 DEF Filling, Starting, Booting, Evicting, Paging, Ended, ControlInv,
     Control, OperationOK, DiskLabel
<1>4. DataInv'
  BY <1>1, <1>3, DataFrame
<1>5. VMStep
  BY <1>1, <1>3, LosesPages
<1> QED BY <1>4, <1>5

LEMMA RootData ==
  ASSUME ControlInv, SemInv, DataInv, Pages, Pages', RootStep \/ UNCHANGED vars
  PROVE  DataInv' /\ VMStep
<1>1. ASSUME CreateUser PROVE DataInv' /\ VMStep
  <2>1. PICK n \in ASID : n = MAXUPROC + 1 - left
    BY <1>1, SizeAssumption DEF SizeAssumption, ASID, CreateUser, At, ControlInv,
       RootControl
  <2>2. pc[n] = "unborn"
    <3>1. n > MAXUPROC - left /\ pc[Root] = "create"
      BY <1>1, <2>1, SizeAssumption DEF SizeAssumption, CreateUser, At, ControlInv,
         TypeOK
    <3> QED BY <3>1 DEF ControlInv, RootControl
  <2>3. /\ pc'[n] = "tape" /\ \A q \in ASID : q # n => pc'[q] = pc[q]
        /\ UNCHANGED <<block, io, miss, fNo, swapPool, pte, ram, disk>>
    <3>1. \E y : pc' = [pc EXCEPT ![n] = "tape", ![Root] = y]
      BY <1>1, <2>1 DEF CreateUser
    <3>2. PICK y : pc' = [pc EXCEPT ![n] = "tape", ![Root] = y]
      BY <3>1
    <3>3. pc'[n] = "tape" /\ \A q \in ASID : q # n => pc'[q] = pc[q]
      BY <3>2, Constants DEF ControlInv, TypeOK
    <3> QED BY <1>1, <3>3 DEF CreateUser, paging, memory
  <2>4. /\ Others(n) /\ io[n] = None /\ ~Filling(n) /\ ~Evicting(n) /\ ~Evicting(n)'
        /\ Starting(n) /\ Starting(n)' /\ pc[n] \notin Ended /\ pc'[n] \notin Ended
    BY <2>2, <2>3 DEF Others, ControlInv, TypeOK, Control, OperationOK, Booting,
       Paging, Filling, Starting, Evicting, DiskLabel, Ended
  <2>5. StartData(n)' /\ FaultData(n)'
    BY <2>2, <2>3, <2>4 DEF DataInv, StartData, FaultData, Filling, Paging
  <2>6. DataInv'
    BY <2>3, <2>4, <2>5, DataFrame
  <2>7. VMStep
    BY <2>3, <2>4, KeepsPages
  <2> QED BY <2>6, <2>7
<1>2. ASSUME \A q \in ASID : pc'[q] = pc[q],
             UNCHANGED <<block, io, miss, fNo, swapPool, pte, ram, disk>>
      PROVE  DataInv' /\ VMStep
  <2>1. PICK p \in ASID : TRUE
    BY Constants
  <2>2. /\ Others(p)
        /\ Filling(p)' <=> Filling(p)
        /\ Starting(p)' <=> Starting(p)
        /\ Booting(p)' <=> Booting(p)
        /\ Evicting(p)' <=> Evicting(p)
        /\ pc'[p] = pc[p]
    BY <1>2 DEF Others, Filling, Starting, Evicting, Booting, Paging
  <2>3. /\ pc'[p] \notin Ended /\ Starting(p)' => StartData(p)'
        /\ pc'[p] \notin Ended => FaultData(p)'
    BY <1>2, <2>2 DEF DataInv, StartData, FaultData, Filling, Paging
  <2>4. DataInv'
    BY <1>2, <2>2, <2>3, DataFrame
  <2>5. VMStep
    BY <1>2, <2>2, KeepsPages
  <2> QED BY <2>4, <2>5
<1>3. ASSUME WaitForUser PROVE DataInv' /\ VMStep
  <2>1. /\ \A q \in ASID : pc'[q] = pc[q]
        /\ UNCHANGED <<block, io, miss, fNo, swapPool, pte, ram, disk>>
    BY <1>3, Constants DEF WaitForUser, Goto, paging, memory, ControlInv, TypeOK
  <2> QED BY <1>2, <2>1
<1>4. ASSUME UNCHANGED vars PROVE DataInv' /\ VMStep
  <2>1. /\ \A q \in ASID : pc'[q] = pc[q]
        /\ UNCHANGED <<block, io, miss, fNo, swapPool, pte, ram, disk>>
    BY <1>4 DEF vars, paging, memory
  <2> QED BY <1>2, <2>1
<1>5. ASSUME RootEnd PROVE DataInv' /\ VMStep
  <2>1. /\ \A q \in ASID : pc[q] \in {"exit", "dead"} /\ pc'[q] \in {"exit", "dead"}
        /\ UNCHANGED <<swapPool, pte, io, fNo>>
    BY <1>5, AllCompleted, RootEndFacts DEF paging, memory
  <2>2. ASSUME NEW q \in ASID
        PROVE  /\ ~Filling(q) /\ ~Evicting(q)'
               /\ pc[q] \in Ended /\ pc'[q] \in Ended
    <3>1. pc[q] \in Ended /\ pc'[q] \in Ended
      BY <2>1 DEF Ended
    <3>2. ~Paging(q)
      BY <3>1 DEF SemInv, Exclusion
    <3> QED BY <2>1, <3>1, <3>2 DEF Filling, Evicting, Paging
  <2>3. TableExact'
    BY <2>1, <2>2 DEF DataInv, TableExact
  <2>4. DataInv'
    BY <2>2, <2>3 DEF DataInv
  <2>5. \A x \in ASID, v \in Page : Same(x, v)
    BY <2>2 DEF Pages, PageAt, Same, Gone
  <2> QED BY <2>4, <2>5, Invisible
<1> QED BY <1>1, <1>3, <1>4, <1>5 DEF RootStep

-----------------------------------------------------------------------------
(* The step, and the theorems.                                             *)

LEMMA NextData ==
  ASSUME PrivateOnly, ControlInv, SemInv, MemoryInv, DataInv, Pages, Pages',
         [Next]_vars
  PROVE  DataInv' /\ VMStep
<1>1. CASE RootStep \/ UNCHANGED vars
  BY <1>1, RootData
<1>2. ASSUME NEW p \in ASID, SystemStep(p) \/ UserStep(p)
      PROVE  DataInv' /\ VMStep
  <2>1. CASE Calm(p)
    BY <2>1, CalmData
  <2>2. CASE \/ TapeDone(p) \/ StartUser(p) \/ SeekDone(p) \/ TransferDone(p)
             \/ UnlockDisk(p)
    BY <2>2, TapeDoneData, StartUserData, SeekDoneData, TransferDoneData,
       UnlockDiskData
  <2>3. CASE ChooseFrame(p) \/ LoadPage(p) \/ ClearFrames(p)
    BY <2>3, ChooseFrameData, LoadPageData, ClearFramesData
  <2>4. CASE \E v \in Data : Write(p, v)
    <3>1. PICK v \in Page : Write(p, v)
      BY <2>4, SizeAssumption DEF SizeAssumption
    <3> QED BY <3>1, WriteData
  <2> QED BY <1>2, <2>1, <2>2, <2>3, <2>4 DEF SystemStep, UserStep, Calm
<1> QED BY <1>1, <1>2 DEF Next, Halted

(* The contents of memory, of the disk and of the page tables stay in step *)
(* with the pages they stand for.                                          *)
THEOREM VmDataInvariant == ASSUME PrivateOnly PROVE Spec => []DataInv
<1>1. Init => DataInv
  BY InitData
<1>2. ASSUME Inv, Inv', DataInv, [Next]_vars
      PROVE  DataInv'
  <2>1. Pages /\ Pages'
    BY <1>2, PagesAre, NextPages DEF Inv
  <2> QED BY <1>2, <2>1, NextData DEF Inv
<1> QED BY <1>1, <1>2, VmInvariant, PTL DEF Spec

(* Paging is invisible: whatever pager() and diskIO() move, and whoever's  *)
(* frame they take, a page of a process changes only when that process     *)
(* writes it, until the process ends.                                      *)
THEOREM ImplementsCorrect == ASSUME PrivateOnly PROVE Spec => ImplementsVirtualMemory
<1>1. Init => VM!Init
  BY InitData
<1>2. ASSUME Inv, Inv', DataInv, [Next]_vars
      PROVE  VMStep
  <2>1. Pages /\ Pages'
    BY <1>2, PagesAre, NextPages DEF Inv
  <2> QED BY <1>2, <2>1, NextData DEF Inv
<1> QED BY <1>1, <1>2, VmInvariant, VmDataInvariant, PTL
        DEF Spec, ImplementsVirtualMemory, VM!Spec, VMStep

(* When pager() returns, the access it was entered for finds a frame:      *)
(* nobody can take the frame away between the update of the page table and *)
(* the V of swapPoolSem.                                                   *)
THEOREM FaultResolvedCorrect == ASSUME PrivateOnly PROVE Spec => FaultResolved
<1>1. ASSUME TypeOK, [Next]_vars, NEW p \in ASID, pc[p] = "leave", pc'[p] = "run"
      PROVE  LeavePager(p)
  <2>1. ~UNCHANGED vars /\ ~Halted /\ ~RootStep
    BY <1>1, Constants DEF vars, Halted, RootStep, CreateUser, WaitForUser, RootEnd,
       Goto, TypeOK
  <2>2. ASSUME NEW q \in ASID, q # p, SystemStep(q) \/ UserStep(q)
        PROVE  FALSE
    BY <1>1, <2>2 DEF TypeOK, Goto, SystemStep, UserStep, ReadTape,
       TapeDone, StartUser, LockDisk, Seek, SeekDone, Transfer,
       TransferDone, UnlockDisk, EnterPager, RejectCause, ChooseFrame,
       ReadPage, LoadPage, LeavePager, BeginTerminate, ClearFrames,
       SignalRoot, Exit, Write, Read, Fault, Miss, EndUser
  <2>3. SystemStep(p) \/ UserStep(p) => LeavePager(p)
    BY <1>1 DEF TypeOK, At, Goto, SystemStep, UserStep, ReadTape, TapeDone,
       StartUser, LockDisk, Seek, SeekDone, Transfer, TransferDone,
       UnlockDisk, EnterPager, RejectCause, ChooseFrame, ReadPage, LoadPage,
       LeavePager, BeginTerminate, ClearFrames, SignalRoot, Exit, Write,
       Read, Fault, Miss, EndUser
  <2> QED BY <1>1, <2>1, <2>2, <2>3 DEF Next
<1>2. ASSUME Inv, DataInv, [Next]_vars,
             NEW p \in ASID, NEW seg \in Segment, NEW v \in Page,
             pc[p] = "leave", pc'[p] = "run", miss[p] = <<seg, v>>
      PROVE  translation(p, seg, v)' \in Frame
  <2>1. pte' = pte /\ tlb' = tlb
    BY <1>1, <1>2 DEF LeavePager, memory, Inv, ControlInv
  <2>2. /\ fNo[p] \in Frame /\ pte[p][pteIndex(v)] = fNo[p]
        /\ tlb[p][pteIndex(v)] \in {pte[p][pteIndex(v)], Absent}
    BY <1>2, PageIndex DEF Inv, ControlInv, Control, DataInv, FaultData, MemoryInv,
       Mapping, Ended
  <2>3. seg # 3
    BY DEF PrivateOnly
  <2> QED BY <2>1, <2>2, <2>3 DEF translation
<1>3. Inv /\ DataInv /\ [Next]_vars =>
        [\A p \in ASID, seg \in Segment, v \in Page :
           pc[p] = "leave" /\ pc'[p] = "run" /\ miss[p] = <<seg, v>>
             => translation(p, seg, v)' \in Frame]_vars
  BY <1>2
<1> QED BY <1>3, VmInvariant, VmDataInvariant, PTL DEF Spec, FaultResolved
=============================================================================
