------------------------------ MODULE VmSupport ------------------------------
(***************************************************************************)
(* The VM support layer of phase 3: the root process test(), the start-up  *)
(* of the user processes (initProc.c), and the pager and the end of a user *)
(* process (vmIOsupport.c).                                                *)
(*                                                                         *)
(* The processes interleave between their system calls; what they do with  *)
(* interrupts masked, or on data that a semaphore of theirs protects, is   *)
(* one step.  SYS3 and SYS4 act on semaphores as in module Nucleus; the    *)
(* page tables, the TLB, disk 0 and the tapes are modelled here.           *)
(***************************************************************************)
EXTENDS Integers, Sequences, ProcQ

CONSTANTS
  MAXUPROC,     \* the number of user processes
  POOLSIZE,     \* the number of frames of the swap pool
  Page,         \* the page numbers that occur, of those in the page table
  Data,         \* those of them that the programs write
  Segment,      \* the segments in which the processes use them: 2, or 2 and 3
  Blocks,       \* the length of every tape
  TapeStatus,   \* the statuses with which a tape operation can end
  DiskStatus    \* and those of the disk

KUSEGPTESIZE == 32
KUSEG3NO == 17
READY == 1

ASID == 1..MAXUPROC
Root == 0
Frame == 0..POOLSIZE - 1

(* The index in the page table of a process, and the cylinder on disk 0,   *)
(* of a page.  The table holds the pages from 0 to 30, and 3FFFF, on which *)
(* the stack begins; any other page misses (Miss, below).                  *)
pteIndex(v) == IF v >= KUSEGPTESIZE THEN KUSEGPTESIZE - 1 ELSE v

Index == {pteIndex(v) : v \in Page} \cup 0..Blocks - 1

ASSUME SizeAssumption ==
  /\ MAXUPROC \in Nat \ {0} /\ POOLSIZE \in Nat \ {0} /\ Blocks \in 0..KUSEGPTESIZE - 1
  /\ Page \subseteq 0..KUSEGPTESIZE - 2 \cup {262143}
  /\ Data \subseteq Page /\ Segment \subseteq {2, 3}
ASSUME StatusAssumption == READY \in TapeStatus /\ READY \in DiskStatus

Invalid == -1     \* a page-table or TLB entry whose V bit is off
Absent == -2      \* the TLB holds no entry
Free == <<>>      \* an entry of swapPool with sp_asid = -1
None == <<>>      \* no page fault, no disk operation
BadCause == <<0>> \* a TLB exception that is not TLBINVLW or TLBINVSW
TapeBuffer == -3  \* the tape's DMA buffer, as the memory of a disk operation

VARIABLES
  pc,           \* where each process is
  semV, semQ,   \* the semaphores and their queues
  left,         \* how often the root still has to go round its loop
  block,        \* the index i of tapeToDisk
  io,           \* the arguments of diskIO in the process that calls it
  miss,         \* the access that trapped
  fNo,          \* the frame the pager has chosen
  frameNo,      \* the one it chose last
  swapPool,     \* whose page each frame holds
  pte,          \* the page tables
  tlb,          \* the TLB, by address space
  ram,          \* the contents of the frames
  disk,         \* the contents of the backing store
  diskCyl       \* where the arm of disk 0 is

paging == <<miss, fNo, frameNo, swapPool>>
memory == <<pte, tlb, ram, disk, diskCyl>>
vars == <<pc, semV, semQ, left, block, io, paging, memory>>

(* Contents of a page: a block of the tape, what the process wrote, or a   *)
(* blank sector.                                                           *)
Image(p, b) == <<p, b, "tape">>
Written(p, v) == <<p, v, "data">>
Blank == <<>>

InitialContents(p, v) ==
  IF pteIndex(v) < Blocks THEN Image(p, pteIndex(v)) ELSE Blank

-----------------------------------------------------------------------------
(* SYS4 and SYS3.  A process that blocks goes to the queue of the          *)
(* semaphore, with its pc where it will resume.                            *)

P(s, p) ==
  /\ semV' = [semV EXCEPT ![s] = @ - 1]
  /\ semQ' = IF semV[s] - 1 < 0 THEN [semQ EXCEPT ![s] = insertProcQ(@, p)] ELSE semQ

V(s) ==
  /\ semV' = [semV EXCEPT ![s] = @ + 1]
  /\ semQ' = IF semV[s] + 1 <= 0 THEN [semQ EXCEPT ![s] = removeProcQ(@)] ELSE semQ

Blocked(p) == \E s \in DOMAIN semQ : InQ(semQ[s], p)

At(p, label) == pc[p] = label /\ ~Blocked(p)
Goto(p, label) == pc' = [pc EXCEPT ![p] = label]

-----------------------------------------------------------------------------
(* The root process.                                                       *)

Init ==
  /\ pc = [p \in ASID \cup {Root} |-> IF p = Root THEN "create" ELSE "unborn"]
  /\ semV = [masterSem |-> 0, swapPoolSem |-> 1, disk0sem |-> 1]
  /\ semQ = [s \in DOMAIN semV |-> <<>>]
  /\ left = MAXUPROC
  /\ block = [p \in ASID |-> 0]
  /\ io = [p \in ASID |-> None]
  /\ miss = [p \in ASID |-> None]
  /\ fNo = [p \in ASID |-> Absent]
  /\ frameNo = POOLSIZE - 1
  /\ swapPool = [f \in Frame |-> Free]
  /\ pte = [p \in ASID |-> [i \in Index |-> Invalid]]
  /\ tlb = [p \in ASID |-> [i \in Index |-> Absent]]
  /\ ram = [f \in Frame |-> Blank]
  /\ disk = [p \in ASID |-> [i \in Index |-> Blank]]
  /\ diskCyl = 0

(* One round of the loop that creates the processes, in the order of their *)
(* asids; the pcbs are enough for all.                                     *)
(* (The mutant does not start its second loop anew.) *)
CreateUserMutant ==
  /\ At(Root, "create")
  /\ left' = left - 1
  /\ pc' = [pc EXCEPT ![MAXUPROC + 1 - left] = "tape",
                      ![Root] = IF left = 1 THEN "wait" ELSE @]
  /\ UNCHANGED <<semV, semQ, block, io, paging, memory>>

CreateUser ==
  /\ At(Root, "create")
  /\ left' = IF left = 1 THEN MAXUPROC ELSE left - 1
  /\ pc' = [pc EXCEPT ![MAXUPROC + 1 - left] = "tape",
                      ![Root] = IF left = 1 THEN "wait" ELSE @]
  /\ UNCHANGED <<semV, semQ, block, io, paging, memory>>

WaitForUser ==
  /\ At(Root, "wait")
  /\ P("masterSem", Root)
  /\ left' = left - 1
  /\ Goto(Root, IF left = 1 THEN "end" ELSE "wait")
  /\ UNCHANGED <<block, io, paging, memory>>

(* SYS2 of the root kills what is left of its children: they are on no     *)
(* queue of a semaphore, but ready, their own SYS2 before them.  Those     *)
(* that outProcQ misses, since it looks at the tail of the ready queue     *)
(* only, run on.  (Module Nucleus follows such a kill frame by frame.)     *)
RootEnd ==
  /\ At(Root, "end")
  /\ \E missed \in SUBSET {p \in ASID : pc[p] = "exit"} :
       pc' = [p \in DOMAIN pc |-> IF p \in missed THEN pc[p] ELSE "dead"]
  /\ UNCHANGED <<semV, semQ, left, block, io, paging, memory>>

-----------------------------------------------------------------------------
(* Start-up of a user process: uProcInit and tapeToDisk.                   *)

ReadTape(p) ==
  /\ At(p, "tape")
  /\ block[p] < Blocks
  /\ Goto(p, "tapeWait")
  /\ UNCHANGED <<semV, semQ, left, block, io, paging, memory>>

(* The end of SYS8 for the tape.  The process is not yet entitled to       *)
(* SYS18: the call kills it.                                               *)
TapeDone(p) ==
  /\ At(p, "tapeWait")
  /\ \E status \in TapeStatus :
       IF status = READY
         THEN /\ Goto(p, "lock")
              /\ io' = [io EXCEPT ![p] = [cmd |-> "write", asid |-> p, cyl |-> block[p],
                                          buf |-> TapeBuffer, back |-> "tape"]]
         ELSE Goto(p, "dead") /\ UNCHANGED io
  /\ UNCHANGED <<semV, semQ, left, block, paging, memory>>

(* The tape is at its end: SYS5 three times, and the program begins. *)
StartUser(p) ==
  /\ At(p, "tape")
  /\ block[p] = Blocks
  /\ Goto(p, "run")
  /\ UNCHANGED <<semV, semQ, left, block, io, paging, memory>>

-----------------------------------------------------------------------------
(* diskIO.  Seek and transfer are each one step up to SYS8, which always   *)
(* blocks, since interrupts are masked and no one else uses the disk.      *)

(* (The mutant does not wait for its turn.) *)
LockDiskMutant(p) ==
  /\ At(p, "lock")
  /\ Goto(p, "seek")
  /\ UNCHANGED <<semV, semQ, left, block, io, paging, memory>>

LockDisk(p) ==
  /\ At(p, "lock")
  /\ P("disk0sem", p)
  /\ Goto(p, "seek")
  /\ UNCHANGED <<left, block, io, paging, memory>>

Seek(p) ==
  /\ At(p, "seek")
  /\ Goto(p, "seekWait")
  /\ UNCHANGED <<semV, semQ, left, block, io, paging, memory>>

(* SYS18 after a failed operation: userSyscallHandler terminates the       *)
(* process, or before SYS5 the nucleus kills it.                           *)
failTo(p) == IF io[p].back = "tape" THEN "dead" ELSE "terminate"

SeekDone(p) ==
  /\ At(p, "seekWait")
  /\ \E status \in DiskStatus :
       IF status = READY
         THEN diskCyl' = io[p].cyl /\ Goto(p, "transfer")
         ELSE UNCHANGED diskCyl /\ Goto(p, failTo(p))
  /\ UNCHANGED <<semV, semQ, left, block, io, paging, pte, tlb, ram, disk>>

Transfer(p) ==
  /\ At(p, "transfer")
  /\ Goto(p, "transferWait")
  /\ UNCHANGED <<semV, semQ, left, block, io, paging, memory>>

bufferContents(p) ==
  IF io[p].buf = TapeBuffer THEN Image(p, block[p]) ELSE ram[io[p].buf]

(* The sector of a process, on the cylinder where the arm is, is read or   *)
(* written.                                                                *)
TransferDone(p) ==
  /\ At(p, "transferWait")
  /\ \E status \in DiskStatus :
       IF status # READY
         THEN UNCHANGED <<ram, disk>> /\ Goto(p, failTo(p))
         ELSE /\ Goto(p, "unlock")
              /\ IF io[p].cmd = "write"
                   THEN /\ disk' = [disk EXCEPT ![io[p].asid][diskCyl] = bufferContents(p)]
                        /\ UNCHANGED ram
                   ELSE /\ ram' = [ram EXCEPT ![io[p].buf] = disk[io[p].asid][diskCyl]]
                        /\ UNCHANGED disk
  /\ UNCHANGED <<semV, semQ, left, block, io, paging, pte, tlb, diskCyl>>

(* The V of diskIO and the return to its caller. *)
UnlockDisk(p) ==
  /\ At(p, "unlock")
  /\ V("disk0sem")
  /\ Goto(p, io[p].back)
  /\ block' = IF io[p].back = "tape" THEN [block EXCEPT ![p] = @ + 1] ELSE block
  /\ io' = [io EXCEPT ![p] = None]
  /\ UNCHANGED <<left, paging, memory>>

-----------------------------------------------------------------------------
(* The user program: it reads and writes its pages, and ends by SYS18, or  *)
(* by a program trap, an unknown SYS or a bad argument, which is the same. *)

(* What the hardware makes of an access: a missing TLB entry is filled     *)
(* from the page table, valid or not.  No page of segment 3 is ever valid. *)
translation(p, seg, v) ==
  IF seg = 3 THEN Invalid
  ELSE IF tlb[p][pteIndex(v)] = Absent THEN pte[p][pteIndex(v)] ELSE tlb[p][pteIndex(v)]

refill(p, seg, v) ==
  tlb' = IF seg = 3 THEN tlb ELSE [tlb EXCEPT ![p][pteIndex(v)] = translation(p, seg, v)]

Write(p, v) ==
  /\ At(p, "run")
  /\ translation(p, 2, v) \in Frame
  /\ refill(p, 2, v)
  /\ ram' = [ram EXCEPT ![translation(p, 2, v)] = Written(p, v)]
  /\ UNCHANGED <<pc, semV, semQ, left, block, io, paging, pte, disk, diskCyl>>

Read(p, v) ==
  /\ At(p, "run")
  /\ translation(p, 2, v) \in Frame
  /\ refill(p, 2, v)
  /\ UNCHANGED <<pc, semV, semQ, left, block, io, paging, pte, ram, disk, diskCyl>>

Fault(p, seg, v) ==
  /\ At(p, "run")
  /\ translation(p, seg, v) = Invalid
  /\ refill(p, seg, v)
  /\ miss' = [miss EXCEPT ![p] = <<seg, v>>]
  /\ Goto(p, "pager")
  /\ UNCHANGED <<semV, semQ, left, block, io, fNo, frameNo, swapPool, pte, ram,
                 disk, diskCyl>>

(* An access to a page that is in no page table. *)
Miss(p) ==
  /\ At(p, "run")
  /\ miss' = [miss EXCEPT ![p] = BadCause]
  /\ Goto(p, "pager")
  /\ UNCHANGED <<semV, semQ, left, block, io, fNo, frameNo, swapPool, memory>>

EndUser(p) ==
  /\ At(p, "run")
  /\ Goto(p, "terminate")
  /\ UNCHANGED <<semV, semQ, left, block, io, paging, memory>>

-----------------------------------------------------------------------------
(* pager().                                                                *)

TLBCLR == tlb' = [p \in ASID |-> [i \in Index |-> Absent]]

EnterPager(p) ==
  /\ At(p, "pager")
  /\ P("swapPoolSem", p)
  /\ Goto(p, "frame")
  /\ UNCHANGED <<left, block, io, paging, memory>>

RejectCause(p) ==
  /\ At(p, "frame")
  /\ miss[p] = BadCause
  /\ V("swapPoolSem")
  /\ Goto(p, "terminate")
  /\ miss' = [miss EXCEPT ![p] = None]
  /\ UNCHANGED <<left, block, io, fNo, frameNo, swapPool, memory>>

(* getFrame(): the frames are taken in turn. *)
getFrame == IF frameNo + 1 = POOLSIZE THEN 0 ELSE frameNo + 1

(* The pager goes past its test for segment 3, since a segment number has  *)
(* two bits and KUSEG3NO has five.                                         *)
(* A frame in use is taken from its owner: the entry becomes invalid, and  *)
(* the page is written to the owner's sector.  (The mutants forget the TLB *)
(* and the entry, and write to the sector of the wrong process.)           *)
takeFromMutant(owner, v) ==
  pte' = [pte EXCEPT ![owner][pteIndex(v)] = Invalid] /\ UNCHANGED tlb

takeFromMutant2(owner, v) == UNCHANGED pte /\ TLBCLR

takeFrom(owner, v) ==
  pte' = [pte EXCEPT ![owner][pteIndex(v)] = Invalid] /\ TLBCLR

writeBackMutant(p, owner, v) ==
  [cmd |-> "write", asid |-> p, cyl |-> pteIndex(v), buf |-> getFrame, back |-> "read"]

writeBack(p, owner, v) ==
  [cmd |-> "write", asid |-> owner, cyl |-> pteIndex(v), buf |-> getFrame, back |-> "read"]

ChooseFrame(p) ==
  /\ At(p, "frame")
  /\ miss[p] # BadCause
  /\ miss[p][1] # KUSEG3NO
  /\ frameNo' = getFrame
  /\ fNo' = [fNo EXCEPT ![p] = getFrame]
  /\ IF swapPool[getFrame] = Free
       THEN Goto(p, "read") /\ UNCHANGED <<pte, tlb, io>>
       ELSE LET owner == swapPool[getFrame][1]
                v == swapPool[getFrame][2]
            IN /\ takeFrom(owner, v)
               /\ io' = [io EXCEPT ![p] = writeBack(p, owner, v)]
               /\ Goto(p, "lock")
  /\ UNCHANGED <<semV, semQ, left, block, miss, swapPool, ram, disk, diskCyl>>

(* (The mutant reads the page again and again.) *)
readInMutant(p) ==
  [cmd |-> "read", asid |-> p, cyl |-> pteIndex(miss[p][2]), buf |-> fNo[p], back |-> "read"]

readIn(p) ==
  [cmd |-> "read", asid |-> p, cyl |-> pteIndex(miss[p][2]), buf |-> fNo[p], back |-> "load"]

ReadPage(p) ==
  /\ At(p, "read")
  /\ io' = [io EXCEPT ![p] = readIn(p)]
  /\ Goto(p, "lock")
  /\ UNCHANGED <<semV, semQ, left, block, paging, memory>>

(* (The mutant does not clear the TLB.) *)
LoadPageMutant(p) ==
  /\ At(p, "load")
  /\ swapPool' = [swapPool EXCEPT ![fNo[p]] = <<p, miss[p][2]>>]
  /\ pte' = [pte EXCEPT ![p][pteIndex(miss[p][2])] = fNo[p]]
  /\ Goto(p, "leave")
  /\ UNCHANGED <<semV, semQ, left, block, io, miss, fNo, frameNo, tlb, ram, disk, diskCyl>>

LoadPage(p) ==
  /\ At(p, "load")
  /\ swapPool' = [swapPool EXCEPT ![fNo[p]] = <<p, miss[p][2]>>]
  /\ pte' = [pte EXCEPT ![p][pteIndex(miss[p][2])] = fNo[p]]
  /\ TLBCLR
  /\ Goto(p, "leave")
  /\ UNCHANGED <<semV, semQ, left, block, io, miss, fNo, frameNo, ram, disk, diskCyl>>

LeavePager(p) ==
  /\ At(p, "leave")
  /\ V("swapPoolSem")
  /\ Goto(p, "run")
  /\ miss' = [miss EXCEPT ![p] = None]
  /\ fNo' = [fNo EXCEPT ![p] = Absent]
  /\ UNCHANGED <<left, block, io, frameNo, swapPool, memory>>

-----------------------------------------------------------------------------
(* terminateUserProc().                                                    *)

(* (The mutant polls the semaphore.) *)
BeginTerminateMutant(p) ==
  /\ At(p, "terminate")
  /\ semV["swapPoolSem"] > 0
  /\ P("swapPoolSem", p)
  /\ Goto(p, "clear")
  /\ UNCHANGED <<left, block, io, paging, memory>>

BeginTerminate(p) ==
  /\ At(p, "terminate")
  /\ P("swapPoolSem", p)
  /\ Goto(p, "clear")
  /\ UNCHANGED <<left, block, io, paging, memory>>

(* (The mutant's loop stops one frame too early.) *)
clearedMutant(p) ==
  [f \in Frame |-> IF swapPool[f] # Free /\ swapPool[f][1] = p /\ f # POOLSIZE - 1
                     THEN Free ELSE swapPool[f]]

cleared(p) ==
  [f \in Frame |-> IF swapPool[f] # Free /\ swapPool[f][1] = p
                     THEN Free ELSE swapPool[f]]

ClearFrames(p) ==
  /\ At(p, "clear")
  /\ swapPool' = cleared(p)
  /\ TLBCLR
  /\ V("swapPoolSem")
  /\ Goto(p, "signal")
  /\ UNCHANGED <<left, block, io, miss, fNo, frameNo, pte, ram, disk, diskCyl>>

SignalRoot(p) ==
  /\ At(p, "signal")
  /\ V("masterSem")
  /\ Goto(p, "exit")
  /\ UNCHANGED <<left, block, io, paging, memory>>

Exit(p) ==
  /\ At(p, "exit")
  /\ Goto(p, "dead")
  /\ UNCHANGED <<semV, semQ, left, block, io, paging, memory>>

-----------------------------------------------------------------------------
RootStep == CreateUser \/ WaitForUser \/ RootEnd

(* The steps of the support code and of the devices it waits for. *)
SystemStep(p) ==
  \/ ReadTape(p) \/ TapeDone(p) \/ StartUser(p)
  \/ LockDisk(p) \/ Seek(p) \/ SeekDone(p)
  \/ Transfer(p) \/ TransferDone(p) \/ UnlockDisk(p)
  \/ EnterPager(p) \/ RejectCause(p) \/ ChooseFrame(p)
  \/ ReadPage(p) \/ LoadPage(p) \/ LeavePager(p)
  \/ BeginTerminate(p) \/ ClearFrames(p) \/ SignalRoot(p) \/ Exit(p)

UserStep(p) ==
  \/ \E v \in Data : Write(p, v)
  \/ \E v \in Page : Read(p, v)
  \/ \E seg \in Segment, v \in Page : Fault(p, seg, v)
  \/ Miss(p) \/ EndUser(p)

(* The nucleus halts the machine when no process is left. *)
Halted == pc[Root] = "dead" /\ UNCHANGED vars

Next == RootStep \/ Halted \/ \E p \in ASID : SystemStep(p) \/ UserStep(p)

Spec == Init /\ [][Next]_vars

(* The nucleus runs every ready process again and again, and a device ends *)
(* the operation it was given.  Nothing is assumed of the user programs.   *)
FairSpec ==
  /\ Spec
  /\ WF_vars(RootStep)
  /\ \A p \in ASID : WF_vars(SystemStep(p))

-----------------------------------------------------------------------------
(* Properties.                                                             *)

Ended == {"signal", "exit", "dead"}

(* Where the root and a user process can be; DiskLabel is within diskIO.  *)
RootLabel == {"create", "wait", "end", "dead"}
DiskLabel == {"lock", "seek", "seekWait", "transfer", "transferWait", "unlock"}
UserLabel == DiskLabel \cup Ended \cup
  {"unborn", "tape", "tapeWait", "run", "pager", "frame", "read", "load",
   "leave", "terminate", "clear"}

Operation == [cmd : {"read", "write"}, asid : ASID, cyl : Index,
              buf : Frame \cup {TapeBuffer}, back : {"tape", "read", "load"}]

(* What a frame or a sector can hold. *)
Content ==
  {Blank} \cup {Image(p, i) : p \in ASID, i \in Index}
          \cup {Written(p, v) : p \in ASID, v \in Page}

(* Every process is at a label of its own code, disk operations, faults    *)
(* and frames are what the code can set up, and memory holds only blocks   *)
(* of tapes, what programs wrote, and blank sectors.                       *)
TypeOK ==
  /\ pc \in [ASID \cup {Root} -> RootLabel \cup UserLabel]
  /\ pc[Root] \in RootLabel /\ \A p \in ASID : pc[p] \in UserLabel
  /\ semV \in [{"masterSem", "swapPoolSem", "disk0sem"} -> Int]
  /\ semQ \in [{"masterSem", "swapPoolSem", "disk0sem"} -> Seq(ASID \cup {Root})]
  /\ left \in 0..MAXUPROC
  /\ block \in [ASID -> 0..Blocks]
  /\ io \in [ASID -> Operation \cup {None}]
  /\ miss \in [ASID -> {None, BadCause} \cup (Segment \X Page)]
  /\ fNo \in [ASID -> Frame \cup {Absent}]
  /\ frameNo \in Frame
  /\ swapPool \in [Frame -> {Free} \cup (ASID \X Page)]
  /\ pte \in [ASID -> [Index -> Frame \cup {Invalid}]]
  /\ tlb \in [ASID -> [Index -> Frame \cup {Invalid, Absent}]]
  /\ ram \in [Frame -> Content]
  /\ disk \in [ASID -> [Index -> Content]]
  /\ diskCyl \in 0..KUSEGPTESIZE - 1

(* A frame belongs to one page of one process: a valid entry of a process  *)
(* that has not ended names a frame that the swap pool table gives to that *)
(* page, and what the TLB holds is what the page table says.               *)
SwapPoolOK ==
  \A p \in ASID : pc[p] \notin Ended =>
    \A v \in Page :
      LET e == pte[p][pteIndex(v)] IN
        /\ e \in Frame => swapPool[e] = <<p, v>>
        /\ tlb[p][pteIndex(v)] \in {e, Absent}

(* While the disk reads or writes a frame, no process that has not ended   *)
(* can reach that frame, through its page table or the TLB.                *)
DmaSafe ==
  \A q \in ASID : pc[q] = "transferWait" =>
    \A p \in ASID : pc[p] \notin Ended =>
      \A i \in Index : pte[p][i] # io[q].buf /\ tlb[p][i] # io[q].buf

(* A transfer finds the arm where its own seek put it, although the pages  *)
(* of all processes share the disk.                                        *)
ArmInPlace ==
  \A p \in ASID : pc[p] \in {"transfer", "transferWait"} /\ ~Blocked(p)
                    => diskCyl = io[p].cyl

(* initProc.c:35-37: the root ends when all processes are completed, and   *)
(* by then they have given back all frames.                                *)
GracefulEnd ==
  pc[Root] \in {"end", "dead"} /\ ~Blocked(Root) =>
    /\ \A p \in ASID : pc[p] \in {"exit", "dead"}
    /\ \A f \in Frame : swapPool[f] = Free

Gone == <<"gone">>

(* The contents of a page, wherever the page is: on the tape, in a frame,  *)
(* in a frame on its way to the disk, or on the disk.                      *)
Contents(p, v) ==
  LET i == pteIndex(v)
      leaving == {q \in ASID : io[q] # None /\ io[q].back = "read" /\
                                 io[q].asid = p /\ io[q].cyl = i}
  IN IF pc[p] \in Ended THEN Gone
     ELSE IF pc[p] \in {"unborn", "tape", "tapeWait"} \/
             (io[p] # None /\ io[p].back = "tape") THEN InitialContents(p, v)
     ELSE IF pte[p][i] \in Frame THEN ram[pte[p][i]]
     ELSE IF leaving # {} THEN ram[io[CHOOSE q \in leaving : TRUE].buf]
     ELSE disk[p][i]

VM == INSTANCE VirtualMemory WITH
        Initial <- InitialContents,
        mem <- [p \in ASID |-> [v \in Page |-> Contents(p, v)]]

(* Paging is invisible: whatever the pager moves, for whichever process,   *)
(* a page changes only when its own process writes it.                     *)
ImplementsVirtualMemory == VM!Spec

(* vmIOsupport.c:61-62: the pager handles the trap it was entered for: the *)
(* access no longer traps when the program goes on.                        *)
FaultResolved ==
  [][\A p \in ASID, seg \in Segment, v \in Page :
       pc[p] = "leave" /\ pc'[p] = "run" /\ miss[p] = <<seg, v>>
         => translation(p, seg, v)' \in Frame]_vars

(* A page fault ends: the program goes on, or is terminated.               *)
FaultEnds == \A p \in ASID : pc[p] = "pager" ~> pc[p] \in {"run", "dead"}

(* A process that is to be terminated releases its frames and ends.        *)
TerminateEnds == \A p \in ASID : pc[p] = "terminate" ~> pc[p] = "dead"

(* initProc.c:35-37: once every user process has ended, so does the root.  *)
RootEnds ==
  (\A p \in ASID : pc[p] = "dead") ~> pc[Root] = "dead"
=============================================================================
