------------------------------ MODULE SemQueues ------------------------------
(***************************************************************************)
(* What the active semaphore list of phase1/asl.c does for its callers:    *)
(* every semaphore has a queue of blocked pcbs, and at most MAXPROC of the *)
(* queues can be in use at a time.                                         *)
(***************************************************************************)
EXTENDS ProcQ, FiniteSets

CONSTANTS
  Sem,      \* the semaphores
  Proc,     \* the pcbs
  MAXPROC,  \* the number of queues that can be in use
  Trap      \* stands for a program trap instead of a return

VARIABLES
  semQ,     \* the queue of every semaphore
  ret       \* what the last call returned

vars == <<semQ, ret>>

Init == semQ = [s \in Sem |-> <<>>] /\ ret = NULL

BlockedOn(p, s) == InQ(semQ[s], p)

(* Returns 1, the TRUE of const.h, when it fails. *)
InsertBlocked(s, p) ==
  /\ \A t \in Sem : ~BlockedOn(p, t)
  /\ IF semQ[s] = <<>> /\ Cardinality({t \in Sem : semQ[t] # <<>>}) = MAXPROC
       THEN ret' = 1 /\ UNCHANGED semQ
       ELSE ret' = 0 /\ semQ' = [semQ EXCEPT ![s] = insertProcQ(@, p)]

RemoveBlocked(s) ==
  /\ ret' = headProcQ(semQ[s])
  /\ semQ' = [semQ EXCEPT ![s] = removeProcQ(@)]

(* A pcb that is not blocked is not found.  One that is blocked but not at *)
(* the tail ends in a program trap.                                        *)
OutBlocked(p) ==
  \/ /\ \A s \in Sem : ~BlockedOn(p, s)
     /\ ret' = NULL
     /\ UNCHANGED semQ
  \/ \E s \in Sem :
       /\ BlockedOn(p, s)
       /\ ret' = IF outFinds(semQ[s], p) THEN p ELSE Trap
       /\ semQ' = [semQ EXCEPT ![s] = outProcQ(@, p)]

HeadBlocked(s) == ret' = headProcQ(semQ[s]) /\ UNCHANGED semQ

Next ==
  \/ \E s \in Sem : RemoveBlocked(s) \/ HeadBlocked(s)
  \/ \E p \in Proc : OutBlocked(p)
  \/ \E s \in Sem, p \in Proc : InsertBlocked(s, p)

Spec == Init /\ [][Next]_vars
==============================================================================
