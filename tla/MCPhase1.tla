------------------------------- MODULE MCPhase1 -------------------------------
(* The data structures of phase 1 for TLC: the queues and the free list of *)
(* pcb.c, the semaphore list of asl.c and the process tree of pcb.c.  They *)
(* share no field, so each is exercised by itself; `part' says which.      *)
EXTENDS ProcQ

CONSTANTS NPcb, Queue, NSemd, Sem, Proc, Trap

VARIABLES part,
          p_next, p_prev, tp, pcbFree_h, held, heapRet,
          s_next, s_semAdd, s_procQ, semdActive_h, semdFree_h, p_semAdd, aslRet,
          p_child, p_sib, p_prnt, used, fresh, treeRet

heapVars == <<p_next, p_prev, tp, pcbFree_h, held, heapRet>>
aslVars == <<s_next, s_semAdd, s_procQ, semdActive_h, semdFree_h, p_semAdd, aslRet>>
treeVars == <<p_child, p_sib, p_prnt, used, fresh, treeRet>>
vars == <<part, heapVars, aslVars, treeVars>>

Heap == INSTANCE PcbHeap WITH MAXPROC <- NPcb, ret <- heapRet
Asl == INSTANCE AslHeap WITH MAXPROC <- NSemd, ret <- aslRet
Tree == INSTANCE PcbTree WITH Pcb <- Proc, Reinsert <- FALSE, ret <- treeRet

ASSUME Phase1Assumption ==
  Heap!HeapAssumption /\ Asl!AslAssumption /\ Tree!TreeAssumption

Init == part \in {"heap", "asl", "tree"} /\ Heap!Init /\ Asl!Init /\ Tree!Init

Next ==
  \/ part = "heap" /\ Heap!Next /\ UNCHANGED <<part, aslVars, treeVars>>
  \/ part = "asl" /\ Asl!Next /\ UNCHANGED <<part, heapVars, treeVars>>
  \/ part = "tree" /\ Tree!Next /\ UNCHANGED <<part, heapVars, aslVars>>

Spec == Init /\ [][Next]_vars

(* pcb.c: the rings of the queues are intact and disjoint. *)
RingsOK == Heap!RingsOK

(* pcb.c: no pcb leaks. *)
NoLeak == Heap!NoLeak

(* pcb.c: the linked queues and the free list do what ProcQueues says. *)
ImplementsProcQueues == Heap!ImplementsProcQueues

(* asl.c: the list is sorted and complete, and no descriptor leaks. *)
AslOK == Asl!AslOK

(* asl.c: the list does for the queues what SemQueues says. *)
ImplementsSemQueues == Asl!ImplementsSemQueues

(* pcb.c: a pcb is on the list of the parent that it names, and no other. *)
ListsMatchParents == Tree!ListsMatchParents

(* pcb.c: the pointers of the tree do what ProcTree says. *)
ImplementsProcTree == Tree!ImplementsProcTree
===============================================================================
