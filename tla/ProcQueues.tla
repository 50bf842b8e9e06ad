------------------------------ MODULE ProcQueues ------------------------------
(***************************************************************************)
(* What the process queues and the free list of phase1/pcb.c do for their  *)
(* callers: queues are sequences, the free list is a set, and a pcb that   *)
(* is on none of them is held by the kernel (it is the running process, or *)
(* on its way from one queue to another).                                  *)
(***************************************************************************)
EXTENDS ProcQ, FiniteSets

CONSTANTS
  Pcb,    \* the pcbs
  Queue   \* the tail pointers in use: the ready queue, semaphore queues

VARIABLES
  queue,  \* the pcbs of every queue, head first
  free,   \* the pcbs allocPcb can return
  held,   \* the pcbs in the hands of the kernel
  ret     \* what the last call returned

vars == <<queue, free, held, ret>>

(* After initPcbs. *)
Init ==
  /\ queue = [q \in Queue |-> <<>>]
  /\ free = Pcb
  /\ held = {}
  /\ ret = NULL

AllocPcb ==
  IF free = {}
    THEN ret' = NULL /\ UNCHANGED <<queue, free, held>>
    ELSE \E p \in free : /\ ret' = p
                         /\ free' = free \ {p}
                         /\ held' = held \cup {p}
                         /\ UNCHANGED queue

FreePcb(p) ==
  /\ p \in held
  /\ free' = free \cup {p}
  /\ held' = held \ {p}
  /\ UNCHANGED <<queue, ret>>

InsertProc(q, p) ==
  /\ p \in held
  /\ queue' = [queue EXCEPT ![q] = insertProcQ(@, p)]
  /\ held' = held \ {p}
  /\ UNCHANGED <<free, ret>>

RemoveProc(q) ==
  /\ ret' = headProcQ(queue[q])
  /\ queue' = [queue EXCEPT ![q] = removeProcQ(@)]
  /\ held' = held \cup ({ret'} \ {NULL})
  /\ UNCHANGED free

OutProc(q, p) ==
  /\ ret' = IF outFinds(queue[q], p) THEN p ELSE NULL
  /\ queue' = [queue EXCEPT ![q] = outProcQ(@, p)]
  /\ held' = held \cup ({ret'} \ {NULL})
  /\ UNCHANGED free

HeadProc(q) == ret' = headProcQ(queue[q]) /\ UNCHANGED <<queue, free, held>>

Next ==
  \/ AllocPcb
  \/ \E p \in Pcb : FreePcb(p)
  \/ \E q \in Queue : RemoveProc(q) \/ HeadProc(q)
  \/ \E q \in Queue, p \in Pcb : InsertProc(q, p) \/ OutProc(q, p)

Spec == Init /\ [][Next]_vars
==============================================================================
