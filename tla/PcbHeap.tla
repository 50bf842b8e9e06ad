------------------------------- MODULE PcbHeap -------------------------------
(***************************************************************************)
(* phase1/pcb.c, queues and free list: the pcbs of pcbArr, their p_next    *)
(* and p_prev fields, the tail pointers of the queues and pcbFree_h.       *)
(***************************************************************************)
EXTENDS Integers, Sequences, FiniteSets, SequencesExt

CONSTANTS
  NULL,
  MAXPROC,  \* length of pcbArr
  Queue     \* the tail pointers in use

(* What the instances give the constants. *)
HeapAssumption == MAXPROC \in Nat \ {0} /\ NULL \notin 1..MAXPROC

Pcb == 1..MAXPROC

VARIABLES
  p_next, p_prev,  \* the links of every pcb
  tp,              \* the tail pointers
  pcbFree_h,       \* the head of the free list
  held,            \* the pcbs the callers hold, which they may queue or free
  ret              \* the pointer the last call returned

vars == <<p_next, p_prev, tp, pcbFree_h, held, ret>>

emptyProcQ(t) == t = NULL

(* initPcbs frees the elements of pcbArr one after the other. *)
Init ==
  /\ p_next = [p \in Pcb |-> IF p = 1 THEN NULL ELSE p - 1]
  /\ p_prev = [p \in Pcb |-> NULL]
  /\ pcbFree_h = MAXPROC
  /\ tp = [q \in Queue |-> NULL]
  /\ held = {}
  /\ ret = NULL

(* The free list is singly linked. *)
allocPcb ==
  IF emptyProcQ(pcbFree_h)
    THEN ret' = NULL /\ UNCHANGED <<p_next, p_prev, tp, pcbFree_h, held>>
    ELSE /\ ret' = pcbFree_h
         /\ pcbFree_h' = p_next[pcbFree_h]
         /\ p_next' = [p_next EXCEPT ![pcbFree_h] = NULL]
         /\ p_prev' = [p_prev EXCEPT ![pcbFree_h] = NULL]
         /\ held' = held \cup {pcbFree_h}
         /\ UNCHANGED tp

(* The pcb becomes the head of the free list.  (The mutant forgets the     *)
(* rest of the list.)                                                      *)
freePcbMutant(p) ==
  /\ p \in held
  /\ p_prev' = [p_prev EXCEPT ![p] = NULL]
  /\ p_next' = [p_next EXCEPT ![p] = NULL]
  /\ pcbFree_h' = p
  /\ held' = held \ {p}
  /\ UNCHANGED <<tp, ret>>

freePcb(p) ==
  /\ p \in held
  /\ p_prev' = [p_prev EXCEPT ![p] = NULL]
  /\ p_next' = [p_next EXCEPT ![p] = pcbFree_h]
  /\ pcbFree_h' = p
  /\ held' = held \ {p}
  /\ UNCHANGED <<tp, ret>>

(* The links after p was put behind tail t; p->p_next->p_prev is that of   *)
(* the old head, which is t itself in a queue of one.  (The mutant forgets *)
(* it.)                                                                    *)
linkBehindMutant(t, p) ==
  /\ p_next' = [p_next EXCEPT ![p] = p_next[t], ![t] = p]
  /\ p_prev' = [p_prev EXCEPT ![p] = t]

linkBehind(t, p) ==
  /\ p_next' = [p_next EXCEPT ![p] = p_next[t], ![t] = p]
  /\ p_prev' = [p_prev EXCEPT ![p] = t, ![p_next[t]] = p]

insertProcQ(q, p) ==
  /\ p \in held
  /\ IF emptyProcQ(tp[q])
       THEN /\ p_next' = [p_next EXCEPT ![p] = p]
            /\ p_prev' = [p_prev EXCEPT ![p] = p]
       ELSE linkBehind(tp[q], p)
  /\ tp' = [tp EXCEPT ![q] = p]
  /\ held' = held \ {p}
  /\ UNCHANGED <<pcbFree_h, ret>>

removeProcQ(q) ==
  IF emptyProcQ(tp[q])
    THEN ret' = NULL /\ UNCHANGED <<p_next, p_prev, tp, pcbFree_h, held>>
    ELSE LET t == tp[q]
             head == p_next[t]
         IN /\ ret' = head
            /\ held' = held \cup {head}
            /\ IF head = t
                 THEN /\ tp' = [tp EXCEPT ![q] = NULL]
                      /\ p_next' = [p_next EXCEPT ![t] = NULL]
                      /\ p_prev' = [p_prev EXCEPT ![t] = NULL]
                 ELSE /\ p_next' = [p_next EXCEPT ![t] = p_next[head],
                                                  ![head] = NULL]
                      /\ p_prev' = [p_prev EXCEPT ![p_next[head]] = t,
                                                  ![head] = NULL]
                      /\ UNCHANGED tp
            /\ UNCHANGED pcbFree_h

(* The tail pointer after its pcb t was unlinked.  (The mutant moves it to *)
(* the head.)                                                              *)
newTailMutant(t) == p_next[t]

newTail(t) == p_prev[t]

(* p at the tail is unlinked.  Otherwise the loop is entered with          *)
(* current = *tp # p, so its test `current == *tp' returns NULL.           *)
outProcQ(q, p) ==
  IF emptyProcQ(tp[q]) \/ tp[q] # p
    THEN ret' = NULL /\ UNCHANGED <<p_next, p_prev, tp, pcbFree_h, held>>
    ELSE /\ ret' = p
         /\ held' = held \cup {p}
         /\ IF p_next[p] = p
              THEN /\ tp' = [tp EXCEPT ![q] = NULL]
                   /\ p_next' = [p_next EXCEPT ![p] = NULL]
                   /\ p_prev' = [p_prev EXCEPT ![p] = NULL]
              ELSE /\ tp' = [tp EXCEPT ![q] = newTail(p)]
                   /\ p_next' = [p_next EXCEPT ![p_prev[p]] = p_next[p],
                                               ![p] = NULL]
                   /\ p_prev' = [p_prev EXCEPT ![p_next[p]] = p_prev[p],
                                               ![p] = NULL]
         /\ UNCHANGED pcbFree_h

headProcQ(q) ==
  /\ ret' = IF emptyProcQ(tp[q]) THEN NULL ELSE p_next[tp[q]]
  /\ UNCHANGED <<p_next, p_prev, tp, pcbFree_h, held>>

Next ==
  \/ allocPcb
  \/ \E p \in Pcb : freePcb(p)
  \/ \E q \in Queue : removeProcQ(q) \/ headProcQ(q)
  \/ \E q \in Queue, p \in Pcb : insertProcQ(q, p) \/ outProcQ(q, p)

Spec == Init /\ [][Next]_vars

-----------------------------------------------------------------------------
(* The queues and the list that the links stand for.                       *)

(* The pcbs met from p along p_next, at most one for each pcb of pcbArr. *)
nth(p) ==
  LET at[n \in 1..MAXPROC] ==
        IF n = 1 THEN p
        ELSE IF at[n - 1] = NULL THEN NULL ELSE p_next[at[n - 1]]
  IN at

(* From p up to the first occurrence of `last'. *)
upTo(p, last) ==
  LET len == CHOOSE n \in 1..MAXPROC :
               /\ nth(p)[n] = last
               /\ \A i \in 1..n - 1 : nth(p)[i] # last
  IN [i \in 1..len |-> nth(p)[i]]

queueOf(q) ==
  IF tp[q] = NULL THEN <<>> ELSE upTo(p_next[tp[q]], tp[q])

freeSet ==
  IF pcbFree_h = NULL THEN {}
  ELSE {nth(pcbFree_h)[n] : n \in 1..MAXPROC} \ {NULL}

Abstract == INSTANCE ProcQueues WITH queue <- [q \in Queue |-> queueOf(q)],
                                     free <- freeSet

-----------------------------------------------------------------------------
(* Properties.                                                             *)

(* The links of a queue lead around it in both directions, no pcb is on    *)
(* two queues or on a queue and the free list, and a pcb in the hands of   *)
(* the kernel is unlinked.                                                 *)
RingsOK ==
  /\ \A q \in Queue : tp[q] # NULL =>
       \A p \in ToSet(queueOf(q)) : /\ p_next[p_prev[p]] = p
                                    /\ p_prev[p_next[p]] = p
                                    /\ p \notin freeSet \cup held
  /\ \A q, r \in Queue :
       q # r => ToSet(queueOf(q)) \cap ToSet(queueOf(r)) = {}
  /\ \A p \in held : p_next[p] = NULL /\ p_prev[p] = NULL

(* Every pcb is on the free list, on a queue, or held: none leaks. *)
NoLeak ==
  Pcb = freeSet \cup held \cup UNION {ToSet(queueOf(q)) : q \in Queue}

(* The pointers do to the queues and the free list what ProcQueues says,   *)
(* and every call returns the pcb it says.                                 *)
ImplementsProcQueues == Abstract!Spec

(* pcb.c:103-105: outProcQ takes a pcb from anywhere in its queue.         *)
OutAnywhere ==
  [][\A q \in Queue, p \in Pcb :
       outProcQ(q, p) /\ p \in ToSet(queueOf(q)) => ret' = p]_vars
==============================================================================
