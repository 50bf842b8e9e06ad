------------------------------- MODULE AslHeap -------------------------------
(***************************************************************************)
(* phase1/asl.c: the semaphore descriptors of semdArr, on a list sorted by *)
(* the address of their semaphore between two dummies, or on the free      *)
(* list.  The queue of a descriptor is a sequence here; PcbHeap shows how  *)
(* pcb.c keeps it.                                                         *)
(***************************************************************************)
EXTENDS ProcQ, FiniteSets

CONSTANTS
  Sem,      \* the semaphores: their addresses, as numbers
  Proc,     \* the pcbs
  MAXPROC,  \* semdArr has MAXPROC + 2 elements
  Trap      \* stands for a program trap instead of a return

Semd == 1..MAXPROC + 2
MININT == 0
MAXINT == NULL      \* both are 0xFFFFFFFF in const.h

(* What the instances give the constants. *)
AslAssumption ==
  /\ NULL \in Nat /\ \A s \in Sem : s \in 1..NULL - 1
  /\ MAXPROC \in 1..NULL - 3

VARIABLES
  s_next, s_semAdd, s_procQ,   \* the fields of every descriptor
  semdActive_h, semdFree_h,    \* the heads of the two lists
  p_semAdd,                    \* the field of every pcb
  ret                          \* what the last call returned

fields == <<s_next, s_semAdd, s_procQ>>
vars == <<fields, semdActive_h, semdFree_h, p_semAdd, ret>>

(* initASL frees the elements of semdArr one after the other and takes the *)
(* last two for the dummies.                                               *)
Init ==
  LET min == MAXPROC + 2
      max == MAXPROC + 1
  IN /\ s_next = [d \in Semd |-> IF d = min THEN max
                                 ELSE IF d \in {max, 1} THEN NULL ELSE d - 1]
     /\ s_semAdd = [d \in Semd |-> IF d = min THEN MININT
                                   ELSE IF d = max THEN MAXINT ELSE NULL]
     /\ s_procQ = [d \in Semd |-> <<>>]
     /\ semdActive_h = min
     /\ semdFree_h = MAXPROC
     /\ p_semAdd = [p \in Proc |-> NULL]
     /\ ret = NULL

(* The last descriptor whose successor's address is not below that of the  *)
(* semaphore.  (The mutant goes on to the semaphore itself.)               *)
findASemdMutant(i) ==
  LET at[n \in 0..MAXPROC + 1] ==
        IF n = 0 THEN semdActive_h
        ELSE IF s_semAdd[s_next[at[n - 1]]] <= i THEN s_next[at[n - 1]] ELSE at[n - 1]
  IN at[MAXPROC + 1]

findASemd(i) ==
  LET at[n \in 0..MAXPROC + 1] ==
        IF n = 0 THEN semdActive_h
        ELSE IF s_semAdd[s_next[at[n - 1]]] < i THEN s_next[at[n - 1]] ELSE at[n - 1]
  IN at[MAXPROC + 1]

(* allocSemd(i), linked behind prev with the queue <<p>>. *)
linkSemd(prev, i, p) ==
  /\ semdFree_h' = s_next[semdFree_h]
  /\ s_next' = [s_next EXCEPT ![semdFree_h] = s_next[prev], ![prev] = semdFree_h]
  /\ s_semAdd' = [s_semAdd EXCEPT ![semdFree_h] = i]
  /\ s_procQ' = [s_procQ EXCEPT ![semdFree_h] = insertProcQ(<<>>, p)]

(* A pcb that is blocked is not blocked again. *)
insertBlocked(i, p) ==
  LET prev == findASemd(i)
      d == s_next[prev]
  IN /\ p_semAdd[p] = NULL
     /\ IF i = s_semAdd[d]
          THEN /\ s_procQ' = [s_procQ EXCEPT ![d] = insertProcQ(@, p)]
               /\ UNCHANGED <<s_next, s_semAdd, semdFree_h>>
          ELSE IF semdFree_h = NULL THEN UNCHANGED <<fields, semdFree_h>>
          ELSE linkSemd(prev, i, p)
     /\ ret' = IF i # s_semAdd[d] /\ semdFree_h = NULL THEN 1 ELSE 0
     /\ p_semAdd' = IF ret' = 1 THEN p_semAdd ELSE [p_semAdd EXCEPT ![p] = i]
     /\ UNCHANGED semdActive_h

(* Descriptor d, behind prev, keeps the queue q, or goes to the free list. *)
(* (The mutant forgets to free it.)                                        *)
keepOrFreeMutant(prev, d, q) ==
  IF emptyProcQ(q)
    THEN /\ s_next' = [s_next EXCEPT ![prev] = s_next[d]]
         /\ s_procQ' = [s_procQ EXCEPT ![d] = <<>>]
         /\ UNCHANGED <<s_semAdd, semdFree_h>>
    ELSE /\ s_procQ' = [s_procQ EXCEPT ![d] = q]
         /\ UNCHANGED <<s_next, s_semAdd, semdFree_h>>

keepOrFree(prev, d, q) ==
  IF emptyProcQ(q)
    THEN /\ s_next' = [s_next EXCEPT ![prev] = s_next[d], ![d] = semdFree_h]
         /\ s_semAdd' = [s_semAdd EXCEPT ![d] = NULL]
         /\ s_procQ' = [s_procQ EXCEPT ![d] = <<>>]
         /\ semdFree_h' = d
    ELSE /\ s_procQ' = [s_procQ EXCEPT ![d] = q]
         /\ UNCHANGED <<s_next, s_semAdd, semdFree_h>>

removeBlocked(i) ==
  LET prev == findASemd(i)
      d == s_next[prev]
  IN /\ IF s_semAdd[d] = i
          THEN /\ ret' = headProcQ(s_procQ[d])
               /\ keepOrFree(prev, d, removeProcQ(s_procQ[d]))
               /\ p_semAdd' = [p_semAdd EXCEPT ![ret'] = NULL]
          ELSE ret' = NULL /\ UNCHANGED <<fields, semdFree_h, p_semAdd>>
     /\ UNCHANGED semdActive_h

(* When outProcQ does not find p, the NULL it returns is stored through:   *)
(* a program trap.                                                         *)
outBlocked(p) ==
  LET prev == findASemd(p_semAdd[p])
      d == s_next[prev]
  IN /\ IF p_semAdd[p] = NULL \/ s_semAdd[d] # p_semAdd[p]
          THEN ret' = NULL /\ UNCHANGED <<fields, semdFree_h, p_semAdd>>
          ELSE /\ keepOrFree(prev, d, outProcQ(s_procQ[d], p))
               /\ IF outFinds(s_procQ[d], p)
                    THEN ret' = p /\ p_semAdd' = [p_semAdd EXCEPT ![p] = NULL]
                    ELSE ret' = Trap /\ UNCHANGED p_semAdd
     /\ UNCHANGED semdActive_h

headBlocked(i) ==
  LET d == s_next[findASemd(i)]
  IN /\ ret' = IF i = s_semAdd[d] THEN headProcQ(s_procQ[d]) ELSE NULL
     /\ UNCHANGED <<fields, semdActive_h, semdFree_h, p_semAdd>>

Next ==
  \/ \E i \in Sem : removeBlocked(i) \/ headBlocked(i)
  \/ \E p \in Proc : outBlocked(p)
  \/ \E i \in Sem, p \in Proc : insertBlocked(i, p)

Spec == Init /\ [][Next]_vars

-----------------------------------------------------------------------------
(* The descriptors met along s_next from d, up to NULL. *)
listFrom(d) ==
  LET at[n \in 1..MAXPROC + 2] ==
        IF n = 1 THEN d ELSE IF at[n - 1] = NULL THEN NULL ELSE s_next[at[n - 1]]
  IN [n \in 1..Cardinality({k \in Semd : at[k] # NULL}) |-> at[n]]

active == listFrom(semdActive_h)

queueOf(i) ==
  IF \E d \in ToSet(active) : s_semAdd[d] = i
    THEN s_procQ[CHOOSE d \in ToSet(active) : s_semAdd[d] = i] ELSE <<>>

Abstract == INSTANCE SemQueues WITH semQ <- [i \in Sem |-> queueOf(i)]

(* The list is sorted, from the one dummy to the other; no descriptor on   *)
(* it, the dummies apart, has an empty queue; and every descriptor is on   *)
(* this list or on the free list, once.                                    *)
AslOK ==
  LET free == listFrom(semdFree_h) IN
  /\ s_semAdd[active[1]] = MININT /\ s_semAdd[Last(active)] = MAXINT
  /\ \A n \in 1..Len(active) - 1 : s_semAdd[active[n]] < s_semAdd[active[n + 1]]
  /\ \A n \in 2..Len(active) - 1 : s_procQ[active[n]] # <<>>
  /\ Len(active) + Len(free) = MAXPROC + 2
  /\ ToSet(active) \cup ToSet(free) = Semd

(* The sorted list does for the queues what SemQueues says, and every call *)
(* returns what it says: a semaphore is never overlooked, nor found twice. *)
ImplementsSemQueues == Abstract!Spec
==============================================================================
