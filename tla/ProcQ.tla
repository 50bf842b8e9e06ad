-------------------------------- MODULE ProcQ --------------------------------
(***************************************************************************)
(* The process queues of phase1/pcb.c seen as sequences of pcbs, head      *)
(* first.  The source keeps a queue as a circular doubly linked list with  *)
(* a tail pointer; module PcbHeap models those pointers and is shown to    *)
(* implement these operators.                                              *)
(***************************************************************************)
EXTENDS Integers, Sequences, SequencesExt

CONSTANT NULL   \* the "no pcb" pointer of const.h

emptyProcQ(q) == q = <<>>

(* The pcb goes to the tail.  (The mutant puts it at the head.) *)
insertProcQMutant(q, p) == <<p>> \o q

insertProcQ(q, p) == Append(q, p)

(* What is left of a queue after its head was taken, and the head. *)
removeProcQ(q) == IF emptyProcQ(q) THEN q ELSE Tail(q)

headProcQ(q) == IF emptyProcQ(q) THEN NULL ELSE Head(q)

(* outProcQ finds a pcb only at the tail: the search loop starts with      *)
(* `current` at the tail pointer and gives up as soon as `current` is the  *)
(* tail pointer, which is in its first iteration.                          *)
outFinds(q, p) == ~emptyProcQ(q) /\ Last(q) = p

(* (The mutant returns the pcb without unlinking it.) *)
outProcQMutant(q, p) == q

outProcQ(q, p) == IF outFinds(q, p) THEN Front(q) ELSE q

(* The pcbs on a queue. *)
InQ(q, p) == \E i \in 1..Len(q) : q[i] = p

(* No pcb is linked twice. *)
NoDup(q) == \A i, j \in 1..Len(q) : q[i] = q[j] => i = j
==============================================================================
