------------------------------- MODULE PcbTree -------------------------------
(***************************************************************************)
(* phase1/pcb.c, the process tree: the p_child, p_sib and p_prnt fields of *)
(* the pcbs, as SYS1, SYS2 and the phase 1 test use them.                  *)
(***************************************************************************)
EXTENDS ProcQ, FiniteSets

CONSTANTS
  Pcb,     \* the pcbs
  Reinsert \* whether a pcb that left its parent may get a new one; the
           \* nucleus frees it first

(* What the instances give the constants. *)
TreeAssumption == Reinsert \in BOOLEAN /\ IsFiniteSet(Pcb) /\ NULL \notin Pcb

VARIABLES
  p_child, p_sib, p_prnt,  \* the fields of every pcb
  used,                    \* the pcbs that are not on the free list
  fresh,                   \* those of them that never had a parent
  ret                      \* the pointer the last call returned

fields == <<p_child, p_sib, p_prnt>>
vars == <<fields, used, fresh, ret>>

Init ==
  /\ p_child = [p \in Pcb |-> NULL]
  /\ p_sib = [p \in Pcb |-> NULL]
  /\ p_prnt = [p \in Pcb |-> NULL]
  /\ used = {}
  /\ fresh = {}
  /\ ret = NULL

clear(p) ==
  /\ p_child' = [p_child EXCEPT ![p] = NULL]
  /\ p_sib' = [p_sib EXCEPT ![p] = NULL]
  /\ p_prnt' = [p_prnt EXCEPT ![p] = NULL]

allocPcb(p) ==
  /\ p \notin used
  /\ clear(p)
  /\ used' = used \cup {p}
  /\ fresh' = fresh \cup {p}
  /\ UNCHANGED ret

emptyChild(p) == p_child[p] = NULL

(* terminateprocess frees a pcb without children that has left its parent. *)
freePcb(p) ==
  /\ p \in used
  /\ emptyChild(p) /\ p_prnt[p] = NULL
  /\ clear(p)
  /\ used' = used \ {p}
  /\ fresh' = fresh \ {p}
  /\ UNCHANGED ret

(* p, which has no children, becomes the first child.  (The mutant puts it *)
(* in front of the list and forgets the list.)                             *)
sibOfFirstMutant(prnt, p) == p_sib

sibOfFirst(prnt, p) ==
  IF emptyChild(prnt) THEN p_sib ELSE [p_sib EXCEPT ![p] = p_child[prnt]]

insertChild(prnt, p) ==
  /\ {prnt, p} \subseteq used /\ prnt # p
  /\ p_prnt[p] = NULL /\ emptyChild(p)
  /\ Reinsert \/ p \in fresh
  /\ p_sib' = sibOfFirst(prnt, p)
  /\ p_child' = [p_child EXCEPT ![prnt] = p]
  /\ p_prnt' = [p_prnt EXCEPT ![p] = prnt]
  /\ fresh' = fresh \ {p}
  /\ UNCHANGED <<used, ret>>

(* The child keeps its p_sib. *)
removeChild(p) ==
  /\ p \in used
  /\ ret' = p_child[p]
  /\ IF emptyChild(p) THEN UNCHANGED fields
     ELSE /\ p_child' = [p_child EXCEPT ![p] = p_sib[p_child[p]]]
          /\ p_prnt' = [p_prnt EXCEPT ![p_child[p]] = NULL]
          /\ UNCHANGED p_sib
  /\ UNCHANGED <<used, fresh>>

(* The sibling before p on the list of its parent.  (The mutant cuts the   *)
(* list off behind it.)                                                    *)
bypassMutant(p) ==
  [p_sib EXCEPT ![CHOOSE q \in Pcb : p_sib[q] = p /\ p_prnt[q] = p_prnt[p]] = NULL]

bypass(p) ==
  [p_sib EXCEPT ![CHOOSE q \in Pcb : p_sib[q] = p /\ p_prnt[q] = p_prnt[p]] = p_sib[p]]

outChild(p) ==
  /\ p \in used
  /\ IF p_prnt[p] = NULL THEN ret' = NULL /\ UNCHANGED fields
     ELSE /\ ret' = p
          /\ IF p_child[p_prnt[p]] = p
               THEN /\ p_child' = [p_child EXCEPT ![p_prnt[p]] = p_sib[p]]
                    /\ UNCHANGED p_sib
               ELSE p_sib' = bypass(p) /\ UNCHANGED p_child
          /\ p_prnt' = [p_prnt EXCEPT ![p] = NULL]
  /\ UNCHANGED <<used, fresh>>

Next ==
  \E p \in Pcb :
    \/ allocPcb(p) \/ freePcb(p) \/ removeChild(p) \/ outChild(p)
    \/ \E prnt \in Pcb : insertChild(prnt, p)

Spec == Init /\ [][Next]_vars

-----------------------------------------------------------------------------
(* The list that begins with p and goes on along p_sib, up to NULL. *)
siblings(p) ==
  LET at[n \in 1..Cardinality(Pcb)] ==
        IF n = 1 THEN p ELSE IF at[n - 1] = NULL THEN NULL ELSE p_sib[at[n - 1]]
  IN [n \in 1..Cardinality({k \in 1..Cardinality(Pcb) : at[k] # NULL}) |-> at[n]]

Abstract == INSTANCE ProcTree WITH kids <- [p \in Pcb |-> siblings(p_child[p])]

(* pcb.c:265-266 and 289-291, 314-316: the pointers keep a list of the     *)
(* children of every pcb, and insertChild, removeChild and outChild do to  *)
(* these lists what they say, whatever p_sib was left behind.              *)
ImplementsProcTree == Abstract!Spec

(* The children on the list of a pcb are those whose p_prnt it is, so that *)
(* a kill reaches exactly the descendants.                                 *)
ListsMatchParents ==
  \A p, q \in Pcb : InQ(siblings(p_child[q]), p) <=> p_prnt[p] = q
==============================================================================
