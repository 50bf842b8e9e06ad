------------------------------- MODULE ProcTree -------------------------------
(***************************************************************************)
(* What the process tree of phase1/pcb.c does for its callers: every pcb   *)
(* has a list of children, the youngest first.                             *)
(***************************************************************************)
EXTENDS ProcQ

CONSTANT Pcb

VARIABLES
  kids,   \* the children of every pcb
  ret     \* what the last call returned

vars == <<kids, ret>>

Init == kids = [p \in Pcb |-> <<>>] /\ ret = NULL

ChildOf(p, q) == InQ(kids[q], p)
Parentless(p) == \A q \in Pcb : ~ChildOf(p, q)

InsertChild(prnt, p) ==
  /\ Parentless(p)
  /\ kids' = [kids EXCEPT ![prnt] = <<p>> \o @]
  /\ UNCHANGED ret

RemoveChild(p) ==
  /\ ret' = headProcQ(kids[p])
  /\ kids' = [kids EXCEPT ![p] = removeProcQ(@)]

OutChild(p) ==
  \/ Parentless(p) /\ ret' = NULL /\ UNCHANGED kids
  \/ \E q \in Pcb : \E k \in 1..Len(kids[q]) :
       /\ kids[q][k] = p
       /\ ret' = p
       /\ kids' = [kids EXCEPT ![q] = RemoveAt(@, k)]

Next ==
  \E p \in Pcb :
    RemoveChild(p) \/ OutChild(p) \/ \E prnt \in Pcb : InsertChild(prnt, p)

Spec == Init /\ [][Next]_vars
==============================================================================
