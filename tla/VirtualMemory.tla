---------------------------- MODULE VirtualMemory ----------------------------
(***************************************************************************)
(* What the VM support layer promises a user process: pages of its own,    *)
(* which begin as the image on its tape, or empty, and change only when    *)
(* the process writes them, until it ends.                                 *)
(***************************************************************************)
CONSTANTS
  ASID,      \* the user processes
  Page,      \* their pages
  Initial(_, _),   \* the contents of a page of a process at the start
  Written(_, _),   \* the contents after the process wrote it
  Gone             \* the contents of the pages of a process that has ended

VARIABLE mem       \* the contents of every page

Init == mem = [p \in ASID |-> [v \in Page |-> Initial(p, v)]]

Write(p, v) ==
  /\ mem[p][v] # Gone
  /\ mem' = [mem EXCEPT ![p][v] = Written(p, v)]

Exit(p) == mem' = [mem EXCEPT ![p] = [v \in Page |-> Gone]]

Next == \E p \in ASID : Exit(p) \/ \E v \in Page : Write(p, v)

Spec == Init /\ [][Next]_mem
==============================================================================
