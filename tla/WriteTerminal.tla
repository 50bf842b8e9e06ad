---------------------------- MODULE WriteTerminal ----------------------------
(***************************************************************************)
(* SYS10 of phase3/vmIOsupport.c: writeToTerminal, with the transmitter of *)
(* the caller's terminal.  Every user process has a terminal, a semaphore  *)
(* and a handler stack of its own, so one process is modelled.  Its calls  *)
(* write a text whose characters are numbered from 1.                      *)
(***************************************************************************)
EXTENDS Integers, Sequences

CONSTANTS
  Address,   \* the buffers that the program passes, in a1
  Length,    \* the lengths that it passes, in a2
  Status,    \* the statuses with which the transmitter can end
  ScreenMax  \* bound of the model: the characters on the terminal

CHARTRANSMD == 5
MAXLEN == 128          \* the longest text
KSEGOSEND == 537133056 \* the first address after the operating system

(* What the instances give the constants. *)
WriteAssumption ==
  /\ CHARTRANSMD \in Status /\ Status \subseteq 1..255
  /\ \A n \in Length : n \in Int
  /\ \A a \in Address : a \in Nat

VARIABLES
  pc,      \* where the process is
  len,     \* the length of the text
  i,       \* the loop's index
  status,  \* the handler's local variable, which keeps its place in the stack
  v0,      \* the result of the last call
  mutex,   \* the semaphore of the terminal in devSemArray
  screen,  \* the characters the terminal has received
  start,   \* auxiliary: how many it had when the call began
  failure  \* auxiliary: the status of the operation that failed in this call

vars == <<pc, len, i, status, v0, mutex, screen, start, failure>>

(* A variable on the stack holds anything before its first assignment. *)
Init ==
  /\ pc = "run"
  /\ len = 0 /\ i = 0 /\ v0 = 0
  /\ status \in {0} \cup Status \cup {-st : st \in Status}
  /\ mutex = 1
  /\ screen = <<>> /\ start = 0 /\ failure = 0

accepts(virtAddr, n) == n >= 0 /\ n <= MAXLEN /\ virtAddr >= KSEGOSEND

TooMuch(n) == Len(screen) + n > ScreenMax

(* SYS10 passed up by the nucleus. *)
Call(virtAddr, n) ==
  /\ pc = "run"
  /\ accepts(virtAddr, n) => ~TooMuch(n)
  /\ len' = n
  /\ pc' = IF accepts(virtAddr, n) THEN "lock" ELSE "terminate"
  /\ start' = Len(screen)
  /\ failure' = 0
  /\ i' = 0
  /\ UNCHANGED <<status, v0, mutex, screen>>

(* SYS4; no one else uses the terminal. *)
Lock ==
  /\ pc = "lock"
  /\ mutex' = mutex - 1
  /\ pc' = IF mutex > 0 THEN "loop" ELSE "blocked"
  /\ UNCHANGED <<len, i, status, v0, screen, start, failure>>

(* The load of a character, which the pager may delay, then the command    *)
(* and SYS8 with interrupts masked.                                        *)
Transmit ==
  /\ pc = "loop"
  /\ i < len
  /\ pc' = "wait"
  /\ UNCHANGED <<len, i, status, v0, mutex, screen, start, failure>>

(* The result of an operation, for the program.  (The mutants forget the   *)
(* sign, go on after an error, and return from within the loop.)           *)
resultMutant(st) == IF st # CHARTRANSMD THEN st ELSE i

result(st) == IF st # CHARTRANSMD THEN -st ELSE i

afterMutant(st) == "loop"

afterMutant2(st) == IF st # CHARTRANSMD THEN "run" ELSE "loop"

after(st) == IF st # CHARTRANSMD THEN "unlock" ELSE "loop"

(* The end of SYS8. *)
Transmitted ==
  /\ pc = "wait"
  /\ \E st \in Status :
       /\ screen' = IF st = CHARTRANSMD THEN Append(screen, i + 1) ELSE screen
       /\ failure' = IF st = CHARTRANSMD THEN failure ELSE st
       /\ status' = result(st)
       /\ pc' = after(st)
       /\ i' = i + 1
  /\ UNCHANGED <<len, v0, mutex, start>>

EndLoop ==
  /\ pc = "loop"
  /\ i >= len
  /\ pc' = "unlock"
  /\ UNCHANGED <<len, i, status, v0, mutex, screen, start, failure>>

(* SYS3, then the result goes to the state of the program, which goes on.  *)
Return ==
  /\ pc = "unlock"
  /\ mutex' = mutex + 1
  /\ v0' = status
  /\ pc' = "run"
  /\ UNCHANGED <<len, i, status, screen, start, failure>>

(* SYS18 was called, or the process waits for good, or the program ends.   *)
Ended ==
  /\ pc \in {"terminate", "blocked", "run"}
  /\ UNCHANGED vars

Next ==
  \/ \E virtAddr \in Address, n \in Length : Call(virtAddr, n)
  \/ Lock \/ Transmit \/ Transmitted \/ EndLoop \/ Return \/ Ended

Spec == Init /\ [][Next]_vars

(* The handler runs to its end, and a transmitter to its interrupt. *)
Fairness == WF_vars(Lock \/ Transmit \/ Transmitted \/ EndLoop \/ Return)

FairSpec == Spec /\ Fairness

-----------------------------------------------------------------------------
(* What a call has added to the terminal. *)
Output == SubSeq(screen, start + 1, Len(screen))

(* print.c:20-22 of the user programs: a negative result of SYS10 means    *)
(* that an operation of this call failed, with that status; any other      *)
(* means that the whole text was written.                                  *)
ResultTellsFailure ==
  [][pc = "unlock" /\ pc' = "run" =>
       IF v0' < 0 THEN v0' = -failure ELSE failure = 0 /\ Len(Output) = len]_vars

(* The terminal shows a prefix of the text, each character once and in     *)
(* order, also when an operation fails in between.                         *)
PrefixWritten == Output = [n \in 1..Len(Output) |-> n] /\ (len > 0 => Len(Output) <= len)

(* Every call returns, however the operations end, or kills its caller;    *)
(* the terminal is free for the next one.                                  *)
CallEnds == pc = "lock" ~> pc = "run" /\ mutex = 1
==============================================================================
