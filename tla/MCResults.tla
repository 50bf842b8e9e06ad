------------------------------ MODULE MCResults ------------------------------
(* What a process finds in v0 after SYS8, SYS6 and SYS10, for TLC: the     *)
(* models of the three calls, each exercised by itself; `part' says which. *)
EXTENDS Integers, Sequences, ProcQ

CONSTANTS Reader, Masker, Status8, Proc, WIDTH, Start, SPAN, Address, Text,
          Negated, Status10, ScreenMax

VARIABLES part,
          devPc, devV0, devCurrent, devReady, semV, devBlocked, device, d_status,
          time, begin, startTOD, ioProcTime, p_time, currentProc, readyQue,
          blocked, first, ran, handled, report,
          pc, len, i, status, v0, mutex, screen, start, failure

devVars == <<devPc, devV0, devCurrent, devReady, semV, devBlocked, device, d_status>>
cpuVars == <<time, begin, startTOD, ioProcTime, p_time, currentProc, readyQue,
             blocked, first, ran, handled, report>>
termVars == <<pc, len, i, status, v0, mutex, screen, start, failure>>
vars == <<part, devVars, cpuVars, termVars>>

(* The processes of Masker mask interrupts from the command to SYS8. *)
Dev == INSTANCE DeviceStatus WITH
         Proc <- Reader, Masking <- Masker, Status <- Status8, pc <- devPc, v0 <- devV0,
         currentProc <- devCurrent, readyQue <- devReady, blocked <- devBlocked
Cpu == INSTANCE CpuTime

(* The lengths of the texts; in MCResults.cfg, a negative one, short ones, *)
(* and one that is too long, but none is 0.                                *)
Term == INSTANCE WriteTerminal WITH
          Length <- Text \cup {-n : n \in Negated}, Status <- Status10

ASSUME ResultsAssumption ==
  Dev!StatusAssumption /\ Cpu!CpuAssumption /\ Term!WriteAssumption

(* One initial state of the parts that do not run is enough. *)
Init ==
  /\ part \in {"SYS8", "SYS6", "SYS10"}
  /\ Dev!Init /\ Cpu!Init /\ Term!Init
  /\ part # "SYS8" =>
       devReady = CHOOSE q \in [1..Cardinality(Reader) -> Reader] : NoDup(q)
  /\ part # "SYS6" => /\ begin = CHOOSE t \in Start : TRUE
                      /\ currentProc = CHOOSE p \in Proc : TRUE
  /\ part # "SYS10" => status = 0

(* The time is up. *)
Over == part = "SYS6" /\ time = begin + SPAN /\ UNCHANGED vars

Next ==
  \/ part = "SYS8" /\ Dev!Next /\ UNCHANGED <<part, cpuVars, termVars>>
  \/ part = "SYS6" /\ Cpu!Next /\ UNCHANGED <<part, devVars, termVars>>
  \/ part = "SYS10" /\ Term!Next /\ UNCHANGED <<part, devVars, cpuVars>>
  \/ Over

FairSpec == Init /\ [][Next]_vars /\ Term!Fairness

(* SYS8: a process that masks finds the status of its own operation. *)
StatusDelivered == Dev!StatusDelivered

(* The status of an operation with interrupts masked goes nowhere else. *)
MaskedStatusPrivate == Dev!MaskedStatusPrivate

(* A device semaphore is even between operations. *)
DeviceSemaphore == Dev!DeviceSemaphore

(* SYS6: no process is charged less than it ran. *)
NeverUndercharged == Cpu!NeverUndercharged

(* SYS6: a process to which no interrupt returned is charged what it ran. *)
ChargedWhatItRan == Cpu!ChargedWhatItRan

(* SYS10: what the terminal shows of a call is a prefix of the text. *)
PrefixWritten == Term!PrefixWritten

(* SYS10: v0 tells whether the whole text was written. *)
ResultTellsFailure == Term!ResultTellsFailure

(* SYS10: the call ends. *)
CallEnds == Term!CallEnds
===============================================================================
