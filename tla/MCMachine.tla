----------------------------- MODULE MCMachine -----------------------------
(***************************************************************************)
(* The modules near the machine side by side: address spaces, heap, stack  *)
(* frames, clock, calendar and division.  They share no variable, so a     *)
(* behaviour picks one of them and the rest stay as they began.            *)
(***************************************************************************)
EXTENDS Mm, Heap, CtxFrames, Calendar, Arith

VARIABLE part      \* the module whose behaviour this is

\* The powers of two.
MCPow == [k \in 0 .. W |-> 2 ^ k]

\* A program without arguments and one with both kinds.
MCPrograms == {[argc |-> 0, envc |-> 0], [argc |-> 2, envc |-> 1]}

\* The first of the heaps to begin with.
HeapAtRest ==
  LET p == CHOOSE x \in Procs : TRUE
  IN  alive = {p} /\ task[p] = Loaded(CHOOSE e \in Ends : TRUE, CHOOSE s \in ArgSizes : TRUE).task

processorVars == <<mmVars, heapVars, ctxVars>>
numberVars == <<clockVars, calendarVars, arithVars>>
mcVars == <<part, processorVars, numberVars>>

Init ==
  /\ part \in {"mm", "heap", "ctx", "clock", "calendar", "arith"}
  /\ MmInit
  /\ HeapInit /\ (part = "heap" \/ HeapAtRest)
  /\ CtxInit /\ (part = "ctx" \/ program[1] = CHOOSE p \in Programs : TRUE)
  /\ ClockInit /\ (part = "clock" \/ start = 0)
  /\ CalendarInit /\ (part = "calendar" \/ bcd_mode)
  /\ ArithInit /\ (part = "arith" \/ (a = 0 /\ b = 1))

\* The kernel has panicked; the bounds on time are reached; the quotient is there.
Stopped ==
  /\ \/ part = "mm" /\ phase = "panic"
     \/ part = "clock" /\ tsc = TSC_MAX
     \/ part = "calendar" /\ yr = LastYear /\ mon = 12 /\ day = 31
     \/ part = "arith" /\ i = 0
  /\ UNCHANGED mcVars

Next ==
  \/ part = "mm" /\ MmNext /\ UNCHANGED <<part, heapVars, ctxVars, numberVars>>
  \/ part = "heap" /\ HeapNext /\ UNCHANGED <<part, mmVars, ctxVars, numberVars>>
  \/ part = "ctx" /\ CtxNext /\ UNCHANGED <<part, mmVars, heapVars, numberVars>>
  \/ /\ part = "clock" /\ ClockNext
     /\ UNCHANGED <<part, processorVars, calendarVars, arithVars>>
  \/ /\ part = "calendar" /\ NextDay
     /\ UNCHANGED <<part, processorVars, clockVars, arithVars>>
  \/ /\ part = "arith" /\ ArithNext
     /\ UNCHANGED <<part, processorVars, clockVars, calendarVars>>
  \/ Stopped

Spec == Init /\ [][Next]_mcVars
=============================================================================
