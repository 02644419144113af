--------------------------- MODULE LaiCountingEvent ---------------------------
(***************************************************************************)
(* What an AML Event object promises: a counter that Signal increments, a  *)
(* successful Wait decrements and Reset clears.  LaiEvent.tla shows that   *)
(* the event word of core/exec_impl.h counts like this.                    *)
(***************************************************************************)
EXTENDS Naturals

VARIABLE count    \* signals that no Wait has consumed yet

EventInit == count = 0
Increment == count' = count + 1
Decrement == count > 0 /\ count' = count - 1
Clear     == count' = 0

EventNext == Increment \/ Decrement \/ Clear

EventSpec == EventInit /\ [][EventNext]_count
===============================================================================
