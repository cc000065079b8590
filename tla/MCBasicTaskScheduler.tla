------------------------ MODULE MCBasicTaskScheduler ------------------------
(* TLC instances of BasicTaskScheduler. *)
EXTENDS BasicTaskScheduler

CONSTANTS a, b

\* A task that is due at once and one that is due after the tick.
MCDelay == [t \in Tasks |-> IF t = a THEN 0 ELSE 2]
=============================================================================
