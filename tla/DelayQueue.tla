----------------------------- MODULE DelayQueue -----------------------------
(***************************************************************************)
(* The scheduler's queue of delayed tasks.                                 *)
(*                                                                         *)
(* Each entry holds how much later it is due than the entry before it, the *)
(* first one how much later than the time the queue was last synchronised  *)
(* with the clock.  The list ends in an entry that is due in 68 years: the *)
(* process is taken not to live that long, so that entry is left out here  *)
(* and what it absorbs is forgotten.  Times are multiples of some unit.    *)
(***************************************************************************)
EXTENDS Integers, Sequences, SequencesExt

\* When the i-th entry is due, counted from the last synchronisation.
DueTime(queue, i) ==
    LET Sum[n \in 0 .. Len(queue)] ==
            IF n = 0 THEN 0 ELSE Sum[n - 1] + queue[n].delta
    IN  Sum[i]

\* What is left of a delay, DELAY_ZERO if it is over.
Remaining(delay) == IF delay < 0 THEN 0 ELSE delay

\* Mutant: the time that has elapsed is taken off the first entry only.
SynchronizeFirst(queue, elapsed) ==
    IF queue = <<>> THEN queue ELSE [queue EXCEPT ![1].delta = @ - elapsed]

\* synchronize: the clock shows "elapsed" more than at the last one.  Entries
\* whose time is up are given DELAY_ZERO, the next one loses the rest.  If the
\* clock was set back, only the time of the last synchronisation is reset.
Synchronize(queue, elapsed) ==
    IF elapsed < 0 THEN queue
    ELSE [i \in DOMAIN queue |->
            [queue[i] EXCEPT
                !.delta = Remaining(DueTime(queue, i) - elapsed)
                              - Remaining(DueTime(queue, i - 1) - elapsed)]]

\* The entries that a walk along the queue passes, up to the first that is due
\* later than that.
Passed(queue, delay) ==
    CHOOSE n \in 0 .. Len(queue) :
        /\ \A i \in 1 .. n : DueTime(queue, i) <= delay
        /\ n < Len(queue) => DueTime(queue, n + 1) > delay

\* A new entry after that many others: the next one loses its delta.
AddAfter(queue, n, task, delay) ==
    LET delta == delay - DueTime(queue, n)
        later == IF n = Len(queue) THEN queue
                 ELSE [queue EXCEPT ![n + 1].delta = @ - delta]
    IN  InsertAt(later, n + 1, [task |-> task, delta |-> delta])

\* Mutant: a new entry goes before those that are due at the same time.
AddBeforeEqual(queue, task, delay) ==
    AddAfter(queue, IF delay = 0 THEN 0 ELSE Passed(queue, delay - 1), task, delay)

\* addEntry, of a synchronised queue: after those that are due no later.
AddEntry(queue, task, delay) ==
    AddAfter(queue, Passed(queue, delay), task, delay)

\* The tasks that have an entry; each has one at most.
Scheduled(queue) == {queue[i].task : i \in DOMAIN queue}

\* The place of a task's entry.  (A token stands for one entry.)
Place(queue, task) == CHOOSE i \in DOMAIN queue : queue[i].task = task

\* Mutant: the next entry does not take over the delta.
RemoveOnly(queue, task) ==
    IF task \notin Scheduled(queue) THEN queue
    ELSE RemoveAt(queue, Place(queue, task))

\* removeEntry: the next entry takes over the delta.  The token of a task that
\* is not in the queue any more finds no entry.
RemoveEntry(queue, task) ==
    IF task \notin Scheduled(queue) THEN queue
    ELSE LET i == Place(queue, task)
             later == IF i = Len(queue) THEN queue
                      ELSE [queue EXCEPT ![i + 1].delta = @ + queue[i].delta]
         IN  RemoveAt(later, i)
=============================================================================
