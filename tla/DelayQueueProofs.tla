--------------------------- MODULE DelayQueueProofs ---------------------------
(***************************************************************************)
(* Facts about the queue of delayed tasks, of any length.                  *)
(*                                                                         *)
(* An entry's delta is relative to the entry before it.  What matters of a *)
(* queue is when each of its tasks is due, its Timetable; the lemmas say   *)
(* what synchronising, adding and removing do to it.  They are by          *)
(* induction along the queue (NumberInduction).                            *)
(***************************************************************************)
EXTENDS DelayQueue, ListProofs

-----------------------------------------------------------------------------
(***************************************************************************)
(* Queues and when their entries are due.                                  *)
(***************************************************************************)

Entries(T) == [task : T, delta : Nat]

\* Queues of tasks of T, each task once.
Queues(T) ==
    {queue \in Seq(Entries(T)) :
        \A i, j \in 1 .. Len(queue) : queue[i].task = queue[j].task => i = j}

\* The tasks and when they are due, counted from the last synchronisation.
Timetable(queue) == {<<queue[i].task, DueTime(queue, i)>> : i \in 1 .. Len(queue)}

\* An entry of a queue is a task and a number.
LEMMA EntryTypes ==
    ASSUME NEW T, NEW queue \in Seq(Entries(T))
    PROVE  /\ Len(queue) \in Nat /\ DOMAIN queue = 1 .. Len(queue)
           /\ \A i \in 1 .. Len(queue) : /\ queue[i] \in Entries(T)
                                         /\ queue[i].task \in T
                                         /\ queue[i].delta \in Nat
<1>1. /\ Len(queue) \in Nat /\ DOMAIN queue = 1 .. Len(queue)
      /\ \A i \in 1 .. Len(queue) : queue[i] \in Entries(T)
  OBVIOUS
<1> QED BY <1>1 DEF Entries

\* An entry that takes over a delta is still one, of the same task.
LEMMA LongerEntry ==
    ASSUME NEW T, NEW entry \in Entries(T), NEW delta \in Nat
    PROVE  LET longer == [entry EXCEPT !.delta = @ + delta]
           IN  /\ longer \in Entries(T) /\ longer.task = entry.task
               /\ longer.delta = entry.delta + delta
BY DEF Entries

\* The recursive function that DueTime is defined with exists.
LEMMA DueTimeRecursion ==
    ASSUME NEW T, NEW queue \in Seq(Entries(T))
    PROVE  /\ DueTime(queue, 0) = 0
           /\ \A i \in 1 .. Len(queue) :
                  DueTime(queue, i) = DueTime(queue, i - 1) + queue[i].delta
<1> DEFINE Sums(f, n) ==
               f = [k \in 0 .. n |-> IF k = 0 THEN 0 ELSE f[k - 1] + queue[k].delta]
           S == {n \in Nat : \E f : Sums(f, n)}
<1>0. Len(queue) \in Nat
  OBVIOUS
<1>1. 0 \in S
  <2>1. Sums([k \in 0 .. 0 |-> 0], 0)
    OBVIOUS
  <2> QED BY <2>1
<1>2. ASSUME NEW n \in 0 .. Len(queue) - 1, n \in S
      PROVE  n + 1 \in S
  <2>1. PICK f : Sums(f, n)
    BY <1>2
  <2> DEFINE g == [k \in 0 .. n + 1 |-> IF k <= n THEN f[k]
                                        ELSE f[n] + queue[n + 1].delta]
  <2>2. \A k \in 0 .. n : f[k] = IF k = 0 THEN 0 ELSE f[k - 1] + queue[k].delta
    BY <2>1
  <2>3. \A k \in 0 .. n + 1 : g[k] = IF k = 0 THEN 0 ELSE g[k - 1] + queue[k].delta
    BY <2>2
  <2>4. Sums(g, n + 1)
    BY <2>3
  <2>5. n + 1 \in Nat
    BY <1>0
  <2> QED BY <2>4, <2>5
<1>3. Len(queue) \in S
  <2> HIDE DEF S
  <2>1. 0 .. Len(queue) \subseteq S
    BY <1>0, <1>1, <1>2, NumberInduction
  <2> QED BY <1>0, <2>1
<1> DEFINE sum == CHOOSE f : Sums(f, Len(queue))
<1>4. Sums(sum, Len(queue))
  BY <1>3
<1>5. \A i \in 0 .. Len(queue) :
          sum[i] = IF i = 0 THEN 0 ELSE sum[i - 1] + queue[i].delta
  <2> HIDE DEF sum
  <2> QED BY <1>4
<1>6. \A i : DueTime(queue, i) = sum[i]
  BY DEF DueTime
<1> HIDE DEF sum
<1> QED BY <1>0, <1>5, <1>6

\* Due times are numbers, none less than the delta of the first entry.
LEMMA DueTimeType ==
    ASSUME NEW T, NEW queue \in Seq(Entries(T))
    PROVE  \A i \in 0 .. Len(queue) :
               /\ DueTime(queue, i) \in Nat
               /\ i > 0 => DueTime(queue, i) >= queue[1].delta
<1> DEFINE S == {i \in 0 .. Len(queue) :
                    /\ DueTime(queue, i) \in Nat
                    /\ i > 0 => DueTime(queue, i) >= queue[1].delta}
<1>1. Len(queue) \in Nat /\ \A i \in 1 .. Len(queue) : queue[i].delta \in Nat
  BY EntryTypes
<1>2. 0 \in S
  BY <1>1, DueTimeRecursion
<1>3. ASSUME NEW n \in 0 .. Len(queue) - 1, n \in S
      PROVE  n + 1 \in S
  <2>1. n + 1 \in 1 .. Len(queue) /\ n + 1 \in 0 .. Len(queue)
    BY <1>1
  <2>2. DueTime(queue, n + 1) = DueTime(queue, n) + queue[n + 1].delta
    BY <2>1, DueTimeRecursion
  <2>3. CASE n = 0
    BY <1>1, <1>3, <2>1, <2>2, <2>3, DueTimeRecursion
  <2>4. CASE n > 0
    BY <1>1, <1>3, <2>1, <2>2, <2>4
  <2> QED BY <2>3, <2>4
<1>4. 0 .. Len(queue) \subseteq S
  <2> HIDE DEF S
  <2> QED BY <1>1, <1>2, <1>3, NumberInduction
<1> QED BY <1>4

\* Entries with the same deltas from the first on are due at the same times.
LEMMA SameDueTimes ==
    ASSUME NEW T, NEW p \in Seq(Entries(T)), NEW q \in Seq(Entries(T)),
           NEW n \in 0 .. Len(p), n <= Len(q),
           \A i \in 1 .. n : p[i].delta = q[i].delta
    PROVE  \A i \in 0 .. n : DueTime(p, i) = DueTime(q, i)
<1> DEFINE S == {i \in 0 .. n : DueTime(p, i) = DueTime(q, i)}
<1>1. 0 \in S
  BY DueTimeRecursion
<1>2. ASSUME NEW i \in 0 .. n - 1, i \in S
      PROVE  i + 1 \in S
  <2>1. /\ i + 1 \in 0 .. n /\ i + 1 \in 1 .. n /\ (i + 1) - 1 = i
        /\ i + 1 \in 1 .. Len(p) /\ i + 1 \in 1 .. Len(q)
    OBVIOUS
  <2>2. /\ DueTime(p, i + 1) = DueTime(p, i) + p[i + 1].delta
        /\ DueTime(q, i + 1) = DueTime(q, i) + q[i + 1].delta
    BY <2>1, DueTimeRecursion
  <2>3. DueTime(p, i + 1) = DueTime(q, i + 1)
    BY <1>2, <2>1, <2>2
  <2> QED BY <2>1, <2>3
<1>3. 0 .. n \subseteq S
  <2>1. n \in Nat
    OBVIOUS
  <2> HIDE DEF S
  <2> QED BY <1>1, <1>2, <2>1, NumberInduction
<1> QED BY <1>3

\* With one entry more, and all from some place on having moved by one: those
\* are due at the same times if the first of them is.
LEMMA MovedDueTimes ==
    ASSUME NEW T, NEW p \in Seq(Entries(T)), NEW q \in Seq(Entries(T)),
           Len(p) = Len(q) + 1, NEW n \in 0 .. Len(q),
           DueTime(p, n + 1) = DueTime(q, n),
           \A i \in n + 1 .. Len(q) : p[i + 1].delta = q[i].delta
    PROVE  \A i \in n .. Len(q) : DueTime(p, i + 1) = DueTime(q, i)
<1> DEFINE S == {i \in 0 .. Len(q) : i >= n => DueTime(p, i + 1) = DueTime(q, i)}
<1>1. 0 \in S
  OBVIOUS
<1>2. ASSUME NEW i \in 0 .. Len(q) - 1, i \in S
      PROVE  i + 1 \in S
  <2>1. /\ i + 1 \in 0 .. Len(q) /\ i + 1 \in 1 .. Len(q)
        /\ (i + 1) + 1 \in 1 .. Len(p)
        /\ (i + 1) - 1 = i /\ ((i + 1) + 1) - 1 = i + 1
    OBVIOUS
  <2>2. /\ DueTime(p, (i + 1) + 1) = DueTime(p, i + 1) + p[(i + 1) + 1].delta
        /\ DueTime(q, i + 1) = DueTime(q, i) + q[i + 1].delta
    BY <2>1, DueTimeRecursion
  <2>3. CASE i + 1 < n
    BY <2>1, <2>3
  <2>4. CASE i + 1 = n
    BY <2>1, <2>4
  <2>5. CASE i >= n
    <3>1. i + 1 \in n + 1 .. Len(q)
      BY <2>1, <2>5
    <3>2. p[(i + 1) + 1].delta = q[i + 1].delta
      BY <3>1
    <3>3. DueTime(p, i + 1) = DueTime(q, i)
      BY <1>2, <2>5
    <3> QED BY <2>1, <2>2, <3>2, <3>3
  <2> QED BY <2>3, <2>4, <2>5
<1>3. 0 .. Len(q) \subseteq S
  <2>1. Len(q) \in Nat
    OBVIOUS
  <2> HIDE DEF S
  <2> QED BY <1>1, <1>2, <2>1, NumberInduction
<1> QED BY <1>3

-----------------------------------------------------------------------------
(***************************************************************************)
(* What the operations do to the timetable.                                *)
(***************************************************************************)

\* Synchronising takes the time that has passed off every entry.
LEMMA SynchronizeTimetable ==
    ASSUME NEW T, NEW queue \in Queues(T), NEW elapsed \in Nat
    PROVE  /\ Synchronize(queue, elapsed) \in Queues(T)
           /\ Timetable(Synchronize(queue, elapsed)) =
                  {<<e[1], Remaining(e[2] - elapsed)>> : e \in Timetable(queue)}
<1> DEFINE r == Synchronize(queue, elapsed)
           Left(i) == Remaining(DueTime(queue, i) - elapsed)
<1>1. /\ queue \in Seq(Entries(T)) /\ Len(queue) \in Nat
      /\ DOMAIN queue = 1 .. Len(queue)
      /\ \A i \in 1 .. Len(queue) : queue[i] \in Entries(T)
  BY DEF Queues
<1>2. /\ \A i \in 0 .. Len(queue) : DueTime(queue, i) \in Nat
      /\ DueTime(queue, 0) = 0
      /\ \A i \in 1 .. Len(queue) :
             DueTime(queue, i) = DueTime(queue, i - 1) + queue[i].delta
  BY <1>1, DueTimeRecursion, DueTimeType
<1>3. \A i \in 0 .. Len(queue) : Left(i) \in Nat
  BY <1>2 DEF Remaining
<1>4. ASSUME NEW i \in 1 .. Len(queue)
      PROVE  Left(i) - Left(i - 1) \in Nat
  <2>1. /\ i - 1 \in 0 .. Len(queue) /\ i \in 0 .. Len(queue)
        /\ queue[i].delta \in Nat
    BY <1>1, EntryTypes
  <2>2. /\ DueTime(queue, i - 1) \in Nat
        /\ DueTime(queue, i) = DueTime(queue, i - 1) + queue[i].delta
    BY <1>2, <2>1
  <2> QED BY <2>1, <2>2 DEF Remaining
<1>5. r = [i \in 1 .. Len(queue) |->
              [queue[i] EXCEPT !.delta = Left(i) - Left(i - 1)]]
  BY <1>1 DEF Synchronize
<1>6. \A i \in 1 .. Len(queue) :
          /\ r[i] \in Entries(T)
          /\ r[i].task = queue[i].task
          /\ r[i].delta = Left(i) - Left(i - 1)
  <2> HIDE DEF Left
  <2> QED BY <1>1, <1>4, <1>5 DEF Entries
<1>7. r \in Seq(Entries(T)) /\ Len(r) = Len(queue)
  <2> HIDE DEF Left
  <2> QED BY <1>1, <1>5, <1>6
<1> HIDE DEF r
<1>8. \A i \in 0 .. Len(queue) : DueTime(r, i) = Left(i)
  <2> DEFINE S == {i \in 0 .. Len(queue) : DueTime(r, i) = Left(i)}
  <2>1. 0 \in S
    BY <1>2, <1>7, DueTimeRecursion DEF Remaining
  <2>2. ASSUME NEW n \in 0 .. Len(queue) - 1, n \in S
        PROVE  n + 1 \in S
    <3>1. /\ n + 1 \in 1 .. Len(queue) /\ (n + 1) - 1 = n
          /\ n \in 0 .. Len(queue) /\ n + 1 \in 0 .. Len(queue)
      BY <1>1
    <3>2. DueTime(r, n + 1) = DueTime(r, n) + r[n + 1].delta
      BY <1>7, <3>1, DueTimeRecursion
    <3> HIDE DEF Left
    <3>3. DueTime(r, n + 1) = Left(n) + (Left(n + 1) - Left(n))
      BY <1>6, <2>2, <3>1, <3>2
    <3> QED BY <1>3, <3>1, <3>3
  <2>3. 0 .. Len(queue) \subseteq S
    <3> HIDE DEF S
    <3> QED BY <1>1, <2>1, <2>2, NumberInduction
  <2> QED BY <2>3
<1>9. r \in Queues(T)
  BY <1>6, <1>7 DEF Queues
<1>10. Timetable(r) = {<<e[1], Remaining(e[2] - elapsed)>> : e \in Timetable(queue)}
  <2> DEFINE Shorter == {<<e[1], Remaining(e[2] - elapsed)>> : e \in Timetable(queue)}
  <2>1. ASSUME NEW i \in 1 .. Len(queue)
        PROVE  /\ <<r[i].task, DueTime(r, i)>> = <<queue[i].task, Left(i)>>
               /\ <<queue[i].task, Left(i)>> \in Shorter
    <3>1. i \in 0 .. Len(queue)
      BY <1>1
    <3>2. r[i].task = queue[i].task /\ DueTime(r, i) = Left(i)
      <4> HIDE DEF Left
      <4> QED BY <1>6, <1>8, <3>1
    <3> DEFINE e == <<queue[i].task, DueTime(queue, i)>>
    <3>3. e \in Timetable(queue)
      BY DEF Timetable
    <3>4. <<queue[i].task, Left(i)>> = <<e[1], Remaining(e[2] - elapsed)>>
      OBVIOUS
    <3> QED BY <3>2, <3>3, <3>4
  <2>2. ASSUME NEW x \in Timetable(r)
        PROVE  x \in Shorter
    <3>1. PICK i \in 1 .. Len(queue) : x = <<r[i].task, DueTime(r, i)>>
      BY <1>7 DEF Timetable
    <3> HIDE DEF Left, Shorter
    <3> QED BY <2>1, <3>1
  <2>3. ASSUME NEW x \in Shorter
        PROVE  x \in Timetable(r)
    <3>1. PICK e \in Timetable(queue) : x = <<e[1], Remaining(e[2] - elapsed)>>
      OBVIOUS
    <3>2. PICK i \in 1 .. Len(queue) : e = <<queue[i].task, DueTime(queue, i)>>
      BY DEF Timetable
    <3>3. x = <<queue[i].task, Left(i)>>
      BY <3>1, <3>2
    <3>4. x = <<r[i].task, DueTime(r, i)>>
      BY <2>1, <3>3
    <3> QED BY <1>7, <3>4 DEF Timetable
  <2> QED BY <2>2, <2>3
<1> QED BY <1>9, <1>10 DEF r

-----------------------------------------------------------------------------
(***************************************************************************)
(* Adding and removing.                                                    *)
(***************************************************************************)

\* Tasks that have an entry, by the timetable.
LEMMA ScheduledTimetable ==
    ASSUME NEW T, NEW queue \in Queues(T)
    PROVE  \A t : t \in Scheduled(queue) <=> \E d : <<t, d>> \in Timetable(queue)
<1>1. DOMAIN queue = 1 .. Len(queue)
  BY EntryTypes DEF Queues
<1> QED BY <1>1 DEF Scheduled, Timetable

\* The walk along the queue stops somewhere.
LEMMA PassedProperties ==
    ASSUME NEW T, NEW queue \in Queues(T), NEW delay \in Nat
    PROVE  /\ Passed(queue, delay) \in 0 .. Len(queue)
           /\ \A i \in 1 .. Passed(queue, delay) : DueTime(queue, i) <= delay
           /\ Passed(queue, delay) < Len(queue) =>
                  DueTime(queue, Passed(queue, delay) + 1) > delay
<1>1. queue \in Seq(Entries(T)) /\ Len(queue) \in Nat
  BY EntryTypes DEF Queues
<1> DEFINE Stops == {n \in 0 .. Len(queue) :
                        n < Len(queue) => DueTime(queue, n + 1) > delay}
<1>2. PICK n \in Stops : \A m \in Stops : n <= m
  <2>1. Len(queue) \in Stops /\ Stops \subseteq Nat
    BY <1>1
  <2> HIDE DEF Stops
  <2> QED BY <2>1, LeastNumber
<1>3. ASSUME NEW i \in 1 .. n
      PROVE  DueTime(queue, i) <= delay
  <2>1. /\ i - 1 \in 0 .. Len(queue) /\ i - 1 < Len(queue) /\ (i - 1) + 1 = i
        /\ i \in 0 .. Len(queue)
    BY <1>1, <1>2
  <2>2. i - 1 \notin Stops
    <3> SUFFICES ASSUME i - 1 \in Stops
                 PROVE  FALSE
      OBVIOUS
    <3>1. n <= i - 1
      BY <1>2
    <3> QED BY <1>1, <1>2, <3>1
  <2>3. ~ (DueTime(queue, i) > delay)
    BY <2>1, <2>2
  <2>4. DueTime(queue, i) \in Nat
    BY <1>1, <2>1, DueTimeType
  <2> QED BY <2>3, <2>4
<1>4. \E k \in 0 .. Len(queue) :
          /\ \A i \in 1 .. k : DueTime(queue, i) <= delay
          /\ k < Len(queue) => DueTime(queue, k + 1) > delay
  BY <1>2, <1>3
<1> QED BY <1>4, Zenon DEF Passed

\* A task that is added between those due no later and those due later is due
\* after its delay, and all others when they were.
LEMMA AddTimetable ==
    ASSUME NEW T, NEW queue \in Queues(T), NEW delay \in Nat,
           NEW task \in T, task \notin Scheduled(queue)
    PROVE  /\ AddEntry(queue, task, delay) \in Queues(T)
           /\ Timetable(AddEntry(queue, task, delay)) =
                  Timetable(queue) \union {<<task, delay>>}
<1> DEFINE n     == Passed(queue, delay)
           len   == Len(queue)
           delta == delay - DueTime(queue, n)
           e     == [task |-> task, delta |-> delta]
           later == IF n = len THEN queue
                    ELSE [queue EXCEPT ![n + 1].delta = @ - delta]
           r     == InsertAt(later, n + 1, e)
<1>1. AddEntry(queue, task, delay) = r
  BY DEF AddEntry, AddAfter
<1>2. /\ queue \in Seq(Entries(T)) /\ len \in Nat
      /\ DOMAIN queue = 1 .. len
      /\ \A i \in 1 .. len : queue[i] \in Entries(T) /\ queue[i].delta \in Nat
  BY EntryTypes DEF Queues
<1>3. /\ n \in 0 .. len
      /\ DueTime(queue, n) \in Nat /\ DueTime(queue, n) <= delay
      /\ n < len => DueTime(queue, n + 1) > delay
  <2>1. /\ n \in 0 .. len
        /\ \A i \in 1 .. n : DueTime(queue, i) <= delay
        /\ n < len => DueTime(queue, n + 1) > delay
    BY PassedProperties
  <2>2. DueTime(queue, n) \in Nat /\ DueTime(queue, 0) = 0
    BY <1>2, <2>1, DueTimeType, DueTimeRecursion
  <2> HIDE DEF n
  <2>3. n = 0 \/ n \in 1 .. n
    BY <2>1
  <2> QED BY <2>1, <2>2, <2>3
<1> HIDE DEF n, len
<1>4. delta \in Nat /\ e \in Entries(T) /\ e.task = task /\ e.delta = delta
  <2>1. delta \in Nat
    BY <1>3
  <2> HIDE DEF delta
  <2> QED BY <2>1 DEF Entries
<1>5. n < len => /\ n + 1 \in 1 .. len
                 /\ DueTime(queue, n + 1) = DueTime(queue, n) + queue[n + 1].delta
                 /\ DueTime(queue, n + 1) \in Nat
                 /\ queue[n + 1].delta - delta = DueTime(queue, n + 1) - delay
                 /\ queue[n + 1].delta - delta \in Nat
  <2> SUFFICES ASSUME n < len
               PROVE  /\ n + 1 \in 1 .. len
                      /\ DueTime(queue, n + 1) = DueTime(queue, n) + queue[n + 1].delta
                      /\ DueTime(queue, n + 1) \in Nat
                      /\ queue[n + 1].delta - delta = DueTime(queue, n + 1) - delay
                      /\ queue[n + 1].delta - delta \in Nat
    OBVIOUS
  <2>1. n + 1 \in 1 .. len /\ (n + 1) - 1 = n
    BY <1>2, <1>3
  <2>2. DueTime(queue, n + 1) = DueTime(queue, n) + queue[n + 1].delta
    BY <1>2, <2>1, DueTimeRecursion DEF len
  <2>3. queue[n + 1].delta \in Nat
    BY <1>2, <2>1
  <2> QED BY <1>3, <2>1, <2>2, <2>3
<1>6. /\ later \in Seq(Entries(T)) /\ Len(later) = len
      /\ \A i \in 1 .. len : later[i].task = queue[i].task
      /\ \A i \in 1 .. len : i # n + 1 => later[i].delta = queue[i].delta
      /\ n < len => later[n + 1].delta = queue[n + 1].delta - delta
  <2>1. CASE n = len
    BY <1>2, <2>1 DEF len
  <2>2. CASE n # len
    <3>1. n < len
      BY <1>2, <1>3, <2>2
    <3> HIDE DEF delta
    <3> DEFINE new == [queue[n + 1] EXCEPT !.delta = @ - delta]
    <3>2. /\ new \in Entries(T) /\ new.task = queue[n + 1].task
          /\ new.delta = queue[n + 1].delta - delta
      BY <1>2, <1>5, <3>1 DEF Entries
    <3>3. later = [queue EXCEPT ![n + 1] = new]
      BY <2>2
    <3> HIDE DEF new, later
    <3>4. later \in Seq(Entries(T)) /\ Len(later) = len
      BY <1>2, <1>5, <3>1, <3>2, <3>3, ExceptSeq DEF len
    <3>5. \A i \in 1 .. len : later[i] = IF i = n + 1 THEN new ELSE queue[i]
      BY <1>2, <3>3
    <3> QED BY <1>5, <3>1, <3>2, <3>4, <3>5
  <2> QED BY <2>1, <2>2
<1> HIDE DEF later, e
<1>7. /\ r \in Seq(Entries(T)) /\ Len(r) = len + 1
      /\ \A k \in 1 .. n : r[k] = later[k]
      /\ r[n + 1] = e
      /\ \A k \in n + 1 .. len : r[k + 1] = later[k]
  <2> DEFINE S  == Entries(T)
             at == n + 1
  <2>1. later \in Seq(S) /\ at \in 1 .. Len(later) + 1 /\ e \in S /\ at - 1 = n
    BY <1>3, <1>4, <1>6
  <2>2. r = InsertAt(later, at, e)
    OBVIOUS
  <2> HIDE DEF S, at, r, later, e
  <2>4. /\ InsertAt(later, at, e) \in Seq(S)
        /\ Len(InsertAt(later, at, e)) = Len(later) + 1
        /\ \A k \in 1 .. at - 1 : InsertAt(later, at, e)[k] = later[k]
        /\ InsertAt(later, at, e)[at] = e
        /\ \A k \in at .. Len(later) : InsertAt(later, at, e)[k + 1] = later[k]
    BY ONLY <2>1, InsertAtElements
  <2>3. /\ r \in Seq(S) /\ Len(r) = Len(later) + 1
        /\ \A k \in 1 .. at - 1 : r[k] = later[k]
        /\ r[at] = e
        /\ \A k \in at .. Len(later) : r[k + 1] = later[k]
    BY ONLY <2>2, <2>4
  <2> QED BY <1>6, <2>1, <2>3 DEF S, at
<1> HIDE DEF r, delta
<1>8. \A k \in 1 .. n : DueTime(r, k) = DueTime(queue, k) /\ r[k].task = queue[k].task
  <2>1. \A k \in 1 .. n : k \in 1 .. len /\ k # n + 1
    BY <1>2, <1>3
  <2>2. \A k \in 1 .. n : r[k].delta = queue[k].delta
    BY <1>6, <1>7, <2>1
  <2>3. n \in 0 .. Len(r) /\ n <= Len(queue)
    BY <1>2, <1>3, <1>7 DEF len
  <2>4. \A k \in 0 .. n : DueTime(r, k) = DueTime(queue, k)
    BY <1>2, <1>7, <2>2, <2>3, SameDueTimes
  <2> QED BY <1>6, <1>7, <2>1, <2>4
<1>9. DueTime(r, n) = DueTime(queue, n)
  <2>1. DueTime(r, 0) = DueTime(queue, 0)
    BY <1>2, <1>7, DueTimeRecursion
  <2>2. n = 0 \/ n \in 1 .. n
    BY <1>3
  <2> QED BY <1>8, <2>1, <2>2
<1>10. DueTime(r, n + 1) = delay /\ r[n + 1].task = task
  <2>1. n + 1 \in 1 .. Len(r) /\ (n + 1) - 1 = n
    BY <1>2, <1>3, <1>7
  <2>2. DueTime(r, n + 1) = DueTime(r, n) + r[n + 1].delta
    BY <1>7, <2>1, DueTimeRecursion
  <2> QED BY <1>3, <1>4, <1>7, <1>9, <2>2 DEF delta
<1>11. \A k \in n + 1 .. len : /\ DueTime(r, k + 1) = DueTime(queue, k)
                               /\ r[k + 1].task = queue[k].task
  <2>1. CASE n = len
    BY <1>2, <2>1
  <2>2. CASE n # len
    <3>1. n < len
      BY <1>2, <1>3, <2>2
    <3>2. DueTime(r, (n + 1) + 1) = DueTime(queue, n + 1)
      <4>1. /\ (n + 1) + 1 \in 1 .. Len(r) /\ ((n + 1) + 1) - 1 = n + 1
            /\ n + 1 \in n + 1 .. len
        BY <1>2, <1>3, <1>7, <3>1
      <4>2. DueTime(r, (n + 1) + 1) = DueTime(r, n + 1) + r[(n + 1) + 1].delta
        BY <1>7, <4>1, DueTimeRecursion
      <4>3. r[(n + 1) + 1] = later[n + 1]
        BY <1>7, <4>1
      <4>4. r[(n + 1) + 1].delta = DueTime(queue, n + 1) - delay
        BY <1>5, <1>6, <3>1, <4>3
      <4> QED BY <1>5, <1>10, <3>1, <4>2, <4>4
    <3>3. ASSUME NEW k \in (n + 1) + 1 .. len
          PROVE  r[k + 1].delta = queue[k].delta
      <4>1. k \in n + 1 .. len /\ k \in 1 .. len /\ k # n + 1
        BY <1>2, <1>3
      <4> QED BY <1>6, <1>7, <4>1
    <3>4. n + 1 \in 0 .. Len(queue) /\ Len(r) = Len(queue) + 1
      BY <1>2, <1>3, <1>7, <3>1 DEF len
    <3>5. \A k \in n + 1 .. len : DueTime(r, k + 1) = DueTime(queue, k)
      <4> DEFINE from == n + 1
      <4>1. /\ from \in 0 .. Len(queue) /\ DueTime(r, from + 1) = DueTime(queue, from)
            /\ \A k \in from + 1 .. Len(queue) : r[k + 1].delta = queue[k].delta
        BY <3>2, <3>3, <3>4 DEF len
      <4> HIDE DEF from
      <4>2. \A k \in from .. Len(queue) : DueTime(r, k + 1) = DueTime(queue, k)
        BY <1>2, <1>7, <3>4, <4>1, MovedDueTimes
      <4> QED BY <4>2 DEF from, len
    <3>6. \A k \in n + 1 .. len : r[k + 1].task = queue[k].task
      BY <1>2, <1>3, <1>6, <1>7
    <3> QED BY <3>5, <3>6
  <2> QED BY <2>1, <2>2
<1>12. \A k \in 1 .. len + 1 :
           \/ k \in 1 .. n
           \/ k = n + 1
           \/ k - 1 \in n + 1 .. len /\ (k - 1) + 1 = k
  BY <1>2, <1>3
<1>13. \A k \in 1 .. len : queue[k].task # task
  BY <1>2 DEF Scheduled
<1>14. r \in Queues(T)
  <2> DEFINE From(k) == IF k <= n THEN k ELSE k - 1
  <2>1. ASSUME NEW k \in 1 .. len + 1, k # n + 1
        PROVE  From(k) \in 1 .. len /\ r[k].task = queue[From(k)].task
    <3>1. CASE k \in 1 .. n
      BY <1>2, <1>3, <1>8, <3>1
    <3>2. CASE k - 1 \in n + 1 .. len /\ (k - 1) + 1 = k
      <4>1. From(k) = k - 1 /\ k - 1 \in 1 .. len
        BY <1>2, <1>3, <3>2
      <4>2. r[(k - 1) + 1].task = queue[k - 1].task
        BY <1>11, <3>2
      <4> QED BY <3>2, <4>1, <4>2
    <3> QED BY <1>12, <2>1, <3>1, <3>2
  <2>2. ASSUME NEW j \in 1 .. len + 1, NEW k \in 1 .. len + 1,
               r[j].task = r[k].task
        PROVE  j = k
    <3>1. CASE j = n + 1
      BY <1>10, <1>13, <2>1, <2>2, <3>1
    <3>2. CASE k = n + 1
      BY <1>10, <1>13, <2>1, <2>2, <3>2
    <3>3. CASE j # n + 1 /\ k # n + 1
      <4>1. From(j) = From(k)
        <5> HIDE DEF From
        <5> QED BY <2>1, <2>2, <3>3 DEF Queues, len
      <4> QED BY <1>2, <1>3, <3>3, <4>1
    <3> QED BY <3>1, <3>2, <3>3
  <2> QED BY <1>7, <2>2 DEF Queues
<1>15. Timetable(r) = Timetable(queue) \union {<<task, delay>>}
  <2>1. ASSUME NEW x \in Timetable(r)
        PROVE  x \in Timetable(queue) \union {<<task, delay>>}
    <3>1. PICK k \in 1 .. len + 1 : x = <<r[k].task, DueTime(r, k)>>
      BY <1>7 DEF Timetable
    <3>2. CASE k \in 1 .. n
      <4>1. k \in 1 .. len /\ x = <<queue[k].task, DueTime(queue, k)>>
        BY <1>2, <1>3, <1>8, <3>1, <3>2
      <4> QED BY <4>1 DEF Timetable, len
    <3>3. CASE k = n + 1
      BY <1>10, <3>1, <3>3
    <3>4. CASE k - 1 \in n + 1 .. len /\ (k - 1) + 1 = k
      <4>1. /\ k - 1 \in 1 .. len
            /\ x = <<queue[k - 1].task, DueTime(queue, k - 1)>>
        <5>1. k - 1 \in 1 .. len
          BY <1>3, <3>4
        <5>2. /\ DueTime(r, (k - 1) + 1) = DueTime(queue, k - 1)
              /\ r[(k - 1) + 1].task = queue[k - 1].task
          BY <1>11, <3>4
        <5> QED BY <3>1, <3>4, <5>1, <5>2
      <4> QED BY <4>1 DEF Timetable, len
    <3> QED BY <1>12, <3>2, <3>3, <3>4
  <2>2. ASSUME NEW x \in Timetable(queue)
        PROVE  x \in Timetable(r)
    <3>1. PICK k \in 1 .. len : x = <<queue[k].task, DueTime(queue, k)>>
      BY DEF Timetable, len
    <3>2. CASE k <= n
      <4>1. k \in 1 .. n /\ k \in 1 .. Len(r)
        BY <1>2, <1>3, <1>7, <3>2
      <4> QED BY <1>8, <3>1, <4>1 DEF Timetable
    <3>3. CASE k > n
      <4>1. k \in n + 1 .. len /\ k + 1 \in 1 .. Len(r)
        BY <1>2, <1>3, <1>7, <3>3
      <4> QED BY <1>11, <3>1, <4>1 DEF Timetable
    <3> QED BY <1>3, <3>2, <3>3
  <2>3. <<task, delay>> \in Timetable(r)
    <3>1. n + 1 \in 1 .. Len(r)
      BY <1>2, <1>3, <1>7
    <3> QED BY <1>10, <3>1 DEF Timetable
  <2> QED BY <2>1, <2>2, <2>3
<1> QED BY <1>1, <1>14, <1>15

\* A task that is removed is the only one that goes, and all others are due
\* when they were.
LEMMA RemoveTimetable ==
    ASSUME NEW T, NEW queue \in Queues(T), NEW task
    PROVE  /\ RemoveEntry(queue, task) \in Queues(T)
           /\ Timetable(RemoveEntry(queue, task)) =
                  {e \in Timetable(queue) : e[1] # task}
<1> DEFINE len == Len(queue)
<1>1. /\ queue \in Seq(Entries(T)) /\ len \in Nat
      /\ DOMAIN queue = 1 .. len
      /\ \A i \in 1 .. len : queue[i] \in Entries(T) /\ queue[i].delta \in Nat
      /\ \A j, k \in 1 .. len : queue[j].task = queue[k].task => j = k
  BY EntryTypes DEF Queues
<1>2. CASE task \notin Scheduled(queue)
  <2>1. RemoveEntry(queue, task) = queue
    BY <1>2 DEF RemoveEntry
  <2>2. \A i \in 1 .. len : queue[i].task # task
    BY <1>1, <1>2 DEF Scheduled
  <2>3. \A e \in Timetable(queue) : e[1] # task
    BY <2>2 DEF Timetable
  <2> QED BY <2>1, <2>3
<1>3. CASE task \in Scheduled(queue)
  <2> DEFINE i     == Place(queue, task)
             later == IF i = len THEN queue
                      ELSE [queue EXCEPT ![i + 1].delta = @ + queue[i].delta]
             r     == RemoveAt(later, i)
  <2>1. RemoveEntry(queue, task) = r
    BY <1>3 DEF RemoveEntry
  <2>2. i \in 1 .. len /\ queue[i].task = task
    <3>1. \E k \in DOMAIN queue : queue[k].task = task
      BY <1>3 DEF Scheduled
    <3> QED BY <1>1, <3>1, Zenon DEF Place
  <2> HIDE DEF i, len
  <2>3. \A k \in 1 .. len : k # i => queue[k].task # task
    BY <1>1, <2>2
  <2>4. /\ later \in Seq(Entries(T)) /\ Len(later) = len
        /\ \A k \in 1 .. len : later[k].task = queue[k].task
        /\ \A k \in 1 .. len : k # i + 1 => later[k].delta = queue[k].delta
        /\ i < len => later[i + 1].delta = queue[i + 1].delta + queue[i].delta
    <3>1. CASE i = len
      BY <1>1, <2>2, <3>1 DEF len
    <3>2. CASE i # len
      <4>1. i + 1 \in 1 .. len
        BY <1>1, <2>2, <3>2
      <4> DEFINE delta == queue[i].delta
                 new   == [queue[i + 1] EXCEPT !.delta = @ + delta]
      <4>2. delta \in Nat
        BY <1>1, <2>2
      <4>3. later = [queue EXCEPT ![i + 1] = new]
        BY <3>2
      <4>4. later[i + 1] = new
        BY <1>1, <4>1, <4>3
      <4> HIDE DEF delta
      <4>5. /\ new \in Entries(T) /\ new.task = queue[i + 1].task
            /\ new.delta = queue[i + 1].delta + delta
        <5>1. queue[i + 1] \in Entries(T)
          BY <1>1, <4>1
        <5> QED BY ONLY <4>2, <5>1, LongerEntry DEF new
      <4> HIDE DEF new, later
      <4>6. later \in Seq(Entries(T)) /\ Len(later) = len
        BY <1>1, <4>1, <4>3, <4>5, ExceptSeq DEF len
      <4>7. \A k \in 1 .. len : later[k] = IF k = i + 1 THEN new ELSE queue[k]
        BY <1>1, <4>3
      <4> QED BY <4>1, <4>5, <4>6, <4>7 DEF delta
    <3> QED BY <3>1, <3>2
  <2> HIDE DEF later
  <2>5. /\ r \in Seq(Entries(T)) /\ Len(r) = len - 1
        /\ \A k \in 1 .. len - 1 : r[k] = IF k < i THEN later[k] ELSE later[k + 1]
    <3> DEFINE S == Entries(T)
    <3>1. later \in Seq(S) /\ i \in 1 .. Len(later)
      BY <2>2, <2>4
    <3>2. r = RemoveAt(later, i)
      OBVIOUS
    <3> HIDE DEF S, r
    <3>3. /\ r \in Seq(S) /\ Len(r) = Len(later) - 1
          /\ \A k \in 1 .. Len(later) - 1 :
                 r[k] = IF k < i THEN later[k] ELSE later[k + 1]
      BY <3>1, <3>2, RemoveAtElements
    <3> QED BY <2>4, <3>3 DEF S
  <2> HIDE DEF r
  <2>6. /\ \A k \in 1 .. i - 1 : k \in 1 .. len - 1 /\ k \in 1 .. len /\ k # i + 1
        /\ \A k \in i .. len - 1 : k \in 1 .. len - 1 /\ k + 1 \in 1 .. len
    BY <1>1, <2>2
  <2>7. \A k \in 0 .. i - 1 : DueTime(r, k) = DueTime(queue, k)
    <3>1. ASSUME NEW k \in 1 .. i - 1
          PROVE  r[k].delta = queue[k].delta
      <4>1. k < i
        BY <2>2
      <4>2. r[k] = later[k]
        BY <2>5, <2>6, <4>1
      <4> QED BY <2>4, <2>6, <4>2
    <3>2. i - 1 \in 0 .. Len(r) /\ i - 1 <= Len(queue)
      BY <1>1, <2>2, <2>5 DEF len
    <3> DEFINE n == i - 1
    <3>3. /\ n \in 0 .. Len(r) /\ n <= Len(queue)
          /\ \A k \in 1 .. n : r[k].delta = queue[k].delta
      BY <3>1, <3>2
    <3> HIDE DEF n
    <3>4. \A k \in 0 .. n : DueTime(r, k) = DueTime(queue, k)
      BY <1>1, <2>5, <3>3, SameDueTimes
    <3> QED BY <3>4 DEF n
  <2>8. \A k \in i .. len - 1 : DueTime(queue, k + 1) = DueTime(r, k)
    <3>1. CASE i = len
      BY <1>1, <3>1
    <3>2. CASE i # len
      <4>1. /\ i \in 1 .. Len(r) /\ i \in 1 .. Len(queue) /\ i + 1 \in 1 .. Len(queue)
            /\ (i + 1) - 1 = i /\ i < len /\ i - 1 \in 0 .. i - 1 /\ ~ (i < i)
            /\ i \in 1 .. len - 1
        <5>1. len \in Int /\ i \in Int /\ 1 <= i /\ i <= len /\ i # len
          BY <1>1, <2>2, <3>2
        <5>2. Len(r) = len - 1 /\ Len(queue) = len
          BY <2>5 DEF len
        <5> QED BY <5>1, <5>2
      <4>2. /\ DueTime(r, i) = DueTime(r, i - 1) + r[i].delta
            /\ DueTime(queue, i) = DueTime(queue, i - 1) + queue[i].delta
            /\ DueTime(queue, i + 1) = DueTime(queue, i) + queue[i + 1].delta
        BY <1>1, <2>5, <4>1, DueTimeRecursion
      <4>3. r[i].delta = queue[i + 1].delta + queue[i].delta
        BY <2>4, <2>5, <4>1
      <4>4. /\ DueTime(queue, i - 1) \in Nat /\ queue[i].delta \in Nat
            /\ queue[i + 1].delta \in Nat
        <5>1. i - 1 \in 0 .. Len(queue)
          BY <1>1, <4>1
        <5>2. DueTime(queue, i - 1) \in Nat
          BY <1>1, <5>1, DueTimeType
        <5> QED BY <1>1, <4>1, <5>2 DEF len
      <4>5. DueTime(queue, i + 1) = DueTime(r, i)
        BY <2>7, <4>1, <4>2, <4>3, <4>4
      <4>6. /\ Len(queue) = Len(r) + 1 /\ i \in 0 .. Len(r) /\ Len(r) = len - 1
        BY <1>1, <2>5, <4>1 DEF len
      <4>7. ASSUME NEW k \in i + 1 .. Len(r)
            PROVE  queue[k + 1].delta = r[k].delta
        <5>1. /\ k \in 1 .. len - 1 /\ ~ (k < i) /\ k + 1 \in 1 .. len
              /\ k + 1 # i + 1
          BY <1>1, <2>2, <4>6
        <5> QED BY <2>4, <2>5, <5>1
      <4>8. \A k \in i .. Len(r) : DueTime(queue, k + 1) = DueTime(r, k)
        <5>1. queue \in Seq(Entries(T)) /\ r \in Seq(Entries(T))
          BY <1>1, <2>5
        <5> QED BY <4>5, <4>6, <4>7, <5>1, MovedDueTimes
      <4> QED BY <4>6, <4>8
    <3> QED BY <3>1, <3>2
  <2>9. /\ \A k \in 1 .. i - 1 : r[k].task = queue[k].task
        /\ \A k \in i .. len - 1 : r[k].task = queue[k + 1].task
    <3>1. \A k \in i .. len - 1 : ~ (k < i)
      BY <1>1, <2>2
    <3>2. \A k \in 1 .. i - 1 : k < i
      BY <1>1, <2>2
    <3> QED BY <2>4, <2>5, <2>6, <3>1, <3>2
  <2>10. \A k \in 1 .. len - 1 : k \in 1 .. i - 1 \/ k \in i .. len - 1
    BY <1>1, <2>2
  <2>11. r \in Queues(T)
    <3> DEFINE From(k) == IF k < i THEN k ELSE k + 1
    <3>1. ASSUME NEW k \in 1 .. len - 1
          PROVE  From(k) \in 1 .. len /\ r[k].task = queue[From(k)].task
      <4>1. CASE k \in 1 .. i - 1
        BY <1>1, <2>2, <2>6, <2>9, <4>1
      <4>2. CASE k \in i .. len - 1
        BY <1>1, <2>2, <2>6, <2>9, <4>2
      <4> QED BY <2>10, <4>1, <4>2
    <3>2. ASSUME NEW j \in 1 .. len - 1, NEW k \in 1 .. len - 1,
                 r[j].task = r[k].task
          PROVE  j = k
      <4>1. From(j) = From(k)
        <5> HIDE DEF From
        <5> QED BY <1>1, <3>1, <3>2
      <4> QED BY <1>1, <2>2, <4>1
    <3> QED BY <2>5, <3>2 DEF Queues
  <2>12. Timetable(r) = {e \in Timetable(queue) : e[1] # task}
    <3>1. ASSUME NEW x \in Timetable(r)
          PROVE  x \in Timetable(queue) /\ x[1] # task
      <4>1. PICK k \in 1 .. len - 1 : x = <<r[k].task, DueTime(r, k)>>
        BY <2>5, <3>1 DEF Timetable
      <4>2. CASE k \in 1 .. i - 1
        <5>1. k \in 1 .. len /\ k # i /\ x = <<queue[k].task, DueTime(queue, k)>>
          <6>1. k \in 0 .. i - 1 /\ k # i
            BY <2>2, <4>2
          <6> QED BY <2>6, <2>7, <2>9, <4>1, <4>2, <6>1
        <5> QED BY <2>3, <5>1 DEF Timetable, len
      <4>3. CASE k \in i .. len - 1
        <5>1. /\ k + 1 \in 1 .. len /\ k + 1 # i
              /\ x = <<queue[k + 1].task, DueTime(queue, k + 1)>>
          <6>1. k + 1 # i
            BY <2>2, <4>3
          <6> QED BY <2>6, <2>8, <2>9, <4>1, <4>3, <6>1
        <5> QED BY <2>3, <5>1 DEF Timetable, len
      <4> QED BY <2>10, <4>2, <4>3
    <3>2. ASSUME NEW x \in Timetable(queue), x[1] # task
          PROVE  x \in Timetable(r)
      <4>1. PICK k \in 1 .. len : x = <<queue[k].task, DueTime(queue, k)>>
        BY DEF Timetable, len
      <4>2. k # i
        BY <2>2, <3>2, <4>1
      <4>3. CASE k < i
        <5>1. k \in 1 .. i - 1 /\ k \in 0 .. i - 1 /\ k \in 1 .. Len(r)
          BY <1>1, <2>2, <2>5, <4>3
        <5> QED BY <2>7, <2>9, <4>1, <5>1 DEF Timetable
      <4>4. CASE k > i
        <5> DEFINE j == k - 1
        <5>1. j \in i .. len - 1 /\ j + 1 = k /\ j \in 1 .. Len(r)
          BY <1>1, <2>2, <2>5, <4>4
        <5> HIDE DEF j
        <5> QED BY <2>8, <2>9, <4>1, <5>1 DEF Timetable
      <4> QED BY <2>2, <4>2, <4>3, <4>4
    <3> QED BY <3>1, <3>2
  <2> QED BY <2>1, <2>11, <2>12
<1> QED BY <1>2, <1>3

\* The first entry is due at its delta, and no other before it.
LEMMA HeadOfTimetable ==
    ASSUME NEW T, NEW queue \in Queues(T), queue # <<>>
    PROVE  /\ Head(queue).task \in T /\ Head(queue).delta \in Nat
           /\ <<Head(queue).task, Head(queue).delta>> \in Timetable(queue)
           /\ \A e \in Timetable(queue) : Head(queue).delta <= e[2]
<1>1. /\ queue \in Seq(Entries(T)) /\ Len(queue) \in Nat
      /\ 1 \in 1 .. Len(queue) /\ Head(queue) = queue[1] /\ 1 - 1 = 0
  <2>1. queue \in Seq(Entries(T)) /\ Len(queue) \in Nat
    BY EntryTypes DEF Queues
  <2> QED BY <2>1
<1>2. queue[1].task \in T /\ queue[1].delta \in Nat
  BY <1>1, EntryTypes
<1>3. DueTime(queue, 1) = queue[1].delta
  BY <1>1, <1>2, DueTimeRecursion
<1>4. ASSUME NEW e \in Timetable(queue)
      PROVE  queue[1].delta <= e[2]
  <2>1. PICK i \in 1 .. Len(queue) : e = <<queue[i].task, DueTime(queue, i)>>
    BY DEF Timetable
  <2>2. i \in 0 .. Len(queue) /\ i > 0
    BY <1>1
  <2>3. DueTime(queue, i) \in Nat /\ DueTime(queue, i) >= queue[1].delta
    BY <1>1, <2>2, DueTimeType
  <2> QED BY <1>2, <2>1, <2>3
<1> QED BY <1>1, <1>2, <1>3, <1>4 DEF Timetable

\* The times in a timetable are numbers, and the tasks are of the set.
LEMMA TimetableType ==
    ASSUME NEW T, NEW queue \in Queues(T)
    PROVE  \A e \in Timetable(queue) : e[1] \in T /\ e[2] \in Nat
<1>1. queue \in Seq(Entries(T)) /\ Len(queue) \in Nat
  BY EntryTypes DEF Queues
<1>2. ASSUME NEW e \in Timetable(queue)
      PROVE  e[1] \in T /\ e[2] \in Nat
  <2>1. PICK i \in 1 .. Len(queue) : e = <<queue[i].task, DueTime(queue, i)>>
    BY DEF Timetable
  <2>2. i \in 0 .. Len(queue)
    BY <1>1
  <2>3. queue[i].task \in T /\ DueTime(queue, i) \in Nat
    BY <1>1, <2>2, DueTimeType, EntryTypes
  <2> QED BY <2>1, <2>3
<1> QED BY <1>2
=============================================================================
