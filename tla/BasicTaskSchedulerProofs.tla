----------------------- MODULE BasicTaskSchedulerProofs -----------------------
(***************************************************************************)
(* Proofs about BasicTaskScheduler: for any number of triggers, sources,   *)
(* sockets and tasks, whatever handlers do,                                *)
(*   - no two sources share a trigger, and triggers raised have a source;  *)
(*   - select() watches exactly the registered sockets;                    *)
(*   - the queue says of every delayed task when it is due, no task is run *)
(*     before that, and select() is told to return within the granularity. *)
(*                                                                         *)
(* The first two are inductive once types are known.  What takes an        *)
(* argument is that the search round the table of triggers comes to one of *)
(* those searched for (TheNearest): the distances from the last one used   *)
(* have a least element.                                                   *)
(*                                                                         *)
(* The third is about the queue's Timetable (DelayQueueProofs).  TasksInv  *)
(* says that no entry is due before its task is, and later only if the     *)
(* clock has been set back; and that the scheduler's own task, which is    *)
(* put back before anything else runs, is due within the granularity, so   *)
(* that the head of the queue is.                                          *)
(***************************************************************************)
EXTENDS BasicTaskScheduler, DelayQueueProofs

USE DEF Triggers, Sources, Sockets, Connections

TriggerTypes ==
    /\ fTriggeredEventHandlers \subseteq Triggers
    /\ fTriggersAwaitingHandling \subseteq Triggers
    /\ fLastUsedTriggerNum \in Triggers
    /\ eventTriggerId \in [Sources -> Triggers \union {0}]

SocketTypes ==
    /\ fHandlers \in Seq(Sockets)
    /\ fReadSet \subseteq Sockets
    /\ fMaxNumSockets \in 0 .. NumSockets

TriggersInv == TriggerTypes /\ TriggersAreOwned
SocketsInv  == SocketTypes /\ RegisteredAreWatched

-----------------------------------------------------------------------------
(***************************************************************************)
(* Triggers.                                                               *)
(***************************************************************************)

\* The search round the table finds one of those it searches for.
LEMMA TheNearest ==
    ASSUME NEW set, set \subseteq Triggers, set # {},
           fLastUsedTriggerNum \in Triggers
    PROVE  NextTrigger(set) \in set
<1> DEFINE Distances == {Distance(n) : n \in set}
<1>1. \A n \in set : Distance(n) \in Nat
  BY TriggersAssumption DEF Distance
<1>2. Distances \subseteq Nat /\ Distances # {}
  BY <1>1
<1>3. PICK d \in Distances : \A e \in Distances : d <= e
  <2> HIDE DEF Distances
  <2> QED BY <1>2, LeastNumber
<1>4. \E n \in set : \A m \in set : Distance(n) <= Distance(m)
  BY <1>3
<1> QED BY <1>4 DEF NextTrigger

\* Before the loop starts no source has a trigger.
LEMMA TriggersInit == Init => TriggersInv
BY TriggersAssumption DEF Init, TriggersInv, TriggerTypes, TriggersAreOwned

\* A new trigger was free, so that no source had it.
LEMMA CreateKeepsTriggers ==
    ASSUME TriggersInv, NEW o \in Sources, CreateEventTrigger(o)
    PROVE  TriggersInv'
<1> DEFINE n == NextTrigger(FreeTriggers)
<1>1. n \in Triggers /\ n \notin fTriggeredEventHandlers
  BY TheNearest DEF FreeTriggers, TriggersInv, TriggerTypes, CreateEventTrigger
<1>2. /\ fTriggeredEventHandlers' = fTriggeredEventHandlers \union {n}
      /\ fLastUsedTriggerNum' = n
      /\ eventTriggerId' = [eventTriggerId EXCEPT ![o] = n]
      /\ fTriggersAwaitingHandling' = fTriggersAwaitingHandling
      /\ eventTriggerId[o] = 0
  BY DEF CreateEventTrigger
<1> HIDE DEF n
<1>3. TriggerTypes'
  BY <1>1, <1>2 DEF TriggersInv, TriggerTypes
<1>4. \A p \in Sources : eventTriggerId[p] # n
  BY <1>1 DEF TriggersInv, TriggersAreOwned
<1>5. TriggersAreOwned'
  BY <1>1, <1>2, <1>4 DEF TriggersInv, TriggerTypes, TriggersAreOwned
<1> QED BY <1>3, <1>5 DEF TriggersInv

\* A source that goes leaves its trigger free and lowered.
LEMMA DeleteKeepsTriggers ==
    ASSUME TriggersInv, NEW o \in Sources, DeleteEventTrigger(o)
    PROVE  TriggersInv'
<1> DEFINE n == eventTriggerId[o]
<1>1. /\ fTriggeredEventHandlers' = fTriggeredEventHandlers \ {n}
      /\ fTriggersAwaitingHandling' = fTriggersAwaitingHandling \ {n}
      /\ eventTriggerId' = [eventTriggerId EXCEPT ![o] = 0]
      /\ fLastUsedTriggerNum' = fLastUsedTriggerNum
      /\ n # 0
  BY DEF DeleteEventTrigger, TriggersInv, TriggerTypes
<1>2. TriggerTypes'
  BY <1>1 DEF TriggersInv, TriggerTypes
<1>3. \A p \in Sources : eventTriggerId[p] = n => p = o
  BY <1>1 DEF TriggersInv, TriggersAreOwned
<1>4. TriggersAreOwned'
  BY <1>1, <1>3 DEF TriggersInv, TriggerTypes, TriggersAreOwned
<1> QED BY <1>2, <1>4 DEF TriggersInv

\* The loop lowers the trigger it handles, and no other.
LEMMA HandlingKeepsTriggers ==
    ASSUME TriggersInv, HandleTrigger
    PROVE  TriggersInv'
<1>1. UNCHANGED tableVars
  BY DEF HandleTrigger
<1>2. CASE fTriggersAwaitingHandling = {}
  BY <1>1, <1>2 DEF HandleTrigger, TriggersInv, TriggerTypes, TriggersAreOwned,
                    tableVars
<1>3. CASE fTriggersAwaitingHandling # {}
  <2> DEFINE n == NextAwaiting(fTriggersAwaitingHandling)
  <2>1. n \in Triggers
    BY <1>3, TheNearest DEF NextAwaiting, TriggersInv, TriggerTypes
  <2>2. /\ fTriggersAwaitingHandling' = fTriggersAwaitingHandling \ {n}
        /\ fLastUsedTriggerNum' = n
    BY <1>3 DEF HandleTrigger
  <2> HIDE DEF n
  <2> QED BY <1>1, <2>1, <2>2 DEF TriggersInv, TriggerTypes, TriggersAreOwned,
                                  tableVars
<1> QED BY <1>2, <1>3

\* No step lets two sources share a trigger.
LEMMA TriggersStep == TriggersInv /\ [Next]_vars => TriggersInv'
<1> SUFFICES ASSUME TriggersInv, [Next]_vars
             PROVE  TriggersInv'
  OBVIOUS
<1>1. CASE UNCHANGED triggerVars
  BY <1>1 DEF TriggersInv, TriggerTypes, TriggersAreOwned, triggerVars, tableVars
<1>2. ASSUME NEW o \in Sources, CreateEventTrigger(o)
      PROVE  TriggersInv'
  BY <1>2, CreateKeepsTriggers
<1>3. ASSUME NEW o \in Sources, DeleteEventTrigger(o)
      PROVE  TriggersInv'
  BY <1>3, DeleteKeepsTriggers
<1>4. ASSUME NEW o \in Sources, TriggerEvent(o)
      PROVE  TriggersInv'
  BY <1>4 DEF TriggerEvent, TriggersInv, TriggerTypes, TriggersAreOwned, tableVars
<1>5. CASE HandleTrigger
  BY <1>5, HandlingKeepsTriggers
<1>6. CASE DoEventLoop \/ LeaveLoop \/ BeginSelect \/ HandleAlarm \/ HandlerReturns
  BY <1>1, <1>6 DEF DoEventLoop, LeaveLoop, BeginSelect, HandleAlarm, HandlerReturns
<1>7. CASE SelectReturns \/ Signal
  BY <1>1, <1>7 DEF SelectReturns, Signal, HandleSocket
<1>8. ASSUME NEW t \in Tasks, Schedule(t) \/ Unschedule(t)
      PROVE  TriggersInv'
  BY <1>1, <1>8 DEF Schedule, Unschedule
<1>9. ASSUME NEW s \in Sockets, Accept(s) \/ Register(s) \/ Close(s) \/ BecomesReadable(s)
      PROVE  TriggersInv'
  BY <1>1, <1>9 DEF Accept, Register, Close, BecomesReadable
<1>10. CASE TimePasses \/ ClockSetBack
  BY <1>1, <1>10 DEF TimePasses, ClockSetBack
<1>11. CASE UNCHANGED vars
  BY <1>1, <1>11 DEF vars
<1> QED
  BY <1>2, <1>3, <1>4, <1>5, <1>6, <1>7, <1>8, <1>9, <1>10, <1>11
     DEF Next, MainThread

-----------------------------------------------------------------------------
(***************************************************************************)
(* Sockets.                                                                *)
(***************************************************************************)

\* Before the loop starts only the listening socket is registered.
LEMMA SocketsInit == Init => SocketsInv
<1> SUFFICES ASSUME Init
             PROVE  SocketsInv
  OBVIOUS
<1>1. fHandlers = <<0>> /\ fReadSet = {0} /\ fMaxNumSockets = 1
  BY DEF Init
<1>2. SocketTypes
  BY <1>1, SocketsAssumption DEF SocketTypes
<1>3. Range(fHandlers) = {0} /\ IsInjective(fHandlers)
  BY <1>1 DEF Range, IsInjective
<1> QED BY <1>1, <1>2, <1>3 DEF SocketsInv, RegisteredAreWatched, Watched

\* A handler is put before the others, or replaced.
LEMMA AcceptKeepsSockets ==
    ASSUME SocketsInv, NEW s \in Sockets, SetBackgroundHandling(s),
           s \notin Range(fHandlers)
    PROVE  SocketsInv'
<1>1. /\ fHandlers' = <<s>> \o fHandlers
      /\ fReadSet' = fReadSet \union {s}
      /\ fMaxNumSockets' = IF s + 1 > fMaxNumSockets THEN s + 1
                           ELSE fMaxNumSockets
  BY DEF SetBackgroundHandling
<1>2. /\ fHandlers \in Seq(Sockets) /\ fMaxNumSockets \in 0 .. NumSockets
      /\ fReadSet = Range(fHandlers) /\ IsInjective(fHandlers)
      /\ \A t \in fReadSet : t < fMaxNumSockets
      /\ fReadSet \subseteq Sockets
  BY DEF SocketsInv, SocketTypes, RegisteredAreWatched, Watched
<1>3. /\ fHandlers' \in Seq(Sockets) /\ IsInjective(fHandlers)'
      /\ Range(fHandlers)' = {s} \union Range(fHandlers)
  <2> DEFINE S == Sockets
  <2>1. fHandlers \in Lists(S) /\ s \in S
    BY <1>2 DEF Lists
  <2> HIDE DEF S
  <2>2. /\ <<s>> \o fHandlers \in Lists(S)
        /\ Range(<<s>> \o fHandlers) = Range(fHandlers) \union {s}
    BY <2>1, PrependToList
  <2>3. fHandlers' \in Lists(S)
    BY <1>1, <2>2
  <2>4. fHandlers' \in Seq(S) /\ IsInjective(fHandlers)'
    BY <2>3 DEF Lists
  <2> QED BY <1>1, <2>2, <2>4 DEF S
<1>4. SocketTypes'
  BY <1>1, <1>2, <1>3, SocketsAssumption DEF SocketTypes
<1>5. fReadSet' = Range(fHandlers)' /\ \A t \in fReadSet' : t < fMaxNumSockets'
  BY <1>1, <1>2, <1>3
<1> QED BY <1>3, <1>4, <1>5 DEF SocketsInv, RegisteredAreWatched, Watched

\* The handler goes; all sockets left are lower than fMaxNumSockets, though
\* it is only one less than before.
LEMMA CloseKeepsSockets ==
    ASSUME SocketsInv, NEW s \in Sockets, DisableBackgroundHandling(s)
    PROVE  SocketsInv'
<1>1. \/ s \notin Range(fHandlers) /\ fHandlers' = fHandlers
      \/ \E i \in DOMAIN fHandlers :
             fHandlers[i] = s /\ fHandlers' = RemoveAt(fHandlers, i)
  BY DEF DisableBackgroundHandling
<1>2. /\ fHandlers \in Seq(Sockets) /\ fMaxNumSockets \in 0 .. NumSockets
      /\ fReadSet = Range(fHandlers) /\ IsInjective(fHandlers)
      /\ \A t \in fReadSet : t < fMaxNumSockets
      /\ fReadSet \subseteq Sockets
  BY DEF SocketsInv, SocketTypes, RegisteredAreWatched, Watched
<1>3. DOMAIN fHandlers = 1 .. Len(fHandlers)
  BY <1>2
<1>4. /\ fHandlers' \in Seq(Sockets) /\ IsInjective(fHandlers)'
      /\ Range(fHandlers)' = Range(fHandlers) \ {s}
  <2>1. CASE s \notin Range(fHandlers) /\ fHandlers' = fHandlers
    BY <1>2, <2>1
  <2>2. ASSUME NEW i \in DOMAIN fHandlers, fHandlers[i] = s,
               fHandlers' = RemoveAt(fHandlers, i)
        PROVE  /\ fHandlers' \in Seq(Sockets) /\ IsInjective(fHandlers)'
               /\ Range(fHandlers)' = Range(fHandlers) \ {s}
    BY <1>2, <1>3, <2>2, RemoveAtOfList DEF Lists
  <2> QED BY <1>1, <2>1, <2>2
<1>5. /\ fReadSet' = fReadSet \ {s}
      /\ fMaxNumSockets' = IF s + 1 = fMaxNumSockets THEN fMaxNumSockets - 1
                           ELSE fMaxNumSockets
  BY DEF DisableBackgroundHandling
<1>6. fMaxNumSockets' \in 0 .. NumSockets /\ \A t \in fReadSet' : t < fMaxNumSockets'
  BY <1>2, <1>5, SocketsAssumption
<1> QED BY <1>2, <1>4, <1>5, <1>6
           DEF SocketsInv, SocketTypes, RegisteredAreWatched, Watched

\* No step lets the handlers and the set differ.
LEMMA SocketsStep == SocketsInv /\ [Next]_vars => SocketsInv'
<1> SUFFICES ASSUME SocketsInv, [Next]_vars
             PROVE  SocketsInv'
  OBVIOUS
<1>1. CASE UNCHANGED <<fHandlers, fReadSet, fMaxNumSockets>>
  BY <1>1 DEF SocketsInv, SocketTypes, RegisteredAreWatched, Watched
<1>2. CASE UNCHANGED socketVars
  BY <1>1, <1>2 DEF socketVars
<1>3. ASSUME NEW s \in Sockets, Accept(s) \/ Register(s)
      PROVE  SocketsInv'
  BY <1>3, AcceptKeepsSockets DEF Accept, Register
<1>4. ASSUME NEW s \in Sockets, Close(s)
      PROVE  SocketsInv'
  BY <1>4, CloseKeepsSockets DEF Close
<1>5. ASSUME NEW o \in Sources,
             CreateEventTrigger(o) \/ DeleteEventTrigger(o) \/ TriggerEvent(o)
      PROVE  SocketsInv'
  BY <1>2, <1>5 DEF CreateEventTrigger, DeleteEventTrigger, TriggerEvent
<1>6. CASE DoEventLoop \/ LeaveLoop \/ BeginSelect \/ HandleTrigger \/ HandleAlarm
           \/ HandlerReturns
  BY <1>2, <1>6 DEF DoEventLoop, LeaveLoop, BeginSelect, HandleTrigger,
                    HandleAlarm, HandlerReturns
<1>7. CASE SelectReturns \/ Signal
  BY <1>1, <1>2, <1>7 DEF SelectReturns, Signal, HandleSocket
<1>8. ASSUME NEW t \in Tasks, Schedule(t) \/ Unschedule(t)
      PROVE  SocketsInv'
  BY <1>2, <1>8 DEF Schedule, Unschedule
<1>9. ASSUME NEW s \in Sockets, BecomesReadable(s)
      PROVE  SocketsInv'
  BY <1>1, <1>9 DEF BecomesReadable
<1>10. CASE TimePasses \/ ClockSetBack
  BY <1>2, <1>10 DEF TimePasses, ClockSetBack
<1>11. CASE UNCHANGED vars
  BY <1>2, <1>11 DEF vars
<1> QED
  BY <1>3, <1>4, <1>5, <1>6, <1>7, <1>8, <1>9, <1>10, <1>11
     DEF Next, MainThread

-----------------------------------------------------------------------------
(***************************************************************************)
(* Delayed tasks.                                                          *)
(***************************************************************************)

\* A queue, looked at when so much has passed since it was synchronised, tells
\* the truth: its tasks are due no earlier than it says, and when it says
\* unless the clock was set back.
Tells(queue, late, times, back) ==
    \A e \in Timetable(queue) :
        /\ times[e[1]] <= e[2]
        /\ times[e[1]] <= Remaining(e[2] - late)
        /\ Remaining(e[2] - late) > times[e[1]] => back

\* The scheduler's own task is due within its granularity.
TickIsSoon(queue) ==
    \E d \in 0 .. Granularity : <<SchedulerTick, d>> \in Timetable(queue)

TaskTypes ==
    /\ fDelayQueue \in Queues(AllTasks)
    /\ elapsed \in Int
    /\ setBack \in BOOLEAN
    /\ due \in [AllTasks -> Nat]
    /\ timeout \in 0 .. Granularity

TasksInv ==
    /\ TaskTypes
    /\ elapsed < 0 => setBack
    /\ TickIsSoon(fDelayQueue)
    /\ Tells(fDelayQueue, elapsed, due, setBack)

\* A synchronised queue tells the truth right away.
LEMMA SynchronizeTells ==
    ASSUME NEW queue \in Queues(AllTasks), NEW late \in Int,
           NEW times \in [AllTasks -> Nat], NEW back \in BOOLEAN,
           Tells(queue, late, times, back), late < 0 => back
    PROVE  /\ Synchronize(queue, late) \in Queues(AllTasks)
           /\ Tells(Synchronize(queue, late), 0, times, back)
           /\ TickIsSoon(queue) => TickIsSoon(Synchronize(queue, late))
           /\ Scheduled(Synchronize(queue, late)) = Scheduled(queue)
<1>1. \A e \in Timetable(queue) : e[1] \in AllTasks /\ e[2] \in Nat
  BY TimetableType
<1>2. CASE late < 0
  <2>1. Synchronize(queue, late) = queue
    BY <1>2 DEF Synchronize
  <2>2. ASSUME NEW e \in Timetable(queue)
        PROVE  Remaining(e[2] - 0) = e[2]
    BY <1>1 DEF Remaining
  <2>3. Tells(queue, 0, times, back)
    BY <1>2, <2>2 DEF Tells
  <2> QED BY <2>1, <2>3
<1>3. CASE ~ (late < 0)
  <2> DEFINE sync == Synchronize(queue, late)
  <2>1. late \in Nat
    BY <1>3
  <2>2. /\ sync \in Queues(AllTasks)
        /\ Timetable(sync) = {<<e[1], Remaining(e[2] - late)>> : e \in Timetable(queue)}
    BY <2>1, SynchronizeTimetable
  <2> HIDE DEF sync
  <2>3. ASSUME NEW f \in Timetable(sync)
        PROVE  /\ times[f[1]] <= f[2]
               /\ times[f[1]] <= Remaining(f[2] - 0)
               /\ Remaining(f[2] - 0) > times[f[1]] => back
    <3>1. PICK e \in Timetable(queue) : f = <<e[1], Remaining(e[2] - late)>>
      BY <2>2
    <3>2. /\ times[e[1]] <= Remaining(e[2] - late)
          /\ Remaining(e[2] - late) > times[e[1]] => back
      BY DEF Tells
    <3>3. Remaining(f[2] - 0) = f[2]
      <4>1. f[2] \in Nat
        BY <2>2, TimetableType
      <4> QED BY <4>1 DEF Remaining
    <3> QED BY <3>1, <3>2, <3>3
  <2>4. Tells(sync, 0, times, back)
    BY <2>3 DEF Tells
  <2>5. TickIsSoon(queue) => TickIsSoon(sync)
    <3> SUFFICES ASSUME TickIsSoon(queue)
                 PROVE  TickIsSoon(sync)
      OBVIOUS
    <3>1. PICK d \in 0 .. Granularity : <<SchedulerTick, d>> \in Timetable(queue)
      BY DEF TickIsSoon
    <3>2. <<SchedulerTick, Remaining(d - late)>> \in Timetable(sync)
      <4>1. \A e \in Timetable(queue) :
                <<e[1], Remaining(e[2] - late)>> \in Timetable(sync)
        BY <2>2
      <4> QED BY <3>1, <4>1
    <3>3. Remaining(d - late) \in 0 .. Granularity
      BY <2>1, <3>1, GranularityAssumption DEF Remaining
    <3> QED BY <3>2, <3>3 DEF TickIsSoon
  <2>6. \A t : t \in Scheduled(sync) <=> t \in Scheduled(queue)
    <3> TAKE t
    <3>1. ASSUME t \in Scheduled(sync)
          PROVE  t \in Scheduled(queue)
      <4>1. PICK d : <<t, d>> \in Timetable(sync)
        BY <2>2, <3>1, ScheduledTimetable
      <4>2. PICK e \in Timetable(queue) : <<t, d>> = <<e[1], Remaining(e[2] - late)>>
        BY <2>2, <4>1
      <4>3. PICK i \in 1 .. Len(queue) : e = <<queue[i].task, DueTime(queue, i)>>
        BY DEF Timetable
      <4>4. queue[i].task = t /\ i \in DOMAIN queue
        BY <4>2, <4>3, EntryTypes DEF Queues
      <4> QED BY <4>4 DEF Scheduled
    <3>2. ASSUME t \in Scheduled(queue)
          PROVE  t \in Scheduled(sync)
      <4>1. PICK d : <<t, d>> \in Timetable(queue)
        BY <3>2, ScheduledTimetable
      <4>2. <<t, Remaining(d - late)>> \in Timetable(sync)
        <5>1. \A e \in Timetable(queue) :
                  <<e[1], Remaining(e[2] - late)>> \in Timetable(sync)
          BY <2>2
        <5> QED BY <4>1, <5>1
      <4> QED BY <2>2, <4>2, ScheduledTimetable
    <3> QED BY <3>1, <3>2
  <2> QED BY <2>2, <2>4, <2>5, <2>6 DEF sync
<1> QED BY <1>2, <1>3

\* So it does with a task added that is due after its delay.
LEMMA AddTells ==
    ASSUME NEW queue \in Queues(AllTasks), NEW times \in [AllTasks -> Nat],
           NEW back \in BOOLEAN, Tells(queue, 0, times, back),
           NEW task \in AllTasks, task \notin Scheduled(queue), NEW delay \in Nat
    PROVE  /\ AddEntry(queue, task, delay) \in Queues(AllTasks)
           /\ Tells(AddEntry(queue, task, delay), 0,
                    [times EXCEPT ![task] = delay], back)
           /\ TickIsSoon(queue) => TickIsSoon(AddEntry(queue, task, delay))
           /\ task = SchedulerTick /\ delay = Granularity =>
                  TickIsSoon(AddEntry(queue, task, delay))
<1> DEFINE add == AddEntry(queue, task, delay)
           new == [times EXCEPT ![task] = delay]
<1>1. /\ add \in Queues(AllTasks)
      /\ Timetable(add) = Timetable(queue) \union {<<task, delay>>}
  BY AddTimetable
<1> HIDE DEF add
<1>2. ASSUME NEW e \in Timetable(add)
      PROVE  /\ new[e[1]] <= e[2]
             /\ new[e[1]] <= Remaining(e[2] - 0)
             /\ Remaining(e[2] - 0) > new[e[1]] => back
  <2>1. CASE e = <<task, delay>>
    BY <2>1 DEF Remaining
  <2>2. CASE e \in Timetable(queue)
    <3>1. e[1] # task
      <4>1. \A d : <<task, d>> \notin Timetable(queue)
        BY ScheduledTimetable
      <4>2. PICK i \in 1 .. Len(queue) : e = <<queue[i].task, DueTime(queue, i)>>
        BY <2>2 DEF Timetable
      <4> QED BY <2>2, <4>1, <4>2
    <3>2. new[e[1]] = times[e[1]]
      BY <2>2, <3>1, TimetableType
    <3> QED BY <2>2, <3>2 DEF Tells
  <2> QED BY <1>1, <2>1, <2>2
<1>3. Tells(add, 0, new, back)
  <2> HIDE DEF new
  <2> QED BY <1>2 DEF Tells
<1>4. TickIsSoon(queue) => TickIsSoon(add)
  BY <1>1 DEF TickIsSoon
<1>5. task = SchedulerTick /\ delay = Granularity => TickIsSoon(add)
  BY <1>1, GranularityAssumption DEF TickIsSoon
<1> QED BY <1>1, <1>3, <1>4, <1>5 DEF add

\* So it does with a task removed.
LEMMA RemoveTells ==
    ASSUME NEW queue \in Queues(AllTasks), NEW late, NEW times, NEW back,
           Tells(queue, late, times, back), NEW task
    PROVE  /\ RemoveEntry(queue, task) \in Queues(AllTasks)
           /\ Tells(RemoveEntry(queue, task), late, times, back)
           /\ \A e \in Timetable(RemoveEntry(queue, task)) :
                  e[1] # task /\ e \in Timetable(queue)
           /\ task \notin Scheduled(RemoveEntry(queue, task))
           /\ task # SchedulerTick /\ TickIsSoon(queue) =>
                  TickIsSoon(RemoveEntry(queue, task))
<1> DEFINE left == RemoveEntry(queue, task)
<1> DEFINE T == AllTasks
<1>0. queue \in Queues(T)
  OBVIOUS
<1> HIDE DEF T
<1>1. /\ left \in Queues(T)
      /\ Timetable(left) = {e \in Timetable(queue) : e[1] # task}
  BY <1>0, RemoveTimetable
<1> HIDE DEF left
<1>2. Tells(left, late, times, back)
  BY <1>1 DEF Tells
<1>3. task \notin Scheduled(left)
  <2> SUFFICES ASSUME task \in Scheduled(left)
               PROVE  FALSE
    OBVIOUS
  <2>1. PICK d : <<task, d>> \in Timetable(left)
    BY <1>1, ScheduledTimetable
  <2>2. <<task, d>>[1] # task
    BY <1>1, <2>1
  <2> QED BY <2>2
<1>4. task # SchedulerTick /\ TickIsSoon(queue) => TickIsSoon(left)
  BY <1>1 DEF TickIsSoon
<1>5. \A e \in Timetable(left) : e[1] # task /\ e \in Timetable(queue)
  BY <1>1
<1> QED BY <1>1, <1>2, <1>3, <1>4, <1>5 DEF left, T

\* At first the scheduler's own task is the only one in the queue.
LEMMA TasksInit == Init => TasksInv
<1> SUFFICES ASSUME Init
             PROVE  TasksInv
  OBVIOUS
<1> DEFINE entry == [task |-> SchedulerTick, delta |-> Granularity]
           queue == <<entry>>
<1>1. /\ fDelayQueue = queue /\ elapsed = 0 /\ setBack = FALSE /\ timeout = 0
      /\ due = [t \in AllTasks |-> IF t = SchedulerTick THEN Granularity ELSE 0]
  BY DEF Init
<1>2. entry \in Entries(AllTasks) /\ Granularity \in Nat
  BY GranularityAssumption DEF Entries, AllTasks
<1>3. /\ queue \in Seq(Entries(AllTasks)) /\ Len(queue) = 1 /\ queue[1] = entry
  BY <1>2
<1> HIDE DEF queue
<1>4. \A i, j \in 1 .. Len(queue) : queue[i].task = queue[j].task => i = j
  BY <1>3
<1>5. queue \in Queues(AllTasks)
  BY <1>3, <1>4 DEF Queues
<1>6. DueTime(queue, 1) = Granularity
  <2>1. 1 \in 1 .. Len(queue) /\ 1 - 1 = 0
    BY <1>3
  <2> DEFINE T == AllTasks
  <2>2. queue \in Seq(Entries(T))
    BY <1>3
  <2>3. queue[1].delta = Granularity
    BY <1>3
  <2> HIDE DEF T, entry
  <2>4. /\ DueTime(queue, 0) = 0
        /\ DueTime(queue, 1) = DueTime(queue, 1 - 1) + queue[1].delta
    BY <2>1, <2>2, DueTimeRecursion
  <2> QED BY <1>2, <2>1, <2>3, <2>4
<1>7. Timetable(queue) = {<<SchedulerTick, Granularity>>}
  BY <1>3, <1>6 DEF Timetable
<1>8. due \in [AllTasks -> Nat] /\ due[SchedulerTick] = Granularity
  BY <1>1, <1>2 DEF AllTasks
<1>9. Remaining(Granularity - 0) = Granularity
  BY <1>2 DEF Remaining
<1>10. Tells(queue, 0, due, FALSE)
  BY <1>2, <1>7, <1>8, <1>9 DEF Tells
<1>11. TickIsSoon(queue) /\ 0 \in 0 .. Granularity
  BY <1>2, <1>7 DEF TickIsSoon
<1>12. TaskTypes
  <2>1. fDelayQueue \in Queues(AllTasks)
    BY <1>1, <1>5
  <2>2. elapsed = 0 /\ setBack = FALSE /\ timeout = 0
    BY <1>1
  <2>3. elapsed \in Int
    BY <2>2, SMT
  <2>4. setBack \in BOOLEAN
    BY <2>2, Zenon
  <2>5. timeout \in 0 .. Granularity
    BY <2>2, <1>2, SMT
  <2> QED BY <1>8, <2>1, <2>3, <2>4, <2>5 DEF TaskTypes
<1>13. Tells(fDelayQueue, elapsed, due, setBack)
  BY <1>1, <1>10
<1>14. TickIsSoon(fDelayQueue)
  BY <1>1, <1>11
<1> QED BY <1>1, <1>12, <1>13, <1>14 DEF TasksInv

\* The queue that BeginSelect and HandleAlarm look at, whether they find it
\* necessary to synchronise it or not.
LEMMA LookedAt ==
    ASSUME TasksInv, NEW synced \in BOOLEAN
    PROVE  LET queue == IF synced THEN Synchronized ELSE fDelayQueue
               late  == IF synced THEN 0 ELSE elapsed
           IN  /\ queue \in Queues(AllTasks) /\ queue # <<>>
               /\ late \in Int /\ (late < 0 => setBack)
               /\ TickIsSoon(queue) /\ Tells(queue, late, due, setBack)
               /\ Scheduled(queue) = Scheduled(fDelayQueue)
               /\ Head(queue).delta \in 0 .. Granularity
               /\ Head(queue).task \in AllTasks
               /\ <<Head(queue).task, Head(queue).delta>> \in Timetable(queue)
<1> DEFINE queue == IF synced THEN Synchronized ELSE fDelayQueue
           late  == IF synced THEN 0 ELSE elapsed
<1>1. /\ queue \in Queues(AllTasks)
      /\ late \in Int /\ (late < 0 => setBack)
      /\ TickIsSoon(queue) /\ Tells(queue, late, due, setBack)
      /\ Scheduled(queue) = Scheduled(fDelayQueue)
  <2>1. CASE synced
    BY <2>1, SynchronizeTells DEF TasksInv, TaskTypes, Synchronized
  <2>2. CASE ~synced
    BY <2>2 DEF TasksInv, TaskTypes
  <2> QED BY <2>1, <2>2
<1> HIDE DEF queue, late
<1>2. PICK d \in 0 .. Granularity : <<SchedulerTick, d>> \in Timetable(queue)
  BY <1>1 DEF TickIsSoon
<1>3. queue # <<>>
  <2>1. Len(<<>>) = 0
    OBVIOUS
  <2>2. PICK i \in 1 .. Len(queue) : TRUE
    BY <1>2 DEF Timetable
  <2> QED BY <2>1, <2>2
<1>4. /\ Head(queue).task \in AllTasks /\ Head(queue).delta \in Nat
      /\ <<Head(queue).task, Head(queue).delta>> \in Timetable(queue)
      /\ \A e \in Timetable(queue) : Head(queue).delta <= e[2]
  BY <1>1, <1>3, HeadOfTimetable
<1>5. Head(queue).delta <= d
  BY <1>2, <1>4
<1>6. Head(queue).delta \in 0 .. Granularity
  BY <1>2, <1>4, <1>5, GranularityAssumption
<1> QED BY <1>1, <1>3, <1>4, <1>6 DEF queue, late

\* A task that is scheduled is due after its delay, by the queue and in truth.
LEMMA ScheduleKeepsTasks ==
    ASSUME TasksInv, NEW t \in Tasks, Schedule(t)
    PROVE  TasksInv'
<1>1. /\ t \notin Scheduled(fDelayQueue) /\ t \in AllTasks /\ Delay[t] \in Nat
      /\ fDelayQueue' = AddEntry(Synchronized, t, Delay[t])
      /\ elapsed' = 0
      /\ due' = [due EXCEPT ![t] = Delay[t]]
      /\ setBack' = setBack /\ timeout' = timeout
  BY DelayAssumption DEF Schedule, ScheduleDelayedTask, AllTasks, loopVars
<1>2. /\ Synchronized \in Queues(AllTasks) /\ TickIsSoon(Synchronized)
      /\ Tells(Synchronized, 0, due, setBack)
      /\ Scheduled(Synchronized) = Scheduled(fDelayQueue)
  BY SynchronizeTells DEF TasksInv, TaskTypes, Synchronized
<1>3. due \in [AllTasks -> Nat] /\ setBack \in BOOLEAN /\ timeout \in 0 .. Granularity
  BY DEF TasksInv, TaskTypes
<1>4. /\ fDelayQueue' \in Queues(AllTasks) /\ TickIsSoon(fDelayQueue')
      /\ Tells(fDelayQueue', 0, due', setBack)
  BY <1>1, <1>2, <1>3, AddTells
<1>5. due' \in [AllTasks -> Nat]
  BY <1>1, <1>3
<1> QED BY <1>1, <1>3, <1>4, <1>5 DEF TasksInv, TaskTypes, TickIsSoon, Tells

\* A task that is unscheduled leaves the times of the others alone.
LEMMA UnscheduleKeepsTasks ==
    ASSUME TasksInv, NEW t \in Tasks, Unschedule(t)
    PROVE  TasksInv'
<1>1. /\ fDelayQueue' = RemoveEntry(fDelayQueue, t)
      /\ due' = [due EXCEPT ![t] = 0]
      /\ elapsed' = elapsed /\ setBack' = setBack /\ timeout' = timeout
      /\ t \in AllTasks /\ t # SchedulerTick
  BY TickAssumption DEF Unschedule, loopVars, AllTasks
<1>2. /\ fDelayQueue' \in Queues(AllTasks) /\ TickIsSoon(fDelayQueue')
      /\ Tells(fDelayQueue', elapsed, due, setBack)
      /\ \A e \in Timetable(fDelayQueue') : e[1] # t
  BY <1>1, RemoveTells DEF TasksInv, TaskTypes
<1>3. \A e \in Timetable(fDelayQueue') : due'[e[1]] = due[e[1]]
  <2>1. \A e \in Timetable(fDelayQueue') : e[1] \in AllTasks
    BY <1>2, TimetableType
  <2> QED BY <1>1, <1>2, <2>1 DEF TasksInv, TaskTypes
<1>4. Tells(fDelayQueue', elapsed', due', setBack')
  BY <1>1, <1>2, <1>3 DEF Tells
<1>5. due' \in [AllTasks -> Nat]
  BY <1>1 DEF TasksInv, TaskTypes
<1> QED BY <1>1, <1>2, <1>4, <1>5 DEF TasksInv, TaskTypes, TickIsSoon, Tells

\* The alarm runs the head of the queue only if that is due.
LEMMA AlarmKeepsTasks ==
    ASSUME TasksInv, HandleAlarm
    PROVE  TasksInv' /\ \A t \in Tasks : running' = <<"task", t>> => due[t] = 0
<1> DEFINE synced == Head(fDelayQueue).delta # 0
           queue  == IF synced THEN Synchronized ELSE fDelayQueue
           first  == Head(queue)
           left   == RemoveEntry(queue, first.task)
           late   == IF synced THEN 0 ELSE elapsed
<1>1. /\ queue \in Queues(AllTasks)
      /\ late \in Int /\ (late < 0 => setBack)
      /\ TickIsSoon(queue) /\ Tells(queue, late, due, setBack)
      /\ <<first.task, first.delta>> \in Timetable(queue)
  BY LookedAt
<1>2. /\ setBack' = setBack /\ timeout' = timeout
      /\ due \in [AllTasks -> Nat] /\ setBack \in BOOLEAN
      /\ timeout \in 0 .. Granularity
  BY DEF HandleAlarm, TasksInv, TaskTypes
<1>3. \/ /\ fDelayQueue' = queue /\ elapsed' = late /\ due' = due
         /\ running' = Nobody
      \/ /\ first.task = SchedulerTick
         /\ fDelayQueue' = SchedulerTickTask(Synchronize(left, late))
         /\ elapsed' = 0
         /\ due' = [due EXCEPT ![SchedulerTick] = Granularity]
         /\ running' = Nobody
      \/ /\ first.delta = 0 /\ first.task # SchedulerTick
         /\ fDelayQueue' = left /\ elapsed' = late /\ due' = due
         /\ running' = <<"task", first.task>>
  BY Zenon DEF HandleAlarm, IsDue, Goto, Call
<1> HIDE DEF queue, first, left, late
<1>4. /\ left \in Queues(AllTasks) /\ Tells(left, late, due, setBack)
      /\ first.task \notin Scheduled(left)
      /\ first.task # SchedulerTick => TickIsSoon(left)
  BY <1>1, RemoveTells DEF left
<1>5. \A t : Nobody # <<"task", t>>
  BY DEF Nobody
<1>6. CASE /\ fDelayQueue' = queue /\ elapsed' = late /\ due' = due
           /\ running' = Nobody
  BY <1>1, <1>2, <1>5, <1>6 DEF TasksInv, TaskTypes, TickIsSoon, Tells
<1>7. CASE /\ first.task = SchedulerTick
           /\ fDelayQueue' = SchedulerTickTask(Synchronize(left, late))
           /\ elapsed' = 0
           /\ due' = [due EXCEPT ![SchedulerTick] = Granularity]
           /\ running' = Nobody
  <2> DEFINE sync == Synchronize(left, late)
  <2>1. /\ sync \in Queues(AllTasks) /\ Tells(sync, 0, due, setBack)
        /\ SchedulerTick \notin Scheduled(sync)
    BY <1>1, <1>2, <1>4, <1>7, SynchronizeTells
  <2>2. fDelayQueue' = AddEntry(sync, SchedulerTick, Granularity)
    BY <1>7 DEF SchedulerTickTask
  <2> HIDE DEF sync
  <2>3. SchedulerTick \in AllTasks /\ Granularity \in Nat
    BY GranularityAssumption DEF AllTasks
  <2>4. /\ fDelayQueue' \in Queues(AllTasks) /\ TickIsSoon(fDelayQueue')
        /\ Tells(fDelayQueue', 0, due', setBack)
    BY <1>2, <1>7, <2>1, <2>2, <2>3, AddTells
  <2>5. due' \in [AllTasks -> Nat]
    BY <1>2, <1>7, <2>3
  <2> QED BY <1>2, <1>5, <1>7, <2>4, <2>5 DEF TasksInv, TaskTypes, TickIsSoon, Tells
<1>8. CASE /\ first.delta = 0 /\ first.task # SchedulerTick
           /\ fDelayQueue' = left /\ elapsed' = late /\ due' = due
           /\ running' = <<"task", first.task>>
  <2>1. TasksInv'
    BY <1>1, <1>2, <1>4, <1>8 DEF TasksInv, TaskTypes, TickIsSoon, Tells
  <2>2. due[first.task] = 0
    <3>1. due[first.task] <= 0 /\ due[first.task] \in Nat
      BY <1>1, <1>2, <1>8, TimetableType DEF Tells
    <3> QED BY <3>1
  <2> QED BY <1>8, <2>1, <2>2
<1> QED BY <1>3, <1>6, <1>7, <1>8

\* As time passes, tasks get due as fast by the queue as in truth.
LEMMA TimeKeepsTasks ==
    ASSUME TasksInv, TimePasses
    PROVE  TasksInv'
<1>1. /\ elapsed' = elapsed + 1 /\ setBack' = setBack /\ fDelayQueue' = fDelayQueue
      /\ due' = [t \in AllTasks |-> Remaining(due[t] - 1)]
      /\ timeout' = Remaining(timeout - 1)
  BY DEF TimePasses
<1>2. /\ elapsed \in Int /\ due \in [AllTasks -> Nat] /\ timeout \in 0 .. Granularity
      /\ fDelayQueue \in Queues(AllTasks) /\ TickIsSoon(fDelayQueue)
      /\ elapsed < 0 => setBack
      /\ setBack \in BOOLEAN
  BY DEF TasksInv, TaskTypes
<1>3. due' \in [AllTasks -> Nat]
  BY <1>1, <1>2 DEF Remaining
<1>4. timeout' \in 0 .. Granularity
  BY <1>1, <1>2, GranularityAssumption DEF Remaining
<1>5. ASSUME NEW e \in Timetable(fDelayQueue)
      PROVE  /\ due'[e[1]] <= e[2]
             /\ due'[e[1]] <= Remaining(e[2] - (elapsed + 1))
             /\ Remaining(e[2] - (elapsed + 1)) > due'[e[1]] => setBack
  <2>1. /\ due[e[1]] <= e[2]
        /\ due[e[1]] <= Remaining(e[2] - elapsed)
        /\ Remaining(e[2] - elapsed) > due[e[1]] => setBack
    BY DEF TasksInv, Tells
  <2>2. e[1] \in AllTasks /\ e[2] \in Nat
    BY <1>2, TimetableType
  <2>3. due[e[1]] \in Nat /\ due'[e[1]] = Remaining(due[e[1]] - 1)
    BY <1>1, <1>2, <2>2
  <2> QED BY <1>2, <2>1, <2>2, <2>3 DEF Remaining
<1>6. Tells(fDelayQueue, elapsed + 1, due', setBack)
  BY <1>5 DEF Tells
<1>7. elapsed + 1 \in Int /\ (elapsed + 1 < 0 => setBack)
  BY <1>2
<1> QED BY <1>1, <1>2, <1>3, <1>4, <1>6, <1>7 DEF TasksInv, TaskTypes, TickIsSoon, Tells

\* A clock that is set back makes entries due late, never early.
LEMMA ClockKeepsTasks ==
    ASSUME TasksInv, ClockSetBack
    PROVE  TasksInv'
<1>1. PICK back \in 1 .. MaxBack : elapsed' = elapsed - back
  BY DEF ClockSetBack
<1>2. /\ setBack' = TRUE /\ fDelayQueue' = fDelayQueue /\ due' = due
      /\ timeout' = timeout
  BY DEF ClockSetBack, loopVars
<1>3. /\ elapsed \in Int /\ due \in [AllTasks -> Nat] /\ timeout \in 0 .. Granularity
      /\ fDelayQueue \in Queues(AllTasks) /\ TickIsSoon(fDelayQueue)
      /\ back \in Nat
  BY <1>1, TimeAssumption DEF TasksInv, TaskTypes
<1>4. elapsed - back \in Int
  BY <1>3
<1>5. ASSUME NEW e \in Timetable(fDelayQueue)
      PROVE  /\ due[e[1]] <= e[2]
             /\ due[e[1]] <= Remaining(e[2] - (elapsed - back))
  <2>1. /\ due[e[1]] <= e[2]
        /\ due[e[1]] <= Remaining(e[2] - elapsed)
    BY DEF TasksInv, Tells
  <2>2. e[1] \in AllTasks /\ e[2] \in Nat /\ due[e[1]] \in Nat
    BY <1>3, TimetableType
  <2> QED BY <1>3, <2>1, <2>2 DEF Remaining
<1>6. Tells(fDelayQueue, elapsed - back, due, TRUE)
  BY <1>5 DEF Tells
<1> QED BY <1>1, <1>2, <1>3, <1>4, <1>6 DEF TasksInv, TaskTypes, TickIsSoon, Tells

\* select() is told to return when the head of the queue is due.
LEMMA SelectKeepsTasks ==
    ASSUME TasksInv, BeginSelect
    PROVE  TasksInv'
<1> DEFINE synced == Head(fDelayQueue).delta # 0
           queue  == IF synced THEN Synchronized ELSE fDelayQueue
           late   == IF synced THEN 0 ELSE elapsed
<1>1. /\ queue \in Queues(AllTasks)
      /\ late \in Int /\ (late < 0 => setBack)
      /\ TickIsSoon(queue) /\ Tells(queue, late, due, setBack)
      /\ Head(queue).delta \in 0 .. Granularity
  BY LookedAt
<1>2. /\ fDelayQueue' = queue /\ elapsed' = late /\ timeout' = Head(queue).delta
      /\ due' = due /\ setBack' = setBack
  BY Zenon DEF BeginSelect
<1>3. setBack \in BOOLEAN /\ due \in [AllTasks -> Nat]
  BY DEF TasksInv, TaskTypes
<1> HIDE DEF queue, late
<1> QED BY <1>1, <1>2, <1>3 DEF TasksInv, TaskTypes, TickIsSoon, Tells

\* No step makes the queue wrong, and a task that one runs is due.
LEMMA TasksStep ==
    TasksInv /\ [Next]_vars =>
        /\ TasksInv'
        /\ \A t \in Tasks : HandleAlarm /\ running' = <<"task", t>> => due[t] = 0
<1> SUFFICES ASSUME TasksInv, [Next]_vars
             PROVE  TasksInv'
  BY AlarmKeepsTasks
<1>1. CASE UNCHANGED taskVars /\ (timeout' = timeout \/ timeout' = 0)
  <2>1. timeout' \in 0 .. Granularity
    BY <1>1, GranularityAssumption DEF TasksInv, TaskTypes
  <2>2. /\ fDelayQueue' = fDelayQueue /\ elapsed' = elapsed /\ setBack' = setBack
        /\ due' = due
    BY <1>1 DEF taskVars
  <2> QED BY <2>1, <2>2 DEF TasksInv, TaskTypes, TickIsSoon, Tells
<1>2. ASSUME NEW o \in Sources,
             CreateEventTrigger(o) \/ DeleteEventTrigger(o) \/ TriggerEvent(o)
      PROVE  TasksInv'
  BY <1>1, <1>2 DEF CreateEventTrigger, DeleteEventTrigger, TriggerEvent, loopVars
<1>3. CASE DoEventLoop \/ LeaveLoop \/ HandleTrigger \/ HandlerReturns
  BY <1>1, <1>3 DEF DoEventLoop, LeaveLoop, HandleTrigger, HandlerReturns
<1>4. CASE SelectReturns \/ Signal
  BY <1>1, <1>4 DEF SelectReturns, Signal, HandleSocket, loopVars
<1>5. CASE BeginSelect
  BY <1>5, SelectKeepsTasks
<1>6. CASE HandleAlarm
  BY <1>6, AlarmKeepsTasks
<1>7. ASSUME NEW t \in Tasks, Schedule(t) \/ Unschedule(t)
      PROVE  TasksInv'
  BY <1>7, ScheduleKeepsTasks, UnscheduleKeepsTasks
<1>8. ASSUME NEW s \in Sockets, Accept(s) \/ Register(s) \/ Close(s) \/ BecomesReadable(s)
      PROVE  TasksInv'
  BY <1>1, <1>8 DEF Accept, Register, Close, BecomesReadable, loopVars
<1>9. CASE TimePasses
  BY <1>9, TimeKeepsTasks
<1>10. CASE ClockSetBack
  BY <1>10, ClockKeepsTasks
<1>11. CASE UNCHANGED vars
  BY <1>1, <1>11 DEF vars, loopVars
<1> QED
  BY <1>2, <1>3, <1>4, <1>5, <1>6, <1>7, <1>8, <1>9, <1>10, <1>11
     DEF Next, MainThread

-----------------------------------------------------------------------------
(***************************************************************************)
(* The loop: where it is, and what it has handled.                         *)
(***************************************************************************)

\* What a handler may be one of.
SocketHandlers  == {"socket"} \X Sockets
TriggerHandlers == {"trigger"} \X Triggers
TaskHandlers    == {"task"} \X Tasks
Handlers == {Nobody} \union SocketHandlers \union TriggerHandlers \union TaskHandlers

\* A handler is called from these places only.
CallPlaces == {"socket", "trigger", "task"}

LoopInv ==
    /\ loopAt \in Places
    /\ running \in Handlers
    /\ InHandler => loopAt \in CallPlaces
    /\ watcher \in BOOLEAN
    /\ elapsed \in -MaxBack .. MaxLag
    /\ fLastHandledSocketNum \in Sockets \union {-1}
    /\ readable \subseteq Sockets

\* What a step needs to know of the other parts.
AllInv == TriggersInv /\ SocketsInv /\ TasksInv /\ LoopInv

\* A list turned round is of the same elements.
LEMMA TurnedRound ==
    ASSUME NEW S, NEW q \in Seq(S), NEW past \in 0 .. Len(q)
    PROVE  SubSeq(q, past + 1, Len(q)) \o SubSeq(q, 1, past) \in Seq(S)
<1>1. SubSeq(q, past + 1, Len(q)) \in Seq(S)
  BY SubSeqProperties
<1>2. SubSeq(q, 1, past) \in Seq(S)
  BY SubSeqProperties
<1> QED BY <1>1, <1>2

\* A search in a list finds one of its elements, or none.
FirstIn(q, T) == SelectInSeq(q, LAMBDA s : s \in T)

LEMMA FoundInList ==
    ASSUME NEW S, NEW q \in Seq(S), NEW T, FirstIn(q, T) # 0
    PROVE  q[FirstIn(q, T)] \in S
<1> DEFINE found == {i \in 1 .. Len(q) : q[i] \in T}
<1>1. CASE found = {}
  BY <1>1 DEF FirstIn, SelectInSeq
<1>2. CASE found # {}
  <2>1. FirstIn(q, T) = Min(found)
    BY <1>2 DEF FirstIn, SelectInSeq
  <2>2. Min(found) \in found
    <3>1. found \subseteq Nat
      OBVIOUS
    <3> HIDE DEF found
    <3>2. \E n \in found : \A m \in found : n <= m
      BY <1>2, <3>1, LeastNumber
    <3> QED BY <3>2 DEF Min
  <2>3. Min(found) \in 1 .. Len(q)
    BY <2>2
  <2> HIDE DEF found
  <2>4. q[Min(found)] \in S
    BY <2>3
  <2> QED BY <2>1, <2>4
<1> QED BY <1>1, <1>2

\* The order in which the handlers are looked at is theirs, turned round.
LEMMA InOrderType ==
    ASSUME SocketsInv
    PROVE  HandlersInOrder \in Seq(Sockets)
<1> DEFINE past == IF fLastHandledSocketNum \in Range(fHandlers)
                   THEN CHOOSE i \in DOMAIN fHandlers :
                            fHandlers[i] = fLastHandledSocketNum
                   ELSE 0
           S == Sockets
<1>1. /\ fHandlers \in Seq(S) /\ Len(fHandlers) \in Nat
      /\ DOMAIN fHandlers = 1 .. Len(fHandlers)
  BY DEF SocketsInv, SocketTypes
<1>2. past \in 0 .. Len(fHandlers)
  BY <1>1 DEF Range
<1> HIDE DEF past, S
<1>3. SubSeq(fHandlers, past + 1, Len(fHandlers)) \o SubSeq(fHandlers, 1, past)
          \in Seq(S)
  BY <1>1, <1>2, TurnedRound
<1> QED BY <1>3 DEF HandlersInOrder, past, S

\* At first no handler runs.
LEMMA LoopInit == Init => LoopInv
<1> SUFFICES ASSUME Init
             PROVE  LoopInv
  OBVIOUS
<1>1. loopAt \in Places /\ watcher \in BOOLEAN
  BY DEF Init, Places
<1>2. running \in Handlers /\ ~InHandler
  BY DEF Init, Handlers, InHandler
<1>3. elapsed \in -MaxBack .. MaxLag
  BY TimeAssumption DEF Init
<1>4. fLastHandledSocketNum \in Sockets \union {-1} /\ readable \subseteq Sockets
  BY DEF Init
<1> QED BY <1>1, <1>2, <1>3, <1>4 DEF LoopInv

\* The handler that is called is that of a socket in the list.
LEMMA SocketKeepsLoop ==
    ASSUME AllInv, NEW set, HandleSocket(set), watcher' \in BOOLEAN
    PROVE  LoopInv'
<1> DEFINE ready == SelectInSeq(HandlersInOrder,
                                LAMBDA s : s \in set \intersect fReadSet)
           next  == HandlersInOrder[ready]
<1>1. ready # 0 => next \in Sockets
  <2> DEFINE q == HandlersInOrder
             S == Sockets
             T == set \intersect fReadSet
  <2>1. q \in Seq(S)
    BY InOrderType DEF AllInv
  <2>2. ready = FirstIn(q, T)
    BY DEF FirstIn
  <2> HIDE DEF ready, q, S, T
  <2>3. ready # 0 => q[ready] \in S
    BY <2>1, <2>2, FoundInList
  <2> QED BY <2>3 DEF q, S
<1>2. elapsed' = elapsed
  BY DEF HandleSocket, taskVars
<1>3. CASE ready = 0
  <2>1. fLastHandledSocketNum' = -1 /\ Goto("triggers") /\ readable' = readable
    BY <1>3 DEF HandleSocket
  <2>2. loopAt' \in Places /\ running' \in Handlers /\ ~InHandler'
    BY <2>1 DEF Goto, Places, Handlers, InHandler
  <2> QED BY <1>2, <2>1, <2>2 DEF AllInv, LoopInv
<1>4. CASE ready # 0
  <2>1. /\ fLastHandledSocketNum' = next
        /\ Call("socket", <<"socket", next>>)
        /\ readable' = readable \ {next}
    BY <1>4 DEF HandleSocket
  <2>2. next \in Sockets
    BY <1>1, <1>4
  <2> HIDE DEF ready, next
  <2>3. <<"socket", next>> \in Handlers
    BY <2>2 DEF Handlers, SocketHandlers
  <2>4. loopAt' \in Places /\ loopAt' \in CallPlaces /\ running' \in Handlers
    BY <2>1, <2>3 DEF Call, Places, CallPlaces
  <2> QED BY <1>2, <2>1, <2>2, <2>4 DEF AllInv, LoopInv
<1> QED BY <1>3, <1>4

\* The handler of a trigger is called for one of those raised.
LEMMA TriggerKeepsLoop ==
    ASSUME AllInv, HandleTrigger
    PROVE  LoopInv'
<1> DEFINE n == NextAwaiting(fTriggersAwaitingHandling)
<1>1. /\ watcher' = watcher /\ elapsed' = elapsed
      /\ fLastHandledSocketNum' = fLastHandledSocketNum /\ readable' = readable
  BY DEF HandleTrigger, taskVars, socketVars
<1>2. fTriggersAwaitingHandling # {} => n \in Triggers
  BY TheNearest DEF NextAwaiting, AllInv, TriggersInv, TriggerTypes
<1>3. \/ loopAt' = "alarm" /\ running' = Nobody
      \/ /\ fTriggersAwaitingHandling # {}
         /\ loopAt' = "trigger" /\ running' = <<"trigger", n>>
  BY DEF HandleTrigger, Goto, Call
<1> HIDE DEF n
<1>4. CASE loopAt' = "alarm" /\ running' = Nobody
  <2>1. loopAt' \in Places /\ running' \in Handlers /\ ~InHandler'
    BY <1>4 DEF Places, Handlers, InHandler
  <2> QED BY <1>1, <2>1 DEF AllInv, LoopInv
<1>5. CASE /\ fTriggersAwaitingHandling # {}
           /\ loopAt' = "trigger" /\ running' = <<"trigger", n>>
  <2>1. running' \in Handlers
    BY <1>2, <1>5 DEF Handlers, TriggerHandlers
  <2>2. loopAt' \in CallPlaces /\ loopAt' \in Places
    BY <1>5 DEF Places, CallPlaces
  <2> QED BY <1>1, <2>1, <2>2 DEF AllInv, LoopInv
<1> QED BY <1>3, <1>4, <1>5

\* The handler of a task is called for the first in the queue.
LEMMA AlarmKeepsLoop ==
    ASSUME AllInv, HandleAlarm
    PROVE  LoopInv'
<1> DEFINE synced == Head(fDelayQueue).delta # 0
           queue  == IF synced THEN Synchronized ELSE fDelayQueue
           first  == Head(queue)
           late   == IF synced THEN 0 ELSE elapsed
<1>1. /\ watcher' = watcher
      /\ fLastHandledSocketNum' = fLastHandledSocketNum /\ readable' = readable
  BY DEF HandleAlarm, socketVars
<1>2. first.task \in AllTasks
  BY LookedAt DEF AllInv
<1>3. elapsed' \in {0, elapsed}
  BY DEF HandleAlarm
<1>4. \/ Goto("step")
      \/ first.task # SchedulerTick /\ Call("task", <<"task", first.task>>)
  BY DEF HandleAlarm
<1> HIDE DEF first
<1>5. first.task # SchedulerTick => <<"task", first.task>> \in Handlers
  BY <1>2 DEF Handlers, TaskHandlers, AllTasks
<1>6. loopAt' \in Places /\ running' \in Handlers /\ (InHandler' => loopAt' \in CallPlaces)
  BY <1>4, <1>5 DEF Goto, Call, Places, CallPlaces, InHandler, Handlers
<1>7. elapsed' \in -MaxBack .. MaxLag
  BY <1>3, TimeAssumption DEF AllInv, LoopInv
<1> QED BY <1>1, <1>6, <1>7 DEF AllInv, LoopInv

\* A handler that returns was called from one of the three places.
LEMMA ReturnKeepsLoop ==
    ASSUME AllInv, HandlerReturns
    PROVE  LoopInv'
<1>1. /\ watcher' = watcher /\ elapsed' = elapsed
      /\ fLastHandledSocketNum' = fLastHandledSocketNum /\ readable' = readable
  BY DEF HandlerReturns, taskVars, socketVars
<1>2. loopAt' \in Places /\ running' = Nobody
  BY DEF HandlerReturns, AllInv, LoopInv, CallPlaces, Goto, Places
<1>3. running' \in Handlers /\ ~InHandler'
  BY <1>2 DEF Handlers, InHandler
<1> QED BY <1>1, <1>2, <1>3 DEF AllInv, LoopInv

\* No step leads the loop astray.
LEMMA LoopStep == AllInv /\ [Next]_vars => LoopInv'
<1> SUFFICES ASSUME AllInv, [Next]_vars
             PROVE  LoopInv'
  OBVIOUS
<1> USE DEF AllInv
<1>1. CASE /\ UNCHANGED <<loopAt, running, watcher, fLastHandledSocketNum>>
           /\ elapsed' \in -MaxBack .. MaxLag
           /\ readable' \subseteq Sockets
  BY <1>1 DEF LoopInv, InHandler
<1>2. CASE UNCHANGED <<loopVars, watcher, taskVars, socketVars>>
  BY <1>1, <1>2 DEF loopVars, taskVars, socketVars, LoopInv
<1>3. ASSUME NEW o \in Sources,
             CreateEventTrigger(o) \/ DeleteEventTrigger(o) \/ TriggerEvent(o)
      PROVE  LoopInv'
  BY <1>2, <1>3 DEF CreateEventTrigger, DeleteEventTrigger, TriggerEvent
<1>4. CASE DoEventLoop \/ LeaveLoop \/ BeginSelect
  <2>1. /\ fLastHandledSocketNum' = fLastHandledSocketNum /\ readable' = readable
        /\ watcher' = watcher
    BY <1>4 DEF DoEventLoop, LeaveLoop, BeginSelect, socketVars
  <2>2. elapsed' \in {0, elapsed}
    BY <1>4 DEF DoEventLoop, LeaveLoop, BeginSelect, taskVars
  <2>3. loopAt' \in Places /\ running' = Nobody
    BY <1>4 DEF DoEventLoop, LeaveLoop, BeginSelect, Goto, Places
  <2>4. elapsed' \in -MaxBack .. MaxLag
    BY <2>2, TimeAssumption DEF LoopInv
  <2>5. running' \in Handlers /\ ~InHandler'
    BY <2>3 DEF Handlers, InHandler
  <2> QED BY <2>1, <2>3, <2>4, <2>5 DEF LoopInv
<1>5. CASE SelectReturns
  BY <1>5, SocketKeepsLoop DEF SelectReturns, LoopInv
<1>6. CASE Signal
  <2>1. CASE loopAt = "select" /\ HandleSocket(fReadSet)
    BY <1>6, <2>1, SocketKeepsLoop DEF Signal
  <2>2. CASE UNCHANGED <<loopVars, taskVars, socketVars, triggerVars>>
    BY <1>6, <2>2 DEF Signal, loopVars, taskVars, socketVars, LoopInv, InHandler
  <2> QED BY <1>6, <2>1, <2>2 DEF Signal
<1>7. CASE HandleTrigger
  BY <1>7, TriggerKeepsLoop
<1>8. CASE HandleAlarm
  BY <1>8, AlarmKeepsLoop
<1>9. CASE HandlerReturns
  BY <1>9, ReturnKeepsLoop
<1>10. ASSUME NEW t \in Tasks, Schedule(t) \/ Unschedule(t)
       PROVE  LoopInv'
  <2>1. UNCHANGED <<loopVars, watcher, socketVars>>
    BY <1>10 DEF Schedule, Unschedule
  <2>2. elapsed' \in {0, elapsed}
    BY <1>10 DEF Schedule, Unschedule, ScheduleDelayedTask
  <2>3. elapsed' \in -MaxBack .. MaxLag
    BY <2>2, TimeAssumption DEF LoopInv
  <2> QED BY <1>1, <2>1, <2>3 DEF loopVars, socketVars, LoopInv
<1>11. ASSUME NEW s \in Sockets, Accept(s) \/ Register(s) \/ Close(s) \/ BecomesReadable(s)
       PROVE  LoopInv'
  <2>1. /\ UNCHANGED <<loopVars, watcher, elapsed, fLastHandledSocketNum>>
        /\ readable' \in {readable, readable \ {s}, readable \union {s}}
    BY <1>11 DEF Accept, Register, Close, BecomesReadable, taskVars
  <2>2. readable' \subseteq Sockets
    BY <2>1 DEF LoopInv
  <2> QED BY <1>1, <2>1, <2>2 DEF loopVars, LoopInv
<1>12. CASE TimePasses
  <2>1. elapsed' \in -MaxBack .. MaxLag
    BY <1>12, TimeAssumption DEF TimePasses, LoopInv
  <2> QED BY <1>1, <1>12, <2>1 DEF TimePasses, socketVars, LoopInv
<1>13. CASE ClockSetBack
  <2>1. elapsed >= 0
    BY <1>13 DEF ClockSetBack, TasksInv, TaskTypes
  <2>2. elapsed' \in -MaxBack .. MaxLag
    BY <1>13, <2>1, TimeAssumption DEF ClockSetBack, LoopInv
  <2> QED BY <1>1, <1>13, <2>2 DEF ClockSetBack, loopVars, socketVars, LoopInv
<1>14. CASE UNCHANGED vars
  BY <1>2, <1>14 DEF vars
<1> QED
  BY <1>3, <1>4, <1>5, <1>6, <1>7, <1>8, <1>9, <1>10, <1>11, <1>12, <1>13, <1>14
     DEF Next, MainThread

-----------------------------------------------------------------------------
\* However many cameras there are, more than triggers too, createEventTrigger
\* gives no trigger to two of them, and those that are raised have a source
\* that their handler is called for.
THEOREM TriggersHaveOneOwner == Spec => []TriggersAreOwned
<1>1. TriggersInv => TriggersAreOwned
  BY DEF TriggersInv
<1> QED BY <1>1, TriggersInit, TriggersStep, PTL DEF Spec

\* Whatever connections are accepted and closed, in whatever order of socket
\* numbers, select() watches all of them and the listening socket, and never
\* one that has been closed.
THEOREM SelectWatchesTheRegistered == Spec => []RegisteredAreWatched
<1>1. SocketsInv => RegisteredAreWatched
  BY DEF SocketsInv
<1> QED BY <1>1, SocketsInit, SocketsStep, PTL DEF Spec

\* Whatever is scheduled and unscheduled, with whatever delays, the sums of the
\* deltas are the times at which tasks are due; with the clock set back, they
\* are due no earlier than that.
THEOREM TheQueueKeepsTime == Spec => []QueueKeepsTime
<1>1. TasksInv => QueueKeepsTime
  <2> SUFFICES ASSUME TasksInv, NEW i \in DOMAIN fDelayQueue
               PROVE  LET left == Remaining(DueTime(fDelayQueue, i) - elapsed)
                          true == due[fDelayQueue[i].task]
                      IN  left >= true /\ (left > true => setBack)
    BY DEF QueueKeepsTime
  <2> DEFINE e == <<fDelayQueue[i].task, DueTime(fDelayQueue, i)>>
  <2>1. i \in 1 .. Len(fDelayQueue)
    BY EntryTypes DEF TasksInv, TaskTypes, Queues
  <2>2. e \in Timetable(fDelayQueue)
    BY <2>1 DEF Timetable
  <2>3. /\ due[e[1]] <= Remaining(e[2] - elapsed)
        /\ Remaining(e[2] - elapsed) > due[e[1]] => setBack
    <3> HIDE DEF e
    <3> QED BY <2>2 DEF TasksInv, Tells
  <2>4. /\ due[e[1]] \in Nat /\ Remaining(e[2] - elapsed) \in Nat
    <3>1. e[1] \in AllTasks /\ e[2] \in Nat
      <4> HIDE DEF e
      <4> QED BY <2>2, TimetableType DEF TasksInv, TaskTypes
    <3> HIDE DEF e
    <3> QED BY <3>1 DEF TasksInv, TaskTypes, Remaining
  <2> QED BY <2>3, <2>4
<1> QED BY <1>1, TasksInit, TasksStep, PTL DEF Spec

\* No task runs before its delay is over, whatever else is in the queue and
\* even if the clock is set back.
THEOREM NoTaskRunsEarly == Spec => NeverEarly
<1>1. TasksInv /\ [Next]_vars =>
          [\A t \in Tasks : HandleAlarm /\ running' = <<"task", t>> => due[t] = 0]_vars
  BY TasksStep
<1>2. TasksInv /\ [Next]_vars => TasksInv'
  BY TasksStep
<1> QED BY <1>1, <1>2, TasksInit, PTL DEF Spec, NeverEarly

\* A trigger, which does not wake the loop, waits for its granularity at most:
\* the scheduler's own task is always in the queue, and due within that time.
THEOREM TheLoopLooksUp == Spec => []SleepIsBounded
<1>1. TasksInv => SleepIsBounded
  BY GranularityAssumption DEF TasksInv, TaskTypes, SleepIsBounded
<1>2. TasksInv /\ [Next]_vars => TasksInv'
  BY TasksStep
<1> QED BY <1>1, <1>2, TasksInit, PTL DEF Spec

\* Every variable keeps its type, and every counter its bounds: a handler that
\* runs is that of a socket, a trigger or a task there is; the clock is behind
\* by no more than it was set back; fMaxNumSockets, which goes up and down with
\* the sockets, does not pass their number.
THEOREM TypeCorrect == Spec => []TypeOK
<1>1. Init => AllInv
  BY TriggersInit, SocketsInit, TasksInit, LoopInit DEF AllInv
<1>2. AllInv /\ [Next]_vars => AllInv'
  BY TriggersStep, SocketsStep, TasksStep, LoopStep DEF AllInv
<1>3. AllInv => TypeOK
  <2> SUFFICES ASSUME AllInv
               PROVE  TypeOK
    OBVIOUS
  <2>1. fDelayQueue \in Seq([task : AllTasks, delta : Nat])
    BY DEF AllInv, TasksInv, TaskTypes, Queues, Entries
  <2>2. timeout \in Nat
    BY GranularityAssumption DEF AllInv, TasksInv, TaskTypes
  <2>3. running \in {Nobody} \union ({"socket"} \X Sockets)
                   \union ({"trigger"} \X Triggers) \union ({"task"} \X Tasks)
    BY Zenon DEF AllInv, LoopInv, Handlers, SocketHandlers, TriggerHandlers, TaskHandlers
  <2> HIDE DEF Sockets, Triggers, Sources
  <2>4. /\ loopAt \in Places /\ elapsed \in -MaxBack .. MaxLag
        /\ watcher \in BOOLEAN /\ readable \subseteq Sockets
        /\ fLastHandledSocketNum \in Sockets \union {-1}
    BY DEF AllInv, LoopInv
  <2>5. setBack \in BOOLEAN /\ due \in [AllTasks -> Nat]
    BY DEF AllInv, TasksInv, TaskTypes
  <2>6. /\ fHandlers \in Seq(Sockets) /\ fReadSet \subseteq Sockets
        /\ fMaxNumSockets \in 0 .. NumSockets
    BY DEF AllInv, SocketsInv, SocketTypes
  <2>7. TriggerTypes
    BY DEF AllInv, TriggersInv
  <2> QED BY <2>1, <2>2, <2>3, <2>4, <2>5, <2>6, <2>7, Zenon DEF TypeOK, TriggerTypes
<1> QED BY <1>1, <1>2, <1>3, PTL DEF Spec
=============================================================================
