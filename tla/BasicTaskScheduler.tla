------------------------- MODULE BasicTaskScheduler -------------------------
(***************************************************************************)
(* live555's event loop: one thread that sleeps in select(), and then      *)
(* calls the handler of one readable socket, of one event trigger and of   *)
(* one delayed task.                                                       *)
(*                                                                         *)
(* What a handler does is left open: it may take time, schedule and        *)
(* unschedule tasks, register sockets and give them up, in any order, and  *)
(* it returns.  Meanwhile sockets become readable, other threads raise     *)
(* triggers, and a signal may end the loop.                                *)
(*                                                                         *)
(* Time is counted in units of the scheduler's granularity divided by      *)
(* Granularity.  No point in time is part of the state, only what is left  *)
(* or has passed.                                                          *)
(***************************************************************************)
EXTENDS DelayQueue, FiniteSets

CONSTANTS
    Tasks,          \* the delayed tasks of the server's objects
    Delay,          \* by task: the delay it is scheduled with
    Granularity,    \* fMaxSchedulerGranularity
    NumSockets,     \* sockets 0 .. NumSockets - 1; the server listens on 0
    NumTriggers,    \* MAX_NUM_EVENT_TRIGGERS
    NumSources,     \* the cameras' sources, which ask for a trigger each
    MaxLag,         \* bound on the time that passes between two looks at the clock
    MaxBack         \* bound on how far the clock is set back, once

ASSUME DelayAssumption == Delay \in [Tasks -> Nat]
ASSUME GranularityAssumption == Granularity \in Nat \ {0}
ASSUME SocketsAssumption == NumSockets \in Nat \ {0}
ASSUME TriggersAssumption == NumTriggers \in Nat \ {0} /\ NumSources \in Nat
ASSUME TimeAssumption == MaxLag \in Nat \ {0} /\ MaxBack \in Nat

SchedulerTick == "schedulerTickTask"
ASSUME TickAssumption == SchedulerTick \notin Tasks

AllTasks    == Tasks \union {SchedulerTick}
Sockets     == 0 .. NumSockets - 1
Connections == Sockets \ {0}
Triggers    == 1 .. NumTriggers     \* numbers; 0 is the identifier of none
Sources     == 1 .. NumSources

VARIABLES
    loopAt,     \* where the main thread is, one of Places
    running,    \* what the handler that runs is a handler of
    watcher,    \* the loop's watch variable is set
    fDelayQueue,
    elapsed,    \* what the clock shows beyond fLastSyncTime
    setBack,    \* the clock was set back
    due,        \* by task: how long until it is due in truth, not by the clock
    timeout,    \* while in select(): how long it will still sleep
    fHandlers,              \* the registered sockets, as in the list
    fReadSet, fMaxNumSockets, fLastHandledSocketNum,
    readable,               \* the sockets that have something to read
    fTriggeredEventHandlers,    \* the numbers of the triggers with a handler
    fTriggersAwaitingHandling,  \* as a set of numbers
    fLastUsedTriggerNum,        \* fLastUsedTriggerMask says the same
    eventTriggerId              \* by source: the number of its trigger

taskVars == <<fDelayQueue, elapsed, setBack, due>>
socketVars ==
    <<fHandlers, fReadSet, fMaxNumSockets, fLastHandledSocketNum, readable>>
tableVars == <<fTriggeredEventHandlers, eventTriggerId>>
triggerVars ==
    <<tableVars, fTriggersAwaitingHandling, fLastUsedTriggerNum>>
loopVars == <<loopAt, running, timeout>>
vars == <<loopVars, watcher, taskVars, socketVars, triggerVars>>

Places == {"setup", "step", "select", "socket", "triggers", "trigger", "alarm",
           "task", "ended"}

Nobody == <<"nobody", 0>>

-----------------------------------------------------------------------------
(***************************************************************************)
(* Delayed tasks.                                                          *)
(***************************************************************************)

\* The clock is read, and the queue brought up to date.
Synchronized == Synchronize(fDelayQueue, elapsed)

\* scheduleDelayedTask
ScheduleDelayedTask(task, delay) ==
    /\ fDelayQueue' = AddEntry(Synchronized, task, delay)
    /\ elapsed' = 0
    /\ due' = [due EXCEPT ![task] = delay]

\* Mutant: it takes its time.
TickLate(queue) == AddEntry(queue, SchedulerTick, 2 * Granularity)

\* schedulerTickTask: it only schedules itself again.
SchedulerTickTask(queue) == AddEntry(queue, SchedulerTick, Granularity)

-----------------------------------------------------------------------------
(***************************************************************************)
(* Sockets.                                                                *)
(***************************************************************************)

\* Mutant: the number of the highest socket is taken for the count of sockets.
SetBackgroundHandlingOffByOne(s) ==
    /\ fHandlers' = IF s \in Range(fHandlers) THEN fHandlers
                    ELSE <<s>> \o fHandlers
    /\ fReadSet' = fReadSet \union {s}
    /\ fMaxNumSockets' = IF s > fMaxNumSockets THEN s ELSE fMaxNumSockets

\* setBackgroundHandling with a condition set: a new handler is the first in
\* the list.  (That of a socket which has one is replaced in its place.)
SetBackgroundHandling(s) ==
    /\ fHandlers' = IF s \in Range(fHandlers) THEN fHandlers
                    ELSE <<s>> \o fHandlers
    /\ fReadSet' = fReadSet \union {s}
    /\ fMaxNumSockets' = IF s + 1 > fMaxNumSockets THEN s + 1
                         ELSE fMaxNumSockets

\* setBackgroundHandling without: the handler, if there is one, is cleared.
DisableBackgroundHandling(s) ==
    /\ \/ s \notin Range(fHandlers) /\ UNCHANGED fHandlers
       \/ \E i \in DOMAIN fHandlers :
              fHandlers[i] = s /\ fHandlers' = RemoveAt(fHandlers, i)
    /\ fReadSet' = fReadSet \ {s}
    /\ fMaxNumSockets' = IF s + 1 = fMaxNumSockets THEN fMaxNumSockets - 1
                         ELSE fMaxNumSockets

\* Mutant: the search always begins at the head of the list.
HandlersFromHead == fHandlers

\* The handlers in the order they are looked at: those past the last one
\* handled come first.
HandlersInOrder ==
    LET last == fLastHandledSocketNum
        past == IF last \in Range(fHandlers)
                THEN CHOOSE i \in DOMAIN fHandlers : fHandlers[i] = last
                ELSE 0
    IN  SubSeq(fHandlers, past + 1, Len(fHandlers)) \o SubSeq(fHandlers, 1, past)

-----------------------------------------------------------------------------
(***************************************************************************)
(* Event triggers.                                                         *)
(***************************************************************************)

\* Mutant: whether a number is free is not looked at.
FreeTriggersAll == Triggers

FreeTriggers == Triggers \ fTriggeredEventHandlers

\* How far a trigger is from the one last used, going round the table.
Distance(n) ==
    IF n > fLastUsedTriggerNum THEN n - fLastUsedTriggerNum
    ELSE n - fLastUsedTriggerNum + NumTriggers

\* The first of a set of triggers after the one last used.
NextTrigger(set) ==
    CHOOSE n \in set : \A m \in set : Distance(n) <= Distance(m)

\* createEventTrigger, by the constructors of the sources in their order.  If
\* all triggers are in use it returns 0: the source does not look at it, and
\* nothing it signals is ever handled.
CreateEventTrigger(o) ==
    /\ loopAt = "setup"
    /\ eventTriggerId[o] = 0
    /\ \A p \in 1 .. o - 1 : eventTriggerId[p] # 0
    /\ FreeTriggers # {}
    /\ LET n == NextTrigger(FreeTriggers)
       IN  /\ fTriggeredEventHandlers' = fTriggeredEventHandlers \union {n}
           /\ fLastUsedTriggerNum' = n
           /\ eventTriggerId' = [eventTriggerId EXCEPT ![o] = n]
    /\ UNCHANGED <<loopVars, watcher, taskVars, socketVars,
                   fTriggersAwaitingHandling>>

\* deleteEventTrigger, by a source that is closed.
DeleteEventTrigger(o) ==
    /\ loopAt = "ended"
    /\ eventTriggerId[o] # 0
    /\ fTriggersAwaitingHandling' =
           fTriggersAwaitingHandling \ {eventTriggerId[o]}
    /\ fTriggeredEventHandlers' =
           fTriggeredEventHandlers \ {eventTriggerId[o]}
    /\ eventTriggerId' = [eventTriggerId EXCEPT ![o] = 0]
    /\ UNCHANGED <<loopVars, watcher, taskVars, socketVars,
                   fLastUsedTriggerNum>>

\* triggerEvent, by the thread of a source, which is also the client data: the
\* handler is that of this source.  (LiveCamFramedSource splits the update of
\* the shared word into load and store; here it is one step.)
TriggerEvent(o) ==
    /\ eventTriggerId[o] # 0
    /\ fTriggersAwaitingHandling' =
           fTriggersAwaitingHandling \union {eventTriggerId[o]}
    /\ UNCHANGED <<loopVars, watcher, taskVars, socketVars, tableVars,
                   fLastUsedTriggerNum>>

-----------------------------------------------------------------------------
(***************************************************************************)
(* SingleStep and doEventLoop.                                             *)
(***************************************************************************)

Init ==
    /\ loopAt = "setup"
    /\ running = Nobody
    /\ watcher = FALSE
    /\ fDelayQueue = <<[task |-> SchedulerTick, delta |-> Granularity]>>
    /\ elapsed = 0
    /\ setBack = FALSE
    /\ due = [t \in AllTasks |-> IF t = SchedulerTick THEN Granularity ELSE 0]
    /\ timeout = 0
    /\ fHandlers = <<0>>
    /\ fReadSet = {0}
    /\ fMaxNumSockets = 1
    /\ fLastHandledSocketNum = -1
    /\ readable = {}
    /\ fTriggeredEventHandlers = {}
    /\ fTriggersAwaitingHandling = {}
    /\ fLastUsedTriggerNum = NumTriggers
    /\ eventTriggerId = [o \in Sources |-> 0]

Goto(place) == loopAt' = place /\ running' = Nobody

\* A handler is called; the loop goes on from the place when it returns.
Call(place, handler) == loopAt' = place /\ running' = handler

InHandler == running # Nobody

\* The server is set up, with a source for every camera, and enters the loop.
DoEventLoop ==
    /\ loopAt = "setup"
    /\ FreeTriggers = {} \/ \A o \in Sources : eventTriggerId[o] # 0
    /\ Goto("step")
    /\ UNCHANGED <<timeout, watcher, taskVars, socketVars, triggerVars>>

\* Mutant: the watch variable is not looked at.
GoesOnAlways == TRUE

\* The loop looks at the watch variable before every step.
GoesOn == ~watcher

LeaveLoop ==
    /\ loopAt = "step"
    /\ ~GoesOn
    /\ Goto("ended")
    /\ UNCHANGED <<timeout, watcher, taskVars, socketVars, triggerVars>>

\* timeToNextAlarm, and select() begins.
BeginSelect ==
    /\ loopAt = "step"
    /\ GoesOn
    /\ LET synced == Head(fDelayQueue).delta # 0
           queue  == IF synced THEN Synchronized ELSE fDelayQueue
       IN  /\ fDelayQueue' = queue
           /\ elapsed' = IF synced THEN 0 ELSE elapsed
           /\ timeout' = Head(queue).delta
    /\ Goto("select")
    /\ UNCHANGED <<watcher, setBack, due, socketVars, triggerVars>>

\* One handler of the sockets in the set is called, if there is one.
HandleSocket(set) ==
    LET ready == SelectInSeq(HandlersInOrder,
                             LAMBDA s : s \in set \intersect fReadSet)
        next  == HandlersInOrder[ready]
    IN  /\ IF ready = 0
           THEN /\ fLastHandledSocketNum' = -1
                /\ Goto("triggers")
                /\ UNCHANGED readable
           ELSE /\ fLastHandledSocketNum' = next
                /\ Call("socket", <<"socket", next>>)
                /\ readable' = readable \ {next}
        /\ timeout' = 0
        /\ UNCHANGED <<taskVars, fHandlers, fReadSet, fMaxNumSockets,
                       triggerVars>>

\* The sockets that select() watches.
Watched == {s \in fReadSet : s < fMaxNumSockets}

\* select() returns: a socket is readable, or it has slept for long enough.
SelectReturns ==
    /\ loopAt = "select"
    /\ timeout = 0 \/ readable \intersect Watched # {}
    /\ HandleSocket(readable \intersect Watched)
    /\ UNCHANGED watcher

\* A signal sets the watch variable.  If it interrupts select(), the sets are
\* left as they were passed, and a handler is called that may find nothing.
Signal ==
    /\ ~watcher
    /\ watcher' = TRUE
    /\ \/ loopAt = "select" /\ HandleSocket(fReadSet)
       \/ /\ loopAt \notin {"setup", "select", "ended"}
          /\ UNCHANGED <<loopVars, taskVars, socketVars, triggerVars>>

\* Mutant: the same trigger first as long as it is raised.
NextAwaitingLast(set) ==
    IF fLastUsedTriggerNum \in set THEN fLastUsedTriggerNum
    ELSE NextTrigger(set)

NextAwaiting(set) == NextTrigger(set)

\* One raised trigger is handled, if there is one.
HandleTrigger ==
    /\ loopAt = "triggers"
    /\ IF fTriggersAwaitingHandling = {}
       THEN /\ Goto("alarm")
            /\ UNCHANGED <<fTriggersAwaitingHandling, fLastUsedTriggerNum>>
       ELSE LET n == NextAwaiting(fTriggersAwaitingHandling)
            IN  /\ fTriggersAwaitingHandling' =
                       fTriggersAwaitingHandling \ {n}
                /\ fLastUsedTriggerNum' = n
                /\ IF n \in fTriggeredEventHandlers
                   THEN Call("trigger", <<"trigger", n>>)
                   ELSE Goto("alarm")
    /\ UNCHANGED <<timeout, watcher, taskVars, socketVars, tableVars>>

\* Mutant: the first task is run whether it is due or not.
IsDueAlways(entry) == TRUE

IsDue(entry) == entry.delta = 0

\* handleAlarm: the first task is run, if it is due.
HandleAlarm ==
    /\ loopAt = "alarm"
    /\ LET synced == Head(fDelayQueue).delta # 0
           queue  == IF synced THEN Synchronized ELSE fDelayQueue
           first  == Head(queue)
           left   == RemoveEntry(queue, first.task)
           late   == IF synced THEN 0 ELSE elapsed
       IN  \/ /\ ~IsDue(first)
              /\ fDelayQueue' = queue
              /\ elapsed' = late
              /\ Goto("step")
              /\ UNCHANGED due
           \/ /\ IsDue(first)
              /\ first.task = SchedulerTick
              /\ fDelayQueue' = SchedulerTickTask(Synchronize(left, late))
              /\ elapsed' = 0
              /\ due' = [due EXCEPT ![SchedulerTick] = Granularity]
              /\ Goto("step")
           \/ /\ IsDue(first)
              /\ first.task # SchedulerTick
              /\ fDelayQueue' = left
              /\ elapsed' = late
              /\ Call("task", <<"task", first.task>>)
              /\ UNCHANGED due
    /\ UNCHANGED <<timeout, watcher, setBack, socketVars, triggerVars>>

-----------------------------------------------------------------------------
(***************************************************************************)
(* What handlers do.                                                       *)
(***************************************************************************)

HandlerReturns ==
    /\ InHandler
    /\ Goto(CASE loopAt = "socket"  -> "triggers"
              [] loopAt = "trigger" -> "alarm"
              [] loopAt = "task"    -> "step")
    /\ UNCHANGED <<timeout, watcher, taskVars, socketVars, triggerVars>>

Schedule(t) ==
    /\ InHandler
    /\ t \notin Scheduled(fDelayQueue)
    /\ ScheduleDelayedTask(t, Delay[t])
    /\ UNCHANGED <<loopVars, watcher, setBack, socketVars, triggerVars>>

\* unscheduleDelayedTask
Unschedule(t) ==
    /\ InHandler
    /\ t \in Scheduled(fDelayQueue)
    /\ fDelayQueue' = RemoveEntry(fDelayQueue, t)
    /\ due' = [due EXCEPT ![t] = 0]
    /\ UNCHANGED <<loopVars, watcher, elapsed, setBack, socketVars,
                   triggerVars>>

\* A connection is accepted.
Accept(s) ==
    /\ running = <<"socket", 0>>
    /\ s \notin Range(fHandlers)
    /\ SetBackgroundHandling(s)
    /\ UNCHANGED <<loopVars, watcher, taskVars, fLastHandledSocketNum,
                   readable, triggerVars>>

\* Any other handler registers a socket, too: PLAY that of RTCP, and the socket
\* of a connection is taken over by what reads packets from it, and handed back.
Register(s) ==
    /\ InHandler
    /\ running # <<"socket", 0>>
    /\ s \notin Range(fHandlers)
    /\ SetBackgroundHandling(s)
    /\ UNCHANGED <<loopVars, watcher, taskVars, fLastHandledSocketNum,
                   readable, triggerVars>>

\* A socket is closed, which may be one that nobody reads, or handed over.
Close(s) ==
    /\ InHandler
    /\ DisableBackgroundHandling(s)
    /\ readable' = readable \ {s}
    /\ UNCHANGED <<loopVars, watcher, taskVars, fLastHandledSocketNum,
                   triggerVars>>

-----------------------------------------------------------------------------
(***************************************************************************)
(* The world around.                                                       *)
(***************************************************************************)

BecomesReadable(s) ==
    /\ loopAt \notin {"setup", "ended"}
    /\ s \in Range(fHandlers)
    /\ readable' = readable \union {s}
    /\ UNCHANGED <<loopVars, watcher, taskVars, fHandlers, fReadSet,
                   fMaxNumSockets, fLastHandledSocketNum, triggerVars>>

\* A unit of time passes.  select() does not sleep longer than asked to.
TimePasses ==
    /\ loopAt \notin {"setup", "ended"}
    /\ elapsed < MaxLag
    /\ loopAt = "select" => timeout > 0
    /\ elapsed' = elapsed + 1
    /\ due' = [t \in AllTasks |-> Remaining(due[t] - 1)]
    /\ timeout' = Remaining(timeout - 1)
    /\ UNCHANGED <<loopAt, running, watcher, fDelayQueue, setBack, socketVars,
                   triggerVars>>

\* Somebody sets the clock back.
ClockSetBack ==
    /\ loopAt \notin {"setup", "ended"}
    /\ ~setBack
    /\ setBack' = TRUE
    /\ \E back \in 1 .. MaxBack : elapsed' = elapsed - back
    /\ UNCHANGED <<loopVars, watcher, fDelayQueue, due, socketVars,
                   triggerVars>>

\* The steps of the main thread that it does not choose.
MainThread ==
    \/ \E o \in Sources : CreateEventTrigger(o)
    \/ DoEventLoop \/ LeaveLoop
    \/ BeginSelect \/ SelectReturns
    \/ HandleTrigger \/ HandleAlarm \/ HandlerReturns

Next ==
    \/ MainThread
    \/ \E t \in Tasks : Schedule(t) \/ Unschedule(t)
    \/ \E s \in Connections : Accept(s) \/ Register(s) \/ Close(s)
    \/ \E s \in Sockets : BecomesReadable(s)
    \/ \E o \in Sources : DeleteEventTrigger(o) \/ TriggerEvent(o)
    \/ TimePasses \/ ClockSetBack \/ Signal

Spec == Init /\ [][Next]_vars

\* The main thread has nothing to do.
Rests ==
    \/ loopAt = "ended"
    \/ loopAt = "select" /\ timeout > 0 /\ readable \intersect Watched = {}

\* The main thread gets on to another place.  (For fairness this says as much
\* as MainThread, and is much cheaper to evaluate.)
GetsOn == ~Rests /\ \E place \in Places : loopAt' = place

\* The loop goes on: handlers return, and select() does when it should.  Time
\* does not stand still.
FairSpec == Spec /\ WF_loopAt(GetsOn) /\ SF_vars(TimePasses)

-----------------------------------------------------------------------------
(***************************************************************************)
(* Properties.                                                             *)
(***************************************************************************)

TypeOK ==
    /\ loopAt \in Places
    /\ running \in {Nobody} \union ({"socket"} \X Sockets)
                     \union ({"trigger"} \X Triggers) \union ({"task"} \X Tasks)
    /\ fDelayQueue \in Seq([task : AllTasks, delta : Nat])
    /\ elapsed \in -MaxBack .. MaxLag
    /\ {watcher, setBack} \subseteq BOOLEAN
    /\ due \in [AllTasks -> Nat]
    /\ timeout \in Nat
    /\ fHandlers \in Seq(Sockets)
    /\ fReadSet \subseteq Sockets
    /\ fMaxNumSockets \in 0 .. NumSockets
    /\ fLastHandledSocketNum \in Sockets \union {-1}
    /\ readable \subseteq Sockets
    /\ fTriggeredEventHandlers \subseteq Triggers
    /\ fTriggersAwaitingHandling \subseteq Triggers
    /\ fLastUsedTriggerNum \in Triggers
    /\ eventTriggerId \in [Sources -> Triggers \union {0}]

\* What the queue says about a task is what is true: added up, the entries
\* before it and its own give the time that is left until it is due.  If the
\* clock was set back, tasks run late, but none is ever run early.
QueueKeepsTime ==
    \A i \in DOMAIN fDelayQueue :
        LET left == Remaining(DueTime(fDelayQueue, i) - elapsed)
            true == due[fDelayQueue[i].task]
        IN  /\ left >= true
            /\ left > true => setBack

\* A task is only run once its delay is over.
NeverEarly ==
    [][\A t \in Tasks : HandleAlarm /\ running' = <<"task", t>> => due[t] = 0]_vars

\* BasicTaskScheduler.hh: the granularity is the maximum time the loop sleeps
\* before it looks at the triggers, which do not wake it.
SleepIsBounded == loopAt = "select" => timeout <= Granularity

\* Every registered socket is watched by select(), and no other is: a closed
\* one among them would make it fail, and abort the server.
RegisteredAreWatched ==
    /\ Watched = Range(fHandlers)
    /\ fReadSet = Range(fHandlers)
    /\ IsInjective(fHandlers)

\* No two sources share a trigger, a trigger has a handler as long as a source
\* has it, and only such a trigger is raised.
TriggersAreOwned ==
    /\ \A o, p \in Sources :
        eventTriggerId[o] = eventTriggerId[p] => o = p \/ eventTriggerId[o] = 0
    /\ fTriggeredEventHandlers =
           {eventTriggerId[o] : o \in Sources} \ {0}
    /\ fTriggersAwaitingHandling \subseteq fTriggeredEventHandlers

\* A signal ends the loop.
SignalEndsLoop == watcher ~> loopAt = "ended"

\* Every readable socket is handled, closed or handed over, however busy the
\* others are and however many are accepted, closed and accepted again.  The one
\* exception: handlers other than the listening socket's may go on registering
\* sockets for ever.  New ones are put before the others, and two that close and
\* register each other in turn keep the search from getting past them.
SocketsAreServed ==
    \/ \A s \in Sockets : s \in readable ~> s \notin readable \/ loopAt = "ended"
    \/ []<><<\E s \in Connections : Register(s)>>_vars

\* Every trigger that is raised has its source's handler called, though it
\* does not wake the loop and other triggers are raised over and over.
TriggersAreServed ==
    \A n \in Triggers :
        n \in fTriggersAwaitingHandling
            ~> running = <<"trigger", n>> \/ loopAt = "ended"

\* Every task that is due is run or unscheduled, whatever other tasks are
\* scheduled meanwhile, and even if the clock was set back.
TasksAreRun ==
    \A t \in Tasks :
        t \in Scheduled(fDelayQueue)
            ~> t \notin Scheduled(fDelayQueue) \/ loopAt = "ended"
=============================================================================
