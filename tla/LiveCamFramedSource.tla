------------------------- MODULE LiveCamFramedSource -------------------------
(***************************************************************************)
(* How encoded frames get from the transcoder threads to the event loop.   *)
(*                                                                         *)
(* Every camera has a LiveCamFramedSource and a detached thread running    *)
(* Transcoder::run (LiveCamFramedSource.cpp).  The thread calls            *)
(* onEncodedData for every packet it encodes; all the rest runs on the one *)
(* thread of BasicTaskScheduler's event loop.  The two meet in             *)
(*   - fIsCurrentlyAwaitingData, written by the loop, read by the thread   *)
(*     without a lock,                                                     *)
(*   - encodedDataBuffer, pushed and popped under encodedDataMutex but     *)
(*     tested for emptiness without it, and                                *)
(*   - fTriggersAwaitingHandling, one word with a bit per camera, updated  *)
(*     with |= by every thread and with &=~ by the loop, without a lock.   *)
(* An update of the word is a load and a store, and other threads may run  *)
(* in between.  All else that one step below does happens either under     *)
(* the mutex or on data that no other thread touches.                      *)
(*                                                                         *)
(* The reader of a source is the StreamReplicator: it asks for a frame     *)
(* when the last one was delivered, and may stop asking at any time.       *)
(***************************************************************************)
EXTENDS Naturals, Sequences, SequencesExt

CONSTANTS
    Cameras,    \* the cameras: one source, trigger and thread for each
    MaxFrames   \* bound on the packets that one transcoder thread encodes

ASSUME MaxFramesAssumption == MaxFrames \in Nat \ {0}

VARIABLES
    fIsCurrentlyAwaitingData,  \* by camera: its reader has asked for a frame
    encodedDataBuffer,         \* by camera: packets pushed, not yet delivered
    fTriggersAwaitingHandling, \* the cameras whose bit is set in the word
    encoded,        \* by camera: the number of packets its thread has encoded
    threadAt,       \* by camera: where its thread is in onEncodedData
    threadWord,     \* by camera: the word as its thread loaded it for |=
    loopAt,         \* where the event loop is
    loopCamera,     \* the camera whose request or trigger the loop handles
    loopWord,       \* the trigger word as the loop loaded it for &=~
    delivered       \* by camera: the packets handed to the reader, in order

triggerVars == <<fTriggersAwaitingHandling, threadWord, loopWord>>
threadVars  == <<encoded, threadAt>>
loopVars    == <<loopAt, loopCamera>>

vars == <<fIsCurrentlyAwaitingData, encodedDataBuffer, delivered, triggerVars,
          threadVars, loopVars>>

-----------------------------------------------------------------------------
(***************************************************************************)
(* At the start the sources are constructed (addMediaSession) and nobody   *)
(* has asked for a frame.  A packet is known by its number.                *)
(***************************************************************************)

Init ==
    /\ fIsCurrentlyAwaitingData = [c \in Cameras |-> FALSE]
    /\ encodedDataBuffer = [c \in Cameras |-> <<>>]
    /\ fTriggersAwaitingHandling = {}
    /\ encoded = [c \in Cameras |-> 0]
    /\ threadAt = [c \in Cameras |-> "encode"]
    /\ threadWord = [c \in Cameras |-> {}]
    /\ loopAt = "select"
    /\ loopCamera \in Cameras
    /\ loopWord = {}
    /\ delivered = [c \in Cameras |-> <<>>]

-----------------------------------------------------------------------------
\* Undefined behaviour ends what can be said of the process.
Running == loopAt # "undefined"

-----------------------------------------------------------------------------
(***************************************************************************)
(* The transcoder thread of camera c.                                      *)
(***************************************************************************)

\* The thread has encoded a packet and calls onEncodedData, which drops the
\* packet unless the source awaits data at this moment.
Encode(c) ==
    /\ Running
    /\ threadAt[c] = "encode"
    /\ encoded[c] < MaxFrames
    /\ encoded' = [encoded EXCEPT ![c] = @ + 1]
    /\ threadAt' = [threadAt EXCEPT
                        ![c] = IF fIsCurrentlyAwaitingData[c]
                               THEN "push" ELSE "encode"]
    /\ UNCHANGED <<fIsCurrentlyAwaitingData, encodedDataBuffer, delivered,
                   triggerVars, loopVars>>

\* encodedDataBuffer.emplace_back, under the mutex.
Push(c) ==
    /\ Running
    /\ threadAt[c] = "push"
    /\ encodedDataBuffer' = [encodedDataBuffer EXCEPT
                                ![c] = Append(@, encoded[c])]
    /\ threadAt' = [threadAt EXCEPT ![c] = "loadTriggers"]
    /\ UNCHANGED <<fIsCurrentlyAwaitingData, encoded, delivered, triggerVars,
                   loopVars>>

\* triggerEvent: fTriggersAwaitingHandling |= eventTriggerId, its load ...
LoadTriggers(c) ==
    /\ Running
    /\ threadAt[c] = "loadTriggers"
    /\ threadWord' = [threadWord EXCEPT ![c] = fTriggersAwaitingHandling]
    /\ threadAt' = [threadAt EXCEPT ![c] = "storeTriggers"]
    /\ UNCHANGED <<fIsCurrentlyAwaitingData, encodedDataBuffer, encoded,
                   delivered, fTriggersAwaitingHandling, loopWord, loopVars>>

\* ... and its store.
StoreTriggers(c) ==
    /\ Running
    /\ threadAt[c] = "storeTriggers"
    /\ fTriggersAwaitingHandling' = threadWord[c] \union {c}
    /\ threadAt' = [threadAt EXCEPT ![c] = "encode"]
    /\ UNCHANGED <<fIsCurrentlyAwaitingData, encodedDataBuffer, encoded,
                   delivered, threadWord, loopWord, loopVars>>

-----------------------------------------------------------------------------
(***************************************************************************)
(* The event loop.  It runs one handler at a time: between two handlers it *)
(* is at "select".                                                         *)
(***************************************************************************)

\* The replicator asks for a frame: FramedSource::getNextFrame up to the call
\* of doGetNextFrame.  (Asking while a request is outstanding aborts the
\* server; that the replicator never does is a property of StreamReplicator.)
GetNextFrame(c) ==
    /\ loopAt = "select"
    /\ ~fIsCurrentlyAwaitingData[c]
    /\ fIsCurrentlyAwaitingData' = [fIsCurrentlyAwaitingData EXCEPT
                                        ![c] = TRUE]
    /\ loopAt' = "doGetNextFrame"
    /\ loopCamera' = c
    /\ UNCHANGED <<encodedDataBuffer, delivered, triggerVars, threadVars>>

\* Mutant: doGetNextFrame leaves every packet to the trigger.
DoGetNextFrameNoTest ==
    /\ loopAt = "doGetNextFrame"
    /\ loopAt' = "select"
    /\ UNCHANGED <<fIsCurrentlyAwaitingData, encodedDataBuffer, delivered,
                   loopCamera, triggerVars, threadVars>>

\* doGetNextFrame: the buffer is tested without the mutex, and a packet that
\* is there is delivered at once, within the request.
DoGetNextFrame ==
    /\ loopAt = "doGetNextFrame"
    /\ loopAt' = IF encodedDataBuffer[loopCamera] # <<>>
                 THEN "deliver" ELSE "select"
    /\ UNCHANGED <<fIsCurrentlyAwaitingData, encodedDataBuffer, delivered,
                   loopCamera, triggerVars, threadVars>>

\* SingleStep finds the bit of camera c set.
SelectTrigger(c) ==
    /\ loopAt = "select"
    /\ c \in fTriggersAwaitingHandling
    /\ loopAt' = "loadTriggers"
    /\ loopCamera' = c
    /\ UNCHANGED <<fIsCurrentlyAwaitingData, encodedDataBuffer, delivered,
                   triggerVars, threadVars>>

\* SingleStep: fTriggersAwaitingHandling &=~ mask, its load ...
LoopLoadTriggers ==
    /\ loopAt = "loadTriggers"
    /\ loopWord' = fTriggersAwaitingHandling
    /\ loopAt' = "storeTriggers"
    /\ UNCHANGED <<fIsCurrentlyAwaitingData, encodedDataBuffer, delivered,
                   loopCamera, fTriggersAwaitingHandling, threadWord,
                   threadVars>>

\* ... and its store, after which the handler deliverFrame0 is called.
LoopStoreTriggers ==
    /\ loopAt = "storeTriggers"
    /\ fTriggersAwaitingHandling' = loopWord \ {loopCamera}
    /\ loopAt' = "deliver"
    /\ UNCHANGED <<fIsCurrentlyAwaitingData, encodedDataBuffer, delivered,
                   loopCamera, loopWord, threadWord, threadVars>>

\* deliverData of a source that awaits no data.
IgnoreTrigger ==
    /\ loopAt = "deliver"
    /\ ~fIsCurrentlyAwaitingData[loopCamera]
    /\ loopAt' = "select"
    /\ UNCHANGED <<fIsCurrentlyAwaitingData, encodedDataBuffer, delivered,
                   loopCamera, triggerVars, threadVars>>

\* Mutant: deliverData forgets pop_back.
DeliverDataNoPop ==
    /\ loopAt = "deliver"
    /\ fIsCurrentlyAwaitingData[loopCamera]
    /\ encodedDataBuffer[loopCamera] # <<>>
    /\ delivered' = [delivered EXCEPT
        ![loopCamera] = Append(@, Last(encodedDataBuffer[loopCamera]))]
    /\ fIsCurrentlyAwaitingData' = [fIsCurrentlyAwaitingData EXCEPT
                                        ![loopCamera] = FALSE]
    /\ loopAt' = "select"
    /\ UNCHANGED <<encodedDataBuffer, loopCamera, triggerVars, threadVars>>

\* Mutant: deliverData takes the packet at the front.
DeliverDataOldest ==
    /\ loopAt = "deliver"
    /\ fIsCurrentlyAwaitingData[loopCamera]
    /\ encodedDataBuffer[loopCamera] # <<>>
    /\ delivered' = [delivered EXCEPT
        ![loopCamera] = Append(@, Head(encodedDataBuffer[loopCamera]))]
    /\ encodedDataBuffer' = [encodedDataBuffer EXCEPT ![loopCamera] = Tail(@)]
    /\ fIsCurrentlyAwaitingData' = [fIsCurrentlyAwaitingData EXCEPT
                                        ![loopCamera] = FALSE]
    /\ loopAt' = "select"
    /\ UNCHANGED <<loopCamera, triggerVars, threadVars>>

\* deliverData: the packet at the back is moved out and handed to the reader.
\* What the reader does in its callback it does at "select".
DeliverData ==
    /\ loopAt = "deliver"
    /\ fIsCurrentlyAwaitingData[loopCamera]
    /\ encodedDataBuffer[loopCamera] # <<>>
    /\ delivered' = [delivered EXCEPT
        ![loopCamera] = Append(@, Last(encodedDataBuffer[loopCamera]))]
    /\ encodedDataBuffer' = [encodedDataBuffer EXCEPT ![loopCamera] = Front(@)]
    /\ fIsCurrentlyAwaitingData' = [fIsCurrentlyAwaitingData EXCEPT
                                        ![loopCamera] = FALSE]
    /\ loopAt' = "select"
    /\ UNCHANGED <<loopCamera, triggerVars, threadVars>>

\* deliverData has no test for an empty buffer: back() and pop_back() are then
\* undefined, and there is nothing to say of the process after that.
DeliverFromEmpty ==
    /\ loopAt = "deliver"
    /\ fIsCurrentlyAwaitingData[loopCamera]
    /\ encodedDataBuffer[loopCamera] = <<>>
    /\ loopAt' = "undefined"
    /\ UNCHANGED <<fIsCurrentlyAwaitingData, encodedDataBuffer, delivered,
                   loopCamera, triggerVars, threadVars>>

\* The replicator has lost its last reader, or replaces its master:
\* FramedSource::stopGettingFrames.  The buffer and the trigger stay.
StopGettingFrames(c) ==
    /\ loopAt = "select"
    /\ fIsCurrentlyAwaitingData[c]
    /\ fIsCurrentlyAwaitingData' = [fIsCurrentlyAwaitingData EXCEPT
                                        ![c] = FALSE]
    /\ UNCHANGED <<encodedDataBuffer, delivered, triggerVars, threadVars,
                   loopVars>>

-----------------------------------------------------------------------------
Thread(c) == Encode(c) \/ Push(c) \/ LoadTriggers(c) \/ StoreTriggers(c)

Loop ==
    \/ \E c \in Cameras :
        GetNextFrame(c) \/ SelectTrigger(c) \/ StopGettingFrames(c)
    \/ DoGetNextFrame
    \/ LoopLoadTriggers
    \/ LoopStoreTriggers
    \/ IgnoreTrigger
    \/ DeliverData
    \/ DeliverFromEmpty

Next == Loop \/ \E c \in Cameras : Thread(c)

Spec == Init /\ [][Next]_vars

\* What the handler that the loop is in goes on to do.
LoopStep ==
    \/ DoGetNextFrame
    \/ LoopLoadTriggers
    \/ LoopStoreTriggers
    \/ IgnoreTrigger
    \/ DeliverData

\* The loop is never stopped inside a handler, SingleStep looks at the trigger
\* word each time around, and a thread that has left the encoder is never
\* blocked: the mutex is only ever held for a push or a pop.  A thread need
\* not encode another packet, nor the reader ask for one.
Fairness ==
    /\ WF_vars(LoopStep)
    /\ \A c \in Cameras :
        /\ WF_vars(SelectTrigger(c))
        /\ WF_vars(Push(c) \/ LoadTriggers(c) \/ StoreTriggers(c))

FairSpec == Spec /\ Fairness

-----------------------------------------------------------------------------
(***************************************************************************)
(* Properties.                                                             *)
(***************************************************************************)

TypeOK ==
    /\ fIsCurrentlyAwaitingData \in [Cameras -> BOOLEAN]
    /\ encodedDataBuffer \in [Cameras -> Seq(1 .. MaxFrames)]
    /\ fTriggersAwaitingHandling \subseteq Cameras
    /\ encoded \in [Cameras -> 0 .. MaxFrames]
    /\ threadAt \in [Cameras ->
                        {"encode", "push", "loadTriggers", "storeTriggers"}]
    /\ threadWord \in [Cameras -> SUBSET Cameras]
    /\ loopAt \in {"select", "doGetNextFrame", "loadTriggers", "storeTriggers",
                   "deliver", "undefined"}
    /\ loopCamera \in Cameras
    /\ loopWord \subseteq Cameras
    /\ delivered \in [Cameras -> Seq(1 .. MaxFrames)]

\* The packets in a buffer are in the order they were encoded, so that the
\* back is the newest.
BufferInOrder ==
    \A c \in Cameras : \A i, j \in DOMAIN encodedDataBuffer[c] :
        i < j => encodedDataBuffer[c][i] < encodedDataBuffer[c][j]

\* No packet is newer than the last one encoded, and that one, while its thread
\* is about to push it, is newer than all that were pushed before.
InHandIsNewest ==
    \A c \in Cameras :
        /\ threadAt[c] = "push" => encoded[c] > 0
        /\ \A f \in Range(encodedDataBuffer[c]) \union Range(delivered[c]) :
                f <= encoded[c] /\ (threadAt[c] = "push" => f < encoded[c])

\* A packet reaches the reader once: nothing is delivered twice, and what is
\* still in the buffer was not delivered.
DeliveredOnce ==
    \A c \in Cameras :
        /\ IsInjective(delivered[c])
        /\ Range(encodedDataBuffer[c]) \intersect Range(delivered[c]) = {}

\* The packets of each camera go through onEncodedData, encodedDataBuffer and
\* deliverData without one being duplicated or the buffer getting out of order,
\* however the threads and the loop interleave.
FramesOnce == BufferInOrder /\ InHandIsNewest /\ DeliveredOnce

\* The loop, or the thread of c, will still look at c's buffer or set c's bit.
WakeupUnderWay(c) ==
    \/ c \in fTriggersAwaitingHandling
    \/ threadAt[c] \in {"loadTriggers", "storeTriggers"}
    \/ loopAt \in {"doGetNextFrame", "loadTriggers", "storeTriggers", "deliver"}
         /\ loopCamera = c

\* UsageEnvironment.hh promises that triggerEvent causes the handler to be
\* called from the event loop: a source that awaits data never has a packet in
\* its buffer with nothing under way to deliver it.
NoLostWakeup ==
    \A c \in Cameras :
        fIsCurrentlyAwaitingData[c] /\ encodedDataBuffer[c] # <<>> =>
            WakeupUnderWay(c)

\* FramedSource.hh has the source call afterGetting only if a frame has been
\* read successfully: deliverData finds a packet in the buffer whenever it
\* takes one out.
NoUnderflow == Running

-----------------------------------------------------------------------------
(***************************************************************************)
(* The sources implement the mailbox.                                      *)
(***************************************************************************)

Mailbox == INSTANCE FrameMailbox WITH
    Frames   <- 1 .. MaxFrames,
    awaiting <- fIsCurrentlyAwaitingData,
    kept     <- [c \in Cameras |-> Range(encodedDataBuffer[c])],
    answered <- [c \in Cameras |-> Range(delivered[c])]

\* Every step of the threads and the loop is a request, its withdrawal, a new
\* packet kept, an answer with the newest packet kept, or none of the reader's
\* business.
MailboxSafe == Mailbox!Safe

\* Besides, a reader that goes on waiting while a packet is kept is answered.
MailboxSpec == Mailbox!Spec
=============================================================================
