# A TLA+ model of the RTSP video server

The program streams USB cameras: for every camera a thread captures, decodes,
filters and encodes pictures with FFmpeg (`Transcoder`), and hands the encoded
packets to a source (`LiveCamFramedSource`) on live555's single-threaded event
loop, from which a `StreamReplicator` serves all clients of that camera. This
directory holds a model of it in TLA+, model-checked with TLC, and proofs checked
with TLAPS. `PROJECT.json` says which lines of the source each definition stands
for, which hazards the properties are aimed at, and what each run checks.

## The system

### Parts, their state and operations

| Part | State | Operations |
|---|---|---|
| `main.cpp`, `LiveCameraRTSPServer` | vectors of transcoders and sources, `watcher`, scheduler, environment, RTSP server; `shutdown_handler` | set up, `addTranscoder`, `run`, `addMediaSession`, `stopServer` (signals), destructor |
| `Transcoder` | FFmpeg contexts, `rawFrame`, `filterFrame`, `convertedFrame`, two packets, `needToStopFlag`, `isRunningFlag`, callback | constructor, `run` (own thread), `decode`, `encode`, `stop`, `cleanup` |
| `LiveCamFramedSource` | `encodedDataBuffer` with its mutex, `eventTriggerId`, and of `FramedSource` `fIsCurrentlyAwaitingData` | constructor (starts the thread), `onEncodedData`, `deliverFrame0`, `doGetNextFrame`, `deliverData`, `doStopGettingFrames`, destructor |
| `BasicTaskScheduler` | `fTriggersAwaitingHandling`, 32 handlers and their data, last trigger used; sockets; delay queue | `SingleStep`, `doEventLoop`, `createEventTrigger`, `deleteEventTrigger`, `triggerEvent`, delayed tasks |
| `StreamReplicator`, `StreamReplica` | master, two lists, two counts, frame index; index and next pointer by replica | create, remove, `getNextFrame`, stop, `afterGettingFrame`, `onSourceClosure` |
| `CameraUnicastServerMediaSubsession`, `OnDemandServerMediaSubsession`, RTSP sessions | stream states by client session | SETUP, PLAY, PAUSE, TEARDOWN; SDP |
| H265 framer, fragmenter and sink | buffers, sequence numbers, a task for the next packet | get a frame, fragment it, send |
| `RTPInterface`, `SocketDescriptor` | channels of a connection's socket, read state, the connection's handler | add and remove a socket, send, read |
| `YamlConfigLoader`, `Configuration` | active cameras, parameters of server and cameras | `load` |

### How they interact

- The transcoder thread calls `onEncodedData` of its source, directly. It reads
  `fIsCurrentlyAwaitingData` (unlocked), pushes under the mutex, and calls
  `triggerEvent`, which does `|=` on a word that all threads share.
- The event loop handles triggers (`deliverFrame0`), sockets and delayed tasks,
  one at a time. `deliverData` hands a packet to the replicator's
  `afterGettingFrame`, within the call; the replicator asks for the next one
  (`getNextFrame`) within that call or later, and a packet left over is then
  delivered within `getNextFrame`.
- Clients' sinks ask their replica for a frame, each from a task of its own, and
  stop it when the client pauses or goes.
- A signal handler sets `watcher`; the event loop ends, and the server's
  destructor stops the threads through the sources' destructors.
- `main` owns the configuration, which transcoders refer to, and the server.

### What is hard, and what makes each part correct

- *Source.* Three pieces of state are shared between threads, two of them without
  a lock. Correct: no packet twice, none out of place in the buffer, none left in
  it while the reader waits, never a pop from an empty buffer.
- *Replicator.* Replicas ask, pause and leave between any two frames, the master
  among them, before or after its read has completed, and a delivery may run
  within a delivery. Correct: each request is in one place, counts are right, each
  replica gets the frames in sequence, and the replicas never all wait for each
  other.
- *Transcoder.* Every call of FFmpeg may fail, and both filter and encoder keep
  references. Correct: a packet shows the picture it claims to show, a picture is
  pushed once, and `stop` ends the thread.
- *Event loop.* One thread serves sockets, triggers and tasks, none of which may be
  starved; triggers do not wake it; the queue's deltas are relative to each other and
  to a clock that may be set back. Correct: all are served, tasks are not early, and
  the loop ends when told to.
- *Sessions.* Requests, tasks, time-outs, failed packets and the end of a
  connection each take apart some of a session's objects, and who reads a socket
  changes hands in the middle of a request; any connection may speak for any session.
  Correct: tables and objects agree, a stream set up over TCP ends with its connection,
  and a client stays heard until its stream ends.
- *Configuration.* Correct: `load` succeeds when the file has all that is needed for
  the cameras it names, and then leaves just these.
- *Process.* Threads are detached and nothing joins them but a polling `stop`.
  Correct: no thread uses an object that is gone, and a signal ends the process.

## Modules

| Module | Models | Extends or instantiates |
|---|---|---|
| `FrameMailbox` | the abstract specification of a source: requests, kept frames, answers | |
| `LiveCamFramedSource` | sources, the event loop's triggers, transcoder threads inside `onEncodedData` | `FrameMailbox` by refinement |
| `StreamReplicator` | one replicator with its replicas | |
| `Transcoder` | one transcoder's `run`, and `stop` | |
| `LiveCameraRTSPServer` | the life of the process with one thread per camera | |
| `YamlConfigLoader` | what a configuration file makes of `params::Configuration` | |
| `DelayQueue` | the queue of delayed tasks, as functions on sequences | |
| `BasicTaskScheduler` | the event loop: sockets, triggers, tasks, `select()`, signals | `DelayQueue` |
| `H265Fragmenter` | how a NAL unit becomes the payloads of RTP packets | |
| `RTPInterface` | RTP over the RTSP connection: channels and socket descriptors | |
| `RTSPServer` | connections, sessions and their streams | `RTPInterface`, `H265Fragmenter` |
| `MC...` | symmetry sets and instances for TLC; `MCLiveCameraRTSPServer` also puts process and configuration together | the module of that name, and `YamlConfigLoader` |
| `ListProofs` | lemmas on lists of any length, on sequences of sequences, and on numbers, for the proofs of the code's linked lists and loops | `TLAPS` |
| `DelayQueueProofs` | lemmas on the queue, of any length | `DelayQueue`, `ListProofs` |
| `...Proofs` | theorems | the module of that name, `TLAPS` or `ListProofs`; that of the scheduler `DelayQueueProofs`, that of the server `MCLiveCameraRTSPServer` for the configuration |

### LiveCamFramedSource

`threadAt[c]` says where camera `c`'s thread is: encoding, about to push, or
between the load and the store of `|=`. `loopAt` does the same for the event loop:
choosing what to handle, in `doGetNextFrame`, between load and store of `&=~`, or
in `deliverData`. A step is what happens under the mutex or touches one shared
variable once. `encoded` numbers the packets, `delivered` is what the reader got.
The reader is any client of `FramedSource`: it asks when no request is
outstanding, and stops at will. Popping an empty vector is undefined; the model
then stops (`loopAt = "undefined"`).

Mapping to `FrameMailbox`: `awaiting` is the flag, `kept` the set of packets in the
buffer, `answered` the set of those delivered. Loads, stores and tests stutter.

### StreamReplicator

Each handler runs to its end before the next, so the fields of the class are one
record, `rep`, and methods are functions from record to record, called like the
methods are. The lists keep their order (head first). Frames are numbers. The
source is any that delivers when it pleases; `leftOver` says how many packets it
has at hand and so delivers within `getNextFrame`. The code's assertions in
comments add to `errors`. `lost` records the one event the code itself calls
unfortunate: the master leaves with a read frame and nobody to copy it to.

That a client does not ask for its next frame within the delivery of the last is
taken from `MultiFramedRTPSink::sendPacketIfNecessary`, which schedules a task:
for H265 no frame follows another in a packet
(`H264or5VideoRTPSink::frameCanAppearAfterPacketStart`).

### Transcoder

One action per call of FFmpeg and outcome, and every call may fail, any number of
times. Pictures are numbered as captured. `converted.pts` is the picture
`convertedFrame` claims to show, `content` what its buffer shows. The encoder may
hold back up to `EncoderDelay` frames and give them out in any order. Three results
are not what the code takes them for:

- `decode` returns 1 or an error and its caller tests for 0: `DecodeFails` goes on
  like `Decode`.
- Nobody looks at the results of `av_frame_make_writable` and `sws_scale`
  (`Transcoder.cpp:80-83`). In `Convert` either may fail: the picture is then
  written over one that the encoder still holds, or not written at all.
  `spoiled` has the pictures to which this has happened; it is a history variable.
- An error of `av_buffersink_get_frame` other than EAGAIN and EOF does not end the
  inner loop (`Transcoder.cpp:71-103`), which does not test `needToStopFlag`.

`ReadFails` is also a packet of another stream, and `EncodeFails` an error of either
half of `encode`. `at = "reading"` is the wait in `av_read_frame`, the only call taken
to block.

### LiveCameraRTSPServer

`mainAt` is where the main thread is, `next` the camera its loop has reached, and
`threadAt[c]` where `c`'s thread is. `late` remembers the cameras whose thread had
not begun when the loop ended. A thread that touches a freed transcoder or a closed
source is `"lost"`, and the process then `"undefined"`.

### YamlConfigLoader

`Load` is `load` as a function of a document: which sections it has, the list of
active cameras, which cameras are described and how well, for which there are
mappings, and whether the server's parameters are there. Its result is `loaded`,
`refused` (false) or `threw`, and the cameras that were added to the configuration
by then. The sizes are compared as the code does, that of a scalar being 0.
`Documents(n)` is every such document with lists of up to `n` names.

### DelayQueue and BasicTaskScheduler

The queue is the linked list as a sequence of entries with their deltas; its
operations are those of the class, a walk along the list being written as the place
where it stops (`Passed`) and the sum of the deltas up to there (`DueTime`). Left out
is the entry that never becomes due, at the end.

`loopAt` is where `SingleStep` is: about to look at the watch variable, asleep in
`select()`, inside the handler of a socket, a trigger or a task, or between them.
`running` says whose handler it is. Handlers are left open: while one runs it may
schedule and unschedule tasks, register sockets and give them up, in any order, before
it returns. `Accept` is the listening socket's, which runs only when that socket was
found readable; `Register` is anybody else's: PLAY registers the sockets for RTCP, and a
connection and its descriptor hand their socket to each other. New handlers go to the
head of the list. Time is relative: `elapsed` is what the clock shows beyond the last
synchronisation, `due[t]` how long task `t` has to wait in truth, whatever the clock was
set to, and `timeout` how long `select()` will still sleep. The unit is the granularity
over `Granularity`, so 10 ms where that is 1. A signal sets the watch variable, and if
`select()` is interrupted its sets are left as they were passed, so that a handler is
called that may find nothing. In the code a signal does not interrupt `select()` when it
comes just before it or to another thread; the loop then sleeps on until the scheduler's
tick, which is `Signal` with the interrupt put off. `BasicTaskScheduler` takes `|=` on
the trigger word as one step; `LiveCamFramedSource` has its two halves, which the other
properties of the loop do not depend on.

### H265Fragmenter

Bytes are records that say which byte of the unit they are, or that they are a
header and what it marks. The buffer is a function from 0, byte 0 kept free, and
headers overwrite it in place as in the code; the payloads of a unit are what
repeated calls of `doGetNextFrame` copy out. `Reassembled` and `WellMarked` say what
a receiver makes of them; they are the reference, from RFC 7798.

### RTPInterface and RTSPServer

All of this runs on the event loop's thread, so that a handler is one step, the
objects are one record, `server`, and methods are functions from record to record.
`there` is the clients' side: the sockets whose client has not closed its end. A
session is looked up by its identifier, so that every request may come on any
connection.

| Field | In the code |
|---|---|
| `connections`, `reader[s]` | `fClientConnections`; who has set the socket's background handler: the connection or a `SocketDescriptor` |
| `channels[s]`, `handler[s]`, `awaiting[s]`, `readLoop`, `deleteNext` | `SocketDescriptor`: `fSubChannelHashTable`, the connection whose alternative byte handler it has, the packet it waits for (`fTCPReadingState`), `fAreInReadHandlerLoop`, `fDeleteMyselfNext` |
| `interface[c]` | `fTCPStreams` of a sink's or RTCP instance's `RTPInterface` |
| `streamingOn[s]` | `fTCPStreamingDatabase` |
| `session[id]` | `RTSPClientSession` with its stream state (`token`), `tcpSocketNum` (`socket`), whether the last SETUP was over TCP (`interleaved`), RTCP instance, `fAreCurrentlyPlaying`, the sink, and what its fragmenter has left |
| `replicas`, `asked` | the replicator: its replicas and who has asked for a frame |
| `internalError`, `undefined` | a replica was asked twice; a deleted connection was called, or a closed socket watched |

A request is read by the connection itself, or, while packets go over the same
socket, byte by byte by the descriptor, and then all the request does happens inside
the descriptor's read loop. `Setup`, `SetupAndPlay` (a SETUP with a Range header),
`Play`, `PauseRequest` and `Teardown` wrap their handlers in `EnterReadLoop` and
`LeaveReadLoop` for this reason. `fails` says which packets of the step cannot be
sent over TCP.

Three things in this code outlive what they belong to, and the model has all three:

- A session set up over TCP and then for UDP keeps `tcpSocketNum`
  (`RTSPServer.cpp:1342`, `1386-1390`), which `getStreamParameters` gets
  (`RTSPServer.cpp:1420`) and makes a TCP destination of
  (`OnDemandServerMediaSubsession.cpp:198-202`). The stream goes over the socket with no
  entry in the table, does not end with the connection, and the next client whose
  socket has the number may be sent its packets. Both its interfaces have channel
  number 0xFF, as have those of every such session: `SameChannel`.
- After a PLAY from another connection, that connection is the descriptor's handler
  (`RTSPServer.cpp:1774`, `RTPInterface.cpp:521-523`), and nothing tells the descriptor
  when it is deleted: `handler[s]` is then `Deleted`. Calling it is `undefined`.
- A descriptor whose connection was closed under it (`RequestTooLong`) reads on if it
  has channels left, and comes to `ReadError`.

## What the runs check

| Run | Instance | Shows |
|---|---|---|
| `source_one_camera` | 1 camera, 5 packets, fairness | `FramesOnce`, `NoLostWakeup`, and the source implements the mailbox: `MailboxSafe`, and `MailboxSpec` with its liveness |
| `source_lost_trigger` | 2 cameras | *violated*: `NoLostWakeup`. A thread's store overwrites another camera's bit |
| `source_underflow` | 1 camera | *violated*: `NoUnderflow`. Push; the reader asks and is served by `doGetNextFrame`; it asks again; only now is the trigger handled |
| `replicator` | 4 replicas, 5 frames | assertions, `QueuedOnce`, `CountsMatch`, `InSequence`; and unless a frame was lost, clients play in lockstep (`InLockstep`) and there is no stall |
| `replicator_stall` | 3 replicas | *violated*: `NoStall`. The deliveries of a lost frame are counted for the next one |
| `transcoder` | 3 pictures, delay 1, errors of any call any number of times, fairness | `EncodedAsCaptured`, `StopEndsRun` |
| `transcoder_stale` | 3 pictures, no delay | *violated*: `AddedOnce`. The result of `decode` is not tested for errors |
| `server` | 3 cameras, 2 signals, fairness; all configuration files with lists of up to 3 of 2 names | `NoUseAfterDestruction`, `SignalEndsProcess`, `ConfiguredAsNamed` |
| `server_late_thread` | 1 camera, 1 signal | *violated*: `StopStopsCapturing`. `stop` finds `isRunningFlag` not yet set |
| `event_loop` | 2 tasks, a socket besides the listening one, 2 triggers for 3 sources, the clock set back once, fairness | `QueueKeepsTime`, `NeverEarly`, `SleepIsBounded`, `TriggersAreOwned`, `SignalEndsLoop`, and every raised trigger and due task has its turn |
| `event_loop_sockets` | 3 sockets besides the listening one, 1 task, 1 trigger, fairness | `RegisteredAreWatched`, `SocketsAreServed` |
| `rtsp_sessions` | 2 connections, 2 sessions, units of 4 packets | `TableAgrees`, `DescriptorsAgree`, `StreamsHaveConnections`, `PlayersAgree`, `FragmentsAreWhole`, `HeardUntilEnded` |

`TypeOK` is checked in `replicator`, `server`, `event_loop` and `rtsp_sessions`.

The five violated properties are what comments in the code promise;
`PROJECT.json` quotes them under `findings`.

Some properties name cases that the code does not handle and leave them out; what is
left is what the code keeps.

- `EncodedAsCaptured`: pictures in `spoiled`, and frames of a failed filter graph.
- `StopEndsRun`: a camera that never returns from `av_read_frame`, and
  `av_buffersink_get_frame` erring for ever.
- `SocketsAreServed`: handlers that register sockets for ever. `SingleStep` looks for the
  next socket from the place of the last one handled, and a socket registered since is
  before all others in the list.
- `StreamsHaveConnections`: streams set up over TCP and then for UDP, as above. `TableAgrees`
  says of them that they are not in the table.
- `HeardUntilEnded`: the end of a stream over the socket. `StreamState::endPlaying`
  clears the alternative byte handler of a socket before it gives up the channels
  (`OnDemandServerMediaSubsession.cpp:585`), and the descriptor, when it goes with its last
  channel, then has nobody to hand the socket back to. After the TEARDOWN of a stream
  over TCP, or its time-out, or its second SETUP until the next PLAY, nobody reads that
  connection any more, and it is never closed; with two sessions over one connection
  the end of one silences the other. `OnDemandServerMediaSubsession.cpp:526` sets the
  handler "So that we continue to handle RTSP commands from the client", and
  `RTPInterface.cpp:430` wants the connection "to take over control of the TCP socket
  once again". Further, a PLAY from another connection, which becomes the handler, and
  sockets with a stream that was set up again for UDP, which shares one channel
  number among its interfaces.

For the same reasons there is no liveness of clients that leave: a connection whose
client is gone need not be closed, because nobody reads its socket, because another
connection is told, or because the client has gone within an RTCP packet, when the
interface's read handler takes the error and the descriptor waits on
(`RTPInterface.cpp:572-577`; `ClientLeavesWithinPacket`).

### Bounds

- Packets per camera (`MaxFrames`): with 5 a buffer holds several packets while
  others were delivered and dropped. With two cameras, 2 packets each suffice for a pair
  of overlapping updates of the word. That `MailboxSafe` and `FramesOnce` also hold of
  several cameras is proved, not run.
- Four replicas: a master, one that waits for this frame, one for the next, and
  one that comes or goes. Five frames let the index of 0 and 1 come round twice,
  with up to two packets left over at once.
- Transcoder: two buffers and three pictures, so that a buffer is reused while another
  is held. Errors are not bounded.
- Three cameras make the destructor's loops have a first, middle and last; a second
  signal may come while the first one is being served.

- Event loop: task `b`'s delay is longer than the granularity and `a`'s is 0, so that
  entries go before, after and between others. Two triggers are enough for one to starve
  the other; the third source stands for the 33rd camera. Sockets have a run of their
  own, with four, so that one can be put before another, and a third closed between
  them, while the search goes past the last one handled. Time runs at most one unit
  ahead of a look at the clock (`MaxLag`) and is set back by one at most (`MaxBack`).
- Sessions: two connections and two sessions give a session a stream on a socket that
  another session streams over, leaves, or has left to a new connection, and a handler
  that is another connection. Connections are alike, and so are sessions (symmetry; no
  liveness is checked there). `MaxPayload` is 6, the shortest payload for which the
  fragmenter is right; the units played have 11 bytes and take 4 packets, and
  `FragmentsAreWhole` looks at every size up to 11.
- Configuration files: 2 names in lists of up to 3 give lists that name a camera twice.

The runs of the source and the transcoder do not check for deadlock: there the
thread ends, or nothing can be said any more. Neither do `event_loop` and
`event_loop_sockets`, where the loop has ended, nor `rtsp_sessions`, where nothing is said
any more once behaviour is undefined, and where all numbers of sockets may be lost to
connections that nobody reads. The other runs do.

### Fairness

- `LiveCamFramedSource`: the loop finishes the handler it is in, looks at the
  trigger word in every `SingleStep`, which goes round all triggers, and a thread
  that has a packet in hand goes on (the mutex is held for a push or a pop only).
  Nothing says that a thread encodes another packet or that a reader asks again.
- `Transcoder`: the thread is scheduled, and of FFmpeg's calls only `av_read_frame`
  may block for good.
- `LiveCameraRTSPServer`: the main thread and the transcoder threads go on, for the
  same reasons, and because `av_read_frame` returns in the end: a camera that goes silent
  for good would keep its transcoder's `stop`, and so the process, waiting
  (`StopEndsRun` has that exception). No signal need ever come.
- `BasicTaskScheduler`: the main thread gets on unless it sleeps with nothing to wake
  it: handlers return, and `select()` returns when a socket is readable or its
  time is up. Time passes again and again (strong fairness, as it stands still in
  the model while the loop has not looked at the clock for `MaxLag`). Nothing
  is assumed of sockets, threads, signals or of what handlers do, except that they
  return.
- `StreamReplicator` and `RTSPServer`: none.

## What is proved

For every value of the constants:

| Theorem | Says |
|---|---|
| `LiveCamFramedSourceProofs!TypeCorrect` | the source's variables keep their types |
| `FramesAreDeliveredOnce` | `Spec => []FramesOnce` |
| `OneCameraNoLostWakeup` | if there is one camera, `Spec => []NoLostWakeup` |
| `SourcesImplementMailbox` | `Spec => MailboxSafe` |
| `StreamReplicatorProofs!TypeCorrect` | `Spec => []TypeOK`, of the replicator |
| `AssertionsAlwaysHold` | `Spec => []AssertionsHold` |
| `EachQueuedOnce`, `CountsAlwaysMatch` | `Spec => []QueuedOnce`, `Spec => []CountsMatch` |
| `PlayersInLockstep`, `NoStallEver` | `Spec => []InLockstep`, `Spec => []NoStallUnlessLost` |
| `FramesInSequence` | `Spec => InSequence` |
| `PacketsAreRight` | `Spec => []EncodedAsCaptured` |
| `NoThreadOutlivesItsSource` | `Spec => []NoUseAfterDestruction` |
| `ServerTypeCorrect` | the process's variables keep their types |
| `EveryFileLoadsAsNamed` | `LoadsWhatIsNamed(document)`, for lists of any length |
| `BasicTaskSchedulerProofs!TypeCorrect` | `Spec => []TypeOK`, of the event loop |
| `TriggersHaveOneOwner` | `Spec => []TriggersAreOwned`, of the event loop |
| `SelectWatchesTheRegistered` | `Spec => []RegisteredAreWatched` |
| `TheQueueKeepsTime` | `Spec => []QueueKeepsTime` |
| `NoTaskRunsEarly` | `Spec => NeverEarly` |
| `TheLoopLooksUp` | `Spec => []SleepIsBounded` |
| `RTSPServerProofs!TypeCorrect` | `Spec => []TypeOK`, of the sessions |
| `TablesAgree`, `DescriptorsAlwaysAgree` | `Spec => []TableAgrees`, `Spec => []DescriptorsAgree` |
| `StreamsEndWithConnections`, `PlayersAlwaysAgree` | `Spec => []StreamsHaveConnections`, `Spec => []PlayersAgree` |
| `HeardAlwaysUntilEnded` | `Spec => HeardUntilEnded` |
| `FragmentsAlwaysWhole` | `Spec => []FragmentsAreWhole` |

So every safety property that a passing run checks is a theorem. (`ConfiguredAsNamed`
says of the run's files what `EveryFileLoadsAsNamed` says of every file.) The theorems
have the same exceptions as the properties.

*Source.* The invariant is `TypeOK /\ FramesOnce`. That nothing is delivered twice is
not inductive without the order of the buffer and `InHandIsNewest`: a packet about
to be pushed is newer than all in the buffer and all delivered, so the push keeps
them apart, and a pop moves the newest from one to the other. Only pushes and pops
touch this; that is why threads may interleave with the loop in any way. The
refinement uses the same invariant: a push keeps a frame newer than all others, and
a pop takes the newest. `NoLostWakeup` is inductive by itself for one camera,
because the loop's `&=~` can then only lose the bit whose handler it is about to
call.

*Replicator.* A handler is a function from record to record, and calls others in the
middle of its work, so the proofs have two invariants of a record. `Sound` holds
between any two calls: each replica that awaits a frame stands in one place
(`Queued`), those that await the next frame with the other index; the active ones are
counted (`Counted`); nobody has a frame newer than the newest (`FramesRight`). Unless a
frame was lost, it is also `Regular`: the deliveries made so far are those to the
replicas that have had the frame in hand (`Served`), and the others have the frame
before. `Settled` adds what holds when a handler is done: while a frame is in hand, some
player that has not had it has yet to ask for it. That is why there is no stall, and it
is not inductive without the count: it is the comparison of deliveries with active
replicas that completes the frame when the last one has asked. A frame is lost where the
last master leaves with it and nobody awaits it; `Regular` is then given up for good, and
the rest is still kept. `FramesInSequence` speaks of steps: within one handler, even
with a delivery inside a delivery, a replica that plays on is given the frame after its
last one, and no second one.

*Transcoder.* A packet is right because the frame it was made of was right when the
encoder let go of it; `IInv` says that of every frame the encoder refers to, and
`Convert` preserves it because it writes to no buffer that one refers to, or else adds
the pictures of all those that refer to it to `spoiled`.

*Server.* `IInv` adds how far construction and destruction have got, that the flag
says whether a thread runs, and that a thread which is not late has begun. Then
`~isRunningFlag[c]`, on which the source is closed, means that the thread is over.
The types of its variables are proved by a separate invariant, `TypeOK` itself.

*Configuration.* That `load` accepts what it should is an induction along the loop over
the active cameras (`ReadUpTo`): the outcome is good as long as all cameras so far were
complete, and then these are the ones read. The two comparisons of sizes refuse no sound
file because a list without repetition is no longer than a set that has its elements.

*Event loop, triggers and sockets.* `TriggersInv` and `SocketsInv` are the properties
with the types of what they speak of. `createEventTrigger` and the search for the next
trigger to handle go round the table from the last one used; that they come to
one of those searched for (`TheNearest`) holds because the distances from there have a
least element. The list of handlers is a sequence: what `RemoveAt` does to it is the
lemma `RemoveAtElements`.

*Event loop, delayed tasks.* What matters of a queue is its `Timetable`, the pairs of a
task and the time it is due. `DelayQueueProofs` shows for queues of any length that
synchronising takes the same time off every entry and stops at 0
(`SynchronizeTimetable`), that adding a task adds one pair and removing it takes that
pair away (`AddTimetable`, `RemoveTimetable`), and that the head is due first
(`HeadOfTimetable`). The due times are sums along the queue, so these are by induction
on the place (`NumberInduction`, from the least-number principle). `TasksInv` then
says of the timetable that no entry is due before its task is in truth, and later
only if the clock was set back, and that the scheduler's own task is due within the
granularity. The last part is what `SleepIsBounded` needs: `select()` is told to sleep
until the head is due, and the head is not due after the scheduler's task, which
`HandleAlarm` puts back in the step that takes it off. `NeverEarly` follows because
`HandleAlarm` runs the head only if that is due. `LoopInv` has the types of the
variables that are left, among them that a handler found in the list is that of a socket.

*Sessions.* Here, too, a handler is a function on the record `server`, and most are
composed of functions that leave it in a state no handler begins with. `Sound` is what
all of them keep. Its part `Wired` says that every channel of a socket is an interface
that sends over it and, for sessions last set up over TCP, the other way round (`Plugged`);
for UDP after TCP only the first holds, as all such interfaces of a socket share one channel
number. It says, too, that a descriptor reads a socket, or has a handler, only while it has
channels *or has lost the last one in its read loop and is yet to delete itself*, and that
the handler is a connection there is or `Deleted` (`Attached`): without the first it is not
inductive, as a request that comes through a descriptor may take its last channel away, and
without the second a deleted connection could be given a socket. `StreamOK` relates a
session's stream to replica, connection and interfaces, and `SinkOK` its sink to the requests
for frames and to what is left in the fragmenter; while a sink is served, all but that of its
session hold (`ToServe`). `Tabled` is the table of streaming over TCP. The invariant of steps,
`Inv`, adds that no read loop runs and that a session without a stream has no socket
(`Unbound`): for this reason a first SETUP for UDP never streams over a socket. Whatever only
plays, pauses or sends goes from `Sound` to `Sound` and changes neither streams nor hearing
(`GoesOn`), but for a PLAY from another connection (`GoesOnBut`); what ends a stream is shown
with the socket whose connection it may silence, which is the one the stream uses (`HeardBut`,
`SocketOf`), and `HeardUntilEnded` follows from that for each action. Closing a connection
ends the streams of a list of any length, one after the other (`StoppedUpTo`): that none
set up over TCP is left over is the induction along that list with `Tabled`.

*Fragments.* The fragmenter writes a fragment's headers into its buffer, over bytes it has
already sent. `Sending` says that the bytes not yet sent are still the unit's, and that
bytes 0 to 2 hold the headers to copy; `FragmentedUpTo`, that the fragments so far are
marked right, fit, and hold the unit's bytes up to there. A later fragment keeps this
because it begins at `MaxPayload` or beyond, and its three headers end before it and after
byte 2: that is where 6 bytes of payload are needed. With each call at least one byte more
is sent, so as many calls as the unit has bytes send it all (`NumberInduction`).

*Recursion.* `Fragments`, `StopTCPStreaming` and `ReadCameras` are recursive functions on
numbers. That such a function exists, which its equation presupposes, is proved where it is
used (`FragmentsRecursion`, `StoppedRecursion`, `ReadRecursion`) by number induction, and
`FlattenRecursion` does the same for `FlattenSeq` of the community modules.

Assumptions: the named ones of the modules (at least one camera, packet, socket and
trigger; a granularity that is not 0; delays and bounds are natural numbers; the
scheduler's task is not one of the others; `NoReplica` is no replica and `NoSocket`, -1,
no socket, nor is `Deleted`; finitely many identifiers of sessions, and names in a file;
6 bytes of payload or more), and `OneCamera` where it says so.

*Only model-checked:* liveness (`MailboxSpec`, of which `MailboxSafe` is proved, `StopEndsRun`,
`SignalEndsProcess` and that of the event loop), which is out of the
prover's reach.

## What is not modelled

- FFmpeg, the contents of RTCP packets and RTSP messages, and of a NAL unit beyond
  which byte is which. An encoded packet is taken to be one NAL unit, as the code
  takes it to be.
- `onSourceClosure`: the source never closes by itself, and is closed only when all
  clients are gone.
- A process with no camera: `load` accepts an `active_cameras` that is neither
  a list nor a name, and the server then serves nothing. `ConfiguredAsNamed` speaks of
  lists that name each camera once.
- Event loop: conditions other than readable, `moveSocketHandling` and rescheduling (not
  used by this server), sockets beyond `FD_SETSIZE`, a clock set forward (tasks are then
  early, as the code has no other clock), and the 68 years after which the queue's last
  entry is due.
- RTSP: DESCRIBE and the dummy sink that makes up the SDP, OPTIONS, parsing, HTTP
  tunnelling, authentication, REGISTER, multicast, several tracks; clients that use a
  channel number of a connection twice, or 0xFF; full socket buffers, for which packets
  are dropped; the limit of 2000 bytes that one call of a descriptor's read handler reads.
  Of RTCP packets cut off only that the client leaves within one is modelled. Socket
  numbers are those of connections: what else may get the number of a closed one, such as
  an RTCP socket, is left out. So is all that happens after a deleted connection was
  called. Time-outs come at any time once the sockets
  of clients that have left were read. A SETUP that fails once the session's stream
  states were made is left out, too.
- `max_packet_size` is taken to leave 6 bytes of payload at least, which nothing
  checks.
- RTCP: when a report is next due, which depends on the number and bandwidth of members
  (`RTCP.cpp`, `OnExpire`), and the table of members and their ages. The sessions model
  has that an instance exists, receives reports and ends.
- Most of `contrib/live`: file formats, clients, other codecs, and what Groupsock
  does by itself. It is vendored, and the server uses a dozen of its files.
- Weakly ordered memory: the unlocked variables are read and written in program
  order, one access at a time.

## Plan

1. *Done:* source, mailbox, replicator, transcoder, server; the event loop with its
   queue, sockets and triggers; sessions with their connections, streams and
   fragments; the configuration; the proofs above, of every safety property checked.
2. To extend:
   - `CameraStream`: source and replicator composed, so that nested deliveries come
     from the real buffer and the underflow is seen from the client's side;
   - an abstract specification of the replicator (each playing client gets every frame
     once), shown to be implemented while no frame is lost.
   - an abstract specification of a session, with the states that RFC 2326 gives it (none,
     ready, playing), implemented by `RTSPServer`.
3. To prove: that these abstract specifications are implemented, step by step, from the
   invariants there are.
