------------------------ MODULE LiveCameraRTSPServer ------------------------
(***************************************************************************)
(* The life of the process: main.cpp sets up the server and its            *)
(* transcoders, run() starts one detached thread per camera and enters the *)
(* event loop, a signal ends the loop, and the server's destructor stops   *)
(* the threads, closes the sources and frees the transcoders.              *)
(*                                                                         *)
(* The threads are detached: nothing but Transcoder::stop waits for them,  *)
(* and stop returns at once if the thread has not yet set isRunningFlag.   *)
(* A thread that uses a destroyed object is "lost", and what the process   *)
(* does from then on is undefined.                                         *)
(***************************************************************************)
EXTENDS Naturals

CONSTANTS
    NumCameras,     \* the cameras of the configuration, in vector order
    MaxSignals      \* bound on the signals sent to the process

ASSUME NumCamerasAssumption == NumCameras \in Nat \ {0}
ASSUME MaxSignalsAssumption == MaxSignals \in Nat

Cameras == 1 .. NumCameras

VARIABLES
    mainAt,         \* where the main thread is
    next,           \* the camera that the loop over a vector has reached
    watcher,        \* the watch variable of the event loop is set
    signals,        \* how many signals were sent
    source,         \* by camera: its LiveCamFramedSource: none, open or closed
    transcoder,     \* by camera: its Transcoder is none, alive or freed
    needToStopFlag, \* by camera: as in Transcoder
    isRunningFlag,  \* by camera: as in Transcoder
    threadAt,       \* by camera: where its transcoder thread is
    late            \* cameras whose thread had not begun when the loop ended

objectVars == <<source, transcoder>>
threadVars == <<needToStopFlag, isRunningFlag, threadAt>>
signalVars == <<watcher, signals>>

vars == <<mainAt, next, late, objectVars, threadVars, signalVars>>

Init ==
    /\ mainAt = "setup"
    /\ next = 1
    /\ watcher = FALSE
    /\ signals = 0
    /\ source = [c \in Cameras |-> "none"]
    /\ transcoder = [c \in Cameras |-> "none"]
    /\ needToStopFlag = [c \in Cameras |-> FALSE]
    /\ isRunningFlag = [c \in Cameras |-> FALSE]
    /\ threadAt = [c \in Cameras |-> "none"]
    /\ late = {}

\* The process is gone: main has returned, exit(1) or abort().  What it does
\* once it has used a destroyed object is undefined.
Ended == mainAt \in {"returned", "exited", "aborted", "undefined"}

-----------------------------------------------------------------------------
(***************************************************************************)
(* main() and LiveCameraRTSPServer::run.                                   *)
(***************************************************************************)

\* The main thread goes on to "to", with the first camera.
Proceed(from, to) ==
    /\ mainAt = from
    /\ mainAt' = to
    /\ next' = 1

\* Mutant: one camera too many.
NextCameraTooFar(from, to) ==
    /\ mainAt = from
    /\ IF next = NumCameras + 1
       THEN mainAt' = to /\ next' = 1
       ELSE mainAt' = from /\ next' = next + 1

\* ... and does so once it has been through all cameras.
NextCamera(from, to) ==
    /\ mainAt = from
    /\ IF next = NumCameras
       THEN mainAt' = to /\ next' = 1
       ELSE mainAt' = from /\ next' = next + 1

\* The configuration is loaded, the server constructed, shutdown_handler set.
SetUp ==
    /\ Proceed("setup", "addTranscoders")
    /\ UNCHANGED <<late, objectVars, threadVars, signalVars>>

\* The configuration's file type is not known, and main returns; or it cannot
\* be parsed, and the process aborts.  (A build without assertions goes on with
\* the cameras that were read before the error: that is SetUp.)
SetUpFails ==
    /\ \E end \in {"returned", "aborted"} : Proceed("setup", end)
    /\ UNCHANGED <<late, objectVars, threadVars, signalVars>>

\* The next camera's Transcoder is constructed, which opens the device.
AddTranscoder ==
    /\ NextCamera("addTranscoders", "createServer")
    /\ transcoder' = [transcoder EXCEPT ![next] = "alive"]
    /\ UNCHANGED <<late, source, threadVars, signalVars>>

\* The device, the codec or the filter cannot be opened: an assertion of the
\* constructor fails or, without assertions, what follows is undefined.
AddTranscoderFails ==
    /\ \E end \in {"aborted", "undefined"} : Proceed("addTranscoders", end)
    /\ UNCHANGED <<late, objectVars, threadVars, signalVars>>

\* RTSPServer::createNew.
CreateServer ==
    /\ Proceed("createServer", "addSessions")
    /\ UNCHANGED <<late, objectVars, threadVars, signalVars>>

\* The port is taken.
CreateServerFails ==
    /\ Proceed("createServer", "exited")
    /\ UNCHANGED <<late, objectVars, threadVars, signalVars>>

\* The next camera's source is constructed, and with it the thread.
AddMediaSession ==
    /\ NextCamera("addSessions", "loop")
    /\ source' = [source EXCEPT ![next] = "open"]
    /\ threadAt' = [threadAt EXCEPT ![next] = "spawned"]
    /\ UNCHANGED <<late, transcoder, needToStopFlag, isRunningFlag,
                   signalVars>>

\* doEventLoop finds the watch variable set, and returns.
LeaveLoop ==
    /\ watcher
    /\ Proceed("loop", "closeSources")
    /\ late' = {c \in Cameras : threadAt[c] = "spawned"}
    /\ UNCHANGED <<objectVars, threadVars, signalVars>>

-----------------------------------------------------------------------------
(***************************************************************************)
(* ~LiveCameraRTSPServer.                                                  *)
(***************************************************************************)

\* Mutant: Transcoder::stop waits, but does not ask.
StopSilently(c, at, wait) ==
    /\ mainAt = at
    /\ next = c
    /\ isRunningFlag[c]
    /\ mainAt' = wait
    /\ UNCHANGED <<next, late, objectVars, threadVars, signalVars>>

\* Transcoder::stop asks a running thread to stop.
Stop(c, at, wait) ==
    /\ mainAt = at
    /\ next = c
    /\ isRunningFlag[c]
    /\ needToStopFlag' = [needToStopFlag EXCEPT ![c] = TRUE]
    /\ mainAt' = wait
    /\ UNCHANGED <<next, late, objectVars, isRunningFlag, threadAt,
                   signalVars>>

\* Mutant: Transcoder::stop asks, but does not wait.
StoppedUnwaited(c, at, wait) ==
    /\ next = c
    /\ \/ mainAt = at /\ ~isRunningFlag[c]
       \/ mainAt = wait

\* ... and returns when it is not running, at once or after a wait.
Stopped(c, at, wait) ==
    /\ mainAt \in {at, wait}
    /\ next = c
    /\ ~isRunningFlag[c]

\* After the last camera the destructor is at "to".
NextDestroyed(at, to) ==
    IF next = NumCameras
    THEN mainAt' = to /\ next' = 1
    ELSE mainAt' = at /\ next' = next + 1

\* ~LiveCamFramedSource: stop the transcoder ...
StopForSource(c) == Stop(c, "closeSources", "waitForSource")

\* ... and be gone.
CloseSource(c) ==
    /\ Stopped(c, "closeSources", "waitForSource")
    /\ NextDestroyed("closeSources", "freeTranscoders")
    /\ source' = [source EXCEPT ![c] = "closed"]
    /\ UNCHANGED <<late, transcoder, threadVars, signalVars>>

\* ~Transcoder: stop it once more ...
StopForTranscoder(c) == Stop(c, "freeTranscoders", "waitForTranscoder")

\* ... and clean up.
FreeTranscoder(c) ==
    /\ Stopped(c, "freeTranscoders", "waitForTranscoder")
    /\ NextDestroyed("freeTranscoders", "destructed")
    /\ transcoder' = [transcoder EXCEPT ![c] = "freed"]
    /\ UNCHANGED <<late, source, threadVars, signalVars>>

\* The destructor resets the watch variable, and main returns.
Return ==
    /\ Proceed("destructed", "returned")
    /\ watcher' = FALSE
    /\ UNCHANGED <<late, objectVars, threadVars, signals>>

-----------------------------------------------------------------------------
(***************************************************************************)
(* The transcoder thread of camera c: Transcoder::run.                     *)
(***************************************************************************)

BeginRun(c) ==
    /\ ~Ended
    /\ threadAt[c] = "spawned"
    /\ transcoder[c] = "alive"
    /\ isRunningFlag' = [isRunningFlag EXCEPT ![c] = TRUE]
    /\ threadAt' = [threadAt EXCEPT ![c] = "running"]
    /\ UNCHANGED <<mainAt, next, late, objectVars, needToStopFlag,
                   signalVars>>

\* A frame is read, decoded and encoded, or was not to be had.
Capture(c) ==
    /\ ~Ended
    /\ threadAt[c] = "running"
    /\ transcoder[c] = "alive"
    /\ ~needToStopFlag[c]
    /\ \E at \in {"running", "callback"} :
            threadAt' = [threadAt EXCEPT ![c] = at]
    /\ UNCHANGED <<mainAt, next, late, objectVars, needToStopFlag,
                   isRunningFlag, signalVars>>

\* onEncodedDataCallback, which is bound to the source.
OnEncodedData(c) ==
    /\ ~Ended
    /\ threadAt[c] = "callback"
    /\ source[c] = "open"
    /\ threadAt' = [threadAt EXCEPT ![c] = "running"]
    /\ UNCHANGED <<mainAt, next, late, objectVars, needToStopFlag,
                   isRunningFlag, signalVars>>

EndRun(c) ==
    /\ ~Ended
    /\ threadAt[c] = "running"
    /\ transcoder[c] = "alive"
    /\ needToStopFlag[c]
    /\ isRunningFlag' = [isRunningFlag EXCEPT ![c] = FALSE]
    /\ threadAt' = [threadAt EXCEPT ![c] = "finished"]
    /\ UNCHANGED <<mainAt, next, late, objectVars, needToStopFlag,
                   signalVars>>

\* A step of the thread that uses a transcoder or a source that is gone.
UseDestroyed(c) ==
    /\ ~Ended
    /\ \/ threadAt[c] \in {"spawned", "running"} /\ transcoder[c] = "freed"
       \/ threadAt[c] = "callback" /\ source[c] = "closed"
    /\ mainAt' = "undefined"
    /\ threadAt' = [threadAt EXCEPT ![c] = "lost"]
    /\ UNCHANGED <<next, late, objectVars, needToStopFlag, isRunningFlag,
                   signalVars>>

-----------------------------------------------------------------------------
(***************************************************************************)
(* SIGINT and SIGTERM.                                                     *)
(***************************************************************************)

\* Before shutdown_handler is set calling it throws bad_function_call, which
\* nothing catches.
SignalBeforeHandler ==
    /\ mainAt = "setup"
    /\ signals < MaxSignals
    /\ signals' = signals + 1
    /\ mainAt' = "aborted"
    /\ UNCHANGED <<next, watcher, late, objectVars, threadVars>>

\* stopServer, in whatever the main thread is doing.  In the destructor it comes
\* too late to matter.
Signal ==
    /\ ~Ended
    /\ mainAt \notin {"setup", "destructed"}
    /\ signals < MaxSignals
    /\ signals' = signals + 1
    /\ watcher' = TRUE
    /\ UNCHANGED <<mainAt, next, late, objectVars, threadVars>>

-----------------------------------------------------------------------------
SetUpAndRun ==
    \/ SetUp \/ AddTranscoder \/ CreateServer \/ AddMediaSession \/ LeaveLoop
    \/ Return

Failure == SetUpFails \/ AddTranscoderFails \/ CreateServerFails

Destruct(c) ==
    \/ StopForSource(c) \/ CloseSource(c)
    \/ StopForTranscoder(c) \/ FreeTranscoder(c)

Run(c) ==
    \/ BeginRun(c) \/ Capture(c) \/ OnEncodedData(c) \/ EndRun(c)
    \/ UseDestroyed(c)

\* Nothing runs any more.
Over == Ended /\ UNCHANGED vars

Next ==
    \/ SetUpAndRun
    \/ Failure
    \/ \E c \in Cameras : Destruct(c) \/ Run(c)
    \/ SignalBeforeHandler
    \/ Signal
    \/ Over

Spec == Init /\ [][Next]_vars

\* The main thread is never blocked for good but in stop, and the thread of a
\* camera goes on: av_read_frame returns, with a frame or with an error.
Fairness ==
    /\ WF_vars(SetUpAndRun)
    /\ \A c \in Cameras : WF_vars(Destruct(c)) /\ WF_vars(Run(c))

FairSpec == Spec /\ Fairness

-----------------------------------------------------------------------------
(***************************************************************************)
(* Properties.                                                             *)
(***************************************************************************)

TypeOK ==
    /\ mainAt \in {"setup", "addTranscoders", "createServer", "addSessions",
                   "loop", "closeSources", "waitForSource", "freeTranscoders",
                   "waitForTranscoder", "destructed", "returned", "exited",
                   "aborted", "undefined"}
    /\ next \in Cameras
    /\ watcher \in BOOLEAN
    /\ signals \in 0 .. MaxSignals
    /\ source \in [Cameras -> {"none", "open", "closed"}]
    /\ transcoder \in [Cameras -> {"none", "alive", "freed"}]
    /\ needToStopFlag \in [Cameras -> BOOLEAN]
    /\ isRunningFlag \in [Cameras -> BOOLEAN]
    /\ threadAt \in [Cameras ->
            {"none", "spawned", "running", "callback", "finished", "lost"}]
    /\ late \subseteq Cameras

\* Transcoder.hpp says of stop that it "Stops capturing, encoding", and the
\* destructor of the source relies on it: once a source is closed, the thread
\* of its camera does not capture.
StopStopsCapturing ==
    \A c \in Cameras :
        source[c] = "closed" =>
            threadAt[c] \notin {"running", "callback", "lost"}

\* That much is true of every thread that had begun when the loop ended: it has
\* left run before its source is closed, and never uses an object that is gone;
\* and no transcoder is freed while its source is open.
NoUseAfterDestruction ==
    \A c \in Cameras :
        /\ transcoder[c] = "freed" => source[c] = "closed"
        /\ c \notin late => threadAt[c] # "lost"
        /\ source[c] = "closed" /\ c \notin late => threadAt[c] = "finished"

\* A signal that sets the watch variable ends the process, wherever the main
\* thread is: in the loop, before it, or in the destructor waiting for threads.
SignalEndsProcess == watcher ~> Ended
=============================================================================
