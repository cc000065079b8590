-------------------------- MODULE StreamReplicator --------------------------
(***************************************************************************)
(* One camera, many clients: live555's StreamReplicator reads each frame   *)
(* of the camera's source once and hands it to every replica.              *)
(*                                                                         *)
(* The first replica to ask for a frame becomes the master: the frame is   *)
(* read into its buffer and copied from there to the others, and the       *)
(* master itself is served last, when no other active replica still has to *)
(* ask for this frame.  A frame index of 0 or 1 tells a replica that wants *)
(* the frame being handed out from one that had it and wants the next.     *)
(*                                                                         *)
(* Everything here runs on the event loop, one handler at a time: a        *)
(* replica's request, its stop or removal, and the arrival of a frame are  *)
(* one step each.  The state of the object is one record, and what its     *)
(* methods do to it are functions on that record.  A client asks for its   *)
(* next frame from a task of its own (MultiFramedRTPSink schedules one),   *)
(* never from within the delivery of a frame.                              *)
(***************************************************************************)
EXTENDS Integers, Sequences, SequencesExt, FiniteSets

CONSTANTS
    Replicas,   \* the replicas there may be, one for each client
    NoReplica,  \* NULL
    MaxFrames   \* bound on the frames read from the source

ASSUME ReplicaAssumption == NoReplica \notin Replicas
ASSUME FrameAssumption   == MaxFrames \in Nat

VARIABLES
    replicas,   \* the replicas that exist
    rep         \* the replicator's and the replicas' fields

vars == <<replicas, rep>>

-----------------------------------------------------------------------------
(***************************************************************************)
(* Fields of the record s that a handler works on:                         *)
(*   fMasterReplica, fReplicasAwaitingCurrentFrame and ...NextFrame (the   *)
(*   lists, head first), fNumActiveReplicas, fNumDeliveriesMadeSoFar,      *)
(*   fFrameIndex as in the class;                                          *)
(*   index, awaiting: fFrameIndex and fIsCurrentlyAwaitingData by replica; *)
(*   buffer: the frame in each replica's buffer, 0 if none;                *)
(*   got: the last frame completed to each replica since it began to play, *)
(*     0 if none;                                                          *)
(*   reading: the source's fIsCurrentlyAwaitingData;                       *)
(*   frames: how many frames the source has delivered;                     *)
(*   lost: a frame that had been read was lost with the last master;       *)
(*   errors: the "Internal Error" messages printed, and what else is said  *)
(*     below not to happen.                                                *)
(***************************************************************************)

StreamReplicatorInit ==
    [fMasterReplica                |-> NoReplica,
     fReplicasAwaitingCurrentFrame |-> <<>>,
     fReplicasAwaitingNextFrame    |-> <<>>,
     fNumActiveReplicas            |-> 0,
     fNumDeliveriesMadeSoFar       |-> 0,
     fFrameIndex                   |-> 0,
     index    |-> [r \in Replicas |-> -1],
     awaiting |-> [r \in Replicas |-> FALSE],
     buffer   |-> [r \in Replicas |-> 0],
     got      |-> [r \in Replicas |-> 0],
     reading  |-> FALSE,
     frames   |-> 0,
     lost     |-> FALSE,
     errors   |-> {}]

Init ==
    /\ replicas = {}
    /\ rep = StreamReplicatorInit

\* "Internal Error" e, if the asserted condition does not hold.
Expect(s, e, holds) == IF holds THEN s ELSE [s EXCEPT !.errors = @ \union {e}]

-----------------------------------------------------------------------------
(***************************************************************************)
(* deliverReceivedFrame.                                                   *)
(***************************************************************************)

\* The frame is copied to all replicas that asked for it, and they are told.
ServeCurrent(s) ==
    LET served == Range(s.fReplicasAwaitingCurrentFrame)
        made   == s.fNumDeliveriesMadeSoFar
                      + Len(s.fReplicasAwaitingCurrentFrame)
        frame  == s.buffer[s.fMasterReplica]
    IN  IF served = {} THEN s
        ELSE IF s.fMasterReplica = NoReplica
        THEN [s EXCEPT !.errors = @ \union {"Internal Error 1"}]
        ELSE Expect([s EXCEPT
                !.fReplicasAwaitingCurrentFrame = <<>>,
                !.fNumDeliveriesMadeSoFar = made,
                !.index = [r \in Replicas |->
                              IF r \in served THEN 1 - @[r] ELSE @[r]],
                !.awaiting = [r \in Replicas |-> @[r] /\ r \notin served],
                !.buffer = [r \in Replicas |->
                              IF r \in served THEN frame ELSE @[r]],
                !.got = [r \in Replicas |->
                              IF r \in served THEN frame ELSE @[r]]],
             "Internal Error 2", made < s.fNumActiveReplicas)

\* Mutant: the frame is over when nobody awaits it any more.
MasterIsDueWhenAlone(s) ==
    /\ s.fReplicasAwaitingCurrentFrame = <<>>
    /\ s.fMasterReplica # NoReplica

\* No more requests for this frame are expected.
MasterIsDue(s) ==
    /\ s.fNumDeliveriesMadeSoFar + 1 = s.fNumActiveReplicas
    /\ s.fMasterReplica # NoReplica

\* The next frame begins: the head of those that asked for it is the master.
BeginNextFrame(s) ==
    LET next == s.fReplicasAwaitingNextFrame
    IN  [s EXCEPT
            !.index[s.fMasterReplica] = 1 - @,
            !.fFrameIndex = 1 - @,
            !.fNumDeliveriesMadeSoFar = 0,
            !.fMasterReplica = IF next = <<>> THEN NoReplica ELSE Head(next),
            !.fReplicasAwaitingNextFrame =
                IF next = <<>> THEN next ELSE Tail(next)]

\* The others that asked for it follow, and the old master is told.
EndFrame(s, oldMaster) ==
    [Expect(s, "Internal Error 3", s.fReplicasAwaitingCurrentFrame = <<>>)
        EXCEPT
        !.fReplicasAwaitingCurrentFrame = s.fReplicasAwaitingNextFrame,
        !.fReplicasAwaitingNextFrame = <<>>,
        !.awaiting[oldMaster] = FALSE,
        !.got[oldMaster] = s.buffer[oldMaster]]

\* The source is asked for a frame; it may not be asked twice.
StartReading(s) == [Expect(s, "read twice", ~s.reading) EXCEPT !.reading = TRUE]

\* A frame is read into the master's buffer.
FrameRead(s) ==
    [s EXCEPT !.reading = FALSE,
              !.frames = @ + 1,
              !.buffer[s.fMasterReplica] = s.frames + 1]

\* The source has a frame left over and calls back within getNextFrame, so
\* that deliverReceivedFrame runs within itself.  Then nobody has asked for
\* the new frame but its master, and the old master still has to: there is
\* nothing to do.
DeliverNested(s) ==
    Expect(s, "nested delivery",
           s.fReplicasAwaitingCurrentFrame = <<>> /\ ~MasterIsDue(s))

\* leftOver: how many frames the source has left over and delivers at once.
DeliverReceivedFrame(s, leftOver) ==
    LET t == ServeCurrent(s)
        u == BeginNextFrame(t)
        v == IF u.fMasterReplica = NoReplica THEN u
             ELSE IF leftOver = 0 THEN StartReading(u)
             ELSE DeliverNested(FrameRead(StartReading(u)))
    IN  IF MasterIsDue(t) THEN EndFrame(v, t.fMasterReplica) ELSE t

\* fInputSource->getNextFrame into the master's buffer, outside a delivery.
ReadFrame(s, leftOver) ==
    IF leftOver = 0 THEN StartReading(s)
    ELSE DeliverReceivedFrame(FrameRead(StartReading(s)), leftOver - 1)

-----------------------------------------------------------------------------
(***************************************************************************)
(* getNextFrame of a replica.                                              *)
(***************************************************************************)

\* Mutant: a replica is counted with every request.
ActivateAlways(s, r) ==
    [s EXCEPT !.index[r] = s.fFrameIndex, !.fNumActiveReplicas = @ + 1]

Activate(s, r) ==
    IF s.index[r] # -1 THEN s
    ELSE [s EXCEPT !.index[r] = s.fFrameIndex, !.fNumActiveReplicas = @ + 1]

GetNextFrame(s, r, leftOver) ==
    LET t == Activate([s EXCEPT !.awaiting[r] = TRUE], r)
    IN  IF t.fMasterReplica = NoReplica
        THEN ReadFrame([t EXCEPT !.fMasterReplica = r], leftOver)
        ELSE IF t.index[r] # t.fFrameIndex
        THEN [t EXCEPT !.fReplicasAwaitingNextFrame = <<r>> \o @]
        ELSE LET u == [t EXCEPT !.fReplicasAwaitingCurrentFrame = <<r>> \o @]
             IN  IF u.reading THEN u ELSE DeliverReceivedFrame(u, leftOver)

-----------------------------------------------------------------------------
(***************************************************************************)
(* deactivateStreamReplica.                                                *)
(***************************************************************************)

\* Mutant: the count of deliveries is not tested for zero.
ForgetUnguarded(s, r) ==
    [Expect(s, "Internal Error", s.fNumActiveReplicas > 0) EXCEPT
        !.fNumActiveReplicas = @ - 1,
        !.fNumDeliveriesMadeSoFar =
            IF s.index[r] # s.fFrameIndex THEN @ - 1 ELSE @,
        !.index[r] = -1,
        !.awaiting[r] = FALSE,
        !.got[r] = 0]

Forget(s, r) ==
    [Expect(s, "Internal Error", s.fNumActiveReplicas > 0) EXCEPT
        !.fNumActiveReplicas = @ - 1,
        !.fNumDeliveriesMadeSoFar =
            IF s.index[r] # s.fFrameIndex /\ @ > 0 THEN @ - 1 ELSE @,
        !.index[r] = -1,
        !.awaiting[r] = FALSE,
        !.got[r] = 0]

\* Mutant: the pending read is not stopped before it starts over.
ReplaceMasterReading(s, r, leftOver) ==
    LET current == s.fReplicasAwaitingCurrentFrame
        t == IF current = <<>> THEN [s EXCEPT !.fMasterReplica = NoReplica]
             ELSE [s EXCEPT !.fMasterReplica = Head(current),
                            !.fReplicasAwaitingCurrentFrame = Tail(current)]
    IN  IF current = <<>> THEN [t EXCEPT !.reading = FALSE, !.lost = ~s.reading]
        ELSE IF s.reading THEN ReadFrame(t, leftOver)
        ELSE [t EXCEPT !.buffer[t.fMasterReplica] = s.buffer[r]]

\* Mutant: the frame already read is not copied to the new master.
ReplaceMasterNoCopy(s, r, leftOver) ==
    LET current == s.fReplicasAwaitingCurrentFrame
        t == IF current = <<>> THEN [s EXCEPT !.fMasterReplica = NoReplica]
             ELSE [s EXCEPT !.fMasterReplica = Head(current),
                            !.fReplicasAwaitingCurrentFrame = Tail(current)]
    IN  IF current = <<>> THEN [t EXCEPT !.reading = FALSE, !.lost = ~s.reading]
        ELSE IF s.reading THEN ReadFrame([t EXCEPT !.reading = FALSE], leftOver)
        ELSE t

\* The head of those awaiting the current frame, if any, replaces master r; a
\* pending read starts over with it, a frame already read is copied to it.
ReplaceMaster(s, r, leftOver) ==
    LET current == s.fReplicasAwaitingCurrentFrame
        t == IF current = <<>> THEN [s EXCEPT !.fMasterReplica = NoReplica]
             ELSE [s EXCEPT !.fMasterReplica = Head(current),
                            !.fReplicasAwaitingCurrentFrame = Tail(current)]
    IN  IF s.reading
        THEN LET u == [t EXCEPT !.reading = FALSE]
             IN  IF current = <<>> THEN u ELSE ReadFrame(u, leftOver)
        ELSE IF current = <<>> THEN [t EXCEPT !.lost = TRUE]
        ELSE [t EXCEPT !.buffer[t.fMasterReplica] = s.buffer[r]]

\* Mutant: r stays in the list of those awaiting the next frame.
DequeueCurrent(s, r, leftOver) ==
    LET t == [s EXCEPT !.fReplicasAwaitingCurrentFrame = RemoveFirst(@, r)]
    IN  IF t.fMasterReplica # NoReplica /\ ~t.reading
        THEN DeliverReceivedFrame(t, leftOver) ELSE t

\* Mutant: nobody looks whether this completes the delivery of the frame.
DequeueOnly(s, r, leftOver) ==
    [s EXCEPT !.fReplicasAwaitingCurrentFrame = RemoveFirst(@, r),
              !.fReplicasAwaitingNextFrame = RemoveFirst(@, r)]

\* r leaves the lists, and this may complete the delivery of the frame.
Dequeue(s, r, leftOver) ==
    LET t == [s EXCEPT !.fReplicasAwaitingCurrentFrame = RemoveFirst(@, r),
                       !.fReplicasAwaitingNextFrame = RemoveFirst(@, r)]
    IN  IF t.fMasterReplica # NoReplica /\ ~t.reading
        THEN DeliverReceivedFrame(t, leftOver) ELSE t

DeactivateStreamReplica(s, r, leftOver) ==
    IF s.index[r] = -1 THEN s
    ELSE LET t == Forget(s, r)
             u == IF s.fMasterReplica = r THEN ReplaceMaster(t, r, leftOver)
                  ELSE Dequeue(t, r, leftOver)
         IN  IF u.fNumActiveReplicas = 0
             THEN [u EXCEPT !.reading = FALSE] ELSE u

-----------------------------------------------------------------------------
(***************************************************************************)
(* The event loop's steps.                                                 *)
(***************************************************************************)

\* How many frames the source may have left over, after n more were read.
LeftOver(n) == {m \in 0 .. 2 : rep.frames + n + m <= MaxFrames}

\* A client sets up a stream: createStreamReplica.
CreateStreamReplica(r) ==
    /\ r \notin replicas
    /\ replicas' = replicas \union {r}
    /\ UNCHANGED rep

\* The client of r asks for a frame: FramedSource::getNextFrame of the replica.
Request(r) ==
    /\ r \in replicas
    /\ ~rep.awaiting[r]
    /\ \E leftOver \in LeftOver(0) : rep' = GetNextFrame(rep, r, leftOver)
    /\ UNCHANGED replicas

\* The client pauses: stopGettingFrames of the replica.
Stop(r) ==
    /\ r \in replicas
    /\ \E leftOver \in LeftOver(0) :
        rep' = DeactivateStreamReplica(rep, r, leftOver)
    /\ UNCHANGED replicas

\* The client is gone: removeStreamReplica.  The server has the replicator
\* outlive its last replica.
RemoveStreamReplica(r) ==
    /\ r \in replicas
    /\ \E leftOver \in LeftOver(0) :
        rep' = DeactivateStreamReplica(rep, r, leftOver)
    /\ replicas' = replicas \ {r}

\* The source delivers the frame it was asked for.
AfterGettingFrame ==
    /\ rep.reading
    /\ \E leftOver \in LeftOver(1) :
        rep' = DeliverReceivedFrame(FrameRead(rep), leftOver)
    /\ UNCHANGED replicas

Next ==
    \/ \E r \in Replicas :
        \/ CreateStreamReplica(r) \/ Request(r)
        \/ Stop(r) \/ RemoveStreamReplica(r)
    \/ AfterGettingFrame

Spec == Init /\ [][Next]_vars

-----------------------------------------------------------------------------
(***************************************************************************)
(* Properties.                                                             *)
(***************************************************************************)

TypeOK ==
    /\ replicas \subseteq Replicas
    /\ rep.fMasterReplica \in Replicas \union {NoReplica}
    /\ rep.fReplicasAwaitingCurrentFrame \in Seq(Replicas)
    /\ rep.fReplicasAwaitingNextFrame \in Seq(Replicas)
    /\ rep.fNumActiveReplicas \in Nat
    /\ rep.fNumDeliveriesMadeSoFar \in Nat
    /\ rep.fFrameIndex \in {0, 1}
    /\ rep.index \in [Replicas -> {-1, 0, 1}]
    /\ rep.awaiting \in [Replicas -> BOOLEAN]
    /\ rep.buffer \in [Replicas -> 0 .. MaxFrames]
    /\ rep.got \in [Replicas -> 0 .. MaxFrames]
    /\ rep.reading \in BOOLEAN
    /\ rep.frames \in 0 .. MaxFrames
    /\ rep.lost \in BOOLEAN

\* The replicas that are playing.
Active == {r \in Replicas : rep.index[r] # -1}

\* Four of the five assertions in the comments of StreamReplicator.cpp hold,
\* the source is never asked for a frame while it reads one (which would abort
\* the server), and a delivery within a delivery has nothing to do.  The fifth,
\* "Internal Error 2", does not hold: see NoStall.
AssertionsHold == rep.errors \subseteq {"Internal Error 2"}

\* A replica that awaits a frame is in exactly one place, the master's or one
\* of the lists, and no other is in any: no request is forgotten and no replica
\* is served that did not ask, or no longer exists.
QueuedOnce ==
    LET queue == <<rep.fMasterReplica>> \o rep.fReplicasAwaitingCurrentFrame
                     \o rep.fReplicasAwaitingNextFrame
    IN  /\ IsInjective(queue)
        /\ {r \in Replicas : rep.awaiting[r]} = Range(queue) \ {NoReplica}
        /\ Range(queue) \ {NoReplica} \subseteq Active \intersect replicas

\* The count of active replicas is right at all times, and the source reads
\* only for a master.
CountsMatch ==
    /\ rep.fNumActiveReplicas = Cardinality(Active)
    /\ rep.reading => rep.fMasterReplica # NoReplica

\* A replica that plays on gets newer frames only, and gets every frame unless
\* one was lost with its master.
InSequence ==
    [][\A r \in Active : LET old == rep.got[r]
                             new == rep'.got[r]
                         IN  new \notin {0, old} /\ old # 0 =>
                                 new > old /\ (new = old + 1 \/ rep'.lost)]_vars

\* Clients play in lockstep: no replica is ever given a frame while another one
\* that plays still lacks the one before, however slow its client is.
InLockstep ==
    rep.lost \/ \A r, q \in Active : 0 \notin {rep.got[r], rep.got[q]} =>
                                       rep.got[r] <= rep.got[q] + 1

\* Somebody can move: a replica awaits a frame only while the source reads or
\* another active replica, which has not asked yet, is being waited for.
SomebodyToWaitFor ==
    (\E r \in Replicas : rep.awaiting[r]) =>
        rep.reading \/ \E r \in Active : ~rep.awaiting[r]

\* deliverReceivedFrame's comment: "if no more requests for this frame are
\* expected, complete delivery to the 'master replica' itself".  The replicas
\* never all wait for each other.
NoStall == SomebodyToWaitFor

\* Losing a read frame together with the last master is what it takes for a
\* stall: otherwise the deliveries made are counted right, there are fewer than
\* active replicas as the code asserts, and somebody can move.
NoStallUnlessLost ==
    ~rep.lost =>
        /\ SomebodyToWaitFor
        /\ "Internal Error 2" \notin rep.errors
        /\ rep.fNumDeliveriesMadeSoFar =
               Cardinality({r \in Active : rep.index[r] # rep.fFrameIndex})
=============================================================================
