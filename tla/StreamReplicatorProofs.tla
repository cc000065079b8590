------------------------ MODULE StreamReplicatorProofs ------------------------
(***************************************************************************)
(* Proofs about StreamReplicator, for any number of replicas and frames.   *)
(*                                                                         *)
(* A handler is a function from record to record, so the proofs are about  *)
(* records first: each function is described field by field, and then it   *)
(* is shown what it makes of a record that is sound.  Only the last two    *)
(* sections speak of the variables and of steps.                           *)
(***************************************************************************)
EXTENDS StreamReplicator, ListProofs

-----------------------------------------------------------------------------
(***************************************************************************)
(* The invariant.                                                          *)
(***************************************************************************)

Indexes == [Replicas -> {-1, 0, 1}]
Flags   == [Replicas -> BOOLEAN]
Frames  == [Replicas -> 0 .. MaxFrames]

\* The assertion that a lost frame can violate.
Stall == "Internal Error 2"

Fields ==
    [fMasterReplica                : Replicas \union {NoReplica},
     fReplicasAwaitingCurrentFrame : Lists(Replicas),
     fReplicasAwaitingNextFrame    : Lists(Replicas),
     fNumActiveReplicas            : Nat,
     fNumDeliveriesMadeSoFar       : Nat,
     fFrameIndex                   : {0, 1},
     index    : Indexes,
     awaiting : Flags,
     buffer   : Frames,
     got      : Frames,
     reading  : BOOLEAN,
     frames   : 0 .. MaxFrames,
     lost     : BOOLEAN,
     errors   : SUBSET {Stall}]

\* Who awaits this frame and the next one, who plays, and who has had this frame.
Current(s) == Range(s.fReplicasAwaitingCurrentFrame)
Waiting(s) == Range(s.fReplicasAwaitingNextFrame)
Playing(s) == {r \in Replicas : s.index[r] # -1}
Served(s)  == {r \in Playing(s) : s.index[r] # s.fFrameIndex}

\* A frame has been read and its delivery is not complete.
InHand(s)  == s.fMasterReplica # NoReplica /\ ~s.reading

\* Those that await a frame stand in one place each, those that await the next
\* frame are an index ahead, and a master plays.
Queued(s) ==
    /\ Current(s) \intersect Waiting(s) = {}
    /\ s.fMasterReplica \notin Current(s) \union Waiting(s)
    /\ \A r \in Replicas :
           s.awaiting[r] <=> \/ r = s.fMasterReplica
                             \/ r \in Current(s) \union Waiting(s)
    /\ \A r \in Current(s) : s.index[r] = s.fFrameIndex
    /\ \A r \in Waiting(s) : s.index[r] = 1 - s.fFrameIndex
    /\ s.fMasterReplica # NoReplica => s.fMasterReplica \in Playing(s)
    /\ s.fMasterReplica = NoReplica => ~s.reading /\ Current(s) = {}

\* The active replicas are counted.
Counted(s) ==
    /\ IsFiniteSet(Playing(s))
    /\ s.fNumActiveReplicas = Cardinality(Playing(s))

\* The frame in hand is the newest, nobody has a newer one, and who does not
\* play has none.
FramesRight(s) ==
    /\ InHand(s) => s.buffer[s.fMasterReplica] = s.frames
    /\ \A r \in Replicas : /\ s.got[r] <= s.frames
                           /\ r \notin Playing(s) => s.got[r] = 0

\* What holds as long as no frame was lost: no assertion was violated, the
\* deliveries made are those to the replicas served, the master is not one of
\* them, nobody waits for nothing, and who was not served has the frame before.
Regular(s) ==
    /\ s.errors = {}
    /\ s.fNumDeliveriesMadeSoFar = Cardinality(Served(s))
    /\ s.fMasterReplica # NoReplica => s.index[s.fMasterReplica] = s.fFrameIndex
    /\ s.fMasterReplica = NoReplica => Waiting(s) = {}
    /\ ~InHand(s) => Served(s) = {}
    /\ \A r \in Playing(s) : s.got[r] # 0 =>
           s.got[r] = IF InHand(s) /\ r \notin Served(s)
                      THEN s.frames - 1 ELSE s.frames

\* What holds between any two calls within a handler,
Sound(s) ==
    /\ s \in Fields
    /\ Queued(s)
    /\ Counted(s)
    /\ FramesRight(s)
    /\ ~s.lost => Regular(s)

\* and what holds when the handler is done: while a frame is in hand, some
\* player has yet to ask for it.
Settled(s) ==
    /\ Sound(s)
    /\ ~s.lost /\ InHand(s) => \E r \in Playing(s) \ Served(s) : ~s.awaiting[r]

-----------------------------------------------------------------------------
(***************************************************************************)
(* The frame is handed to those that asked for it.                         *)
(***************************************************************************)

\* The fields are of their types.
LEMMA FieldTypes ==
    ASSUME NEW s \in Fields
    PROVE  /\ s.fMasterReplica \in Replicas \union {NoReplica}
           /\ s.fReplicasAwaitingCurrentFrame \in Lists(Replicas)
           /\ s.fReplicasAwaitingNextFrame \in Lists(Replicas)
           /\ s.fNumActiveReplicas \in Nat
           /\ s.fNumDeliveriesMadeSoFar \in Nat
           /\ s.fFrameIndex \in {0, 1}
           /\ s.index \in Indexes /\ s.awaiting \in Flags
           /\ s.buffer \in Frames /\ s.got \in Frames
           /\ s.reading \in BOOLEAN /\ s.frames \in 0 .. MaxFrames
           /\ s.lost \in BOOLEAN /\ s.errors \subseteq {Stall}
           /\ Current(s) \subseteq Replicas /\ Waiting(s) \subseteq Replicas
           /\ s.fReplicasAwaitingCurrentFrame = <<>> <=> Current(s) = {}
           /\ s.fReplicasAwaitingNextFrame = <<>> <=> Waiting(s) = {}
<1>1. /\ s.fMasterReplica \in Replicas \union {NoReplica}
      /\ s.fReplicasAwaitingCurrentFrame \in Lists(Replicas)
      /\ s.fReplicasAwaitingNextFrame \in Lists(Replicas)
      /\ s.fNumActiveReplicas \in Nat
      /\ s.fNumDeliveriesMadeSoFar \in Nat
      /\ s.fFrameIndex \in {0, 1}
      /\ s.index \in Indexes /\ s.awaiting \in Flags
      /\ s.buffer \in Frames /\ s.got \in Frames
      /\ s.reading \in BOOLEAN /\ s.frames \in 0 .. MaxFrames
      /\ s.lost \in BOOLEAN /\ s.errors \subseteq {Stall}
  BY DEF Fields
<1> QED BY <1>1, ListTypes DEF Current, Waiting

\* ServeCurrent, field by field.
LEMMA ServeCurrentFields ==
    ASSUME NEW s \in Fields, s.fMasterReplica # NoReplica, Current(s) # {},
           \A r \in Current(s) : s.index[r] = s.fFrameIndex
    PROVE  LET t == ServeCurrent(s)
               made == s.fNumDeliveriesMadeSoFar + Len(s.fReplicasAwaitingCurrentFrame)
               frame == s.buffer[s.fMasterReplica]
           IN  /\ t \in Fields
               /\ t.fMasterReplica = s.fMasterReplica
               /\ t.fReplicasAwaitingCurrentFrame = <<>>
               /\ t.fReplicasAwaitingNextFrame = s.fReplicasAwaitingNextFrame
               /\ t.fNumActiveReplicas = s.fNumActiveReplicas
               /\ t.fNumDeliveriesMadeSoFar = made
               /\ t.fFrameIndex = s.fFrameIndex
               /\ \A r \in Replicas :
                    /\ t.index[r] = IF r \in Current(s) THEN 1 - s.index[r]
                                    ELSE s.index[r]
                    /\ t.awaiting[r] <=> s.awaiting[r] /\ r \notin Current(s)
                    /\ t.buffer[r] = IF r \in Current(s) THEN frame ELSE s.buffer[r]
                    /\ t.got[r] = IF r \in Current(s) THEN frame ELSE s.got[r]
               /\ t.reading = s.reading /\ t.frames = s.frames /\ t.lost = s.lost
               /\ t.errors = IF made < s.fNumActiveReplicas THEN s.errors
                             ELSE s.errors \union {Stall}
<1> DEFINE t == ServeCurrent(s)
           made  == s.fNumDeliveriesMadeSoFar + Len(s.fReplicasAwaitingCurrentFrame)
           frame == s.buffer[s.fMasterReplica]
           index == [r \in Replicas |-> IF r \in Current(s) THEN 1 - s.index[r]
                                        ELSE s.index[r]]
           awaiting == [r \in Replicas |-> s.awaiting[r] /\ r \notin Current(s)]
           buffer == [r \in Replicas |-> IF r \in Current(s) THEN frame ELSE s.buffer[r]]
           got == [r \in Replicas |-> IF r \in Current(s) THEN frame ELSE s.got[r]]
           u == [s EXCEPT !.fReplicasAwaitingCurrentFrame = <<>>,
                          !.fNumDeliveriesMadeSoFar = made,
                          !.index = index, !.awaiting = awaiting,
                          !.buffer = buffer, !.got = got]
<1>0. /\ s.fMasterReplica \in Replicas
      /\ s.fReplicasAwaitingCurrentFrame \in Lists(Replicas)
      /\ s.fNumDeliveriesMadeSoFar \in Nat
      /\ s.index \in Indexes /\ s.awaiting \in Flags
      /\ s.buffer \in Frames /\ s.got \in Frames
      /\ s.fFrameIndex \in {0, 1}
  BY FieldTypes
<1>1. made \in Nat
  BY <1>0, ListTypes
<1>2. index \in Indexes
  BY <1>0 DEF Indexes
<1>3. awaiting \in Flags
  BY DEF Flags
<1>4. frame \in 0 .. MaxFrames
  BY <1>0 DEF Frames
<1>5. buffer \in Frames /\ got \in Frames
  <2> HIDE DEF frame
  <2> QED BY <1>0, <1>4 DEF Frames
<1>6. t = Expect(u, Stall, made < s.fNumActiveReplicas)
  BY DEF ServeCurrent, Current, Stall
<1>7. \A r \in Replicas :
          /\ index[r] = IF r \in Current(s) THEN 1 - s.index[r] ELSE s.index[r]
          /\ awaiting[r] <=> s.awaiting[r] /\ r \notin Current(s)
          /\ buffer[r] = IF r \in Current(s) THEN frame ELSE s.buffer[r]
          /\ got[r] = IF r \in Current(s) THEN frame ELSE s.got[r]
  OBVIOUS
<1> HIDE DEF made, index, awaiting, buffer, got, frame
<1>8. /\ u \in Fields
      /\ u.fMasterReplica = s.fMasterReplica
      /\ u.fReplicasAwaitingCurrentFrame = <<>>
      /\ u.fReplicasAwaitingNextFrame = s.fReplicasAwaitingNextFrame
      /\ u.fNumActiveReplicas = s.fNumActiveReplicas
      /\ u.fNumDeliveriesMadeSoFar = made
      /\ u.fFrameIndex = s.fFrameIndex
      /\ u.index = index /\ u.awaiting = awaiting
      /\ u.buffer = buffer /\ u.got = got
      /\ u.reading = s.reading /\ u.frames = s.frames /\ u.lost = s.lost
      /\ u.errors = s.errors
  BY <1>1, <1>2, <1>3, <1>5, EmptyList DEF Fields
<1> HIDE DEF u, t
<1>9. /\ t \in Fields
      /\ t.fMasterReplica = u.fMasterReplica
      /\ t.fReplicasAwaitingCurrentFrame = u.fReplicasAwaitingCurrentFrame
      /\ t.fReplicasAwaitingNextFrame = u.fReplicasAwaitingNextFrame
      /\ t.fNumActiveReplicas = u.fNumActiveReplicas
      /\ t.fNumDeliveriesMadeSoFar = u.fNumDeliveriesMadeSoFar
      /\ t.fFrameIndex = u.fFrameIndex
      /\ t.index = u.index /\ t.awaiting = u.awaiting
      /\ t.buffer = u.buffer /\ t.got = u.got
      /\ t.reading = u.reading /\ t.frames = u.frames /\ t.lost = u.lost
      /\ t.errors = IF made < s.fNumActiveReplicas THEN u.errors
                    ELSE u.errors \union {Stall}
  BY <1>6, <1>8 DEF Fields, Expect
<1> QED BY <1>7, <1>8, <1>9 DEF t, made, frame

\* Everybody who asked for the frame gets it, and nothing else changes.
LEMMA ServeCurrentSound ==
    ASSUME NEW s, Sound(s), InHand(s)
    PROVE  LET t == ServeCurrent(s)
           IN  /\ Sound(t) /\ InHand(t) /\ Current(t) = {}
               /\ t.fMasterReplica = s.fMasterReplica
               /\ Playing(t) = Playing(s)
               /\ t.frames = s.frames /\ t.lost = s.lost
               /\ \A r \in Replicas : t.got[r] \in {s.got[r], s.frames}
<1> DEFINE t == ServeCurrent(s)
           m == s.fMasterReplica
           more == Len(s.fReplicasAwaitingCurrentFrame)
<1>1. CASE Current(s) = {}
  <2>1. t = s
    BY <1>1 DEF ServeCurrent, Current
  <2> QED BY <1>1, <2>1
<1>2. CASE Current(s) # {}
  <2>1. /\ s \in Fields /\ m # NoReplica /\ m \in Replicas /\ m \notin Current(s)
        /\ Current(s) \subseteq Replicas /\ s.fFrameIndex \in {0, 1}
        /\ s.frames \in 0 .. MaxFrames /\ s.fNumActiveReplicas \in Nat
        /\ s.index \in Indexes
        /\ \A r \in Current(s) : s.index[r] = s.fFrameIndex
    BY FieldTypes DEF Sound, Queued, InHand
  <2>2. /\ t \in Fields
        /\ t.fMasterReplica = m
        /\ t.fReplicasAwaitingCurrentFrame = <<>>
        /\ t.fReplicasAwaitingNextFrame = s.fReplicasAwaitingNextFrame
        /\ t.fNumActiveReplicas = s.fNumActiveReplicas
        /\ t.fNumDeliveriesMadeSoFar = s.fNumDeliveriesMadeSoFar + more
        /\ t.fFrameIndex = s.fFrameIndex
        /\ \A r \in Replicas :
             /\ t.index[r] = IF r \in Current(s) THEN 1 - s.index[r] ELSE s.index[r]
             /\ t.awaiting[r] <=> s.awaiting[r] /\ r \notin Current(s)
             /\ t.buffer[r] = IF r \in Current(s) THEN s.buffer[m] ELSE s.buffer[r]
             /\ t.got[r] = IF r \in Current(s) THEN s.buffer[m] ELSE s.got[r]
        /\ t.reading = s.reading /\ t.frames = s.frames /\ t.lost = s.lost
        /\ t.errors = IF s.fNumDeliveriesMadeSoFar + more < s.fNumActiveReplicas
                      THEN s.errors ELSE s.errors \union {Stall}
    BY <1>2, <2>1, ServeCurrentFields
  <2> HIDE DEF t
  <2>3. InHand(t) /\ ~t.reading
    BY <2>2 DEF InHand
  <2>4. Current(t) = {} /\ Waiting(t) = Waiting(s)
    BY <2>2, EmptyList DEF Current, Waiting
  <2>0. \A r \in Current(s) :
            s.index[r] # -1 /\ t.index[r] # -1 /\ t.index[r] # s.fFrameIndex
    <3>1. TAKE r \in Current(s)
    <3>2. t.index[r] = 1 - s.fFrameIndex /\ s.index[r] = s.fFrameIndex
      BY <2>1, <2>2
    <3> QED BY <2>1, <3>2
  <2>5. Playing(t) = Playing(s) /\ Current(s) \subseteq Playing(s)
    <3>1. \A r \in Replicas : r \notin Current(s) => t.index[r] = s.index[r]
      BY <2>2
    <3> QED BY <2>0, <2>1, <3>1 DEF Playing
  <2>6. Served(t) = Served(s) \union Current(s) /\ Served(s) \intersect Current(s) = {}
    <3>1. \A r \in Replicas : r \notin Current(s) => t.index[r] = s.index[r]
      BY <2>2
    <3>2. \A r \in Playing(s) : r \in Replicas
      BY DEF Playing
    <3>3. t.fFrameIndex = s.fFrameIndex
      BY <2>2
    <3>4. \A r \in Playing(s) :
              r \in Served(t) <=> r \in Served(s) \/ r \in Current(s)
      BY <2>0, <2>5, <3>1, <3>2, <3>3 DEF Served
    <3>5. Served(t) \subseteq Playing(s) /\ Served(s) \subseteq Playing(s)
      BY <2>5 DEF Served
    <3>6. \A r \in Current(s) : r \notin Served(s)
      BY <2>1 DEF Served
    <3> QED BY <2>5, <3>4, <3>5, <3>6
  <2>7. s.buffer[m] = s.frames /\ t.buffer[m] = s.frames
    BY <2>1, <2>2 DEF Sound, FramesRight
  <2>8. Queued(t)
    <3>1. /\ Queued(s)
          /\ t.fMasterReplica = m /\ t.fFrameIndex = s.fFrameIndex
          /\ \A r \in Replicas : t.awaiting[r] <=> s.awaiting[r] /\ r \notin Current(s)
          /\ \A r \in Replicas : r \notin Current(s) => t.index[r] = s.index[r]
      BY <2>2 DEF Sound
    <3>2. Waiting(s) \intersect Current(s) = {} /\ Waiting(s) \subseteq Replicas
      BY <2>1, <3>1, FieldTypes DEF Queued
    <3>3. \A r \in Replicas :
              t.awaiting[r] <=> r = t.fMasterReplica \/ r \in Waiting(t)
      BY <2>1, <2>4, <3>1, <3>2 DEF Queued
    <3>4. \A r \in Waiting(t) : t.index[r] = 1 - t.fFrameIndex
      BY <2>4, <3>1, <3>2 DEF Queued
    <3> QED BY <2>1, <2>4, <2>5, <3>1, <3>3, <3>4 DEF Queued
  <2>9. Counted(t)
    BY <2>2, <2>5 DEF Sound, Counted
  <2>10. FramesRight(t)
    BY <2>1, <2>2, <2>5, <2>7 DEF Sound, FramesRight
  <2>11. ASSUME ~s.lost
         PROVE  Regular(t)
    <3>1. Regular(s) /\ IsFiniteSet(Playing(s))
          /\ s.fNumActiveReplicas = Cardinality(Playing(s))
      BY <2>11 DEF Sound, Counted
    <3>2. m \in Playing(s) /\ m \notin Served(t) /\ Served(t) \subseteq Playing(s) \ {m}
      BY <2>1, <2>5, <2>6, <3>1 DEF Sound, Queued, Regular, Served
    <3>3. IsFiniteSet(Served(s)) /\ IsFiniteSet(Served(t))
      BY <2>5, <2>6, <3>1, FS_Subset DEF Served
    <3>4. IsFiniteSet(Current(s)) /\ Cardinality(Current(s)) = more
      BY <2>1, FieldTypes, LengthOfList DEF Current
    <3>5. Cardinality(Served(t)) = Cardinality(Served(s)) + more
      <4>1. Cardinality({}) = 0 /\ Cardinality(Served(s)) \in Nat /\ more \in Nat
        BY <3>3, <3>4, FS_EmptySet, FS_CardinalityType
      <4>2. Cardinality(Served(s) \union Current(s)) =
                Cardinality(Served(s)) + Cardinality(Current(s))
                    - Cardinality(Served(s) \intersect Current(s))
        BY <3>3, <3>4, FS_Union
      <4>3. Cardinality(Served(s) \intersect Current(s)) = 0
        BY <2>6, <4>1
      <4>4. Cardinality(Served(t)) = Cardinality(Served(s) \union Current(s))
        BY <2>6
      <4> QED BY <3>4, <4>1, <4>2, <4>3, <4>4
    <3>6. Cardinality(Served(t)) <= s.fNumActiveReplicas - 1
      <4>1. /\ IsFiniteSet(Playing(s) \ {m})
            /\ Cardinality(Playing(s) \ {m}) = s.fNumActiveReplicas - 1
        BY <3>1, <3>2, FS_RemoveElement
      <4> QED BY <3>2, <4>1, FS_Subset
    <3>7. s.fNumDeliveriesMadeSoFar = Cardinality(Served(s))
      BY <3>1 DEF Regular
    <3>8. t.fNumDeliveriesMadeSoFar = Cardinality(Served(t)) /\ t.errors = {}
      <4>1. Cardinality(Served(t)) \in Nat
        BY <3>3, FS_CardinalityType
      <4> QED BY <2>1, <2>2, <3>1, <3>5, <3>6, <3>7, <4>1 DEF Regular
    <3>9. ASSUME NEW r \in Playing(s), t.got[r] # 0
          PROVE  t.got[r] = IF r \notin Served(t) THEN t.frames - 1 ELSE t.frames
      <4>1. r \in Replicas
        BY DEF Playing
      <4>2. CASE r \in Current(s)
        BY <2>2, <2>6, <2>7, <4>1, <4>2
      <4>3. CASE r \notin Current(s)
        BY <2>2, <2>6, <3>1, <3>9, <4>1, <4>3 DEF Regular
      <4> QED BY <4>2, <4>3
    <3> QED BY <2>1, <2>2, <2>3, <2>4, <2>5, <3>1, <3>8, <3>9 DEF Regular
  <2>12. Sound(t)
    BY <2>2, <2>8, <2>9, <2>10, <2>11 DEF Sound
  <2> QED BY <2>1, <2>2, <2>3, <2>4, <2>5, <2>7, <2>12 DEF t
<1> QED BY <1>1, <1>2

-----------------------------------------------------------------------------
(***************************************************************************)
(* The source.                                                             *)
(***************************************************************************)

\* t differs from s at most in what concerns the source: whether it reads, the
\* frames it delivered and the buffers.
Alike(s, t) ==
    /\ t \in Fields
    /\ t.fMasterReplica = s.fMasterReplica
    /\ t.fReplicasAwaitingCurrentFrame = s.fReplicasAwaitingCurrentFrame
    /\ t.fReplicasAwaitingNextFrame = s.fReplicasAwaitingNextFrame
    /\ t.fNumActiveReplicas = s.fNumActiveReplicas
    /\ t.fNumDeliveriesMadeSoFar = s.fNumDeliveriesMadeSoFar
    /\ t.fFrameIndex = s.fFrameIndex
    /\ t.index = s.index /\ t.awaiting = s.awaiting /\ t.got = s.got
    /\ t.lost = s.lost /\ t.errors = s.errors

\* The same replicas play, wait and were served.
LEMMA AlikeSets ==
    ASSUME NEW s, NEW t, Alike(s, t)
    PROVE  /\ Current(t) = Current(s) /\ Waiting(t) = Waiting(s)
           /\ Playing(t) = Playing(s) /\ Served(t) = Served(s)
           /\ Counted(s) => Counted(t)
<1>1. Current(t) = Current(s) /\ Waiting(t) = Waiting(s)
  BY DEF Alike, Current, Waiting
<1>2. Playing(t) = Playing(s)
  BY DEF Alike, Playing
<1>3. Served(t) = Served(s)
  BY <1>2 DEF Alike, Served
<1> QED BY <1>1, <1>2, <1>3 DEF Alike, Counted

\* Only the mark that the source reads is set.
LEMMA StartReadingFields ==
    ASSUME NEW s \in Fields, ~s.reading
    PROVE  LET t == StartReading(s)
           IN  /\ Alike(s, t)
               /\ t.reading /\ t.frames = s.frames /\ t.buffer = s.buffer
<1>1. StartReading(s) = [s EXCEPT !.reading = TRUE]
  BY Zenon DEF StartReading, Expect
<1>2. [s EXCEPT !.reading = TRUE] \in Fields
  BY DEF Fields
<1> QED BY <1>1, <1>2 DEF Fields, Alike

\* The frame is in the master's buffer.
LEMMA FrameReadFields ==
    ASSUME NEW s \in Fields, s.fMasterReplica # NoReplica, s.frames < MaxFrames
    PROVE  LET t == FrameRead(s)
           IN  /\ Alike(s, t)
               /\ ~t.reading /\ t.frames = s.frames + 1
               /\ \A r \in Replicas :
                      t.buffer[r] = IF r = s.fMasterReplica THEN s.frames + 1
                                    ELSE s.buffer[r]
<1> DEFINE t == FrameRead(s)
           number == s.frames + 1
           buffer == [s.buffer EXCEPT ![s.fMasterReplica] = number]
<1>1. s.fMasterReplica \in Replicas /\ s.buffer \in Frames /\ s.frames \in 0 .. MaxFrames
  BY FieldTypes
<1>2. number \in 0 .. MaxFrames
  BY <1>1, FrameAssumption
<1> HIDE DEF number
<1>3. /\ buffer \in Frames
      /\ \A r \in Replicas : buffer[r] = IF r = s.fMasterReplica THEN number ELSE s.buffer[r]
  BY <1>1, <1>2 DEF Frames
<1>4. t = [s EXCEPT !.reading = FALSE, !.frames = number, !.buffer = buffer]
  BY DEF FrameRead, number, Fields
<1> HIDE DEF buffer, t
<1>5. Alike(s, t) /\ ~t.reading /\ t.frames = number /\ t.buffer = buffer
  BY <1>2, <1>3, <1>4 DEF Fields, Alike
<1> QED BY <1>3, <1>5 DEF number, t

\* A frame arrives for the master that the source reads for.
LEMMA FrameReadSound ==
    ASSUME NEW s, Sound(s), s.reading, s.frames < MaxFrames
    PROVE  LET t == FrameRead(s)
           IN  Sound(t) /\ InHand(t) /\ Alike(s, t) /\ t.frames = s.frames + 1
<1> DEFINE t == FrameRead(s)
<1>1. /\ s \in Fields /\ s.fMasterReplica # NoReplica /\ s.fMasterReplica \in Replicas
      /\ s.frames \in 0 .. MaxFrames /\ s.got \in Frames
  BY FieldTypes DEF Sound, Queued
<1>2. /\ Alike(s, t) /\ ~t.reading /\ t.frames = s.frames + 1
      /\ t.buffer[s.fMasterReplica] = s.frames + 1
  BY <1>1, FrameReadFields
<1> HIDE DEF t
<1>3. /\ Current(t) = Current(s) /\ Waiting(t) = Waiting(s)
      /\ Playing(t) = Playing(s) /\ Served(t) = Served(s)
      /\ Counted(t)
  BY <1>2, AlikeSets DEF Sound
<1>4. InHand(t) /\ ~InHand(s) /\ t.got = s.got
  BY <1>1, <1>2 DEF InHand, Alike
<1>5. Queued(t)
  BY <1>1, <1>2, <1>3 DEF Sound, Queued, Alike
<1>6. FramesRight(t)
  <2>1. \A r \in Replicas : /\ s.got[r] \in Nat /\ s.got[r] <= s.frames
                            /\ r \notin Playing(s) => s.got[r] = 0
    BY <1>1 DEF Sound, FramesRight, Frames
  <2>2. t.buffer[t.fMasterReplica] = t.frames
    BY <1>2 DEF Alike
  <2> QED BY <1>1, <1>2, <1>3, <1>4, <2>1, <2>2 DEF FramesRight
<1>7. ASSUME ~s.lost
      PROVE  Regular(t)
  <2>1. Regular(s)
    BY <1>7 DEF Sound
  <2>2. Served(s) = {} /\ \A r \in Playing(s) : s.got[r] # 0 => s.got[r] = s.frames
    BY <1>4, <2>1 DEF Regular
  <2>3. \A r \in Playing(t) : t.got[r] # 0 => t.got[r] = t.frames - 1
    BY <1>1, <1>2, <1>3, <1>4, <2>2
  <2> QED BY <1>1, <1>2, <1>3, <1>4, <2>1, <2>2, <2>3 DEF Regular, Alike
<1> QED BY <1>2, <1>3, <1>4, <1>5, <1>6, <1>7 DEF Sound, Alike, t

-----------------------------------------------------------------------------
(***************************************************************************)
(* The frame is over and the next one begins.                              *)
(***************************************************************************)

\* BeginNextFrame, field by field.
LEMMA BeginNextFrameFields ==
    ASSUME NEW s \in Fields, s.fMasterReplica # NoReplica,
           s.fMasterReplica \in Playing(s)
    PROVE  LET t == BeginNextFrame(s)
               next == s.fReplicasAwaitingNextFrame
           IN  /\ t \in Fields
               /\ t.fMasterReplica = IF next = <<>> THEN NoReplica ELSE Head(next)
               /\ t.fReplicasAwaitingCurrentFrame = s.fReplicasAwaitingCurrentFrame
               /\ t.fReplicasAwaitingNextFrame = IF next = <<>> THEN next ELSE Tail(next)
               /\ t.fNumActiveReplicas = s.fNumActiveReplicas
               /\ t.fNumDeliveriesMadeSoFar = 0
               /\ t.fFrameIndex = 1 - s.fFrameIndex
               /\ t.index[s.fMasterReplica] = 1 - s.index[s.fMasterReplica]
               /\ \A r \in Replicas : r # s.fMasterReplica => t.index[r] = s.index[r]
               /\ t.awaiting = s.awaiting /\ t.buffer = s.buffer /\ t.got = s.got
               /\ t.reading = s.reading /\ t.frames = s.frames
               /\ t.lost = s.lost /\ t.errors = s.errors
<1> DEFINE t == BeginNextFrame(s)
           next == s.fReplicasAwaitingNextFrame
           index == [s.index EXCEPT ![s.fMasterReplica] = 1 - @]
           master == IF next = <<>> THEN NoReplica ELSE Head(next)
           rest == IF next = <<>> THEN next ELSE Tail(next)
           frame == 1 - s.fFrameIndex
<1>1. /\ s.fMasterReplica \in Replicas /\ s.index \in Indexes
      /\ s.index[s.fMasterReplica] \in {0, 1} /\ s.fFrameIndex \in {0, 1}
      /\ next \in Lists(Replicas)
  BY FieldTypes DEF Playing, Indexes
<1>2. /\ index \in Indexes /\ index[s.fMasterReplica] = 1 - s.index[s.fMasterReplica]
      /\ \A r \in Replicas : r # s.fMasterReplica => index[r] = s.index[r]
  BY <1>1 DEF Indexes
<1>3. master \in Replicas \union {NoReplica} /\ rest \in Lists(Replicas)
  <2>1. CASE next = <<>>
    BY <1>1, <2>1
  <2>2. CASE next # <<>>
    <3>1. Head(next) \in Range(next) /\ Tail(next) \in Lists(Replicas)
      BY <1>1, <2>2, TailOfList
    <3>2. Range(next) \subseteq Replicas
      BY <1>1, ListTypes
    <3> QED BY <2>2, <3>1, <3>2
  <2> QED BY <2>1, <2>2
<1>4. frame \in {0, 1}
  BY <1>1
<1>5. t = [s EXCEPT !.index = index, !.fFrameIndex = frame,
                    !.fNumDeliveriesMadeSoFar = 0, !.fMasterReplica = master,
                    !.fReplicasAwaitingNextFrame = rest]
  BY DEF BeginNextFrame, Fields
<1> HIDE DEF index, master, rest, frame, t
<1>6. /\ t \in Fields
      /\ t.fMasterReplica = master
      /\ t.fReplicasAwaitingCurrentFrame = s.fReplicasAwaitingCurrentFrame
      /\ t.fReplicasAwaitingNextFrame = rest
      /\ t.fNumActiveReplicas = s.fNumActiveReplicas
      /\ t.fNumDeliveriesMadeSoFar = 0
      /\ t.fFrameIndex = frame /\ t.index = index
      /\ t.awaiting = s.awaiting /\ t.buffer = s.buffer /\ t.got = s.got
      /\ t.reading = s.reading /\ t.frames = s.frames
      /\ t.lost = s.lost /\ t.errors = s.errors
  BY <1>2, <1>3, <1>4, <1>5 DEF Fields
<1> QED BY <1>2, <1>6 DEF t, master, rest, frame

\* EndFrame, field by field.
LEMMA EndFrameFields ==
    ASSUME NEW s \in Fields, s.fReplicasAwaitingCurrentFrame = <<>>,
           NEW m \in Replicas
    PROVE  LET t == EndFrame(s, m)
           IN  /\ t \in Fields
               /\ t.fMasterReplica = s.fMasterReplica
               /\ t.fReplicasAwaitingCurrentFrame = s.fReplicasAwaitingNextFrame
               /\ t.fReplicasAwaitingNextFrame = <<>>
               /\ t.fNumActiveReplicas = s.fNumActiveReplicas
               /\ t.fNumDeliveriesMadeSoFar = s.fNumDeliveriesMadeSoFar
               /\ t.fFrameIndex = s.fFrameIndex /\ t.index = s.index
               /\ \A r \in Replicas :
                    /\ t.awaiting[r] <=> s.awaiting[r] /\ r # m
                    /\ t.got[r] = IF r = m THEN s.buffer[m] ELSE s.got[r]
               /\ t.buffer = s.buffer
               /\ t.reading = s.reading /\ t.frames = s.frames
               /\ t.lost = s.lost /\ t.errors = s.errors
<1> DEFINE t == EndFrame(s, m)
           awaiting == [s.awaiting EXCEPT ![m] = FALSE]
           got == [s.got EXCEPT ![m] = s.buffer[m]]
<1>1. /\ s.awaiting \in Flags /\ s.got \in Frames /\ s.buffer \in Frames
      /\ s.fReplicasAwaitingNextFrame \in Lists(Replicas)
  BY FieldTypes
<1>2. /\ awaiting \in Flags
      /\ \A r \in Replicas : awaiting[r] <=> s.awaiting[r] /\ r # m
  BY <1>1 DEF Flags
<1>3. /\ got \in Frames
      /\ \A r \in Replicas : got[r] = IF r = m THEN s.buffer[m] ELSE s.got[r]
  BY <1>1 DEF Frames
<1>4. Expect(s, "Internal Error 3", s.fReplicasAwaitingCurrentFrame = <<>>) = s
  BY Zenon DEF Expect
<1>5. t = [s EXCEPT !.fReplicasAwaitingCurrentFrame = s.fReplicasAwaitingNextFrame,
                    !.fReplicasAwaitingNextFrame = <<>>,
                    !.awaiting = awaiting, !.got = got]
  BY <1>4 DEF EndFrame, Fields
<1> HIDE DEF awaiting, got, t
<1>6. /\ t \in Fields
      /\ t.fMasterReplica = s.fMasterReplica
      /\ t.fReplicasAwaitingCurrentFrame = s.fReplicasAwaitingNextFrame
      /\ t.fReplicasAwaitingNextFrame = <<>>
      /\ t.fNumActiveReplicas = s.fNumActiveReplicas
      /\ t.fNumDeliveriesMadeSoFar = s.fNumDeliveriesMadeSoFar
      /\ t.fFrameIndex = s.fFrameIndex /\ t.index = s.index
      /\ t.awaiting = awaiting /\ t.got = got /\ t.buffer = s.buffer
      /\ t.reading = s.reading /\ t.frames = s.frames
      /\ t.lost = s.lost /\ t.errors = s.errors
  BY <1>1, <1>2, <1>3, <1>5, EmptyList DEF Fields
<1> QED BY <1>2, <1>3, <1>6 DEF t

\* The new master's frame is asked for, and may be there at once: a delivery
\* within the delivery then has nothing to do.
LEMMA NextFrameAsked ==
    ASSUME NEW s \in Fields, ~s.reading, s.fMasterReplica # NoReplica,
           s.fReplicasAwaitingCurrentFrame = <<>>,
           s.fNumDeliveriesMadeSoFar = 0, s.fNumActiveReplicas # 1,
           NEW k \in Nat, k > 0 => s.frames < MaxFrames
    PROVE  LET t == IF k = 0 THEN StartReading(s)
                    ELSE DeliverNested(FrameRead(StartReading(s)))
           IN  /\ Alike(s, t)
               /\ t.reading <=> k = 0
               /\ t.frames = IF k = 0 THEN s.frames ELSE s.frames + 1
               /\ k > 0 => t.buffer[s.fMasterReplica] = t.frames
               /\ \A r \in Replicas : r # s.fMasterReplica => t.buffer[r] = s.buffer[r]
<1> DEFINE u == StartReading(s)
           v == FrameRead(u)
<1>1. s.fMasterReplica \in Replicas /\ s.frames \in 0 .. MaxFrames
  BY FieldTypes
<1>2. Alike(s, u) /\ u.reading /\ u.frames = s.frames /\ u.buffer = s.buffer
  BY StartReadingFields
<1>3. CASE k = 0
  <2> HIDE DEF u
  <2> QED BY <1>2, <1>3 DEF u
<1>4. CASE k # 0
  <2> HIDE DEF u
  <2>1. s.frames < MaxFrames
    BY <1>4
  <2>2. u \in Fields /\ u.fMasterReplica = s.fMasterReplica /\ u.frames < MaxFrames
    BY <1>2, <2>1 DEF Alike
  <2>3. /\ Alike(u, v) /\ ~v.reading /\ v.frames = u.frames + 1
        /\ \A r \in Replicas :
               v.buffer[r] = IF r = u.fMasterReplica THEN u.frames + 1 ELSE u.buffer[r]
    BY <2>2, FrameReadFields
  <2> HIDE DEF v
  <2>4. Alike(s, v)
    BY <1>2, <2>3 DEF Alike
  <2>5. v.fReplicasAwaitingCurrentFrame = <<>> /\ ~MasterIsDue(v)
    BY <2>4 DEF MasterIsDue, Alike
  <2>6. DeliverNested(v) = v
    BY <2>5, Zenon DEF DeliverNested, Expect
  <2>7. /\ v.frames = s.frames + 1
        /\ v.buffer[s.fMasterReplica] = v.frames
        /\ \A r \in Replicas : r # s.fMasterReplica => v.buffer[r] = s.buffer[r]
    BY <1>1, <1>2, <2>2, <2>3
  <2> QED BY <1>4, <2>3, <2>4, <2>6, <2>7 DEF u, v
<1> QED BY <1>3, <1>4

\* When the master is due it gets the frame as the last of all; the others
\* that play have asked for the next frame or are free to ask for it, as the
\* old master is.
LEMMA TurnoverSettled ==
    ASSUME NEW s, Sound(s), InHand(s), Current(s) = {}, MasterIsDue(s),
           NEW k \in Nat, k > 0 => s.frames < MaxFrames
    PROVE  LET u == BeginNextFrame(s)
               v == IF u.fMasterReplica = NoReplica THEN u
                    ELSE IF k = 0 THEN StartReading(u)
                    ELSE DeliverNested(FrameRead(StartReading(u)))
               t == EndFrame(v, s.fMasterReplica)
           IN  /\ Settled(t) /\ Playing(t) = Playing(s) /\ t.lost = s.lost
               /\ \A r \in Replicas : t.got[r] \in {s.got[r], s.frames}
<1> DEFINE u == BeginNextFrame(s)
           v == IF u.fMasterReplica = NoReplica THEN u
                ELSE IF k = 0 THEN StartReading(u)
                ELSE DeliverNested(FrameRead(StartReading(u)))
           t == EndFrame(v, s.fMasterReplica)
           m == s.fMasterReplica
           next == s.fReplicasAwaitingNextFrame
<1>1. /\ s \in Fields /\ m # NoReplica /\ m \in Replicas /\ m \in Playing(s)
      /\ ~s.reading /\ m \notin Waiting(s) /\ next \in Lists(Replicas)
      /\ s.fReplicasAwaitingCurrentFrame = <<>>
      /\ s.frames \in 0 .. MaxFrames /\ s.fFrameIndex \in {0, 1}
      /\ s.index \in Indexes /\ s.got \in Frames
      /\ s.buffer[m] = s.frames
      /\ Waiting(s) \subseteq Replicas /\ (next = <<>> <=> Waiting(s) = {})
      /\ \A r \in Replicas : s.awaiting[r] <=> r = m \/ r \in Waiting(s)
      /\ \A r \in Waiting(s) : s.index[r] = 1 - s.fFrameIndex
      /\ \A r \in Replicas : s.got[r] <= s.frames /\ (r \notin Playing(s) => s.got[r] = 0)
  <2>1. Queued(s) /\ FramesRight(s) /\ s \in Fields
    BY DEF Sound
  <2>2. /\ s.fMasterReplica \in Replicas \union {NoReplica}
        /\ next \in Lists(Replicas) /\ s.fReplicasAwaitingCurrentFrame = <<>>
        /\ s.frames \in 0 .. MaxFrames /\ s.fFrameIndex \in {0, 1}
        /\ s.index \in Indexes /\ s.got \in Frames
        /\ Waiting(s) \subseteq Replicas /\ (next = <<>> <=> Waiting(s) = {})
    BY <2>1, FieldTypes
  <2> QED BY <2>1, <2>2 DEF InHand, Queued, FramesRight
<1>2. /\ u \in Fields
      /\ u.fMasterReplica = IF next = <<>> THEN NoReplica ELSE Head(next)
      /\ u.fReplicasAwaitingCurrentFrame = <<>>
      /\ u.fReplicasAwaitingNextFrame = IF next = <<>> THEN next ELSE Tail(next)
      /\ u.fNumActiveReplicas = s.fNumActiveReplicas
      /\ u.fNumDeliveriesMadeSoFar = 0
      /\ u.fFrameIndex = 1 - s.fFrameIndex
      /\ u.index[m] = 1 - s.index[m]
      /\ \A r \in Replicas : r # m => u.index[r] = s.index[r]
      /\ u.awaiting = s.awaiting /\ u.buffer = s.buffer /\ u.got = s.got
      /\ ~u.reading /\ u.frames = s.frames
      /\ u.lost = s.lost /\ u.errors = s.errors
  BY <1>1, BeginNextFrameFields
<1> HIDE DEF u
\* The new master and those that follow it are the ones that waited.
<1>3. /\ u.fMasterReplica # m
      /\ u.fMasterReplica # NoReplica => u.fMasterReplica \in Waiting(s)
      /\ u.fMasterReplica = NoReplica => Waiting(s) = {}
      /\ Waiting(u) = Waiting(s) \ {u.fMasterReplica}
  <2>1. CASE next = <<>>
    BY <1>1, <1>2, <2>1, EmptyList DEF Waiting
  <2>2. CASE next # <<>>
    <3>1. Head(next) \in Range(next) /\ Range(Tail(next)) = Range(next) \ {Head(next)}
      BY <1>1, <2>2, TailOfList
    <3>2. Head(next) \in Waiting(s)
      BY <3>1 DEF Waiting
    <3>3. Head(next) \in Replicas /\ Head(next) # m
      <4>1. m \notin Waiting(s) /\ Waiting(s) \subseteq Replicas
        BY <1>1
      <4> QED BY <3>2, <4>1
    <3> QED BY <1>2, <2>2, <3>1, <3>3, ReplicaAssumption DEF Waiting
  <2> QED BY <2>1, <2>2
\* Whoever plays goes on playing.
<1>4. Playing(u) = Playing(s) /\ u.index \in Indexes
  <2>1. s.index[m] \in {0, 1} /\ u.index \in Indexes
    BY <1>1, <1>2, FieldTypes DEF Playing, Indexes
  <2>2. u.index[m] # -1
    BY <1>2, <2>1
  <2>3. \A r \in Replicas : u.index[r] # -1 <=> s.index[r] # -1
    <3>1. s.index[m] # -1 /\ \A r \in Replicas : r # m => u.index[r] = s.index[r]
      BY <1>2, <2>1
    <3> QED BY <2>2, <3>1
  <2> QED BY <2>1, <2>3 DEF Playing
<1>5. Waiting(s) \subseteq Playing(s)
  <2>1. \A r \in Waiting(s) : s.index[r] # -1
    <3>1. TAKE r \in Waiting(s)
    <3>2. s.index[r] = 1 - s.fFrameIndex /\ s.fFrameIndex \in {0, 1}
      BY <1>1
    <3> QED BY <3>2
  <2>2. Waiting(s) \subseteq Replicas
    BY <1>1
  <2> QED BY <2>1, <2>2 DEF Playing
<1>6. /\ Alike(u, v)
      /\ v.reading <=> u.fMasterReplica # NoReplica /\ k = 0
      /\ v.frames = IF u.fMasterReplica # NoReplica /\ k # 0
                    THEN s.frames + 1 ELSE s.frames
      /\ u.fMasterReplica # NoReplica /\ k # 0 => v.buffer[u.fMasterReplica] = v.frames
      /\ v.buffer[m] = s.frames
  <2>1. CASE u.fMasterReplica = NoReplica
    BY <1>1, <1>2, <2>1 DEF Alike
  <2>2. CASE u.fMasterReplica # NoReplica
    <3>1. u.fNumActiveReplicas # 1
      <4>1. /\ IsFiniteSet(Playing(s)) /\ s.fNumActiveReplicas = Cardinality(Playing(s))
            /\ {m, u.fMasterReplica} \subseteq Playing(s)
        BY <1>1, <1>3, <1>5, <2>2 DEF Sound, Counted
      <4>2. \A S : IsFiniteSet(S) /\ Cardinality(S) = 1 => \E x : S = {x}
        BY FS_Singleton
      <4> QED BY <1>2, <1>3, <4>1, <4>2
    <3>2. k > 0 => u.frames < MaxFrames
      BY <1>2
    <3>3. /\ Alike(u, v)
          /\ v.reading <=> k = 0
          /\ v.frames = IF k = 0 THEN u.frames ELSE u.frames + 1
          /\ k > 0 => v.buffer[u.fMasterReplica] = v.frames
          /\ \A r \in Replicas : r # u.fMasterReplica => v.buffer[r] = u.buffer[r]
      BY <1>2, <2>2, <3>1, <3>2, NextFrameAsked
    <3> HIDE DEF v
    <3> QED BY <1>1, <1>2, <1>3, <2>2, <3>3
  <2> QED BY <2>1, <2>2
<1> HIDE DEF v
<1>7. /\ Current(v) = {} /\ Waiting(v) = Waiting(u)
      /\ Playing(v) = Playing(s) /\ Served(v) = Served(u)
  <2>1. Current(u) = {}
    BY <1>2, EmptyList DEF Current
  <2> QED BY <1>4, <1>6, <2>1, AlikeSets
<1>8. /\ t \in Fields
      /\ t.fMasterReplica = u.fMasterReplica
      /\ t.fReplicasAwaitingCurrentFrame = u.fReplicasAwaitingNextFrame
      /\ t.fReplicasAwaitingNextFrame = <<>>
      /\ t.fNumActiveReplicas = s.fNumActiveReplicas
      /\ t.fNumDeliveriesMadeSoFar = 0
      /\ t.fFrameIndex = 1 - s.fFrameIndex /\ t.index = u.index
      /\ \A r \in Replicas :
           /\ t.awaiting[r] <=> s.awaiting[r] /\ r # m
           /\ t.got[r] = IF r = m THEN s.frames ELSE s.got[r]
      /\ t.buffer = v.buffer
      /\ t.reading = v.reading /\ t.frames = v.frames
      /\ t.lost = s.lost /\ t.errors = s.errors
  <2>1. v \in Fields /\ v.fReplicasAwaitingCurrentFrame = <<>>
    BY <1>2, <1>6 DEF Alike
  <2>2. /\ t \in Fields
        /\ t.fMasterReplica = v.fMasterReplica
        /\ t.fReplicasAwaitingCurrentFrame = v.fReplicasAwaitingNextFrame
        /\ t.fReplicasAwaitingNextFrame = <<>>
        /\ t.fNumActiveReplicas = v.fNumActiveReplicas
        /\ t.fNumDeliveriesMadeSoFar = v.fNumDeliveriesMadeSoFar
        /\ t.fFrameIndex = v.fFrameIndex /\ t.index = v.index
        /\ \A r \in Replicas :
             /\ t.awaiting[r] <=> v.awaiting[r] /\ r # m
             /\ t.got[r] = IF r = m THEN v.buffer[m] ELSE v.got[r]
        /\ t.buffer = v.buffer
        /\ t.reading = v.reading /\ t.frames = v.frames
        /\ t.lost = v.lost /\ t.errors = v.errors
    BY <1>1, <2>1, EndFrameFields
  <2> HIDE DEF t
  <2> QED BY <1>2, <1>6, <2>2 DEF Alike
<1> HIDE DEF t
<1>9. /\ Current(t) = Waiting(s) \ {t.fMasterReplica} /\ Waiting(t) = {}
      /\ Playing(t) = Playing(s)
  BY <1>3, <1>4, <1>8, EmptyList DEF Current, Waiting, Playing
<1>10. Queued(t)
  <2>1. \A r \in Waiting(s) : r \in Replicas /\ r # m /\ t.index[r] = t.fFrameIndex
    <3>1. TAKE r \in Waiting(s)
    <3>2. r \in Replicas /\ r # m /\ s.index[r] = 1 - s.fFrameIndex
      <4>1. /\ Waiting(s) \subseteq Replicas /\ m \notin Waiting(s)
            /\ \A q \in Waiting(s) : s.index[q] = 1 - s.fFrameIndex
        BY <1>1
      <4> QED BY <3>1, <4>1
    <3>3. t.index[r] = s.index[r] /\ t.fFrameIndex = 1 - s.fFrameIndex
      BY <1>2, <1>8, <3>2
    <3> QED BY <3>2, <3>3
  <2>2. \A r \in Replicas : t.awaiting[r] <=> r \in Waiting(s)
    BY <1>1, <1>8
  <2>3. t.fMasterReplica \in Waiting(s) \/ (t.fMasterReplica = NoReplica /\ Waiting(s) = {})
    BY <1>3, <1>8
  <2>4. t.fMasterReplica = NoReplica => ~t.reading
    BY <1>6, <1>8
  <2>5. \A r \in Replicas :
            t.awaiting[r] <=> r = t.fMasterReplica \/ r \in Current(t) \union Waiting(t)
    BY <1>9, <2>2, <2>3, ReplicaAssumption
  <2>6. Current(t) = Waiting(s) \ {t.fMasterReplica} /\ Waiting(t) = {}
    BY <1>9
  <2>7. t.fMasterReplica # NoReplica => t.fMasterReplica \in Playing(t)
    BY <1>5, <1>9, <2>3
  <2>8. Current(t) \intersect Waiting(t) = {}
        /\ t.fMasterReplica \notin Current(t) \union Waiting(t)
    BY <2>6
  <2>9. t.fMasterReplica = NoReplica => ~t.reading /\ Current(t) = {}
    BY <1>3, <1>8, <2>4, <2>6
  <2> HIDE DEF m, next
  <2> QED BY <2>1, <2>5, <2>6, <2>7, <2>8, <2>9 DEF Queued
<1>11. Counted(t)
  BY <1>8, <1>9 DEF Sound, Counted
<1>12. FramesRight(t)
  <2>1. InHand(t) => t.buffer[t.fMasterReplica] = t.frames
    BY <1>6, <1>8 DEF InHand
  <2>2. s.frames <= t.frames /\ t.frames \in Nat /\ \A r \in Replicas : s.got[r] \in Nat
    BY <1>1, <1>6, <1>8 DEF Frames
  <2>3. \A r \in Replicas : t.got[r] <= t.frames
    BY <1>1, <1>8, <2>2
  <2>4. \A r \in Replicas : r \notin Playing(t) => t.got[r] = 0
    BY <1>1, <1>8, <1>9
  <2> QED BY <2>1, <2>3, <2>4 DEF FramesRight
<1>13. ASSUME ~s.lost
       PROVE  Regular(t) /\ Served(t) = {}
  <2>1. Regular(s) /\ IsFiniteSet(Playing(s))
        /\ s.fNumActiveReplicas = Cardinality(Playing(s))
    BY <1>13 DEF Sound, Counted
  <2>2. /\ s.index[m] = s.fFrameIndex /\ s.errors = {}
        /\ s.fNumDeliveriesMadeSoFar = Cardinality(Served(s))
    BY <1>1, <2>1 DEF Regular
  <2>3. Served(s) = Playing(s) \ {m}
    <3>1. /\ IsFiniteSet(Playing(s) \ {m})
          /\ Cardinality(Playing(s) \ {m}) = Cardinality(Playing(s)) - 1
      BY <1>1, <2>1, FS_RemoveElement
    <3>2. Served(s) \subseteq Playing(s) \ {m}
      BY <2>2 DEF Served
    <3>3. Cardinality(Served(s)) \in Nat
      BY <3>1, <3>2, FS_Subset, FS_CardinalityType
    <3>4. Cardinality(Served(s)) = Cardinality(Playing(s) \ {m})
      BY <2>1, <2>2, <3>1, <3>3 DEF MasterIsDue
    <3> QED BY <3>1, <3>2, <3>4, FS_Subset
  <2>4. \A r \in Playing(s) : t.index[r] = t.fFrameIndex
    <3>1. TAKE r \in Playing(s)
    <3>2. r \in Replicas /\ s.index[r] \in {0, 1}
      BY <1>1 DEF Playing, Indexes
    <3>3. CASE r = m
      BY <1>2, <1>8, <2>2, <3>3
    <3>4. CASE r # m
      <4>1. s.index[r] # s.fFrameIndex /\ t.index[r] = s.index[r]
        BY <1>2, <1>8, <2>3, <3>2, <3>4 DEF Served
      <4> QED BY <1>1, <1>8, <3>2, <4>1
    <3> QED BY <3>3, <3>4
  <2>5. Served(t) = {}
    BY <1>9, <2>4 DEF Served
  <2>6. t.fNumDeliveriesMadeSoFar = Cardinality(Served(t))
    <3>1. Cardinality({}) = 0
      BY FS_EmptySet
    <3> QED BY <1>8, <2>5, <3>1
  <2>7. \A r \in Playing(s) : t.got[r] # 0 => t.got[r] = s.frames
    <3>1. TAKE r \in Playing(s)
    <3>2. CASE r = m
      BY <1>1, <1>8, <3>2
    <3>3. CASE r # m
      <4>1. r \in Replicas /\ r \in Served(s)
        BY <2>3, <3>3 DEF Playing
      <4> QED BY <1>8, <2>1, <3>3, <4>1 DEF Regular
    <3> QED BY <3>2, <3>3
  <2>8. s.frames = IF InHand(t) THEN t.frames - 1 ELSE t.frames
    BY <1>1, <1>6, <1>8 DEF InHand
  <2>9. t.errors = {} /\ \A r \in Playing(t) : t.index[r] = t.fFrameIndex
    BY <1>8, <1>9, <2>2, <2>4
  <2>10. t.fMasterReplica # NoReplica => t.fMasterReplica \in Playing(t)
    BY <1>10 DEF Queued
  <2> QED BY <1>9, <2>5, <2>6, <2>7, <2>8, <2>9, <2>10 DEF Regular
<1>14. Sound(t)
  BY <1>8, <1>10, <1>11, <1>12, <1>13 DEF Sound
<1>15. Settled(t)
  <2>1. m \in Playing(t) /\ ~t.awaiting[m]
    BY <1>1, <1>8, <1>9
  <2> QED BY <1>8, <1>13, <1>14, <2>1 DEF Settled
<1>16. \A r \in Replicas : t.got[r] \in {s.got[r], s.frames}
  BY <1>8
<1> QED BY <1>8, <1>9, <1>15, <1>16 DEF t, v, u

-----------------------------------------------------------------------------
(***************************************************************************)
(* Delivery as a whole.                                                    *)
(***************************************************************************)

\* When a delivery is done, a player is still expected to ask for the frame in
\* hand: were there none, the master would have been due.
LEMMA DeliverSettled ==
    ASSUME NEW s, Sound(s), InHand(s),
           NEW k \in Nat, k > 0 => s.frames < MaxFrames
    PROVE  LET t == DeliverReceivedFrame(s, k)
           IN  /\ Settled(t) /\ Playing(t) = Playing(s) /\ t.lost = s.lost
               /\ \A r \in Replicas : t.got[r] \in {s.got[r], s.frames}
<1> DEFINE c == ServeCurrent(s)
           u == BeginNextFrame(c)
           v == IF u.fMasterReplica = NoReplica THEN u
                ELSE IF k = 0 THEN StartReading(u)
                ELSE DeliverNested(FrameRead(StartReading(u)))
           e == EndFrame(v, c.fMasterReplica)
           t == DeliverReceivedFrame(s, k)
<1>1. /\ Sound(c) /\ InHand(c) /\ Current(c) = {}
      /\ Playing(c) = Playing(s) /\ c.frames = s.frames /\ c.lost = s.lost
      /\ \A r \in Replicas : c.got[r] \in {s.got[r], s.frames}
  BY ServeCurrentSound
<1>2. t = IF MasterIsDue(c) THEN e ELSE c
  BY DEF DeliverReceivedFrame
<1> HIDE DEF c
<1>3. CASE MasterIsDue(c)
  <2>1. k > 0 => c.frames < MaxFrames
    BY <1>1
  <2>2. /\ Settled(e) /\ Playing(e) = Playing(c) /\ e.lost = c.lost
        /\ \A r \in Replicas : e.got[r] \in {c.got[r], c.frames}
    BY <1>1, <1>3, <2>1, TurnoverSettled
  <2> HIDE DEF e, t
  <2>3. t = e
    BY <1>2, <1>3
  <2>4. \A r \in Replicas : e.got[r] \in {s.got[r], s.frames}
    BY <1>1, <2>2
  <2>5. Playing(e) = Playing(s) /\ e.lost = s.lost
    BY <1>1, <2>2
  <2> QED BY <2>2, <2>3, <2>4, <2>5 DEF t
<1>4. CASE ~MasterIsDue(c)
  <2> HIDE DEF e, t
  <2>1. t = c
    BY <1>2, <1>4
  <2>2. ASSUME ~c.lost
        PROVE  \E r \in Playing(c) \ Served(c) : ~c.awaiting[r]
    <3> DEFINE m == c.fMasterReplica
    <3>1. /\ c \in Fields /\ Regular(c) /\ Queued(c) /\ m # NoReplica
          /\ IsFiniteSet(Playing(c)) /\ c.fNumActiveReplicas = Cardinality(Playing(c))
      BY <1>1, <2>2 DEF Sound, Counted, InHand
    <3>2. /\ m \in Playing(c) /\ c.index[m] = c.fFrameIndex
          /\ c.fNumDeliveriesMadeSoFar = Cardinality(Served(c))
          /\ c.fNumDeliveriesMadeSoFar + 1 # c.fNumActiveReplicas
          /\ c.fFrameIndex \in {0, 1}
      BY <1>4, <3>1, FieldTypes DEF Queued, Regular, MasterIsDue
    <3>3. Served(c) \subseteq Playing(c) \ {m}
      BY <3>2 DEF Served
    <3>4. Served(c) # Playing(c) \ {m}
      <4>1. /\ Cardinality(Playing(c) \ {m}) = Cardinality(Playing(c)) - 1
            /\ Cardinality(Playing(c)) \in Nat
        BY <3>1, <3>2, FS_RemoveElement, FS_CardinalityType
      <4> QED BY <3>1, <3>2, <4>1
    <3>5. PICK r \in Playing(c) : r # m /\ r \notin Served(c)
      BY <3>3, <3>4
    <3>6. r \in Replicas /\ c.index[r] = c.fFrameIndex
      BY <3>5 DEF Playing, Served
    <3>7. r \notin Waiting(c)
      <4>1. c.index[r] # 1 - c.fFrameIndex
        BY <3>2, <3>6
      <4> QED BY <3>1, <4>1 DEF Queued
    <3>8. ~c.awaiting[r]
      <4>1. c.awaiting[r] <=> r = m \/ r \in Current(c) \union Waiting(c)
        BY <3>1, <3>6 DEF Queued
      <4> QED BY <1>1, <3>5, <3>7, <4>1
    <3> QED BY <3>5, <3>8
  <2>3. Settled(c)
    BY <1>1, <2>2 DEF Settled
  <2> QED BY <1>1, <2>1, <2>3 DEF t
<1> QED BY <1>3, <1>4

\* The source is asked for a frame for the master, and may have it at once.
LEMMA ReadFrameSettled ==
    ASSUME NEW s \in Fields, ~s.reading, Sound(StartReading(s)),
           NEW k \in Nat, s.frames + k <= MaxFrames
    PROVE  LET t == ReadFrame(s, k)
           IN  /\ Settled(t) /\ Playing(t) = Playing(s) /\ t.lost = s.lost
               /\ \A r \in Replicas : t.got[r] \in {s.got[r], s.frames + 1}
<1> DEFINE u == StartReading(s)
           v == FrameRead(u)
           t == ReadFrame(s, k)
<1>1. s.frames \in 0 .. MaxFrames /\ MaxFrames \in Nat
  BY FieldTypes, FrameAssumption
<1>2. Alike(s, u) /\ u.reading /\ u.frames = s.frames
  BY StartReadingFields
<1>3. Sound(u) /\ Playing(u) = Playing(s) /\ u.got = s.got /\ u.lost = s.lost
  BY <1>2, AlikeSets DEF Alike
<1>4. CASE k = 0
  <2> HIDE DEF u
  <2>1. t = u
    BY <1>4 DEF ReadFrame, u
  <2> HIDE DEF t
  <2>2. Settled(t) /\ Playing(t) = Playing(s) /\ t.lost = s.lost
    BY <1>2, <1>3, <2>1 DEF Settled, InHand
  <2>3. \A r \in Replicas : t.got[r] \in {s.got[r], s.frames + 1}
    BY <1>3, <2>1
  <2> QED BY <2>2, <2>3 DEF t
<1>5. CASE k # 0
  <2> DEFINE l == k - 1
             d == DeliverReceivedFrame(v, l)
  <2>1. t = d
    BY <1>5 DEF ReadFrame
  <2> HIDE DEF u
  <2>2. u.frames < MaxFrames
    BY <1>1, <1>2, <1>5
  <2>3. Sound(v) /\ InHand(v) /\ Alike(u, v) /\ v.frames = s.frames + 1
    BY <1>2, <1>3, <2>2, FrameReadSound
  <2>4. Playing(v) = Playing(s) /\ v.got = s.got /\ v.lost = s.lost
    <3>1. Playing(v) = Playing(u) /\ v.got = u.got /\ v.lost = u.lost
      BY <2>3, AlikeSets DEF Alike
    <3> QED BY <1>3, <3>1
  <2> HIDE DEF v
  <2>5. l \in Nat /\ (l > 0 => v.frames < MaxFrames)
    BY <1>1, <1>5, <2>3
  <2> HIDE DEF l
  <2>6. /\ Settled(d) /\ Playing(d) = Playing(v) /\ d.lost = v.lost
        /\ \A r \in Replicas : d.got[r] \in {v.got[r], v.frames}
    BY <2>3, <2>5, DeliverSettled
  <2> HIDE DEF d, t
  <2>7. Settled(t) /\ Playing(t) = Playing(s) /\ t.lost = s.lost
    BY <2>1, <2>4, <2>6
  <2>8. \A r \in Replicas : t.got[r] \in {s.got[r], s.frames + 1}
    BY <2>1, <2>3, <2>4, <2>6
  <2> QED BY <2>7, <2>8 DEF t
<1> QED BY <1>4, <1>5

-----------------------------------------------------------------------------
(***************************************************************************)
(* A replica asks for a frame.                                             *)
(***************************************************************************)

\* In t, r plays and awaits a frame; where it stands in line is left open.
Asks(s, t, r) ==
    /\ t \in Fields
    /\ t.index[r] = IF s.index[r] = -1 THEN s.fFrameIndex ELSE s.index[r]
    /\ \A q \in Replicas : q # r => t.index[q] = s.index[q]
    /\ t.fNumActiveReplicas = IF s.index[r] = -1 THEN s.fNumActiveReplicas + 1
                              ELSE s.fNumActiveReplicas
    /\ \A q \in Replicas : t.awaiting[q] <=> s.awaiting[q] \/ q = r
    /\ t.fNumDeliveriesMadeSoFar = s.fNumDeliveriesMadeSoFar
    /\ t.fFrameIndex = s.fFrameIndex /\ t.buffer = s.buffer /\ t.got = s.got
    /\ t.frames = s.frames /\ t.lost = s.lost /\ t.errors = s.errors

\* What getNextFrame does before it looks for a place in line.
LEMMA ActivateFields ==
    ASSUME NEW s \in Fields, NEW r \in Replicas
    PROVE  LET t == Activate([s EXCEPT !.awaiting[r] = TRUE], r)
           IN  /\ Asks(s, t, r)
               /\ t.fMasterReplica = s.fMasterReplica
               /\ t.fReplicasAwaitingCurrentFrame = s.fReplicasAwaitingCurrentFrame
               /\ t.fReplicasAwaitingNextFrame = s.fReplicasAwaitingNextFrame
               /\ t.reading = s.reading
<1> DEFINE awaiting == [s.awaiting EXCEPT ![r] = TRUE]
           index == [s.index EXCEPT ![r] = s.fFrameIndex]
           number == s.fNumActiveReplicas + 1
           u == [s EXCEPT !.awaiting[r] = TRUE]
           t == Activate(u, r)
<1>1. /\ s.awaiting \in Flags /\ s.index \in Indexes /\ s.fFrameIndex \in {0, 1}
      /\ s.fNumActiveReplicas \in Nat
  BY FieldTypes
<1>2. awaiting \in Flags /\ \A q \in Replicas : awaiting[q] <=> s.awaiting[q] \/ q = r
  BY <1>1 DEF Flags
<1>3. /\ index \in Indexes /\ index[r] = s.fFrameIndex
      /\ \A q \in Replicas : q # r => index[q] = s.index[q]
  BY <1>1 DEF Indexes
<1>4. number \in Nat
  BY <1>1
<1>5. u = [s EXCEPT !.awaiting = awaiting]
  BY DEF Fields
<1> HIDE DEF awaiting
<1>6. /\ u \in Fields
      /\ u.fMasterReplica = s.fMasterReplica
      /\ u.fReplicasAwaitingCurrentFrame = s.fReplicasAwaitingCurrentFrame
      /\ u.fReplicasAwaitingNextFrame = s.fReplicasAwaitingNextFrame
      /\ u.fNumActiveReplicas = s.fNumActiveReplicas
      /\ u.fNumDeliveriesMadeSoFar = s.fNumDeliveriesMadeSoFar
      /\ u.fFrameIndex = s.fFrameIndex /\ u.index = s.index
      /\ u.awaiting = awaiting /\ u.got = s.got /\ u.buffer = s.buffer
      /\ u.reading = s.reading /\ u.frames = s.frames
      /\ u.lost = s.lost /\ u.errors = s.errors
  BY <1>2, <1>5 DEF Fields
<1> HIDE DEF u
<1>7. CASE s.index[r] # -1
  <2>1. t = u
    BY <1>6, <1>7 DEF Activate
  <2> HIDE DEF t
  <2>2. Asks(s, t, r)
    BY <1>2, <1>6, <1>7, <2>1 DEF Asks
  <2> QED BY <1>6, <2>1, <2>2 DEF t, u
<1>8. CASE s.index[r] = -1
  <2>1. t = [u EXCEPT !.index = index, !.fNumActiveReplicas = number]
    BY <1>6, <1>8 DEF Activate, Fields
  <2> HIDE DEF t, index, number
  <2>2. /\ t \in Fields
        /\ t.fMasterReplica = s.fMasterReplica
        /\ t.fReplicasAwaitingCurrentFrame = s.fReplicasAwaitingCurrentFrame
        /\ t.fReplicasAwaitingNextFrame = s.fReplicasAwaitingNextFrame
        /\ t.fNumActiveReplicas = number
        /\ t.fNumDeliveriesMadeSoFar = s.fNumDeliveriesMadeSoFar
        /\ t.fFrameIndex = s.fFrameIndex /\ t.index = index
        /\ t.awaiting = awaiting /\ t.got = s.got /\ t.buffer = s.buffer
        /\ t.reading = s.reading /\ t.frames = s.frames
        /\ t.lost = s.lost /\ t.errors = s.errors
    BY <1>3, <1>4, <1>6, <2>1 DEF Fields
  <2>3. Asks(s, t, r)
    BY <1>2, <1>3, <1>8, <2>2 DEF Asks, number
  <2> QED BY <2>2, <2>3 DEF t, u
<1> QED BY <1>7, <1>8

\* The places in line: the master's, if nobody has it; among those that await
\* the next frame, after the one at hand; else among those that await this one.
BecomesMaster(s, t, r) ==
    /\ s.fMasterReplica = NoReplica /\ t.fMasterReplica = r /\ t.reading
    /\ Current(t) = Current(s) /\ Waiting(t) = Waiting(s)

AwaitsNext(s, t, r) ==
    /\ t.fMasterReplica = s.fMasterReplica /\ s.fMasterReplica # NoReplica
    /\ t.reading = s.reading /\ t.index[r] # t.fFrameIndex
    /\ Current(t) = Current(s) /\ Waiting(t) = Waiting(s) \union {r}

AwaitsCurrent(s, t, r) ==
    /\ t.fMasterReplica = s.fMasterReplica /\ s.fMasterReplica # NoReplica
    /\ t.reading = s.reading /\ t.index[r] = t.fFrameIndex
    /\ Current(t) = Current(s) \union {r} /\ Waiting(t) = Waiting(s)

\* A replica that takes its place in line.
LEMMA AskSound ==
    ASSUME NEW s, Settled(s), NEW r \in Replicas, ~s.awaiting[r],
           NEW t, Asks(s, t, r),
           BecomesMaster(s, t, r) \/ AwaitsNext(s, t, r) \/ AwaitsCurrent(s, t, r)
    PROVE  /\ Sound(t) /\ Playing(t) = Playing(s) \union {r}
           /\ AwaitsNext(s, t, r) => Settled(t)
<1>1. /\ s \in Fields /\ Queued(s) /\ Counted(s) /\ FramesRight(s)
      /\ s.index \in Indexes /\ s.fFrameIndex \in {0, 1}
      /\ Current(s) \subseteq Replicas /\ Waiting(s) \subseteq Replicas
      /\ s.fNumActiveReplicas \in Nat
  BY FieldTypes DEF Settled, Sound
<1>2. /\ t \in Fields
      /\ t.index[r] = IF s.index[r] = -1 THEN s.fFrameIndex ELSE s.index[r]
      /\ \A q \in Replicas : q # r => t.index[q] = s.index[q]
      /\ t.fNumActiveReplicas = IF s.index[r] = -1 THEN s.fNumActiveReplicas + 1
                                ELSE s.fNumActiveReplicas
      /\ \A q \in Replicas : t.awaiting[q] <=> s.awaiting[q] \/ q = r
      /\ t.fNumDeliveriesMadeSoFar = s.fNumDeliveriesMadeSoFar
      /\ t.fFrameIndex = s.fFrameIndex /\ t.buffer = s.buffer /\ t.got = s.got
      /\ t.frames = s.frames /\ t.lost = s.lost /\ t.errors = s.errors
  BY DEF Asks
<1>3. r # s.fMasterReplica /\ r \notin Current(s) /\ r \notin Waiting(s) /\ r # NoReplica
  BY <1>1, ReplicaAssumption DEF Queued
<1>4. Playing(t) = Playing(s) \union {r} /\ t.index[r] \in {0, 1}
  <2>1. s.index[r] \in {-1, 0, 1}
    BY <1>1 DEF Indexes
  <2>2. t.index[r] \in {0, 1}
    BY <1>1, <1>2, <2>1
  <2>3. \A q \in Replicas : q # r => (t.index[q] # -1 <=> s.index[q] # -1)
    BY <1>2
  <2> QED BY <2>2, <2>3 DEF Playing
<1>5. Served(t) = Served(s)
  <2>1. \A q \in Replicas : q # r => t.index[q] = s.index[q]
    BY <1>2
  <2>2. r \in Served(t) <=> r \in Served(s)
    BY <1>1, <1>2, <1>4 DEF Served, Playing
  <2>3. t.fFrameIndex = s.fFrameIndex
    BY <1>2
  <2>4. \A q \in Replicas : q # r => (q \in Served(t) <=> q \in Served(s))
    BY <1>4, <2>1, <2>3 DEF Served
  <2>5. Served(t) \subseteq Replicas /\ Served(s) \subseteq Replicas
    BY DEF Served, Playing
  <2> QED BY <2>2, <2>4, <2>5
<1>6. Counted(t)
  <2>1. IsFiniteSet(Playing(s)) /\ s.fNumActiveReplicas = Cardinality(Playing(s))
    BY <1>1 DEF Counted
  <2>2. r \in Playing(s) <=> s.index[r] # -1
    BY DEF Playing
  <2>3. CASE r \in Playing(s)
    BY <1>2, <1>4, <2>1, <2>2, <2>3 DEF Counted
  <2>4. CASE r \notin Playing(s)
    <3>1. /\ IsFiniteSet(Playing(s) \union {r})
          /\ Cardinality(Playing(s) \union {r}) = Cardinality(Playing(s)) + 1
      BY <2>1, <2>4, FS_AddElement
    <3> QED BY <1>2, <1>4, <2>1, <2>2, <2>4, <3>1 DEF Counted
  <2> QED BY <2>3, <2>4
\* Either the frame in hand stays so, or there is none before and after.
<1>7. /\ InHand(t) <=> InHand(s)
      /\ InHand(t) => t.fMasterReplica = s.fMasterReplica
  BY <1>3 DEF InHand, BecomesMaster, AwaitsNext, AwaitsCurrent
<1>8. FramesRight(t)
  BY <1>1, <1>2, <1>4, <1>7 DEF FramesRight
<1>9. Queued(t)
  <2>1. CASE BecomesMaster(s, t, r)
    <3>1. /\ s.fMasterReplica = NoReplica /\ t.fMasterReplica = r /\ t.reading
          /\ Current(t) = {} /\ Current(s) = {} /\ Waiting(t) = Waiting(s)
      BY <1>1, <2>1 DEF BecomesMaster, Queued
    <3>2. \A q \in Replicas : s.awaiting[q] <=> q \in Waiting(s)
      BY <1>1, <3>1, ReplicaAssumption DEF Queued
    <3>3. \A q \in Waiting(t) : t.index[q] = 1 - t.fFrameIndex
      BY <1>1, <1>2, <1>3, <3>1 DEF Queued
    <3>4. \A q \in Replicas :
              t.awaiting[q] <=> q = t.fMasterReplica \/ q \in Current(t) \union Waiting(t)
      BY <1>2, <3>1, <3>2
    <3> QED BY <1>3, <1>4, <3>1, <3>3, <3>4 DEF Queued
  <2>2. CASE AwaitsNext(s, t, r)
    <3>1. /\ t.fMasterReplica = s.fMasterReplica /\ s.fMasterReplica # NoReplica
          /\ Current(t) = Current(s) /\ Waiting(t) = Waiting(s) \union {r}
          /\ t.index[r] # t.fFrameIndex
      BY <2>2 DEF AwaitsNext
    <3>2. t.index[r] = 1 - t.fFrameIndex
      BY <1>1, <1>2, <1>4, <3>1
    <3>3. \A q \in Waiting(s) : t.index[q] = 1 - t.fFrameIndex
      BY <1>1, <1>2, <1>3 DEF Queued
    <3>4. \A q \in Current(t) : t.index[q] = t.fFrameIndex
      BY <1>1, <1>2, <1>3, <3>1 DEF Queued
    <3>5. \A q \in Replicas :
              t.awaiting[q] <=> q = t.fMasterReplica \/ q \in Current(t) \union Waiting(t)
      BY <1>1, <1>2, <3>1 DEF Queued
    <3> QED BY <1>1, <1>3, <1>4, <3>1, <3>2, <3>3, <3>4, <3>5 DEF Queued
  <2>3. CASE AwaitsCurrent(s, t, r)
    <3>1. /\ t.fMasterReplica = s.fMasterReplica /\ s.fMasterReplica # NoReplica
          /\ Current(t) = Current(s) \union {r} /\ Waiting(t) = Waiting(s)
          /\ t.index[r] = t.fFrameIndex
      BY <2>3 DEF AwaitsCurrent
    <3>2. \A q \in Waiting(t) : t.index[q] = 1 - t.fFrameIndex
      BY <1>1, <1>2, <1>3, <3>1 DEF Queued
    <3>3. \A q \in Current(s) : t.index[q] = t.fFrameIndex
      BY <1>1, <1>2, <1>3 DEF Queued
    <3>4. \A q \in Replicas :
              t.awaiting[q] <=> q = t.fMasterReplica \/ q \in Current(t) \union Waiting(t)
      BY <1>1, <1>2, <3>1 DEF Queued
    <3> QED BY <1>1, <1>3, <1>4, <3>1, <3>2, <3>3, <3>4 DEF Queued
  <2> QED BY <2>1, <2>2, <2>3
<1>10. ASSUME ~s.lost
       PROVE  Regular(t)
  <2>1. Regular(s)
    BY <1>10 DEF Settled, Sound
  <2>2. t.errors = {} /\ t.fNumDeliveriesMadeSoFar = Cardinality(Served(t))
    BY <1>2, <1>5, <2>1 DEF Regular
  <2>3. t.fMasterReplica # NoReplica
    BY <1>3 DEF BecomesMaster, AwaitsNext, AwaitsCurrent
  <2>4. t.index[t.fMasterReplica] = t.fFrameIndex
    <3>1. CASE BecomesMaster(s, t, r)
      <4>1. t.fMasterReplica = r /\ Served(s) = {}
        BY <2>1, <3>1 DEF BecomesMaster, InHand, Regular
      <4> QED BY <1>2, <4>1 DEF Served, Playing
    <3>2. CASE ~BecomesMaster(s, t, r)
      <4>1. t.fMasterReplica = s.fMasterReplica /\ s.fMasterReplica \in Playing(s)
        BY <1>1, <3>2 DEF AwaitsNext, AwaitsCurrent, Queued
      <4>2. s.fMasterReplica \in Replicas /\ s.index[s.fMasterReplica] = s.fFrameIndex
        BY <2>1, <2>3, <4>1 DEF Playing, Regular
      <4> QED BY <1>2, <1>3, <4>1, <4>2
    <3> QED BY <3>1, <3>2
  <2>5. ~InHand(t) => Served(t) = {}
    BY <1>5, <1>7, <2>1 DEF Regular
  <2>6. ASSUME NEW q \in Playing(t), t.got[q] # 0
        PROVE  t.got[q] = IF InHand(t) /\ q \notin Served(t)
                          THEN t.frames - 1 ELSE t.frames
    <3>1. q \in Replicas
      BY DEF Playing
    <3>2. q \in Playing(s)
      BY <1>1, <1>2, <2>6, <3>1 DEF FramesRight
    <3> QED BY <1>2, <1>5, <1>7, <2>1, <2>6, <3>2 DEF Regular
  <2> QED BY <2>2, <2>3, <2>4, <2>5, <2>6 DEF Regular
<1>11. Sound(t)
  BY <1>2, <1>6, <1>8, <1>9, <1>10 DEF Sound
<1>12. ASSUME AwaitsNext(s, t, r)
       PROVE  Settled(t)
  <2>1. ASSUME ~t.lost, InHand(t)
        PROVE  \E q \in Playing(t) \ Served(t) : ~t.awaiting[q]
    <3>1. PICK q \in Playing(s) \ Served(s) : ~s.awaiting[q]
      BY <1>2, <1>7, <2>1 DEF Settled
    <3>2. q \in Replicas /\ q # r
      <4>1. t.index[r] # t.fFrameIndex /\ s.index[q] = s.fFrameIndex /\ q \in Replicas
            /\ s.index[q] # -1
        BY <1>12, <3>1 DEF AwaitsNext, Served, Playing
      <4> QED BY <1>2, <4>1
    <3>3. ~t.awaiting[q]
      BY <1>2, <3>1, <3>2
    <3> QED BY <1>4, <1>5, <3>1, <3>3
  <2> QED BY <1>11, <2>1 DEF Settled
<1> QED BY <1>4, <1>11, <1>12

\* The number of the frame that a replica may be given in this step: the one in
\* hand, or else the next one the source delivers.
Latest(s) == IF InHand(s) THEN s.frames ELSE s.frames + 1

\* A request leaves the replicator settled, and completes no frame but the
\* latest.
LEMMA GetNextFrameSettled ==
    ASSUME NEW s, Settled(s), NEW r \in Replicas, ~s.awaiting[r],
           NEW k \in Nat, s.frames + k <= MaxFrames
    PROVE  LET t == GetNextFrame(s, r, k)
           IN  /\ Settled(t) /\ Playing(t) = Playing(s) \union {r} /\ t.lost = s.lost
               /\ \A q \in Replicas : t.got[q] \in {s.got[q], Latest(s)}
<1> DEFINE a == Activate([s EXCEPT !.awaiting[r] = TRUE], r)
           b == [a EXCEPT !.fMasterReplica = r]
           c == [a EXCEPT !.fReplicasAwaitingNextFrame = <<r>> \o @]
           d == [a EXCEPT !.fReplicasAwaitingCurrentFrame = <<r>> \o @]
           t == GetNextFrame(s, r, k)
<1>1. /\ s \in Fields /\ Queued(s) /\ s.frames \in 0 .. MaxFrames /\ MaxFrames \in Nat
      /\ s.fReplicasAwaitingCurrentFrame \in Lists(Replicas)
      /\ s.fReplicasAwaitingNextFrame \in Lists(Replicas)
  BY FieldTypes, FrameAssumption DEF Settled, Sound
<1>2. /\ Asks(s, a, r)
      /\ a.fMasterReplica = s.fMasterReplica
      /\ a.fReplicasAwaitingCurrentFrame = s.fReplicasAwaitingCurrentFrame
      /\ a.fReplicasAwaitingNextFrame = s.fReplicasAwaitingNextFrame
      /\ a.reading = s.reading
  BY <1>1, ActivateFields
<1>3. /\ s.fMasterReplica = NoReplica => t = ReadFrame(b, k)
      /\ s.fMasterReplica # NoReplica /\ a.index[r] # a.fFrameIndex => t = c
      /\ s.fMasterReplica # NoReplica /\ a.index[r] = a.fFrameIndex =>
             t = IF d.reading THEN d ELSE DeliverReceivedFrame(d, k)
  BY <1>2 DEF GetNextFrame
<1> HIDE DEF a, t
<1>4. r \notin Current(s) /\ r \notin Waiting(s)
  BY <1>1 DEF Queued
<1>5. CASE s.fMasterReplica = NoReplica
  <2> DEFINE u == StartReading(b)
             e == ReadFrame(b, k)
  <2>1. /\ b \in Fields /\ b.fMasterReplica = r
        /\ b.fReplicasAwaitingCurrentFrame = a.fReplicasAwaitingCurrentFrame
        /\ b.fReplicasAwaitingNextFrame = a.fReplicasAwaitingNextFrame
        /\ b.fNumActiveReplicas = a.fNumActiveReplicas
        /\ b.fNumDeliveriesMadeSoFar = a.fNumDeliveriesMadeSoFar
        /\ b.fFrameIndex = a.fFrameIndex /\ b.index = a.index
        /\ b.awaiting = a.awaiting /\ b.buffer = a.buffer /\ b.got = a.got
        /\ b.reading = a.reading /\ b.frames = a.frames
        /\ b.lost = a.lost /\ b.errors = a.errors
    BY <1>2 DEF Asks, Fields
  <2> HIDE DEF b
  <2>2. ~b.reading /\ ~InHand(s)
    BY <1>1, <1>2, <1>5, <2>1 DEF Queued, InHand
  <2>3. Alike(b, u) /\ u.reading /\ u.frames = b.frames /\ u.buffer = b.buffer
    BY <2>1, <2>2, StartReadingFields
  <2> HIDE DEF u
  <2>4. Asks(s, u, r)
    BY <1>2, <2>1, <2>3 DEF Asks, Alike
  <2>5. BecomesMaster(s, u, r)
    BY <1>2, <1>5, <2>1, <2>3 DEF BecomesMaster, Alike, Current, Waiting
  <2>6. Sound(u) /\ Playing(u) = Playing(s) \union {r}
    BY <2>4, <2>5, AskSound
  <2>7. Playing(u) = Playing(b)
    BY <2>3, AlikeSets
  <2>8. b.frames = s.frames /\ b.got = s.got /\ b.lost = s.lost
    BY <1>2, <2>1 DEF Asks
  <2>9. /\ Settled(e) /\ Playing(e) = Playing(b) /\ e.lost = b.lost
        /\ \A q \in Replicas : e.got[q] \in {b.got[q], b.frames + 1}
    BY <2>1, <2>2, <2>6, <2>8, ReadFrameSettled DEF u
  <2> HIDE DEF e
  <2>10. t = e
    BY <1>3, <1>5 DEF e, b
  <2>11. \A q \in Replicas : t.got[q] \in {s.got[q], Latest(s)}
    BY <2>2, <2>8, <2>9, <2>10 DEF Latest
  <2> QED BY <2>6, <2>7, <2>8, <2>9, <2>10, <2>11 DEF t
<1>6. CASE s.fMasterReplica # NoReplica /\ a.index[r] # a.fFrameIndex
  <2> DEFINE next == <<r>> \o s.fReplicasAwaitingNextFrame
  <2>1. next \in Lists(Replicas) /\ Range(next) = Waiting(s) \union {r}
    BY <1>1, <1>4, PrependToList DEF Waiting
  <2>2. c = [a EXCEPT !.fReplicasAwaitingNextFrame = next]
    BY <1>2 DEF Asks, Fields
  <2> HIDE DEF next, c
  <2>3. /\ c \in Fields /\ c.fMasterReplica = a.fMasterReplica
        /\ c.fReplicasAwaitingCurrentFrame = a.fReplicasAwaitingCurrentFrame
        /\ c.fReplicasAwaitingNextFrame = next
        /\ c.fNumActiveReplicas = a.fNumActiveReplicas
        /\ c.fNumDeliveriesMadeSoFar = a.fNumDeliveriesMadeSoFar
        /\ c.fFrameIndex = a.fFrameIndex /\ c.index = a.index
        /\ c.awaiting = a.awaiting /\ c.buffer = a.buffer /\ c.got = a.got
        /\ c.reading = a.reading /\ c.frames = a.frames
        /\ c.lost = a.lost /\ c.errors = a.errors
    BY <1>2, <2>1, <2>2 DEF Asks, Fields
  <2>4. Asks(s, c, r)
    BY <1>2, <2>3 DEF Asks
  <2>5. AwaitsNext(s, c, r)
    BY <1>2, <1>6, <2>1, <2>3 DEF AwaitsNext, Current, Waiting
  <2>6. Settled(c) /\ Playing(c) = Playing(s) \union {r}
    BY <2>4, <2>5, AskSound
  <2>7. c.lost = s.lost /\ c.got = s.got
    BY <2>4 DEF Asks
  <2>8. t = c
    BY <1>3, <1>6 DEF c
  <2> QED BY <2>6, <2>7, <2>8 DEF t
<1>7. CASE s.fMasterReplica # NoReplica /\ a.index[r] = a.fFrameIndex
  <2> DEFINE current == <<r>> \o s.fReplicasAwaitingCurrentFrame
             e == DeliverReceivedFrame(d, k)
  <2>1. current \in Lists(Replicas) /\ Range(current) = Current(s) \union {r}
    BY <1>1, <1>4, PrependToList DEF Current
  <2>2. d = [a EXCEPT !.fReplicasAwaitingCurrentFrame = current]
    BY <1>2 DEF Asks, Fields
  <2> HIDE DEF current, d
  <2>3. /\ d \in Fields /\ d.fMasterReplica = a.fMasterReplica
        /\ d.fReplicasAwaitingCurrentFrame = current
        /\ d.fReplicasAwaitingNextFrame = a.fReplicasAwaitingNextFrame
        /\ d.fNumActiveReplicas = a.fNumActiveReplicas
        /\ d.fNumDeliveriesMadeSoFar = a.fNumDeliveriesMadeSoFar
        /\ d.fFrameIndex = a.fFrameIndex /\ d.index = a.index
        /\ d.awaiting = a.awaiting /\ d.buffer = a.buffer /\ d.got = a.got
        /\ d.reading = a.reading /\ d.frames = a.frames
        /\ d.lost = a.lost /\ d.errors = a.errors
    BY <1>2, <2>1, <2>2 DEF Asks, Fields
  <2>4. Asks(s, d, r)
    BY <1>2, <2>3 DEF Asks
  <2>5. AwaitsCurrent(s, d, r)
    BY <1>2, <1>7, <2>1, <2>3 DEF AwaitsCurrent, Current, Waiting
  <2>6. Sound(d) /\ Playing(d) = Playing(s) \union {r}
    BY <2>4, <2>5, AskSound
  <2>7. d.lost = s.lost /\ d.got = s.got /\ d.frames = s.frames
    BY <2>4 DEF Asks
  <2>8. CASE d.reading
    <3>1. t = d
      BY <1>3, <1>7, <2>8 DEF d
    <3>2. Settled(d)
      BY <2>6, <2>8 DEF Settled, InHand
    <3> QED BY <2>6, <2>7, <3>1, <3>2 DEF t
  <2>9. CASE ~d.reading
    <3>1. t = e
      BY <1>3, <1>7, <2>9 DEF d
    <3>2. InHand(d) /\ InHand(s)
      BY <1>2, <1>7, <2>3, <2>9 DEF InHand
    <3>3. k > 0 => d.frames < MaxFrames
      BY <1>1, <2>7
    <3>4. /\ Settled(e) /\ Playing(e) = Playing(d) /\ e.lost = d.lost
          /\ \A q \in Replicas : e.got[q] \in {d.got[q], d.frames}
      BY <2>6, <3>2, <3>3, DeliverSettled
    <3> HIDE DEF e
    <3>5. \A q \in Replicas : t.got[q] \in {s.got[q], Latest(s)}
      BY <2>7, <3>1, <3>2, <3>4 DEF Latest
    <3> QED BY <2>6, <2>7, <3>1, <3>4, <3>5 DEF t
  <2> QED BY <2>8, <2>9
<1> QED BY <1>5, <1>6, <1>7

-----------------------------------------------------------------------------
(***************************************************************************)
(* A replica stops or goes.                                                *)
(***************************************************************************)

\* In t, r plays no longer; who takes its place in line is left open.
Leaves(s, t, r) ==
    /\ t \in Fields
    /\ t.fNumActiveReplicas = s.fNumActiveReplicas - 1
    /\ t.fNumDeliveriesMadeSoFar =
           IF s.index[r] # s.fFrameIndex /\ s.fNumDeliveriesMadeSoFar > 0
           THEN s.fNumDeliveriesMadeSoFar - 1 ELSE s.fNumDeliveriesMadeSoFar
    /\ t.index[r] = -1
    /\ \A q \in Replicas : q # r => t.index[q] = s.index[q]
    /\ \A q \in Replicas : /\ t.awaiting[q] <=> s.awaiting[q] /\ q # r
                           /\ t.got[q] = IF q = r THEN 0 ELSE s.got[q]
    /\ t.fFrameIndex = s.fFrameIndex
    /\ t.frames = s.frames /\ t.errors = s.errors

\* What deactivateStreamReplica does before it looks at the line.
LEMMA ForgetFields ==
    ASSUME NEW s \in Fields, NEW r \in Replicas, s.fNumActiveReplicas > 0
    PROVE  LET t == Forget(s, r)
           IN  /\ Leaves(s, t, r)
               /\ t.fMasterReplica = s.fMasterReplica
               /\ t.fReplicasAwaitingCurrentFrame = s.fReplicasAwaitingCurrentFrame
               /\ t.fReplicasAwaitingNextFrame = s.fReplicasAwaitingNextFrame
               /\ t.buffer = s.buffer /\ t.reading = s.reading /\ t.lost = s.lost
<1> DEFINE number == s.fNumActiveReplicas - 1
           made == IF s.index[r] # s.fFrameIndex /\ s.fNumDeliveriesMadeSoFar > 0
                   THEN s.fNumDeliveriesMadeSoFar - 1 ELSE s.fNumDeliveriesMadeSoFar
           index == [s.index EXCEPT ![r] = -1]
           awaiting == [s.awaiting EXCEPT ![r] = FALSE]
           got == [s.got EXCEPT ![r] = 0]
           t == Forget(s, r)
<1>1. /\ s.fNumActiveReplicas \in Nat /\ s.fNumDeliveriesMadeSoFar \in Nat
      /\ s.index \in Indexes /\ s.awaiting \in Flags /\ s.got \in Frames
  BY FieldTypes
<1>2. number \in Nat /\ made \in Nat
  BY <1>1
<1>3. /\ index \in Indexes /\ index[r] = -1
      /\ \A q \in Replicas : q # r => index[q] = s.index[q]
  BY <1>1 DEF Indexes
<1>4. awaiting \in Flags /\ \A q \in Replicas : awaiting[q] <=> s.awaiting[q] /\ q # r
  BY <1>1 DEF Flags
<1>5. got \in Frames /\ \A q \in Replicas : got[q] = IF q = r THEN 0 ELSE s.got[q]
  BY <1>1, FrameAssumption DEF Frames
<1>6. Expect(s, "Internal Error", s.fNumActiveReplicas > 0) = s
  BY Zenon DEF Expect
<1>7. t = [s EXCEPT !.fNumActiveReplicas = number, !.fNumDeliveriesMadeSoFar = made,
                    !.index = index, !.awaiting = awaiting, !.got = got]
  BY <1>6 DEF Forget, Fields
<1> HIDE DEF number, made, index, awaiting, got, t
<1>8. /\ t \in Fields
      /\ t.fMasterReplica = s.fMasterReplica
      /\ t.fReplicasAwaitingCurrentFrame = s.fReplicasAwaitingCurrentFrame
      /\ t.fReplicasAwaitingNextFrame = s.fReplicasAwaitingNextFrame
      /\ t.fNumActiveReplicas = number
      /\ t.fNumDeliveriesMadeSoFar = made
      /\ t.fFrameIndex = s.fFrameIndex /\ t.index = index
      /\ t.awaiting = awaiting /\ t.got = got /\ t.buffer = s.buffer
      /\ t.reading = s.reading /\ t.frames = s.frames
      /\ t.lost = s.lost /\ t.errors = s.errors
  BY <1>2, <1>3, <1>4, <1>5, <1>7 DEF Fields
<1>9. Leaves(s, t, r)
  BY <1>3, <1>4, <1>5, <1>8 DEF Leaves, number, made
<1> QED BY <1>8, <1>9 DEF t

\* What becomes of the line: r was not the master and is taken off the lists;
\* or it was, and the place is left to nobody, and a frame in hand is lost; or
\* h, the next that awaits this frame, has it and also the frame in hand.
LeavesLine(s, t, r) ==
    /\ r # s.fMasterReplica /\ t.fMasterReplica = s.fMasterReplica
    /\ Current(t) = Current(s) \ {r} /\ Waiting(t) = Waiting(s) \ {r}
    /\ t.buffer = s.buffer /\ t.reading = s.reading /\ t.lost = s.lost

LeavesToNobody(s, t, r) ==
    /\ r = s.fMasterReplica /\ t.fMasterReplica = NoReplica
    /\ Current(s) = {} /\ Current(t) = {} /\ Waiting(t) = Waiting(s)
    /\ ~t.reading /\ (t.lost <=> s.lost \/ ~s.reading)

LeavesTo(s, t, r, h) ==
    /\ r = s.fMasterReplica /\ t.fMasterReplica = h /\ h \in Current(s)
    /\ Current(t) = Current(s) \ {h} /\ Waiting(t) = Waiting(s)
    /\ t.reading = s.reading /\ t.lost = s.lost
    /\ ~s.reading => t.buffer[h] = s.buffer[r]

\* A replica that plays leaves its place in line.
LEMMA LeaveSound ==
    ASSUME NEW s, Settled(s), NEW r \in Playing(s), NEW t, Leaves(s, t, r),
           NEW h,
           LeavesLine(s, t, r) \/ LeavesToNobody(s, t, r) \/ LeavesTo(s, t, r, h)
    PROVE  /\ Sound(t) /\ Playing(t) = Playing(s) \ {r}
           /\ r = s.fMasterReplica => Settled(t)
<1>1. /\ s \in Fields /\ Queued(s) /\ Counted(s) /\ FramesRight(s)
      /\ s.fFrameIndex \in {0, 1} /\ r \in Replicas
      /\ Current(s) \subseteq Replicas /\ Waiting(s) \subseteq Replicas
      /\ s.fNumDeliveriesMadeSoFar \in Nat /\ r # NoReplica
  BY FieldTypes, ReplicaAssumption DEF Settled, Sound, Playing
<1>2. /\ t \in Fields
      /\ t.fNumActiveReplicas = s.fNumActiveReplicas - 1
      /\ t.fNumDeliveriesMadeSoFar =
             IF s.index[r] # s.fFrameIndex /\ s.fNumDeliveriesMadeSoFar > 0
             THEN s.fNumDeliveriesMadeSoFar - 1 ELSE s.fNumDeliveriesMadeSoFar
      /\ t.index[r] = -1
      /\ \A q \in Replicas : q # r => t.index[q] = s.index[q]
      /\ \A q \in Replicas : /\ t.awaiting[q] <=> s.awaiting[q] /\ q # r
                             /\ t.got[q] = IF q = r THEN 0 ELSE s.got[q]
      /\ t.fFrameIndex = s.fFrameIndex
      /\ t.frames = s.frames /\ t.errors = s.errors
  BY DEF Leaves
<1>3. Playing(t) = Playing(s) \ {r}
  BY <1>2 DEF Playing
<1>4. Served(t) = Served(s) \ {r}
  <2>1. \A q \in Playing(s) : q # r => t.index[q] = s.index[q]
    BY <1>2 DEF Playing
  <2>2. t.fFrameIndex = s.fFrameIndex
    BY <1>2
  <2> QED BY <1>3, <2>1, <2>2 DEF Served
<1>5. /\ IsFiniteSet(Playing(s)) /\ s.fNumActiveReplicas = Cardinality(Playing(s))
      /\ Counted(t)
  <2>1. IsFiniteSet(Playing(s)) /\ s.fNumActiveReplicas = Cardinality(Playing(s))
    BY <1>1 DEF Counted
  <2>2. /\ IsFiniteSet(Playing(s) \ {r})
        /\ Cardinality(Playing(s) \ {r}) = Cardinality(Playing(s)) - 1
    BY <2>1, FS_RemoveElement
  <2> QED BY <1>2, <1>3, <2>1, <2>2 DEF Counted
<1>6. /\ InHand(t) => InHand(s)
      /\ ~t.lost => ~s.lost /\ (InHand(s) => InHand(t))
  <2>1. LeavesTo(s, t, r, h) => h # NoReplica
    BY <1>1, ReplicaAssumption DEF LeavesTo
  <2> QED BY <1>1, <2>1 DEF InHand, LeavesLine, LeavesToNobody, LeavesTo
<1>7. FramesRight(t)
  <2>1. ASSUME InHand(t)
        PROVE  t.buffer[t.fMasterReplica] = t.frames
    <3>1. s.buffer[s.fMasterReplica] = s.frames /\ ~s.reading
      BY <1>1, <1>6, <2>1 DEF FramesRight, InHand
    <3>2. ~LeavesToNobody(s, t, r)
      BY <2>1 DEF LeavesToNobody, InHand
    <3> QED BY <1>2, <3>1, <3>2 DEF LeavesLine, LeavesTo
  <2>2. \A q \in Replicas : s.got[q] <= s.frames /\ (q \notin Playing(s) => s.got[q] = 0)
    BY <1>1 DEF FramesRight
  <2>3. s.frames \in Nat
    BY <1>1, FieldTypes
  <2>4. \A q \in Replicas : /\ t.got[q] <= t.frames
                            /\ q \notin Playing(t) => t.got[q] = 0
    <3>1. TAKE q \in Replicas
    <3>2. CASE q = r
      BY <1>2, <2>3, <3>2
    <3>3. CASE q # r
      BY <1>2, <1>3, <2>2, <3>3
    <3> QED BY <3>2, <3>3
  <2> QED BY <2>1, <2>4 DEF FramesRight
<1>8. Queued(t)
  <2>1. /\ \A q \in Current(s) : q # r => t.index[q] = t.fFrameIndex
        /\ \A q \in Waiting(s) : q # r => t.index[q] = 1 - t.fFrameIndex
    BY <1>1, <1>2 DEF Queued
  <2>2. CASE LeavesLine(s, t, r)
    <3>1. /\ r # s.fMasterReplica /\ t.fMasterReplica = s.fMasterReplica
          /\ Current(t) = Current(s) \ {r} /\ Waiting(t) = Waiting(s) \ {r}
          /\ t.reading = s.reading
      BY <2>2 DEF LeavesLine
    <3>2. \A q \in Replicas :
              t.awaiting[q] <=> q = t.fMasterReplica \/ q \in Current(t) \union Waiting(t)
      BY <1>1, <1>2, <3>1 DEF Queued
    <3> QED BY <1>1, <1>3, <2>1, <3>1, <3>2 DEF Queued
  <2>3. CASE LeavesToNobody(s, t, r)
    <3>1. /\ r = s.fMasterReplica /\ t.fMasterReplica = NoReplica /\ ~t.reading
          /\ Current(s) = {} /\ Current(t) = {} /\ Waiting(t) = Waiting(s)
      BY <2>3 DEF LeavesToNobody
    <3>2. r \notin Waiting(s) /\ NoReplica \notin Replicas
      BY <1>1, <3>1, ReplicaAssumption DEF Queued
    <3>3. \A q \in Replicas :
              t.awaiting[q] <=> q = t.fMasterReplica \/ q \in Current(t) \union Waiting(t)
      BY <1>1, <1>2, <3>1, <3>2 DEF Queued
    <3> QED BY <1>1, <2>1, <3>1, <3>2, <3>3 DEF Queued
  <2>4. CASE LeavesTo(s, t, r, h)
    <3>1. /\ r = s.fMasterReplica /\ t.fMasterReplica = h /\ h \in Current(s)
          /\ Current(t) = Current(s) \ {h} /\ Waiting(t) = Waiting(s)
      BY <2>4 DEF LeavesTo
    <3>2. /\ r \notin Waiting(s) /\ r \notin Current(s) /\ h # r
          /\ h \in Replicas /\ h # NoReplica /\ h \notin Waiting(s)
      BY <1>1, <3>1, ReplicaAssumption DEF Queued
    <3>3. \A q \in Replicas :
              t.awaiting[q] <=> q = t.fMasterReplica \/ q \in Current(t) \union Waiting(t)
      BY <1>1, <1>2, <3>1, <3>2 DEF Queued
    <3>4. h \in Playing(t)
      <4>1. s.index[h] # -1
        BY <1>1, <3>1 DEF Queued
      <4> QED BY <1>3, <3>2, <4>1 DEF Playing
    <3> QED BY <1>1, <2>1, <3>1, <3>2, <3>3, <3>4 DEF Queued
  <2> QED BY <2>2, <2>3, <2>4
<1>9. ASSUME ~t.lost
      PROVE  Regular(t)
  <2>1. Regular(s) /\ ~s.lost /\ (InHand(s) <=> InHand(t))
    BY <1>6, <1>9 DEF Settled, Sound
  <2>2. t.errors = {} /\ IsFiniteSet(Served(s))
        /\ s.fNumDeliveriesMadeSoFar = Cardinality(Served(s))
    BY <1>2, <1>5, <2>1, FS_Subset DEF Regular, Served
  <2>3. t.fNumDeliveriesMadeSoFar = Cardinality(Served(t))
    <3>1. CASE r \in Served(s)
      <4>1. /\ Cardinality(Served(s) \ {r}) = Cardinality(Served(s)) - 1
            /\ Cardinality(Served(s) \ {r}) \in Nat
        BY <2>2, <3>1, FS_RemoveElement, FS_CardinalityType
      <4>2. s.index[r] # s.fFrameIndex /\ s.fNumDeliveriesMadeSoFar > 0
        BY <1>1, <2>2, <3>1, <4>1 DEF Served
      <4> QED BY <1>2, <1>4, <2>2, <4>1, <4>2
    <3>2. CASE r \notin Served(s)
      <4>1. s.index[r] = s.fFrameIndex
        BY <3>2 DEF Served
      <4>2. Served(t) = Served(s)
        BY <1>4, <3>2
      <4> QED BY <1>2, <2>2, <4>1, <4>2
    <3> QED BY <3>1, <3>2
  <2>4. t.fMasterReplica # NoReplica => t.index[t.fMasterReplica] = t.fFrameIndex
    <3>1. CASE LeavesLine(s, t, r)
      <4>1. t.fMasterReplica = s.fMasterReplica /\ s.fMasterReplica # r
        BY <3>1 DEF LeavesLine
      <4>2. ASSUME t.fMasterReplica # NoReplica
            PROVE  t.index[t.fMasterReplica] = t.fFrameIndex
        <5>1. s.fMasterReplica \in Replicas /\ s.index[s.fMasterReplica] = s.fFrameIndex
          BY <1>1, <2>1, <4>1, <4>2 DEF Queued, Playing, Regular
        <5> QED BY <1>2, <4>1, <5>1
      <4> QED BY <4>2
    <3>2. CASE LeavesToNobody(s, t, r)
      BY <3>2 DEF LeavesToNobody
    <3>3. CASE LeavesTo(s, t, r, h)
      <4>1. t.fMasterReplica = h /\ h \in Replicas /\ h # r /\ s.index[h] = s.fFrameIndex
        BY <1>1, <3>3 DEF LeavesTo, Queued
      <4> QED BY <1>2, <4>1
    <3> QED BY <3>1, <3>2, <3>3
  <2>5. t.fMasterReplica = NoReplica => Waiting(t) = {}
    <3>1. CASE LeavesLine(s, t, r)
      BY <2>1, <3>1 DEF LeavesLine, Regular
    <3>2. CASE LeavesToNobody(s, t, r)
      <4>1. Served(s) = {} /\ Waiting(t) = Waiting(s)
        BY <1>9, <2>1, <3>2 DEF LeavesToNobody, InHand, Regular
      <4>2. ASSUME NEW q \in Waiting(s)
            PROVE  q \in Served(s)
        <5>1. q \in Replicas /\ s.index[q] = 1 - s.fFrameIndex
          BY <1>1 DEF Queued
        <5>2. s.index[q] # -1 /\ s.index[q] # s.fFrameIndex
          BY <1>1, <5>1
        <5> QED BY <5>1, <5>2 DEF Served, Playing
      <4> QED BY <4>1, <4>2
    <3>3. CASE LeavesTo(s, t, r, h)
      BY <1>1, <3>3, ReplicaAssumption DEF LeavesTo
    <3> QED BY <3>1, <3>2, <3>3
  <2>6. ~InHand(t) => Served(t) = {}
    BY <1>4, <2>1 DEF Regular
  <2>7. ASSUME NEW q \in Playing(t), t.got[q] # 0
        PROVE  t.got[q] = IF InHand(t) /\ q \notin Served(t)
                          THEN t.frames - 1 ELSE t.frames
    <3>1. q \in Replicas /\ q \in Playing(s) /\ q # r
      BY <1>3 DEF Playing
    <3> QED BY <1>2, <1>4, <2>1, <2>7, <3>1 DEF Regular
  <2> QED BY <2>2, <2>3, <2>4, <2>5, <2>6, <2>7 DEF Regular
<1>10. Sound(t)
  BY <1>2, <1>5, <1>7, <1>8, <1>9 DEF Sound
<1>11. ASSUME r = s.fMasterReplica
       PROVE  Settled(t)
  <2>1. ASSUME ~t.lost, InHand(t)
        PROVE  \E q \in Playing(t) \ Served(t) : ~t.awaiting[q]
    <3>1. PICK q \in Playing(s) \ Served(s) : ~s.awaiting[q]
      BY <1>6, <2>1 DEF Settled
    <3>2. s.awaiting[r] /\ q \in Replicas
      BY <1>1, <1>11, <3>1 DEF Queued, Playing
    <3>3. q # r /\ ~t.awaiting[q]
      BY <1>2, <3>1, <3>2
    <3> QED BY <1>3, <1>4, <3>1, <3>3
  <2> QED BY <1>10, <2>1 DEF Settled
<1> QED BY <1>3, <1>10, <1>11

\* The master is replaced, once it has been forgotten in f.
LEMMA ReplaceMasterSettled ==
    ASSUME NEW s, Settled(s), NEW r \in Playing(s), r = s.fMasterReplica,
           NEW f, Leaves(s, f, r),
           f.fReplicasAwaitingCurrentFrame = s.fReplicasAwaitingCurrentFrame,
           f.fReplicasAwaitingNextFrame = s.fReplicasAwaitingNextFrame,
           f.buffer = s.buffer, f.reading = s.reading, f.lost = s.lost,
           NEW k \in Nat, s.frames + k <= MaxFrames
    PROVE  LET t == ReplaceMaster(f, r, k)
           IN  /\ Settled(t) /\ Playing(t) = Playing(s) \ {r}
               /\ s.lost => t.lost
               /\ \A q \in Replicas : t.got[q] \in {s.got[q], 0, Latest(s)}
<1> DEFINE current == s.fReplicasAwaitingCurrentFrame
           h == Head(current)
           t == ReplaceMaster(f, r, k)
<1>1. /\ f \in Fields /\ s \in Fields /\ current \in Lists(Replicas)
      /\ s.buffer \in Frames /\ s.frames \in 0 .. MaxFrames /\ r \in Replicas
      /\ s.reading \in BOOLEAN /\ s.lost \in BOOLEAN
      /\ f.frames = s.frames
      /\ \A q \in Replicas : f.got[q] = IF q = r THEN 0 ELSE s.got[q]
  BY FieldTypes DEF Settled, Sound, Leaves, Playing
<1>2. InHand(s) <=> ~s.reading
  BY <1>1, ReplicaAssumption DEF InHand
<1>3. CASE current = <<>>
  <2> DEFINE a == [f EXCEPT !.fMasterReplica = NoReplica]
             b == [f EXCEPT !.fMasterReplica = NoReplica, !.reading = FALSE]
             c == [f EXCEPT !.fMasterReplica = NoReplica, !.lost = TRUE]
             d == IF s.reading THEN b ELSE c
  <2>1. Current(s) = {}
    BY <1>1, <1>3, FieldTypes
  <2>2. t = d
    <3>1. [a EXCEPT !.reading = FALSE] = b /\ [a EXCEPT !.lost = TRUE] = c
      BY <1>1 DEF Fields
    <3>2. t = IF s.reading THEN [a EXCEPT !.reading = FALSE] ELSE [a EXCEPT !.lost = TRUE]
      BY <1>3 DEF ReplaceMaster
    <3> QED BY <3>1, <3>2
  <2>3. /\ d \in Fields /\ d.fMasterReplica = NoReplica
        /\ d.fReplicasAwaitingCurrentFrame = f.fReplicasAwaitingCurrentFrame
        /\ d.fReplicasAwaitingNextFrame = f.fReplicasAwaitingNextFrame
        /\ d.fNumActiveReplicas = f.fNumActiveReplicas
        /\ d.fNumDeliveriesMadeSoFar = f.fNumDeliveriesMadeSoFar
        /\ d.fFrameIndex = f.fFrameIndex /\ d.index = f.index
        /\ d.awaiting = f.awaiting /\ d.buffer = f.buffer /\ d.got = f.got
        /\ ~d.reading /\ d.frames = f.frames
        /\ (d.lost <=> s.lost \/ ~s.reading) /\ d.errors = f.errors
    <3>1. CASE s.reading
      <4>1. d = b
        BY <3>1
      <4> HIDE DEF d
      <4> QED BY <1>1, <3>1, <4>1 DEF Fields
    <3>2. CASE ~s.reading
      <4>1. d = c
        BY <3>2
      <4> HIDE DEF d
      <4> QED BY <1>1, <3>2, <4>1 DEF Fields
    <3> QED BY <3>1, <3>2
  <2> HIDE DEF d, t
  <2>4. Leaves(s, d, r)
    BY <2>3 DEF Leaves
  <2>5. LeavesToNobody(s, d, r)
    BY <2>1, <2>3 DEF LeavesToNobody, Current, Waiting
  <2>6. Settled(d) /\ Playing(d) = Playing(s) \ {r}
    BY <2>4, <2>5, LeaveSound
  <2>7. \A q \in Replicas : t.got[q] \in {s.got[q], 0, Latest(s)}
    BY <1>1, <2>2, <2>3
  <2> QED BY <2>2, <2>3, <2>6, <2>7 DEF t
<1>4. CASE current # <<>>
  <2> DEFINE rest == Tail(current)
             a == [f EXCEPT !.fMasterReplica = h,
                            !.fReplicasAwaitingCurrentFrame = rest]
             b == [a EXCEPT !.reading = FALSE]
             c == [a EXCEPT !.buffer[a.fMasterReplica] = s.buffer[r]]
  <2>1. /\ h \in Current(s) /\ h \in Replicas
        /\ rest \in Lists(Replicas) /\ Range(rest) = Current(s) \ {h}
    <3>1. h \in Range(current) /\ rest \in Lists(Replicas) /\ Range(rest) = Range(current) \ {h}
      BY <1>1, <1>4, TailOfList
    <3>2. Range(current) \subseteq Replicas
      BY <1>1, ListTypes
    <3> QED BY <3>1, <3>2 DEF Current
  <2>2. t = IF s.reading THEN ReadFrame(b, k) ELSE c
    BY <1>4 DEF ReplaceMaster
  <2> HIDE DEF rest, h, t
  <2>3. /\ a \in Fields /\ a.fMasterReplica = h
        /\ a.fReplicasAwaitingCurrentFrame = rest
        /\ a.fReplicasAwaitingNextFrame = f.fReplicasAwaitingNextFrame
        /\ a.fNumActiveReplicas = f.fNumActiveReplicas
        /\ a.fNumDeliveriesMadeSoFar = f.fNumDeliveriesMadeSoFar
        /\ a.fFrameIndex = f.fFrameIndex /\ a.index = f.index
        /\ a.awaiting = f.awaiting /\ a.buffer = f.buffer /\ a.got = f.got
        /\ a.reading = f.reading /\ a.frames = f.frames
        /\ a.lost = f.lost /\ a.errors = f.errors
    BY <1>1, <2>1 DEF Fields
  <2> HIDE DEF a
  <2>4. CASE s.reading
    <3> DEFINE u == StartReading(b)
               e == ReadFrame(b, k)
    <3>1. /\ b \in Fields /\ b.fMasterReplica = h
          /\ b.fReplicasAwaitingCurrentFrame = rest
          /\ b.fReplicasAwaitingNextFrame = a.fReplicasAwaitingNextFrame
          /\ b.fNumActiveReplicas = a.fNumActiveReplicas
          /\ b.fNumDeliveriesMadeSoFar = a.fNumDeliveriesMadeSoFar
          /\ b.fFrameIndex = a.fFrameIndex /\ b.index = a.index
          /\ b.awaiting = a.awaiting /\ b.buffer = a.buffer /\ b.got = a.got
          /\ ~b.reading /\ b.frames = a.frames
          /\ b.lost = a.lost /\ b.errors = a.errors
      BY <2>3 DEF Fields
    <3> HIDE DEF b
    <3>2. Alike(b, u) /\ u.reading /\ u.frames = b.frames
      BY <3>1, StartReadingFields
    <3> HIDE DEF u
    <3>3. Leaves(s, u, r)
      BY <2>3, <3>1, <3>2 DEF Leaves, Alike
    <3>4. LeavesTo(s, u, r, h)
      BY <2>1, <2>3, <2>4, <3>1, <3>2 DEF LeavesTo, Alike, Current, Waiting
    <3>5. Sound(u) /\ Playing(u) = Playing(s) \ {r}
      BY <3>3, <3>4, LeaveSound
    <3>6. Playing(u) = Playing(b)
      BY <3>2, AlikeSets
    <3>7. b.frames = s.frames /\ b.got = f.got /\ b.lost = s.lost
      BY <1>1, <2>3, <3>1
    <3>8. /\ Settled(e) /\ Playing(e) = Playing(b) /\ e.lost = b.lost
          /\ \A q \in Replicas : e.got[q] \in {b.got[q], b.frames + 1}
      BY <3>1, <3>5, <3>7, ReadFrameSettled DEF u
    <3> HIDE DEF e
    <3>9. t = e
      BY <2>2, <2>4 DEF e
    <3>10. \A q \in Replicas : t.got[q] \in {s.got[q], 0, Latest(s)}
      BY <1>1, <1>2, <2>4, <3>7, <3>8, <3>9 DEF Latest
    <3> QED BY <3>5, <3>6, <3>7, <3>8, <3>9, <3>10 DEF t
  <2>5. CASE ~s.reading
    <3> DEFINE buffer == [s.buffer EXCEPT ![h] = s.buffer[r]]
    <3>1. buffer \in Frames /\ buffer[h] = s.buffer[r]
      BY <1>1, <2>1 DEF Frames
    <3>2. c = [a EXCEPT !.buffer = buffer]
      BY <2>3 DEF Fields
    <3> HIDE DEF buffer, c
    <3>3. /\ c \in Fields /\ c.fMasterReplica = h
          /\ c.fReplicasAwaitingCurrentFrame = rest
          /\ c.fReplicasAwaitingNextFrame = a.fReplicasAwaitingNextFrame
          /\ c.fNumActiveReplicas = a.fNumActiveReplicas
          /\ c.fNumDeliveriesMadeSoFar = a.fNumDeliveriesMadeSoFar
          /\ c.fFrameIndex = a.fFrameIndex /\ c.index = a.index
          /\ c.awaiting = a.awaiting /\ c.buffer = buffer /\ c.got = a.got
          /\ c.reading = a.reading /\ c.frames = a.frames
          /\ c.lost = a.lost /\ c.errors = a.errors
      BY <2>3, <3>1, <3>2 DEF Fields
    <3>4. Leaves(s, c, r)
      BY <2>3, <3>3 DEF Leaves
    <3>5. LeavesTo(s, c, r, h)
      BY <2>1, <2>3, <3>1, <3>3 DEF LeavesTo, Current, Waiting
    <3>6. Settled(c) /\ Playing(c) = Playing(s) \ {r}
      BY <3>4, <3>5, LeaveSound
    <3>7. t = c /\ c.got = f.got /\ c.lost = s.lost
      BY <2>2, <2>3, <2>5, <3>3 DEF c
    <3>8. \A q \in Replicas : t.got[q] \in {s.got[q], 0, Latest(s)}
      BY <1>1, <3>7
    <3> QED BY <3>6, <3>7, <3>8 DEF t
  <2> QED BY <2>4, <2>5
<1> QED BY <1>3, <1>4

\* Another replica is taken off the lists, once it has been forgotten in f; it
\* may have been the last that the frame in hand was kept for.
LEMMA DequeueSettled ==
    ASSUME NEW s, Settled(s), NEW r \in Playing(s), r # s.fMasterReplica,
           NEW f, Leaves(s, f, r), f.fMasterReplica = s.fMasterReplica,
           f.fReplicasAwaitingCurrentFrame = s.fReplicasAwaitingCurrentFrame,
           f.fReplicasAwaitingNextFrame = s.fReplicasAwaitingNextFrame,
           f.buffer = s.buffer, f.reading = s.reading, f.lost = s.lost,
           NEW k \in Nat, s.frames + k <= MaxFrames
    PROVE  LET t == Dequeue(f, r, k)
           IN  /\ Settled(t) /\ Playing(t) = Playing(s) \ {r}
               /\ s.lost => t.lost
               /\ \A q \in Replicas : t.got[q] \in {s.got[q], 0, Latest(s)}
<1> DEFINE current == RemoveFirst(s.fReplicasAwaitingCurrentFrame, r)
           next == RemoveFirst(s.fReplicasAwaitingNextFrame, r)
           a == [f EXCEPT !.fReplicasAwaitingCurrentFrame = RemoveFirst(@, r),
                          !.fReplicasAwaitingNextFrame = RemoveFirst(@, r)]
           b == [f EXCEPT !.fReplicasAwaitingCurrentFrame = current,
                          !.fReplicasAwaitingNextFrame = next]
           e == DeliverReceivedFrame(b, k)
           t == Dequeue(f, r, k)
<1>1. /\ f \in Fields /\ s \in Fields /\ s.frames \in 0 .. MaxFrames
      /\ s.fReplicasAwaitingCurrentFrame \in Lists(Replicas)
      /\ s.fReplicasAwaitingNextFrame \in Lists(Replicas)
      /\ f.frames = s.frames
      /\ \A q \in Replicas : f.got[q] = IF q = r THEN 0 ELSE s.got[q]
  BY FieldTypes DEF Settled, Sound, Leaves, Playing
<1>2. /\ current \in Lists(Replicas) /\ Range(current) = Current(s) \ {r}
      /\ next \in Lists(Replicas) /\ Range(next) = Waiting(s) \ {r}
  BY <1>1, RemoveFromList DEF Current, Waiting
<1>3. a = b
  BY <1>1 DEF Fields
<1>4. t = IF b.fMasterReplica # NoReplica /\ ~b.reading THEN e ELSE b
  BY <1>3 DEF Dequeue
<1> HIDE DEF current, next, a, t
<1>5. /\ b \in Fields /\ b.fMasterReplica = f.fMasterReplica
      /\ b.fReplicasAwaitingCurrentFrame = current
      /\ b.fReplicasAwaitingNextFrame = next
      /\ b.fNumActiveReplicas = f.fNumActiveReplicas
      /\ b.fNumDeliveriesMadeSoFar = f.fNumDeliveriesMadeSoFar
      /\ b.fFrameIndex = f.fFrameIndex /\ b.index = f.index
      /\ b.awaiting = f.awaiting /\ b.buffer = f.buffer /\ b.got = f.got
      /\ b.reading = f.reading /\ b.frames = f.frames
      /\ b.lost = f.lost /\ b.errors = f.errors
  BY <1>1, <1>2 DEF Fields
<1> HIDE DEF b
<1>6. Leaves(s, b, r)
  BY <1>5 DEF Leaves
<1>7. LeavesLine(s, b, r)
  BY <1>2, <1>5 DEF LeavesLine, Current, Waiting
<1>8. Sound(b) /\ Playing(b) = Playing(s) \ {r}
  BY <1>6, <1>7, LeaveSound
<1>9. /\ b.frames = s.frames /\ b.lost = s.lost /\ (InHand(b) <=> InHand(s))
      /\ \A q \in Replicas : b.got[q] = IF q = r THEN 0 ELSE s.got[q]
  BY <1>1, <1>5 DEF InHand
<1>10. CASE InHand(b)
  <2>1. k > 0 => b.frames < MaxFrames
    BY <1>1, <1>9, FrameAssumption
  <2>2. /\ Settled(e) /\ Playing(e) = Playing(b) /\ e.lost = b.lost
        /\ \A q \in Replicas : e.got[q] \in {b.got[q], b.frames}
    BY <1>8, <1>10, <2>1, DeliverSettled
  <2> HIDE DEF e
  <2>3. t = e
    BY <1>4, <1>10 DEF InHand
  <2>4. \A q \in Replicas : t.got[q] \in {s.got[q], 0, Latest(s)}
    BY <1>9, <1>10, <2>2, <2>3 DEF Latest
  <2> QED BY <1>8, <1>9, <2>2, <2>3, <2>4 DEF t
<1>11. CASE ~InHand(b)
  <2>1. t = b
    BY <1>4, <1>11 DEF InHand
  <2>2. Settled(b)
    BY <1>8, <1>11 DEF Settled
  <2>3. \A q \in Replicas : t.got[q] \in {s.got[q], 0, Latest(s)}
    <3>1. \A q \in Replicas : b.got[q] = s.got[q] \/ b.got[q] = 0
      BY <1>9
    <3> QED BY <2>1, <3>1
  <2> QED BY <1>8, <1>9, <2>1, <2>2, <2>3 DEF t
<1> QED BY <1>10, <1>11

\* A stop or removal leaves the replicator settled, and completes no frame but
\* the latest.
LEMMA DeactivateSettled ==
    ASSUME NEW s, Settled(s), NEW r \in Replicas,
           NEW k \in Nat, s.frames + k <= MaxFrames
    PROVE  LET t == DeactivateStreamReplica(s, r, k)
           IN  /\ Settled(t) /\ Playing(t) = Playing(s) \ {r}
               /\ s.lost => t.lost
               /\ \A q \in Replicas : t.got[q] \in {s.got[q], 0, Latest(s)}
<1> DEFINE f == Forget(s, r)
           m == ReplaceMaster(f, r, k)
           d == Dequeue(f, r, k)
           u == IF s.fMasterReplica = r THEN m ELSE d
           v == [u EXCEPT !.reading = FALSE]
           t == DeactivateStreamReplica(s, r, k)
<1>1. CASE s.index[r] = -1
  <2>1. t = s
    BY <1>1 DEF DeactivateStreamReplica
  <2>2. Playing(s) \ {r} = Playing(s)
    BY <1>1 DEF Playing
  <2> HIDE DEF t
  <2> QED BY <2>1, <2>2 DEF t
<1>2. CASE s.index[r] # -1
  <2>1. t = IF u.fNumActiveReplicas = 0 THEN v ELSE u
    BY <1>2 DEF DeactivateStreamReplica
  <2>2. r \in Playing(s) /\ s \in Fields /\ s.fNumActiveReplicas > 0
    <3>1. r \in Playing(s) /\ s \in Fields /\ Counted(s)
      BY <1>2 DEF Playing, Settled, Sound
    <3>2. Cardinality(Playing(s)) # 0 /\ Cardinality(Playing(s)) \in Nat
      BY <3>1, FS_EmptySet, FS_CardinalityType DEF Counted
    <3> QED BY <3>1, <3>2 DEF Counted
  <2>3. /\ Leaves(s, f, r)
        /\ f.fMasterReplica = s.fMasterReplica
        /\ f.fReplicasAwaitingCurrentFrame = s.fReplicasAwaitingCurrentFrame
        /\ f.fReplicasAwaitingNextFrame = s.fReplicasAwaitingNextFrame
        /\ f.buffer = s.buffer /\ f.reading = s.reading /\ f.lost = s.lost
    BY <2>2, ForgetFields
  <2> HIDE DEF f, t
  <2>4. /\ Settled(u) /\ Playing(u) = Playing(s) \ {r}
        /\ s.lost => u.lost
        /\ \A q \in Replicas : u.got[q] \in {s.got[q], 0, Latest(s)}
    <3>1. CASE s.fMasterReplica = r
      <4>1. /\ Settled(m) /\ Playing(m) = Playing(s) \ {r}
            /\ s.lost => m.lost
            /\ \A q \in Replicas : m.got[q] \in {s.got[q], 0, Latest(s)}
        BY <2>2, <2>3, <3>1, ReplaceMasterSettled
      <4> HIDE DEF m
      <4> QED BY <3>1, <4>1
    <3>2. CASE s.fMasterReplica # r
      <4>1. /\ Settled(d) /\ Playing(d) = Playing(s) \ {r}
            /\ s.lost => d.lost
            /\ \A q \in Replicas : d.got[q] \in {s.got[q], 0, Latest(s)}
        BY <2>2, <2>3, <3>2, DequeueSettled
      <4> HIDE DEF d
      <4> QED BY <3>2, <4>1
    <3> QED BY <3>1, <3>2
  <2> HIDE DEF u
  <2>5. CASE u.fNumActiveReplicas # 0
    BY <2>1, <2>4, <2>5 DEF t
\* When nobody plays any longer, nothing is being read.
  <2>6. CASE u.fNumActiveReplicas = 0
    <3>1. u \in Fields /\ Queued(u) /\ Counted(u)
      BY <2>4 DEF Settled, Sound
    <3>2. Playing(u) = {}
      BY <2>6, <3>1, FS_EmptySet DEF Counted
    <3>3. ~u.reading
      BY <3>1, <3>2 DEF Queued
    <3>4. Alike(u, v) /\ v.reading = u.reading /\ v.frames = u.frames
          /\ v.buffer = u.buffer
      BY <3>1, <3>3, FieldTypes DEF Alike, Fields
    <3>5. t = v
      BY <2>1, <2>6
    <3> HIDE DEF v
    <3>6. Current(v) = Current(u) /\ Waiting(v) = Waiting(u)
          /\ Playing(v) = Playing(u) /\ Served(v) = Served(u) /\ Counted(v)
      BY <3>1, <3>4, AlikeSets
    <3>7. InHand(v) <=> InHand(u)
      BY <3>4 DEF Alike, InHand
    <3>8. Queued(v)
      BY <3>1, <3>4, <3>6 DEF Queued, Alike
    <3>9. FramesRight(v)
      BY <2>4, <3>4, <3>6, <3>7 DEF Settled, Sound, FramesRight, Alike
    <3>10. ~v.lost => Regular(v)
      BY <2>4, <3>4, <3>6, <3>7 DEF Settled, Sound, Regular, Alike
    <3>11. Sound(v)
      BY <3>4, <3>6, <3>8, <3>9, <3>10 DEF Sound, Alike
    <3>12. Settled(v)
      BY <2>4, <3>4, <3>6, <3>7, <3>11 DEF Settled, Alike
    <3>13. v.got = u.got /\ v.lost = u.lost
      BY <3>4 DEF Alike
    <3> QED BY <2>4, <3>5, <3>6, <3>12, <3>13 DEF t
  <2> QED BY <2>5, <2>6
<1> QED BY <1>1, <1>2

-----------------------------------------------------------------------------
(***************************************************************************)
(* The specification.                                                      *)
(***************************************************************************)

Inv ==
    /\ Settled(rep)
    /\ Playing(rep) \subseteq replicas
    /\ replicas \subseteq Replicas

\* What a step may do to what the replicas were given.
Given ==
    /\ rep.lost => rep'.lost
    /\ \A q \in Replicas : rep'.got[q] \in {rep.got[q], 0, Latest(rep)}

\* The replicator starts out settled.
LEMMA InvInit == Init => Inv
<1> SUFFICES ASSUME Init PROVE Inv
  OBVIOUS
<1> DEFINE s == StreamReplicatorInit
           index    == [r \in Replicas |-> -1]
           awaiting == [r \in Replicas |-> FALSE]
           zero     == [r \in Replicas |-> 0]
<1>1. index \in Indexes /\ awaiting \in Flags /\ zero \in Frames /\ <<>> \in Lists(Replicas)
  BY EmptyList, FrameAssumption DEF Indexes, Flags, Frames
<1>2. /\ \A r \in Replicas : index[r] = -1
      /\ \A r \in Replicas : ~awaiting[r]
      /\ \A r \in Replicas : zero[r] = 0
  OBVIOUS
<1>3. s = [fMasterReplica                |-> NoReplica,
           fReplicasAwaitingCurrentFrame |-> <<>>,
           fReplicasAwaitingNextFrame    |-> <<>>,
           fNumActiveReplicas            |-> 0,
           fNumDeliveriesMadeSoFar       |-> 0,
           fFrameIndex                   |-> 0,
           index    |-> index,
           awaiting |-> awaiting,
           buffer   |-> zero,
           got      |-> zero,
           reading  |-> FALSE,
           frames   |-> 0,
           lost     |-> FALSE,
           errors   |-> {}]
  BY DEF StreamReplicatorInit
<1> HIDE DEF index, awaiting, zero, s
<1>4. /\ s \in Fields /\ s.fMasterReplica = NoReplica
      /\ s.fReplicasAwaitingCurrentFrame = <<>>
      /\ s.fReplicasAwaitingNextFrame = <<>>
      /\ s.fNumActiveReplicas = 0 /\ s.fNumDeliveriesMadeSoFar = 0
      /\ s.fFrameIndex = 0 /\ s.index = index /\ s.awaiting = awaiting
      /\ s.got = zero /\ ~s.reading /\ s.frames = 0 /\ ~s.lost /\ s.errors = {}
  BY <1>1, <1>3, FrameAssumption DEF Fields
<1>5. /\ Current(s) = {} /\ Waiting(s) = {} /\ Playing(s) = {} /\ Served(s) = {}
      /\ ~InHand(s)
  <2>1. Current(s) = {} /\ Waiting(s) = {}
    BY <1>4, EmptyList DEF Current, Waiting
  <2>2. Playing(s) = {}
    BY <1>2, <1>4 DEF Playing
  <2> QED BY <1>4, <2>1, <2>2 DEF Served, InHand
<1>6. Cardinality({}) = 0 /\ IsFiniteSet({})
  BY FS_EmptySet
<1>7. Queued(s)
  BY <1>2, <1>4, <1>5, ReplicaAssumption DEF Queued
<1>8. Counted(s)
  BY <1>4, <1>5, <1>6 DEF Counted
<1>9. FramesRight(s)
  BY <1>2, <1>4, <1>5 DEF FramesRight
<1>10. Regular(s)
  BY <1>4, <1>5, <1>6 DEF Regular
<1>11. Settled(s)
  BY <1>4, <1>5, <1>7, <1>8, <1>9, <1>10 DEF Settled, Sound
<1>12. rep = s /\ replicas = {}
  BY DEF Init, s
<1> QED BY <1>5, <1>11, <1>12 DEF Inv

\* Every step leaves it settled.
LEMMA InvStep == Inv /\ [Next]_vars => Inv' /\ Given
<1> SUFFICES ASSUME Inv, [Next]_vars PROVE Inv' /\ Given
  OBVIOUS
<1>1. /\ Settled(rep) /\ Playing(rep) \subseteq replicas /\ replicas \subseteq Replicas
      /\ rep \in Fields /\ rep.frames \in 0 .. MaxFrames /\ MaxFrames \in Nat
  BY FieldTypes, FrameAssumption DEF Inv, Settled, Sound
<1>2. ASSUME UNCHANGED rep, replicas' \subseteq Replicas,
             Playing(rep) \subseteq replicas'
      PROVE  Inv' /\ Given
  BY <1>1, <1>2 DEF Inv, Given, Settled, Sound, Queued, Counted, FramesRight, Regular,
                    InHand, Current, Waiting, Playing, Served
<1>3. CASE UNCHANGED vars
  BY <1>1, <1>2, <1>3 DEF vars
<1>4. ASSUME NEW r \in Replicas, CreateStreamReplica(r)
      PROVE  Inv' /\ Given
  BY <1>1, <1>2, <1>4 DEF CreateStreamReplica
<1>5. ASSUME NEW r \in Replicas, Request(r)
      PROVE  Inv' /\ Given
  <2>1. PICK k \in LeftOver(0) : rep' = GetNextFrame(rep, r, k)
    BY <1>5 DEF Request
  <2>2. /\ k \in Nat /\ rep.frames + k <= MaxFrames
        /\ r \in replicas /\ ~rep.awaiting[r] /\ replicas' = replicas
    BY <1>1, <1>5 DEF LeftOver, Request
  <2> DEFINE t == GetNextFrame(rep, r, k)
  <2>3. /\ Settled(t) /\ Playing(t) = Playing(rep) \union {r} /\ t.lost = rep.lost
        /\ \A q \in Replicas : t.got[q] \in {rep.got[q], Latest(rep)}
    BY <1>1, <2>2, GetNextFrameSettled
  <2>4. rep' = t
    BY <2>1
  <2> HIDE DEF t
  <2>5. Settled(rep)'
    BY <2>3, <2>4 DEF Settled, Sound, Queued, Counted, FramesRight, Regular,
                      InHand, Current, Waiting, Playing, Served
  <2>6. Playing(rep)' = Playing(rep) \union {r}
    BY <2>3, <2>4 DEF Playing
  <2>7. Given
    BY <2>3, <2>4 DEF Given
  <2> QED BY <1>1, <2>2, <2>5, <2>6, <2>7 DEF Inv
<1>6. ASSUME NEW r \in Replicas, NEW k \in LeftOver(0),
             rep' = DeactivateStreamReplica(rep, r, k),
             replicas \ {r} \subseteq replicas', replicas' \subseteq replicas
      PROVE  Inv' /\ Given
  <2>1. k \in Nat /\ rep.frames + k <= MaxFrames
    BY <1>1 DEF LeftOver
  <2> DEFINE t == DeactivateStreamReplica(rep, r, k)
  <2>2. /\ Settled(t) /\ Playing(t) = Playing(rep) \ {r}
        /\ rep.lost => t.lost
        /\ \A q \in Replicas : t.got[q] \in {rep.got[q], 0, Latest(rep)}
    BY <1>1, <2>1, DeactivateSettled
  <2>3. rep' = t
    BY <1>6
  <2> HIDE DEF t
  <2>4. Settled(rep)'
    BY <2>2, <2>3 DEF Settled, Sound, Queued, Counted, FramesRight, Regular,
                      InHand, Current, Waiting, Playing, Served
  <2>5. Playing(rep)' = Playing(rep) \ {r}
    BY <2>2, <2>3 DEF Playing
  <2>6. Given
    BY <2>2, <2>3 DEF Given
  <2> QED BY <1>1, <1>6, <2>4, <2>5, <2>6 DEF Inv
<1>7. ASSUME NEW r \in Replicas, Stop(r)
      PROVE  Inv' /\ Given
  BY <1>6, <1>7 DEF Stop
<1>8. ASSUME NEW r \in Replicas, RemoveStreamReplica(r)
      PROVE  Inv' /\ Given
  BY <1>6, <1>8 DEF RemoveStreamReplica
<1>9. ASSUME AfterGettingFrame
      PROVE  Inv' /\ Given
  <2>1. PICK k \in LeftOver(1) : rep' = DeliverReceivedFrame(FrameRead(rep), k)
    BY <1>9 DEF AfterGettingFrame
  <2>2. /\ k \in Nat /\ rep.frames + 1 + k <= MaxFrames /\ rep.reading
        /\ replicas' = replicas
    BY <1>1, <1>9 DEF LeftOver, AfterGettingFrame
  <2> DEFINE u == FrameRead(rep)
             t == DeliverReceivedFrame(u, k)
  <2>3. rep.frames < MaxFrames /\ Sound(rep)
    BY <1>1, <2>2 DEF Settled
  <2>4. Sound(u) /\ InHand(u) /\ Alike(rep, u) /\ u.frames = rep.frames + 1
    BY <2>2, <2>3, FrameReadSound
  <2>5. Playing(u) = Playing(rep) /\ u.got = rep.got /\ u.lost = rep.lost
    BY <2>4, AlikeSets DEF Alike
  <2> HIDE DEF u
  <2>6. k > 0 => u.frames < MaxFrames
    BY <1>1, <2>2, <2>4
  <2>7. /\ Settled(t) /\ Playing(t) = Playing(u) /\ t.lost = u.lost
        /\ \A q \in Replicas : t.got[q] \in {u.got[q], u.frames}
    BY <2>2, <2>4, <2>6, DeliverSettled
  <2>8. rep' = t
    BY <2>1 DEF u
  <2> HIDE DEF t
  <2>9. Settled(rep)'
    BY <2>7, <2>8 DEF Settled, Sound, Queued, Counted, FramesRight, Regular,
                      InHand, Current, Waiting, Playing, Served
  <2>10. Playing(rep)' = Playing(rep)
    BY <2>5, <2>7, <2>8 DEF Playing
  <2>11. Latest(rep) = u.frames
    BY <2>2, <2>4 DEF Latest, InHand
  <2>12. Given
    BY <2>5, <2>7, <2>8, <2>11 DEF Given
  <2> QED BY <1>1, <2>2, <2>9, <2>10, <2>12 DEF Inv
<1> QED BY <1>3, <1>4, <1>5, <1>7, <1>8, <1>9 DEF Next

\* It is settled at all times.
LEMMA Invariant == Spec => []Inv
<1> QED BY InvInit, InvStep, PTL DEF Spec

-----------------------------------------------------------------------------
(***************************************************************************)
(* Theorems.                                                               *)
(***************************************************************************)

\* The fields of the replicator and its replicas stay within their types.
THEOREM TypeCorrect == Spec => []TypeOK
<1>1. Inv => TypeOK
  <2> SUFFICES ASSUME Inv PROVE TypeOK
    OBVIOUS
  <2>1. rep \in Fields /\ replicas \subseteq Replicas
    BY DEF Inv, Settled, Sound
  <2>2. /\ rep.fReplicasAwaitingCurrentFrame \in Lists(Replicas)
        /\ rep.fReplicasAwaitingNextFrame \in Lists(Replicas)
    BY <2>1, FieldTypes
  <2>3. /\ rep.fReplicasAwaitingCurrentFrame \in Seq(Replicas)
        /\ rep.fReplicasAwaitingNextFrame \in Seq(Replicas)
    BY <2>2 DEF Lists
  <2>4. /\ rep.fMasterReplica \in Replicas \union {NoReplica}
        /\ rep.fNumActiveReplicas \in Nat
        /\ rep.fNumDeliveriesMadeSoFar \in Nat
        /\ rep.fFrameIndex \in {0, 1}
        /\ rep.index \in Indexes /\ rep.awaiting \in Flags
        /\ rep.buffer \in Frames /\ rep.got \in Frames
        /\ rep.reading \in BOOLEAN /\ rep.frames \in 0 .. MaxFrames
        /\ rep.lost \in BOOLEAN
    BY <2>1, FieldTypes
  <2> QED BY <2>1, <2>3, <2>4 DEF TypeOK, Indexes, Flags, Frames
<1> QED BY Invariant, <1>1, PTL

\* For any number of replicas, the assertions in deactivateStreamReplica and
\* deliverReceivedFrame but "Internal Error 2" hold, the source is never asked
\* for a frame while it reads one, and a delivery within a delivery has nothing
\* to do.
THEOREM AssertionsAlwaysHold == Spec => []AssertionsHold
<1>1. Inv => AssertionsHold
  <2> SUFFICES ASSUME Inv PROVE rep.errors \subseteq {Stall}
    BY Zenon DEF AssertionsHold, Stall
  <2> QED BY FieldTypes DEF Inv, Settled, Sound
<1> QED BY Invariant, <1>1, PTL

\* A replica that awaits a frame is in exactly one place in line, and nobody
\* else is in any.
THEOREM EachQueuedOnce == Spec => []QueuedOnce
<1>1. Inv => QueuedOnce
  <2> SUFFICES ASSUME Inv PROVE QueuedOnce
    OBVIOUS
  <2> DEFINE m == rep.fMasterReplica
             current == rep.fReplicasAwaitingCurrentFrame
             next == rep.fReplicasAwaitingNextFrame
             queue == <<m>> \o current \o next
             S == Replicas \union {NoReplica}
  <2>1. /\ rep \in Fields /\ Queued(rep) /\ Playing(rep) \subseteq replicas
        /\ m \in S /\ current \in Lists(Replicas) /\ next \in Lists(Replicas)
        /\ Current(rep) \subseteq Replicas /\ Waiting(rep) \subseteq Replicas
        /\ rep.fFrameIndex \in {0, 1}
    BY FieldTypes DEF Inv, Settled, Sound
  <2>2. <<m>> \in Lists(S) /\ current \in Lists(S) /\ next \in Lists(S)
        /\ Range(<<m>>) = {m} /\ Range(current) = Current(rep) /\ Range(next) = Waiting(rep)
    <3>1. <<m>> \in Lists(S) /\ Range(<<m>>) = {m}
      BY <2>1 DEF Lists, IsInjective, Range
    <3>2. ASSUME NEW q \in Lists(Replicas)
          PROVE  q \in Lists(S)
      <4>1. q \in Seq(Replicas) /\ IsInjective(q)
        BY DEF Lists
      <4>2. q \in Seq(S)
        BY <4>1
      <4> QED BY <4>1, <4>2 DEF Lists
    <3> QED BY <2>1, <3>1, <3>2 DEF Current, Waiting
  <2>3. /\ Current(rep) \intersect Waiting(rep) = {}
        /\ m \notin Current(rep) \union Waiting(rep)
    BY <2>1 DEF Queued
  <2> HIDE DEF m, current, next, S
  <2>4. /\ <<m>> \o current \in Lists(S)
        /\ Range(<<m>> \o current) = {m} \union Current(rep)
    <3>1. Range(<<m>>) \intersect Range(current) = {}
      BY <2>2, <2>3
    <3> QED BY <2>2, <3>1, ConcatOfLists
  <2>5. /\ queue \in Lists(S)
        /\ Range(queue) = {m} \union Current(rep) \union Waiting(rep)
    <3>1. Range(<<m>> \o current) \intersect Range(next) = {}
      BY <2>2, <2>3, <2>4
    <3> QED BY <2>2, <2>4, <3>1, ConcatOfLists
  <2> HIDE DEF queue
  <2>6. IsInjective(queue)
    BY <2>5 DEF Lists
  <2>7. {r \in Replicas : rep.awaiting[r]} = Range(queue) \ {NoReplica}
    <3>1. \A r \in Replicas :
              rep.awaiting[r] <=> r = m \/ r \in Current(rep) \union Waiting(rep)
      BY <2>1 DEF Queued, m
    <3> QED BY <2>1, <2>5, <3>1, ReplicaAssumption DEF S
  <2>8. Range(queue) \ {NoReplica} \subseteq Active \intersect replicas
    <3>1. \A r \in Waiting(rep) : rep.index[r] # -1
      <4>1. TAKE r \in Waiting(rep)
      <4>2. rep.index[r] = 1 - rep.fFrameIndex
        BY <2>1 DEF Queued
      <4> QED BY <2>1, <4>2
    <3>2. \A r \in Current(rep) : rep.index[r] # -1
      <4>1. TAKE r \in Current(rep)
      <4>2. rep.index[r] = rep.fFrameIndex
        BY <2>1 DEF Queued
      <4> QED BY <2>1, <4>2
    <3>3. Current(rep) \subseteq Playing(rep) /\ Waiting(rep) \subseteq Playing(rep)
      BY <2>1, <3>1, <3>2 DEF Playing
    <3>4. m # NoReplica => m \in Playing(rep)
      BY <2>1 DEF Queued, m
    <3>5. Active = Playing(rep)
      BY DEF Active, Playing
    <3> QED BY <2>1, <2>5, <3>3, <3>4, <3>5
  <2> QED BY <2>6, <2>7, <2>8 DEF QueuedOnce, queue, m, current, next
<1> QED BY Invariant, <1>1, PTL

\* The count of active replicas is right, and the source reads only for a
\* master.
THEOREM CountsAlwaysMatch == Spec => []CountsMatch
<1>1. Inv => CountsMatch
  BY DEF Inv, Settled, Sound, Queued, Counted, CountsMatch, Active, Playing
<1> QED BY Invariant, <1>1, PTL

\* Unless a frame was lost with its master, no client is a frame ahead of one
\* that lacks the frame before.
THEOREM PlayersInLockstep == Spec => []InLockstep
<1>1. Inv => InLockstep
  <2> SUFFICES ASSUME Inv, ~rep.lost, NEW r \in Active, NEW q \in Active,
                      rep.got[r] # 0, rep.got[q] # 0
               PROVE  rep.got[r] <= rep.got[q] + 1
    BY Zenon DEF InLockstep
  <2>1. Regular(rep) /\ Active = Playing(rep) /\ rep.frames \in Nat
    BY FieldTypes DEF Inv, Settled, Sound, Active, Playing
  <2>2. /\ rep.got[r] \in {rep.frames - 1, rep.frames}
        /\ rep.got[q] \in {rep.frames - 1, rep.frames}
    BY <2>1 DEF Regular
  <2> QED BY <2>1, <2>2
<1> QED BY Invariant, <1>1, PTL

\* Unless a frame was lost with its master, the deliveries are counted right,
\* the replicas never all wait for each other, and "Internal Error 2" is not
\* met either.
THEOREM NoStallEver == Spec => []NoStallUnlessLost
<1>1. Inv => NoStallUnlessLost
  <2> SUFFICES ASSUME Inv, ~rep.lost
               PROVE  /\ SomebodyToWaitFor
                      /\ "Internal Error 2" \notin rep.errors
                      /\ rep.fNumDeliveriesMadeSoFar =
                             Cardinality({r \in Active : rep.index[r] # rep.fFrameIndex})
    BY Zenon DEF NoStallUnlessLost
  <2>1. Regular(rep) /\ Queued(rep) /\ Active = Playing(rep)
    BY DEF Inv, Settled, Sound, Active, Playing
  <2>2. rep.errors = {}
    BY <2>1 DEF Regular
  <2>3. rep.fNumDeliveriesMadeSoFar =
            Cardinality({r \in Active : rep.index[r] # rep.fFrameIndex})
    BY <2>1 DEF Regular, Served
  <2>4. SomebodyToWaitFor
    <3>1. CASE InHand(rep)
      <4>1. \E r \in Playing(rep) : ~rep.awaiting[r]
        BY <3>1 DEF Inv, Settled
      <4> QED BY <2>1, <4>1 DEF SomebodyToWaitFor
    <3>2. CASE rep.reading
      BY <3>2 DEF SomebodyToWaitFor
    <3>3. CASE rep.fMasterReplica = NoReplica
      <4>1. \A r \in Replicas : ~rep.awaiting[r]
        BY <2>1, <3>3, ReplicaAssumption DEF Queued, Regular
      <4> QED BY <4>1 DEF SomebodyToWaitFor
    <3> QED BY <3>1, <3>2, <3>3 DEF InHand
  <2> QED BY <2>2, <2>3, <2>4
<1> QED BY Invariant, <1>1, PTL

\* A client that plays on is given newer frames only, and every frame unless one
\* was lost with its master: a step completes no frame but the latest, and those
\* that play have the one before.
THEOREM FramesInSequence == Spec => InSequence
<1>1. ASSUME Inv, [Next]_vars
      PROVE  [\A r \in Active : LET old == rep.got[r]
                                    new == rep'.got[r]
                                IN  new \notin {0, old} /\ old # 0 =>
                                      new > old /\ (new = old + 1 \/ rep'.lost)]_vars
  <2>1. Given
    BY <1>1, InvStep
  <2>2. SUFFICES ASSUME NEW r \in Active,
                        rep'.got[r] \notin {0, rep.got[r]}, rep.got[r] # 0
                 PROVE  /\ rep'.got[r] > rep.got[r]
                        /\ rep'.got[r] = rep.got[r] + 1 \/ rep'.lost
    OBVIOUS
  <2>3. r \in Replicas /\ r \in Playing(rep)
    BY DEF Active, Playing
  <2>4. rep'.got[r] = Latest(rep) /\ (~rep'.lost => ~rep.lost)
    BY <2>1, <2>2, <2>3 DEF Given
  <2>5. /\ rep.frames \in Nat /\ rep.got[r] \in Nat /\ rep.got[r] <= rep.frames
        /\ ~rep.lost => Regular(rep)
    <3>1. rep \in Fields /\ FramesRight(rep)
      BY <1>1 DEF Inv, Settled, Sound
    <3>2. rep.frames \in 0 .. MaxFrames /\ rep.got \in Frames
      BY <3>1, FieldTypes
    <3> QED BY <1>1, <2>3, <3>1, <3>2, FrameAssumption
            DEF Frames, FramesRight, Inv, Settled, Sound
  <2>6. rep'.got[r] > rep.got[r]
    BY <2>2, <2>4, <2>5 DEF Latest
  <2>7. ASSUME ~rep'.lost
        PROVE  rep'.got[r] = rep.got[r] + 1
    <3>1. rep.got[r] = IF InHand(rep) /\ r \notin Served(rep)
                       THEN rep.frames - 1 ELSE rep.frames
      BY <2>2, <2>3, <2>4, <2>5, <2>7 DEF Regular
    <3> QED BY <2>2, <2>4, <2>5, <3>1 DEF Latest
  <2> QED BY <2>6, <2>7
<1> QED BY Invariant, <1>1, PTL DEF Spec, InSequence
=============================================================================
