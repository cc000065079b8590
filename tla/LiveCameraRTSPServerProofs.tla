---------------------- MODULE LiveCameraRTSPServerProofs ----------------------
(***************************************************************************)
(* Proofs about LiveCameraRTSPServer: for any number of cameras and of     *)
(* signals, a thread that had begun to run when the event loop ended never *)
(* uses an object that is gone.                                            *)
(*                                                                         *)
(* The property says what holds once a source is closed.  Its inductive    *)
(* strengthening says how far the main thread has got with constructing    *)
(* and destroying (Constructed, Destroyed), that isRunningFlag tells       *)
(* whether a thread runs (FlagsRight), and that a thread which is not late *)
(* has begun (Begun), so that Transcoder::stop does wait for it.           *)
(*                                                                         *)
(* And about YamlConfigLoader: whatever file the process is given, with a  *)
(* list of cameras of any length, it serves the cameras the file names.    *)
(***************************************************************************)
EXTENDS MCLiveCameraRTSPServer, ListProofs

BeforeTheEnd == {"setup", "addTranscoders", "createServer", "addSessions", "loop"}
Closing      == {"closeSources", "waitForSource"}
Freeing      == {"freeTranscoders", "waitForTranscoder", "destructed"}

Constructed ==
    /\ mainAt \in BeforeTheEnd =>
        \A c \in Cameras : /\ source[c] # "closed"
                           /\ transcoder[c] # "freed"
                           /\ threadAt[c] # "lost"
    /\ mainAt = "addSessions" => \A c \in Cameras : c < next => source[c] # "none"
    /\ mainAt \in {"loop"} \union Closing \union Freeing =>
        \A c \in Cameras : source[c] # "none"

Destroyed ==
    /\ mainAt \in Closing => \A c \in Cameras : c < next => source[c] = "closed"
    /\ mainAt \in Freeing => \A c \in Cameras : source[c] = "closed"

FlagsRight ==
    \A c \in Cameras :
        /\ source[c] # "none" => threadAt[c] # "none"
        /\ threadAt[c] \in {"running", "callback"} => isRunningFlag[c]

Begun ==
    mainAt \in Closing \union Freeing =>
        \A c \in Cameras : c \notin late => threadAt[c] # "spawned"

IInv ==
    /\ TypeOK
    /\ Constructed
    /\ Destroyed
    /\ FlagsRight
    /\ Begun
    /\ NoUseAfterDestruction

-----------------------------------------------------------------------------
\* The loops over the cameras start with a camera and go on to the next one.
LEMMA CameraLoop ==
    /\ 1 \in Cameras
    /\ \A c \in Cameras : c # NumCameras => c + 1 \in Cameras
BY NumCamerasAssumption DEF Cameras

\* The initial state satisfies the invariant.
LEMMA InvInit == Init => IInv
<1>1. 0 \in 0 .. MaxSignals
  BY MaxSignalsAssumption
<1> QED
  BY <1>1, CameraLoop
  DEF Init, IInv, TypeOK, Constructed, Destroyed, FlagsRight, Begun,
      NoUseAfterDestruction, BeforeTheEnd, Closing, Freeing

\* Every step of the main thread keeps the variables within their types.
LEMMA MainTypeStep ==
    ASSUME TypeOK, SetUpAndRun \/ Failure \/ \E c \in Cameras : Destruct(c)
    PROVE  TypeOK'
<1> USE CameraLoop DEF TypeOK, objectVars, threadVars, signalVars, Proceed,
                       NextCamera
<1>1. CASE SetUp \/ SetUpFails
  BY <1>1 DEF SetUp, SetUpFails
<1>2. CASE AddTranscoder \/ AddTranscoderFails
  BY <1>2 DEF AddTranscoder, AddTranscoderFails
<1>3. CASE CreateServer \/ CreateServerFails
  BY <1>3 DEF CreateServer, CreateServerFails
<1>4. CASE AddMediaSession
  BY <1>4 DEF AddMediaSession
<1>5. CASE LeaveLoop \/ Return
  BY <1>5 DEF LeaveLoop, Return
<1>6. ASSUME NEW c \in Cameras, StopForSource(c) \/ StopForTranscoder(c)
      PROVE  TypeOK'
  BY <1>6 DEF StopForSource, StopForTranscoder, Stop
<1>7. ASSUME NEW c \in Cameras, CloseSource(c) \/ FreeTranscoder(c)
      PROVE  TypeOK'
  BY <1>7 DEF CloseSource, FreeTranscoder, Stopped, NextDestroyed
<1> QED
  BY <1>1, <1>2, <1>3, <1>4, <1>5, <1>6, <1>7
     DEF SetUpAndRun, Failure, Destruct

\* So does every step of a transcoder thread, and every signal.
LEMMA OtherTypeStep ==
    ASSUME TypeOK,
           (\E c \in Cameras : Run(c)) \/ SignalBeforeHandler \/ Signal
    PROVE  TypeOK'
<1> USE DEF TypeOK, objectVars, threadVars, signalVars
<1>1. ASSUME NEW c \in Cameras, BeginRun(c) \/ EndRun(c)
      PROVE  TypeOK'
  BY <1>1 DEF BeginRun, EndRun
<1>2. ASSUME NEW c \in Cameras, Capture(c) \/ OnEncodedData(c)
      PROVE  TypeOK'
  BY <1>2 DEF Capture, OnEncodedData
<1>3. ASSUME NEW c \in Cameras, UseDestroyed(c)
      PROVE  TypeOK'
  BY <1>3 DEF UseDestroyed
<1>4. CASE SignalBeforeHandler \/ Signal
  <2>1. signals' \in 0 .. MaxSignals
    BY <1>4, MaxSignalsAssumption DEF SignalBeforeHandler, Signal
  <2>2. CASE SignalBeforeHandler BY <2>1, <2>2 DEF SignalBeforeHandler
  <2>3. CASE Signal BY <2>1, <2>3 DEF Signal
  <2> QED BY <1>4, <2>2, <2>3
<1> QED BY <1>1, <1>2, <1>3, <1>4 DEF Run

\* Every step keeps the invariant.
LEMMA InvStep == IInv /\ [Next]_vars => IInv'
<1> SUFFICES ASSUME IInv, [Next]_vars
             PROVE  IInv'
  OBVIOUS
<1> USE DEF IInv, Constructed, Destroyed, FlagsRight, Begun,
            NoUseAfterDestruction, BeforeTheEnd, Closing, Freeing,
            objectVars, threadVars, signalVars
<1>1. ASSUME SetUpAndRun \/ Failure
      PROVE  IInv'
  <2>0. TypeOK'
    BY <1>1, MainTypeStep
  <2> USE NumCamerasAssumption DEF TypeOK, Cameras, Proceed, NextCamera
  <2>1. CASE SetUp \/ SetUpFails
    BY <2>0, <2>1 DEF SetUp, SetUpFails
  <2>2. CASE AddTranscoder \/ AddTranscoderFails
    BY <2>0, <2>2 DEF AddTranscoder, AddTranscoderFails
  <2>3. CASE CreateServer \/ CreateServerFails
    BY <2>0, <2>3 DEF CreateServer, CreateServerFails
  <2>4. CASE AddMediaSession
    BY <2>0, <2>4 DEF AddMediaSession
  <2>5. CASE LeaveLoop
    BY <2>0, <2>5 DEF LeaveLoop
  <2>6. CASE Return
    BY <2>0, <2>6 DEF Return
  <2> QED BY <1>1, <2>1, <2>2, <2>3, <2>4, <2>5, <2>6 DEF SetUpAndRun, Failure
<1>2. ASSUME NEW c \in Cameras, Destruct(c)
      PROVE  IInv'
  <2>0. TypeOK'
    BY <1>2, MainTypeStep
  <2> USE DEF TypeOK
  <2>1. CASE StopForSource(c) \/ StopForTranscoder(c)
    BY <2>0, <2>1 DEF StopForSource, StopForTranscoder, Stop
  <2>2. CASE CloseSource(c)
    <3>1. /\ mainAt \in Closing /\ next = c /\ ~isRunningFlag[c]
          /\ source' = [source EXCEPT ![c] = "closed"]
          /\ UNCHANGED <<late, transcoder, threadAt, isRunningFlag>>
          /\ \/ next = NumCameras /\ mainAt' = "freeTranscoders" /\ next' = 1
             \/ mainAt' = "closeSources" /\ next' = next + 1
      BY <2>2 DEF CloseSource, Stopped, NextDestroyed
    <3>2. c \notin late => threadAt[c] = "finished"
      BY <3>1
    <3>3. \A d \in Cameras : d < next' /\ mainAt' = "closeSources" =>
              source'[d] = "closed"
      BY <3>1, NumCamerasAssumption DEF Cameras
    <3>4. \A d \in Cameras : mainAt' = "freeTranscoders" => source'[d] = "closed"
      BY <3>1, NumCamerasAssumption DEF Cameras
    <3> QED BY <2>0, <3>1, <3>2, <3>3, <3>4
  <2>3. CASE FreeTranscoder(c)
    BY <2>0, <2>3 DEF FreeTranscoder, Stopped, NextDestroyed
  <2> QED BY <1>2, <2>1, <2>2, <2>3 DEF Destruct
<1>3. ASSUME NEW c \in Cameras, Run(c)
      PROVE  IInv'
  <2>0. TypeOK'
    BY <1>3, OtherTypeStep
  <2> USE DEF TypeOK
  <2>1. CASE BeginRun(c)
    BY <2>0, <2>1 DEF BeginRun
  <2>2. CASE Capture(c) \/ OnEncodedData(c)
    BY <2>0, <2>2 DEF Capture, OnEncodedData
  <2>3. CASE EndRun(c)
    BY <2>0, <2>3 DEF EndRun
  <2>4. CASE UseDestroyed(c)
    BY <2>0, <2>4 DEF UseDestroyed
  <2> QED BY <1>3, <2>1, <2>2, <2>3, <2>4 DEF Run
<1>4. CASE SignalBeforeHandler \/ Signal
  <2>1. TypeOK'
    BY <1>4, OtherTypeStep
  <2> QED BY <1>4, <2>1 DEF SignalBeforeHandler, Signal
<1>5. CASE UNCHANGED vars
  BY <1>5 DEF vars, TypeOK
<1> QED BY <1>1, <1>2, <1>3, <1>4, <1>5 DEF Next, Over

-----------------------------------------------------------------------------
\* The invariant holds of every behaviour.
LEMMA Invariant == Spec => []IInv
BY InvInit, InvStep, PTL DEF Spec

\* The variables keep their types: the loops over the vectors end within them.
THEOREM ServerTypeCorrect == Spec => []TypeOK
<1>1. IInv => TypeOK
  BY DEF IInv
<1> QED BY <1>1, Invariant, PTL

\* However many cameras there are and whenever signals come, Transcoder::stop
\* has waited for every thread that had begun when the event loop ended: it is
\* over before its source is closed.
THEOREM NoThreadOutlivesItsSource == Spec => []NoUseAfterDestruction
<1>1. IInv => NoUseAfterDestruction
  BY DEF IInv
<1> QED BY <1>1, Invariant, PTL

-----------------------------------------------------------------------------
(***************************************************************************)
(* The configuration files, with lists of any length.                      *)
(***************************************************************************)

\* A camera that is described with all that load looks for.
Complete(document, c) ==
    c \in DOMAIN document.cameras /\ document.cameras[c] = "complete"

\* The outcomes of load.
Outcomes == {"loaded", "refused", "threw"}

\* The first n cameras, in the order of the set.
FirstOf(document, n) == {InOrder(document)[i] : i \in 1 .. n}

\* After n passes of the loop: the cameras read were described completely, and
\* as long as all were, they are those of the passes.
ReadUpTo(document, result, n) ==
    /\ result.outcome \in Outcomes
    /\ result.cameras \subseteq FirstOf(document, n)
    /\ \A c \in result.cameras : Complete(document, c)
    /\ result.outcome = "loaded" <=> \A c \in FirstOf(document, n) : Complete(document, c)
    /\ result.outcome = "loaded" => result.cameras = FirstOf(document, n)

\* The recursive function that ReadCameras is defined with exists.
LEMMA ReadRecursion ==
    ASSUME NEW document, Cardinality(ActiveCameras(document)) \in Nat
    PROVE  LET N == Cardinality(ActiveCameras(document))
           IN  \E f : /\ f[0] = Result("loaded", {})
                      /\ \A n \in 1 .. N :
                             f[n] = ReadCamera(document, f[n - 1], InOrder(document)[n])
                      /\ ReadCameras(document) = f[N]
<1> DEFINE N == Cardinality(ActiveCameras(document))
           Next1(result, n) == ReadCamera(document, result, InOrder(document)[n])
           Steps(f, n) ==
               f = [k \in 0 .. n |-> IF k = 0 THEN Result("loaded", {})
                                     ELSE Next1(f[k - 1], k)]
           T == {n \in Nat : \E f : Steps(f, n)}
<1>1. N \in Nat
  OBVIOUS
<1>2. 0 \in T
  <2>1. Steps([k \in 0 .. 0 |-> Result("loaded", {})], 0)
    OBVIOUS
  <2> QED BY <2>1
<1>3. ASSUME NEW n \in 0 .. N - 1, n \in T
      PROVE  n + 1 \in T
  <2>1. PICK f : Steps(f, n)
    BY <1>3
  <2> DEFINE g == [k \in 0 .. n + 1 |-> IF k <= n THEN f[k] ELSE Next1(f[n], n + 1)]
  <2> HIDE DEF N, Next1
  <2>2. \A k \in 0 .. n : f[k] = IF k = 0 THEN Result("loaded", {})
                                 ELSE Next1(f[k - 1], k)
    BY <2>1
  <2>3. n \in Nat
    BY <1>1
  <2>4. ASSUME NEW k \in 0 .. n + 1
        PROVE  g[k] = IF k = 0 THEN Result("loaded", {}) ELSE Next1(g[k - 1], k)
    <3>1. CASE k <= n
      <4>1. k \in 0 .. n /\ (k # 0 => k - 1 \in 0 .. n /\ k - 1 \in 0 .. n + 1 /\ k - 1 <= n)
        BY <2>3, <3>1
      <4> QED BY <2>2, <3>1, <4>1
    <3>2. CASE k = n + 1
      <4>1. /\ ~(k <= n) /\ k # 0 /\ k - 1 = n /\ n \in 0 .. n + 1 /\ n <= n
        BY <2>3, <3>2
      <4> QED BY <3>2, <4>1
    <3> QED BY <2>3, <3>1, <3>2
  <2>5. Steps(g, n + 1)
    BY <2>4
  <2> HIDE DEF Steps
  <2> QED BY <2>3, <2>5
<1>4. \E f : Steps(f, N)
  <2> HIDE DEF Steps
  <2>1. 0 .. N \subseteq T
    <3> HIDE DEF T, N
    <3> QED BY <1>1, <1>2, <1>3, NumberInduction
  <2> QED BY <1>1, <2>1
<1> DEFINE Read == CHOOSE f : Steps(f, N)
<1>5. Steps(Read, N)
  BY <1>4
<1>6. \A k \in 0 .. N : Read[k] = IF k = 0 THEN Result("loaded", {})
                                  ELSE Next1(Read[k - 1], k)
  <2> HIDE DEF Read, N, Next1
  <2> QED BY <1>5
<1>7. ReadCameras(document) = Read[N]
  BY DEF ReadCameras
<1> HIDE DEF Read
<1>8. /\ Read[0] = Result("loaded", {})
      /\ \A k \in 1 .. N : Read[k] = Next1(Read[k - 1], k)
  <2> HIDE DEF N, Next1
  <2>1. 0 \in 0 .. N /\ \A k \in 1 .. N : k \in 0 .. N /\ k # 0
    BY <1>1
  <2> QED BY <1>6, <2>1
<1> QED BY <1>7, <1>8

\* The types of a document, whose cameras are finitely many.
LEMMA DocumentTypes ==
    ASSUME NEW document \in Documents
    PROVE  /\ document.kind \in {"scalar", "sequence", "other"}
           /\ document.names \in Seq(Names) /\ ToSet(document.names) \subseteq Names
           /\ ToSet(document.names) = Range(document.names)
           /\ DOMAIN document.cameras \subseteq Names
           /\ \A c \in DOMAIN document.cameras :
                  document.cameras[c] \in {"complete", "incomplete", "bad"}
           /\ document.mapped \subseteq Names
           /\ document.server \in {"complete", "bad"}
<1>1. /\ document.kind \in {"scalar", "sequence", "other"}
      /\ document.names \in SeqOf(Names, MaxNames)
      /\ document.mapped \subseteq Names
      /\ document.server \in {"complete", "bad"}
      /\ document.cameras \in UNION {[described -> {"complete", "incomplete", "bad"}] :
                                         described \in SUBSET Names}
  BY DEF Documents
<1>2. PICK n \in 0 .. MaxNames : document.names \in [1 .. n -> Names]
  BY <1>1 DEF SeqOf
<1>3. document.names \in Seq(Names)
  BY <1>2
<1>4. PICK described \in SUBSET Names :
         document.cameras \in [described -> {"complete", "incomplete", "bad"}]
  BY <1>1
<1>5. /\ ToSet(document.names) \subseteq Names
      /\ ToSet(document.names) = Range(document.names)
  BY <1>3 DEF ToSet, Range
<1> QED BY <1>1, <1>3, <1>4, <1>5

\* The order of a finite set has each of its elements.
LEMMA OrderOfActive ==
    ASSUME NEW document, IsFiniteSet(ActiveCameras(document))
    PROVE  /\ Cardinality(ActiveCameras(document)) \in Nat
           /\ FirstOf(document, Cardinality(ActiveCameras(document)))
                  = ActiveCameras(document)
<1> DEFINE S == ActiveCameras(document)
           N == Cardinality(S)
<1>1. N \in Nat
  BY FS_CardinalityType
<1>2. ExistsBijection(1 .. N, S)
  BY <1>1, FS_NatBijection, FS_CountingElements, FS_CardinalityType
<1>3. PICK f \in [1 .. N -> S] : IsInjective(f)
  BY <1>2 DEF ExistsBijection, Bijection, Injection, IsInjective
<1>4. InOrder(document) \in [1 .. N -> S] /\ IsInjective(InOrder(document))
  BY <1>3 DEF InOrder, SetToSeq
<1> DEFINE list == InOrder(document)
<1> HIDE DEF S, N
<1>5. list \in Lists(S) /\ Len(list) = N
  BY <1>1, <1>4 DEF Lists
<1> HIDE DEF list
<1>6. Range(list) \subseteq S /\ Cardinality(Range(list)) = N
  <2>1. Range(list) \subseteq S
    BY <1>5 DEF Lists, Range
  <2> QED BY <1>5, <2>1, LengthOfList
<1>7. Range(list) = S
  BY <1>6, FS_Subset DEF S, N
<1>8. Range(list) = {list[i] : i \in 1 .. N}
  BY <1>5 DEF Lists, Range
<1> QED BY <1>1, <1>7, <1>8 DEF FirstOf, list, N, S

\* One more pass.
LEMMA ReadOneMore ==
    ASSUME NEW document,
           \A c \in DOMAIN document.cameras :
               document.cameras[c] \in {"complete", "incomplete", "bad"},
           NEW n \in Nat, NEW result, ReadUpTo(document, result, n)
    PROVE  ReadUpTo(document,
                    ReadCamera(document, result, InOrder(document)[n + 1]), n + 1)
<1> DEFINE c == InOrder(document)[n + 1]
           after == ReadCamera(document, result, c)
<1>1. FirstOf(document, n + 1) = FirstOf(document, n) \union {c}
  <2>1. 1 .. n + 1 = (1 .. n) \union {n + 1}
    OBVIOUS
  <2> QED BY <2>1 DEF FirstOf
<1> HIDE DEF c
<1>2. /\ Result("loaded", result.cameras \union {c}).outcome = "loaded"
      /\ Result("loaded", result.cameras \union {c}).cameras = result.cameras \union {c}
      /\ Result("refused", result.cameras).outcome = "refused"
      /\ Result("refused", result.cameras).cameras = result.cameras
      /\ Result("threw", result.cameras).outcome = "threw"
      /\ Result("threw", result.cameras).cameras = result.cameras
  BY DEF Result
<1>3. CASE result.outcome # "loaded"
  <2>1. after = result
    BY <1>3 DEF ReadCamera
  <2> QED BY <1>1, <1>3, <2>1 DEF ReadUpTo, c
<1>4. CASE result.outcome = "loaded" /\ Complete(document, c)
  <2>1. after = Result("loaded", result.cameras \union {c})
    BY <1>4 DEF ReadCamera, Complete
  <2> QED BY <1>1, <1>2, <1>4, <2>1 DEF ReadUpTo, Outcomes, c
<1>5. CASE result.outcome = "loaded" /\ ~Complete(document, c)
  <2>1. after \in {Result("refused", result.cameras), Result("threw", result.cameras)}
    BY <1>5 DEF ReadCamera, Complete
  <2> QED BY <1>1, <1>2, <1>5, <2>1 DEF ReadUpTo, Outcomes, c
<1> QED BY <1>3, <1>4, <1>5

\* The loop over all active cameras.
LEMMA ReadAll ==
    ASSUME NEW document \in Documents
    PROVE  LET active == ActiveCameras(document)
               read   == ReadCameras(document)
           IN  /\ IsFiniteSet(active)
               /\ read.outcome \in Outcomes /\ read.cameras \subseteq active
               /\ \A c \in read.cameras : Complete(document, c)
               /\ read.outcome = "loaded" <=> \A c \in active : Complete(document, c)
               /\ read.outcome = "loaded" => read.cameras = active
<1> DEFINE N == Cardinality(ActiveCameras(document))
<1>1. IsFiniteSet(ActiveCameras(document))
  <2>1. ActiveCameras(document) \subseteq Names
    BY DocumentTypes DEF ActiveCameras
  <2> QED BY <2>1, NamesAssumption, FS_Subset
<1>2. N \in Nat /\ FirstOf(document, N) = ActiveCameras(document)
  BY <1>1, OrderOfActive
<1>3. PICK f : /\ f[0] = Result("loaded", {})
               /\ \A n \in 1 .. N :
                      f[n] = ReadCamera(document, f[n - 1], InOrder(document)[n])
               /\ ReadCameras(document) = f[N]
  BY <1>2, ReadRecursion
<1> DEFINE T == {n \in 0 .. N : ReadUpTo(document, f[n], n)}
<1> HIDE DEF N
<1>4. 0 \in T
  <2>1. FirstOf(document, 0) = {}
    BY DEF FirstOf
  <2> QED BY <1>2, <1>3, <2>1 DEF ReadUpTo, Outcomes, Result
<1>5. ASSUME NEW n \in 0 .. N - 1, n \in T
      PROVE  n + 1 \in T
  <2>1. /\ n \in Nat /\ n + 1 \in 1 .. N /\ n + 1 \in 0 .. N /\ (n + 1) - 1 = n
    BY <1>2
  <2>2. f[n + 1] = ReadCamera(document, f[n], InOrder(document)[n + 1])
    BY <1>3, <2>1
  <2>3. ReadUpTo(document, f[n + 1], n + 1)
    BY <1>5, <2>1, <2>2, ReadOneMore, DocumentTypes
  <2> QED BY <2>1, <2>3
<1>6. 0 .. N \subseteq T
  <2> HIDE DEF T
  <2> QED BY <1>2, <1>4, <1>5, NumberInduction
<1>7. ReadUpTo(document, ReadCameras(document), N)
  BY <1>2, <1>3, <1>6
<1> QED BY <1>1, <1>2, <1>7 DEF ReadUpTo

\* Whatever file load is given, with a list of any length.
THEOREM EveryFileLoadsAsNamed ==
    ASSUME NEW document \in Documents
    PROVE  LoadsWhatIsNamed(document)
<1> DEFINE active == ActiveCameras(document)
           named  == ToSet(document.names)
           read   == ReadCameras(document)
           result == Load(document)
           tooBig == NodeSize(document) > Cardinality(DOMAIN document.cameras)
<1>1. /\ document.kind \in {"scalar", "sequence", "other"}
      /\ document.names \in Seq(Names) /\ named \subseteq Names
      /\ named = Range(document.names)
      /\ DOMAIN document.cameras \subseteq Names
      /\ document.mapped \subseteq Names
      /\ document.server \in {"complete", "bad"}
  BY DocumentTypes
<1>2. /\ IsFiniteSet(active)
      /\ read.outcome \in Outcomes /\ read.cameras \subseteq active
      /\ \A c \in read.cameras : Complete(document, c)
      /\ read.outcome = "loaded" <=> \A c \in active : Complete(document, c)
      /\ read.outcome = "loaded" => read.cameras = active
  BY ReadAll
<1>3. active = IF document.kind = "other" THEN {} ELSE named
  BY DEF ActiveCameras
<1>4. result = IF document.sections # Sections \/ tooBig THEN Result("refused", {})
               ELSE IF read.outcome # "loaded" THEN read
               ELSE ReadServer(document, read.cameras)
  BY DEF Load
<1> DEFINE unmapped == \/ document.mapped = {}
                       \/ Cardinality(document.mapped) < Cardinality(active)
                       \/ ~(active \subseteq document.mapped)
<1>5. ReadServer(document, read.cameras) =
          IF document.server = "bad" THEN Result("threw", read.cameras)
          ELSE IF unmapped THEN Result("refused", read.cameras)
          ELSE Result("loaded", read.cameras)
  BY DEF ReadServer
<1> HIDE DEF read, result, active
<1>6. /\ result.cameras \subseteq active
      /\ \A c \in result.cameras : Complete(document, c)
      /\ result.outcome = "loaded" <=>
             /\ document.sections = Sections /\ ~tooBig
             /\ read.outcome = "loaded" /\ document.server = "complete" /\ ~unmapped
      /\ result.outcome = "loaded" => result.cameras = active
  BY <1>1, <1>2, <1>4, <1>5 DEF Result
<1> DEFINE listed == \/ document.kind = "scalar" /\ Len(document.names) = 1
                     \/ document.kind = "sequence" /\ IsInjective(document.names)
<1>7. ASSUME listed, named \subseteq DOMAIN document.cameras
      PROVE  ~tooBig
  <2>1. IsFiniteSet(DOMAIN document.cameras) /\ Cardinality(DOMAIN document.cameras) \in Nat
    BY <1>1, NamesAssumption, FS_Subset, FS_CardinalityType
  <2>2. CASE document.kind = "scalar"
    BY <2>1, <2>2 DEF NodeSize
  <2>3. CASE document.kind = "sequence" /\ IsInjective(document.names)
    <3>1. NodeSize(document) = Len(document.names)
      BY <2>3 DEF NodeSize
    <3>2. document.names \in Lists(Names)
      BY <1>1, <2>3 DEF Lists
    <3>3. Cardinality(named) = Len(document.names) /\ IsFiniteSet(named)
      BY <1>1, <3>2, LengthOfList
    <3>4. Cardinality(named) <= Cardinality(DOMAIN document.cameras)
      BY <1>7, <2>1, FS_Subset
    <3>5. Len(document.names) \in Nat
      BY <1>1
    <3> QED BY <2>1, <3>1, <3>3, <3>4, <3>5
  <2> QED BY <1>7, <2>2, <2>3
<1>8. ASSUME document.mapped # {}, active \subseteq document.mapped
      PROVE  ~unmapped
  <2>1. IsFiniteSet(document.mapped)
    BY <1>1, NamesAssumption, FS_Subset
  <2>2. /\ Cardinality(active) <= Cardinality(document.mapped)
        /\ Cardinality(active) \in Nat /\ Cardinality(document.mapped) \in Nat
    BY <1>2, <1>8, <2>1, FS_Subset, FS_CardinalityType
  <2> QED BY <1>8, <2>2
<1>9. listed => active = named
  BY <1>3
<1>10. listed => (result.outcome = "loaded" <=> Sound(document))
  <2> SUFFICES ASSUME listed PROVE result.outcome = "loaded" <=> Sound(document)
    OBVIOUS
  <2>1. ASSUME result.outcome = "loaded" PROVE Sound(document)
    BY <1>2, <1>6, <1>9, <2>1 DEF Sound, Complete
  <2>2. ASSUME Sound(document) PROVE result.outcome = "loaded"
    <3>1. /\ document.sections = Sections /\ document.server = "complete"
          /\ document.mapped # {} /\ active \subseteq document.mapped
          /\ \A c \in active : Complete(document, c)
          /\ named \subseteq DOMAIN document.cameras
      BY <1>9, <2>2 DEF Sound, Complete
    <3>2. read.outcome = "loaded" /\ ~tooBig /\ ~unmapped
      BY <1>2, <1>7, <1>8, <3>1
    <3> QED BY <1>6, <3>1, <3>2
  <2> QED BY <2>1, <2>2
<1>11. active \subseteq named
  BY <1>3
<1> QED BY <1>6, <1>9, <1>10, <1>11 DEF LoadsWhatIsNamed, Complete, result
=============================================================================
