---------------------- MODULE LiveCamFramedSourceProofs ----------------------
(***************************************************************************)
(* Theorems about LiveCamFramedSource, for any set of cameras and any      *)
(* number of packets.                                                      *)
(*                                                                         *)
(* The inductive invariant is TypeOK together with FramesOnce.  That the   *)
(* sources implement the mailbox follows from it; that no wakeup is lost   *)
(* holds, and is proved, when there is one camera only.                    *)
(***************************************************************************)
EXTENDS LiveCamFramedSource, TLAPS

-----------------------------------------------------------------------------
(***************************************************************************)
(* Pushing at the back of a sequence, and popping there.                   *)
(***************************************************************************)

\* What emplace_back does to a buffer: the packet is the new back, and those
\* before it stay where they are.
LEMMA PushBack ==
    ASSUME NEW n \in Nat, NEW s \in Seq(1 .. n), NEW e \in 1 .. n
    PROVE  /\ Append(s, e) \in Seq(1 .. n)
           /\ DOMAIN Append(s, e) = 1 .. Len(s) + 1
           /\ \A i \in 1 .. Len(s) : Append(s, e)[i] = s[i]
           /\ Append(s, e)[Len(s) + 1] = e
           /\ Range(Append(s, e)) = Range(s) \union {e}
<1>1. /\ Append(s, e) \in Seq(1 .. n)
      /\ DOMAIN Append(s, e) = 1 .. Len(s) + 1
      /\ \A i \in 1 .. Len(s) : Append(s, e)[i] = s[i]
      /\ Append(s, e)[Len(s) + 1] = e
  OBVIOUS
<1>2. DOMAIN s = 1 .. Len(s) /\ Len(s) \in Nat
  OBVIOUS
<1>3. Range(Append(s, e)) \subseteq Range(s) \union {e}
  BY <1>1, <1>2 DEF Range
<1>4. Range(s) \union {e} \subseteq Range(Append(s, e))
  <2>1. Len(s) + 1 \in DOMAIN Append(s, e)
    BY <1>1, <1>2
  <2>2. \A i \in DOMAIN s : i \in DOMAIN Append(s, e) /\ Append(s, e)[i] = s[i]
    BY <1>1, <1>2
  <2>3. QED
    BY <1>1, <2>1, <2>2 DEF Range
<1>5. QED
  BY <1>1, <1>3, <1>4

\* What back() and pop_back() do to a buffer that is not empty: the last packet
\* is gone, the others stay where they are.
LEMMA PopBack ==
    ASSUME NEW S, NEW s \in Seq(S), s # <<>>
    PROVE  /\ Len(s) \in Nat \ {0}
           /\ Len(s) \in DOMAIN s
           /\ Last(s) = s[Len(s)] /\ Last(s) \in S
           /\ Front(s) \in Seq(S)
           /\ DOMAIN Front(s) = 1 .. Len(s) - 1
           /\ \A i \in 1 .. Len(s) - 1 : Front(s)[i] = s[i]
<1>1. Len(s) \in Nat \ {0} /\ Len(s) \in DOMAIN s
  OBVIOUS
<1>2. Last(s) = s[Len(s)] /\ Last(s) \in S
  BY <1>1 DEF Last
<1>3. /\ Front(s) \in Seq(S)
      /\ DOMAIN Front(s) = 1 .. Len(s) - 1
      /\ \A i \in 1 .. Len(s) - 1 : Front(s)[i] = s[i]
  BY <1>1 DEF Front
<1>4. QED
  BY <1>1, <1>2, <1>3

\* In a buffer that is in order the back is the newest packet, and popping it
\* leaves exactly the others.
LEMMA PopNewest ==
    ASSUME NEW n \in Nat, NEW s \in Seq(1 .. n), s # <<>>,
           \A i, j \in DOMAIN s : i < j => s[i] < s[j]
    PROVE  /\ Last(s) \in Range(s)
           /\ \A f \in Range(s) : f <= Last(s)
           /\ Range(Front(s)) = Range(s) \ {Last(s)}
<1>1. /\ Len(s) \in Nat \ {0}
      /\ Len(s) \in DOMAIN s
      /\ Last(s) = s[Len(s)] /\ Last(s) \in Nat
      /\ DOMAIN Front(s) = 1 .. Len(s) - 1
      /\ \A i \in 1 .. Len(s) - 1 : Front(s)[i] = s[i]
  BY PopBack
<1>2. DOMAIN s = 1 .. Len(s)
  OBVIOUS
<1>3. Last(s) \in Range(s)
  BY <1>1 DEF Range
<1>4. \A i \in DOMAIN s : i = Len(s) \/ (i \in 1 .. Len(s) - 1 /\ s[i] < Last(s))
  BY <1>1, <1>2
<1>5. \A i \in DOMAIN s : s[i] \in Nat
  OBVIOUS
<1>6. \A f \in Range(s) : f <= Last(s)
  BY <1>1, <1>4, <1>5 DEF Range
<1>7. Range(Front(s)) \subseteq Range(s) \ {Last(s)}
  <2> SUFFICES ASSUME NEW i \in 1 .. Len(s) - 1
               PROVE  s[i] \in Range(s) \ {Last(s)}
    BY <1>1 DEF Range
  <2>1. i \in DOMAIN s /\ i # Len(s)
    <3>1. Len(s) \in Nat
      BY <1>1
    <3>2. i \in 1 .. Len(s) /\ i # Len(s)
      BY <3>1
    <3>3. QED
      BY <3>2, <1>2
  <2>2. s[i] < Last(s) /\ s[i] \in Nat
    BY <1>4, <1>5, <2>1
  <2>3. QED
    BY <1>1, <2>1, <2>2 DEF Range
<1>8. Range(s) \ {Last(s)} \subseteq Range(Front(s))
  BY <1>1, <1>4 DEF Range
<1>9. QED
  BY <1>3, <1>6, <1>7, <1>8

-----------------------------------------------------------------------------
(***************************************************************************)
(* Type correctness.                                                       *)
(***************************************************************************)

\* The variables start with their types.
LEMMA TypeInit == Init => TypeOK
BY MaxFramesAssumption DEF Init, TypeOK

\* A step of the program keeps every variable within its type; that a thread
\* pushes only what it has encoded is part of InHandIsNewest.
LEMMA TypeStep == TypeOK /\ InHandIsNewest /\ [Next]_vars => TypeOK'
<1> SUFFICES ASSUME TypeOK, InHandIsNewest, [Next]_vars PROVE TypeOK'
  OBVIOUS
<1> USE MaxFramesAssumption DEF TypeOK, triggerVars, threadVars, loopVars
<1>1. ASSUME NEW c \in Cameras, Encode(c) PROVE TypeOK'
  BY <1>1 DEF Encode
<1>2. ASSUME NEW c \in Cameras, Push(c) PROVE TypeOK'
  <2>1. encoded[c] \in 1 .. MaxFrames
    BY <1>2 DEF Push, InHandIsNewest
  <2>2. QED
    BY <1>2, <2>1 DEF Push
<1>3. ASSUME NEW c \in Cameras, LoadTriggers(c) PROVE TypeOK'
  BY <1>3 DEF LoadTriggers
<1>4. ASSUME NEW c \in Cameras, StoreTriggers(c) PROVE TypeOK'
  BY <1>4 DEF StoreTriggers
<1>5. ASSUME NEW c \in Cameras, GetNextFrame(c) PROVE TypeOK'
  BY <1>5 DEF GetNextFrame
<1>6. CASE DoGetNextFrame
  BY <1>6 DEF DoGetNextFrame
<1>7. ASSUME NEW c \in Cameras, SelectTrigger(c) PROVE TypeOK'
  BY <1>7 DEF SelectTrigger
<1>8. CASE LoopLoadTriggers
  BY <1>8 DEF LoopLoadTriggers
<1>9. CASE LoopStoreTriggers
  BY <1>9 DEF LoopStoreTriggers
<1>10. CASE IgnoreTrigger
  BY <1>10 DEF IgnoreTrigger
<1>11. CASE DeliverData
  <2>1. encodedDataBuffer[loopCamera] \in Seq(1 .. MaxFrames)
    OBVIOUS
  <2>2. /\ Last(encodedDataBuffer[loopCamera]) \in 1 .. MaxFrames
        /\ Front(encodedDataBuffer[loopCamera]) \in Seq(1 .. MaxFrames)
    BY <1>11, <2>1, PopBack DEF DeliverData
  <2>3. QED
    BY <1>11, <2>2 DEF DeliverData
<1>12. CASE DeliverFromEmpty
  BY <1>12 DEF DeliverFromEmpty
<1>13. ASSUME NEW c \in Cameras, StopGettingFrames(c) PROVE TypeOK'
  BY <1>13 DEF StopGettingFrames
<1>14. CASE UNCHANGED vars
  BY <1>14 DEF vars
<1>15. QED
  BY <1>1, <1>2, <1>3, <1>4, <1>5, <1>6, <1>7, <1>8, <1>9, <1>10, <1>11,
     <1>12, <1>13, <1>14 DEF Next, Loop, Thread

-----------------------------------------------------------------------------
(***************************************************************************)
(* Frames go through once, and in order.                                   *)
(***************************************************************************)

\* What FramesOnce says of a camera c whose thread is at t, with buffer b,
\* deliveries d and n packets encoded.
Once(b, d, n, t) ==
    /\ \A i, j \in DOMAIN b : i < j => b[i] < b[j]
    /\ t = "push" => n > 0
    /\ \A f \in Range(b) \union Range(d) : f <= n /\ (t = "push" => f < n)
    /\ IsInjective(d)
    /\ Range(b) \intersect Range(d) = {}

\* FramesOnce, camera by camera.
LEMMA FramesOnceByCamera ==
    FramesOnce <=> \A c \in Cameras :
                    Once(encodedDataBuffer[c], delivered[c], encoded[c], threadAt[c])
BY DEF FramesOnce, BufferInOrder, InHandIsNewest, DeliveredOnce, Once

\* An encoded packet is newer than all others.
LEMMA OnceEncoded ==
    ASSUME NEW b \in Seq(1 .. MaxFrames), NEW d \in Seq(1 .. MaxFrames), NEW n \in Nat,
           NEW u, Once(b, d, n, "encode")
    PROVE  Once(b, d, n + 1, u)
<1>1. Range(b) \subseteq Nat /\ Range(d) \subseteq Nat
  BY MaxFramesAssumption DEF Range
<1>2. QED
  BY <1>1 DEF Once

\* The packet in hand becomes the newest of the buffer.
LEMMA OncePushed ==
    ASSUME NEW b \in Seq(1 .. MaxFrames), NEW d \in Seq(1 .. MaxFrames),
           NEW n \in 1 .. MaxFrames, Once(b, d, n, "push"), NEW u, u # "push"
    PROVE  Once(Append(b, n), d, n, u)
<1>1. /\ DOMAIN Append(b, n) = 1 .. Len(b) + 1
      /\ \A i \in 1 .. Len(b) : Append(b, n)[i] = b[i]
      /\ Append(b, n)[Len(b) + 1] = n
      /\ Range(Append(b, n)) = Range(b) \union {n}
  BY PushBack, MaxFramesAssumption
<1>2. Len(b) \in Nat /\ DOMAIN b = 1 .. Len(b)
  OBVIOUS
<1>3. \A i \in 1 .. Len(b) : b[i] \in Nat /\ b[i] < n
  <2>1. \A f \in Range(b) : f < n
    BY DEF Once
  <2>2. \A i \in 1 .. Len(b) : b[i] \in Range(b)
    BY <1>2 DEF Range
  <2>3. \A i \in 1 .. Len(b) : b[i] \in Nat
    BY <1>2, MaxFramesAssumption
  <2>4. QED
    BY <2>1, <2>2, <2>3
<1>4. ASSUME NEW i \in DOMAIN Append(b, n), NEW j \in DOMAIN Append(b, n), i < j
      PROVE  Append(b, n)[i] < Append(b, n)[j]
  <2>1. i \in 1 .. Len(b) /\ Append(b, n)[i] = b[i]
    BY <1>1, <1>2, <1>4
  <2>2. CASE j = Len(b) + 1
    BY <1>1, <1>3, <2>1, <2>2
  <2>3. CASE j \in 1 .. Len(b)
    BY <1>1, <1>2, <1>4, <2>1, <2>3 DEF Once
  <2>4. QED
    BY <1>1, <1>2, <2>2, <2>3
<1>5. \A f \in Range(Append(b, n)) \union Range(d) : f <= n
  BY <1>1, MaxFramesAssumption DEF Once
<1>6. Range(Append(b, n)) \intersect Range(d) = {}
  <2>1. n \notin Range(d)
    BY MaxFramesAssumption DEF Once
  <2>2. QED
    BY <1>1, <2>1 DEF Once
<1>7. QED
  BY <1>4, <1>5, <1>6 DEF Once

\* The newest packet of the buffer is delivered.
LEMMA OnceDelivered ==
    ASSUME NEW b \in Seq(1 .. MaxFrames), b # <<>>, NEW d \in Seq(1 .. MaxFrames),
           NEW n \in Nat, NEW t, Once(b, d, n, t)
    PROVE  Once(Front(b), Append(d, Last(b)), n, t)
<1>1. \A i, j \in DOMAIN b : i < j => b[i] < b[j]
  BY DEF Once
<1>2. /\ Last(b) \in Range(b)
      /\ Range(Front(b)) = Range(b) \ {Last(b)}
  BY <1>1, PopNewest, MaxFramesAssumption
<1>3. /\ DOMAIN Front(b) = 1 .. Len(b) - 1
      /\ \A i \in 1 .. Len(b) - 1 : Front(b)[i] = b[i]
      /\ Last(b) \in 1 .. MaxFrames
      /\ Len(b) \in Nat \ {0}
  BY PopBack
<1>4. /\ DOMAIN Append(d, Last(b)) = 1 .. Len(d) + 1
      /\ \A i \in 1 .. Len(d) : Append(d, Last(b))[i] = d[i]
      /\ Append(d, Last(b))[Len(d) + 1] = Last(b)
      /\ Range(Append(d, Last(b))) = Range(d) \union {Last(b)}
  BY <1>3, PushBack, MaxFramesAssumption
<1>5. \A i, j \in DOMAIN Front(b) : i < j => Front(b)[i] < Front(b)[j]
  <2>1. \A i \in 1 .. Len(b) - 1 : i \in DOMAIN b
    BY <1>3
  <2>2. QED
    BY <1>1, <1>3, <2>1
<1>6. Range(Front(b)) \union Range(Append(d, Last(b))) = Range(b) \union Range(d)
  BY <1>2, <1>4
<1>7. Range(Front(b)) \intersect Range(Append(d, Last(b))) = {}
  BY <1>2, <1>4 DEF Once
<1>8. IsInjective(Append(d, Last(b)))
  <2>1. Last(b) \notin Range(d)
    BY <1>2 DEF Once
  <2>2. Len(d) \in Nat /\ DOMAIN d = 1 .. Len(d)
    OBVIOUS
  <2>3. \A i \in 1 .. Len(d) : d[i] # Last(b)
    BY <2>1, <2>2 DEF Range
  <2>4. \A i, j \in 1 .. Len(d) : d[i] = d[j] => i = j
    BY <2>2 DEF Once, IsInjective
  <2>5. QED
    BY <1>4, <2>2, <2>3, <2>4 DEF IsInjective
<1>9. QED
  BY <1>5, <1>6, <1>7, <1>8 DEF Once

\* The inductive invariant.
IInv == TypeOK /\ FramesOnce

\* The invariant holds at first.
LEMMA InvInit == Init => IInv
<1> SUFFICES ASSUME Init PROVE IInv
  OBVIOUS
<1>1. TypeOK
  BY TypeInit
<1>2. ASSUME NEW c \in Cameras PROVE Once(<<>>, <<>>, 0, "encode")
  BY DEF Once, Range, IsInjective
<1>3. FramesOnce
  BY <1>2, FramesOnceByCamera DEF Init
<1>4. QED
  BY <1>1, <1>3 DEF IInv

\* Encoding, pushing and delivering a packet of one camera are the three steps
\* that matter; every other step at most moves a thread on.
LEMMA FramesOnceStep == IInv /\ [Next]_vars => FramesOnce'
<1> SUFFICES ASSUME IInv, [Next]_vars PROVE FramesOnce'
  OBVIOUS
<1> DEFINE Here(c) == Once(encodedDataBuffer[c], delivered[c], encoded[c], threadAt[c])
<1> USE DEF triggerVars, threadVars, loopVars
<1>1. TypeOK /\ \A c \in Cameras : Here(c)
  BY FramesOnceByCamera DEF IInv
<1>2. SUFFICES ASSUME NEW k \in Cameras PROVE Here(k)'
  BY DEF FramesOnce, BufferInOrder, InHandIsNewest, DeliveredOnce, Once
<1>3. /\ encodedDataBuffer[k] \in Seq(1 .. MaxFrames)
      /\ delivered[k] \in Seq(1 .. MaxFrames)
      /\ encoded[k] \in 0 .. MaxFrames
      /\ encoded[k] \in Nat
      /\ Here(k)
  BY <1>1, MaxFramesAssumption DEF TypeOK
<1>4. CASE UNCHANGED <<encodedDataBuffer, delivered, encoded, threadAt>>
  BY <1>3, <1>4
<1>5. ASSUME NEW c \in Cameras, Encode(c) PROVE Here(k)'
  <2>1. CASE k = c
    <3>1. /\ threadAt[k] = "encode"
          /\ encoded'[k] = encoded[k] + 1
          /\ UNCHANGED <<encodedDataBuffer, delivered>>
      BY <1>1, <1>5, <2>1 DEF Encode, TypeOK
    <3>2. QED
      BY <1>3, <3>1, OnceEncoded
  <2>2. CASE k # c
    BY <1>1, <1>3, <1>5, <2>2 DEF Encode, TypeOK
  <2>3. QED
    BY <2>1, <2>2
<1>6. ASSUME NEW c \in Cameras, Push(c) PROVE Here(k)'
  <2>1. CASE k = c
    <3>1. /\ threadAt[k] = "push"
          /\ encodedDataBuffer'[k] = Append(encodedDataBuffer[k], encoded[k])
          /\ threadAt'[k] = "loadTriggers"
          /\ UNCHANGED <<encoded, delivered>>
      BY <1>1, <1>6, <2>1 DEF Push, TypeOK
    <3>2. encoded[k] \in 1 .. MaxFrames
      BY <1>3, <3>1, MaxFramesAssumption DEF Once
    <3>3. Once(encodedDataBuffer[k], delivered[k], encoded[k], "push")
      BY <1>3, <3>1
    <3>4. Once(Append(encodedDataBuffer[k], encoded[k]), delivered[k], encoded[k],
               "loadTriggers")
      BY <1>3, <3>2, <3>3, OncePushed
    <3>5. QED
      BY <3>1, <3>4
  <2>2. CASE k # c
    BY <1>1, <1>3, <1>6, <2>2 DEF Push, TypeOK
  <2>3. QED
    BY <2>1, <2>2
<1>7. ASSUME NEW c \in Cameras, LoadTriggers(c) \/ StoreTriggers(c) PROVE Here(k)'
  <2>1. /\ UNCHANGED <<encodedDataBuffer, delivered, encoded>>
        /\ threadAt'[k] # "push" \/ threadAt'[k] = threadAt[k]
    BY <1>1, <1>7 DEF LoadTriggers, StoreTriggers, TypeOK
  <2>2. QED
    BY <1>3, <2>1 DEF Once
<1>8. CASE DeliverData
  <2>1. CASE k = loopCamera
    <3>1. /\ encodedDataBuffer[k] # <<>>
          /\ encodedDataBuffer'[k] = Front(encodedDataBuffer[k])
          /\ delivered'[k] = Append(delivered[k], Last(encodedDataBuffer[k]))
          /\ UNCHANGED <<encoded, threadAt>>
      BY <1>1, <1>8, <2>1 DEF DeliverData, TypeOK
    <3>2. QED
      BY <1>3, <3>1, OnceDelivered
  <2>2. CASE k # loopCamera
    BY <1>1, <1>3, <1>8, <2>2 DEF DeliverData, TypeOK
  <2>3. QED
    BY <2>1, <2>2
<1>9. QED
  BY <1>4, <1>5, <1>6, <1>7, <1>8
  DEF Next, Loop, Thread, GetNextFrame, DoGetNextFrame, SelectTrigger, LoopLoadTriggers,
      LoopStoreTriggers, IgnoreTrigger, DeliverFromEmpty, StopGettingFrames, vars

\* No step of a thread, the loop or a reader breaks the invariant.
LEMMA InvStep == IInv /\ [Next]_vars => IInv'
BY TypeStep, FramesOnceStep DEF IInv, FramesOnce

\* So it holds always.
LEMMA Invariant == Spec => []IInv
<1>1. QED
  BY InvInit, InvStep, PTL DEF Spec

\* Whatever the cameras, their threads and the reader do, every variable of the
\* sources stays within its type.
THEOREM TypeCorrect == Spec => []TypeOK
<1>1. IInv => TypeOK
  BY DEF IInv
<1>2. QED
  BY <1>1, Invariant, PTL

\* However many threads push while the loop pops, encodedDataBuffer stays in
\* order and a packet is delivered at most once.
THEOREM FramesAreDeliveredOnce == Spec => []FramesOnce
<1>1. IInv => FramesOnce
  BY DEF IInv
<1>2. QED
  BY <1>1, Invariant, PTL

-----------------------------------------------------------------------------
(***************************************************************************)
(* With one camera the trigger word has one bit, and an update of it can   *)
(* lose nothing but that bit.  The loop that clears it goes on to look at  *)
(* the buffer, and delivers: a packet that is left then waits for the next *)
(* request, and that looks at the buffer again.                            *)
(***************************************************************************)

OneCamera == \A c, d \in Cameras : c = d

\* With one camera, no step loses a wakeup.
LEMMA WakeupStep ==
    ASSUME OneCamera
    PROVE  TypeOK /\ NoLostWakeup /\ [Next]_vars => NoLostWakeup'
<1> SUFFICES ASSUME TypeOK, NoLostWakeup, [Next]_vars,
                    NEW k \in Cameras,
                    fIsCurrentlyAwaitingData'[k], encodedDataBuffer'[k] # <<>>
             PROVE  WakeupUnderWay(k)'
  BY DEF NoLostWakeup
<1> USE DEF triggerVars, threadVars, loopVars
<1>1. \A c \in Cameras : c = k
  BY DEF OneCamera
<1>2. fIsCurrentlyAwaitingData[k] /\ encodedDataBuffer[k] # <<>> => WakeupUnderWay(k)
  BY DEF NoLostWakeup
<1>3. ASSUME NEW c \in Cameras, Encode(c) PROVE WakeupUnderWay(k)'
  BY <1>1, <1>2, <1>3 DEF Encode, WakeupUnderWay, TypeOK
<1>4. ASSUME NEW c \in Cameras, Push(c) PROVE WakeupUnderWay(k)'
  BY <1>1, <1>4 DEF Push, WakeupUnderWay, TypeOK
<1>5. ASSUME NEW c \in Cameras, LoadTriggers(c) PROVE WakeupUnderWay(k)'
  BY <1>1, <1>5 DEF LoadTriggers, WakeupUnderWay, TypeOK
<1>6. ASSUME NEW c \in Cameras, StoreTriggers(c) PROVE WakeupUnderWay(k)'
  BY <1>1, <1>6 DEF StoreTriggers, WakeupUnderWay, TypeOK
<1>7. ASSUME NEW c \in Cameras, GetNextFrame(c) PROVE WakeupUnderWay(k)'
  BY <1>1, <1>7 DEF GetNextFrame, WakeupUnderWay, TypeOK
<1>8. CASE DoGetNextFrame
  BY <1>1, <1>2, <1>8 DEF DoGetNextFrame, WakeupUnderWay, TypeOK
<1>9. ASSUME NEW c \in Cameras, SelectTrigger(c) PROVE WakeupUnderWay(k)'
  BY <1>1, <1>9 DEF SelectTrigger, WakeupUnderWay, TypeOK
<1>10. CASE LoopLoadTriggers
  BY <1>1, <1>10 DEF LoopLoadTriggers, WakeupUnderWay, TypeOK
<1>11. CASE LoopStoreTriggers
  BY <1>1, <1>11 DEF LoopStoreTriggers, WakeupUnderWay, TypeOK
<1>12. CASE IgnoreTrigger
  BY <1>1, <1>12 DEF IgnoreTrigger, WakeupUnderWay, TypeOK
<1>13. CASE DeliverData
  BY <1>1, <1>13 DEF DeliverData, WakeupUnderWay, TypeOK
<1>14. CASE DeliverFromEmpty
  BY <1>1, <1>14 DEF DeliverFromEmpty, WakeupUnderWay, TypeOK
<1>15. ASSUME NEW c \in Cameras, StopGettingFrames(c) PROVE WakeupUnderWay(k)'
  BY <1>1, <1>15 DEF StopGettingFrames, WakeupUnderWay, TypeOK
<1>16. CASE UNCHANGED vars
  BY <1>2, <1>16 DEF vars, WakeupUnderWay
<1>17. QED
  BY <1>3, <1>4, <1>5, <1>6, <1>7, <1>8, <1>9, <1>10, <1>11, <1>12, <1>13, <1>14,
     <1>15, <1>16 DEF Next, Loop, Thread

\* A server with one camera never leaves a packet in the buffer of a source
\* that awaits data without something under way to deliver it, although the
\* trigger word, the buffer and the flag are read without a lock.
THEOREM OneCameraNoLostWakeup ==
    ASSUME OneCamera
    PROVE  Spec => []NoLostWakeup
<1>1. Init => NoLostWakeup
  BY DEF Init, NoLostWakeup
<1>2. TypeOK /\ NoLostWakeup /\ [Next]_vars => NoLostWakeup'
  BY WakeupStep
<1>3. QED
  BY <1>1, <1>2, TypeCorrect, PTL DEF Spec

-----------------------------------------------------------------------------
(***************************************************************************)
(* The sources implement the mailbox, for any number of cameras.           *)
(***************************************************************************)

\* At first the mailbox is empty and nobody waits.
LEMMA MailboxInit == Init => Mailbox!Init
BY DEF Init, Mailbox!Init, Range

\* Every step is one of the mailbox, or leaves it alone.
LEMMA MailboxStep == IInv /\ [Next]_vars => [Mailbox!Next]_Mailbox!vars
<1> SUFFICES ASSUME IInv, [Next]_vars PROVE [Mailbox!Next]_Mailbox!vars
  OBVIOUS
<1> USE DEF triggerVars, threadVars, loopVars
<1>1. TypeOK /\ FramesOnce
  BY DEF IInv
<1>2. CASE UNCHANGED <<fIsCurrentlyAwaitingData, encodedDataBuffer, delivered>>
  BY <1>2 DEF Mailbox!vars
<1>3. ASSUME NEW c \in Cameras, GetNextFrame(c) PROVE Mailbox!Next
  BY <1>3 DEF GetNextFrame, Mailbox!Next, Mailbox!Request
<1>4. ASSUME NEW c \in Cameras, StopGettingFrames(c) PROVE Mailbox!Next
  BY <1>4 DEF StopGettingFrames, Mailbox!Next, Mailbox!Withdraw
<1>5. ASSUME NEW c \in Cameras, Push(c) PROVE Mailbox!Keep(c)
  <2>1. encodedDataBuffer[c] \in Seq(1 .. MaxFrames)
    BY <1>1 DEF TypeOK
  <2>2. encoded[c] \in 1 .. MaxFrames
    BY <1>1, <1>5, MaxFramesAssumption DEF TypeOK, FramesOnce, InHandIsNewest, Push
  <2>3. \A g \in Range(encodedDataBuffer[c]) \union Range(delivered[c]) : g < encoded[c]
    BY <1>1, <1>5 DEF FramesOnce, InHandIsNewest, Push
  <2>4. Range(encodedDataBuffer'[c]) = Range(encodedDataBuffer[c]) \union {encoded[c]}
    <3>1. encodedDataBuffer'[c] = Append(encodedDataBuffer[c], encoded[c])
      BY <1>1, <1>5 DEF Push, TypeOK
    <3>2. QED
      BY <2>1, <2>2, <3>1, PushBack, MaxFramesAssumption
  <2>5. \A d \in Cameras \ {c} : encodedDataBuffer'[d] = encodedDataBuffer[d]
    BY <1>1, <1>5 DEF Push, TypeOK
  <2>6. [d \in Cameras |-> Range(encodedDataBuffer'[d])] =
            [[d \in Cameras |-> Range(encodedDataBuffer[d])] EXCEPT
                ![c] = @ \union {encoded[c]}]
    BY <2>4, <2>5
  <2>7. UNCHANGED <<fIsCurrentlyAwaitingData, delivered>>
    BY <1>5 DEF Push
  <2>8. QED
    BY <2>2, <2>3, <2>6, <2>7 DEF Mailbox!Keep
<1>6. CASE DeliverData
  <2> DEFINE b == encodedDataBuffer[loopCamera]
  <2>1. /\ loopCamera \in Cameras
        /\ b \in Seq(1 .. MaxFrames) /\ b # <<>>
        /\ delivered[loopCamera] \in Seq(1 .. MaxFrames)
        /\ \A i, j \in DOMAIN b : i < j => b[i] < b[j]
    BY <1>1, <1>6 DEF TypeOK, FramesOnce, BufferInOrder, DeliverData
  <2>2. /\ Last(b) \in Range(b)
        /\ \A f \in Range(b) : f <= Last(b)
        /\ Range(Front(b)) = Range(b) \ {Last(b)}
        /\ Last(b) \in 1 .. MaxFrames
    BY <2>1, PopNewest, PopBack, MaxFramesAssumption
  <2>3. /\ encodedDataBuffer'[loopCamera] = Front(b)
        /\ delivered'[loopCamera] = Append(delivered[loopCamera], Last(b))
        /\ \A d \in Cameras \ {loopCamera} :
                /\ encodedDataBuffer'[d] = encodedDataBuffer[d]
                /\ delivered'[d] = delivered[d]
    BY <1>1, <1>6 DEF DeliverData, TypeOK
  <2>4. Range(delivered'[loopCamera]) = Range(delivered[loopCamera]) \union {Last(b)}
    BY <2>1, <2>2, <2>3, PushBack, MaxFramesAssumption
  <2>5. [d \in Cameras |-> Range(encodedDataBuffer'[d])] =
            [[d \in Cameras |-> Range(encodedDataBuffer[d])] EXCEPT
                ![loopCamera] = @ \ {Last(b)}]
    BY <2>2, <2>3
  <2>6. [d \in Cameras |-> Range(delivered'[d])] =
            [[d \in Cameras |-> Range(delivered[d])] EXCEPT
                ![loopCamera] = @ \union {Last(b)}]
    BY <2>3, <2>4
  <2>7. /\ fIsCurrentlyAwaitingData[loopCamera]
        /\ fIsCurrentlyAwaitingData' =
                [fIsCurrentlyAwaitingData EXCEPT ![loopCamera] = FALSE]
    BY <1>6 DEF DeliverData
  <2>8. Mailbox!Answer(loopCamera)
    BY <2>1, <2>2, <2>5, <2>6, <2>7 DEF Mailbox!Answer
  <2>9. QED
    BY <2>1, <2>8 DEF Mailbox!Next
<1>7. QED
  BY <1>2, <1>3, <1>4, <1>5, <1>6
  DEF Next, Loop, Thread, Encode, LoadTriggers, StoreTriggers, DoGetNextFrame,
      SelectTrigger, LoopLoadTriggers, LoopStoreTriggers, IgnoreTrigger,
      DeliverFromEmpty, vars, Mailbox!Next

\* What a camera's reader sees, with any number of cameras and threads, is a
\* mailbox: a request is answered with the newest packet kept, a packet answers
\* one request at most, and nothing is answered that was not asked for.
THEOREM SourcesImplementMailbox == Spec => MailboxSafe
<1>1. QED
  BY MailboxInit, MailboxStep, Invariant, PTL DEF Spec, MailboxSafe, Mailbox!Safe
=============================================================================
