-------------------------- MODULE TranscoderProofs --------------------------
(***************************************************************************)
(* Proofs about Transcoder: for any number of pictures, any delay of the   *)
(* encoder and whatever FFmpeg's calls return, a packet shows the picture  *)
(* whose pts it bears, unless the converter's calls have spoiled it.       *)
(*                                                                         *)
(* A packet is right because the frame it was made of was right when the   *)
(* encoder let go of it.  That holds of every frame the encoder refers to  *)
(* because Convert, if av_frame_make_writable does not fail, never writes  *)
(* to a buffer of one.                                                     *)
(***************************************************************************)
EXTENDS Transcoder, TLAPS

\* f shows the picture it is said to show, if it is said to show one, or one
\* that was spoiled.
Right(f) == f.pts \in {0, content[f.buffer]} \union spoiled

IInv ==
    /\ TypeOK
    /\ EncodedAsCaptured
    /\ \A e \in encoder : Right(e)
    /\ at = "encode" => Right(converted)

-----------------------------------------------------------------------------
\* The initial state satisfies the invariant.
LEMMA InvInit == Init => IInv
<1> SUFFICES ASSUME Init
             PROVE  IInv
  OBVIOUS
<1>1. 0 \in Pictures /\ 1 \in Buffers
  BY MaxFramesAssumption, EncoderDelayAssumption DEF Pictures, Buffers
<1>2. [buffer |-> 1, pts |-> 0] \in Frame
  BY <1>1 DEF Frame
<1>3. <<>> \in Seq(Pictures)
  OBVIOUS
<1>4. TypeOK
  BY <1>1, <1>2, <1>3 DEF Init, TypeOK
<1> QED BY <1>4 DEF Init, IInv, EncodedAsCaptured

\* Every step keeps the variables within their types.
LEMMA TypeStep == TypeOK /\ [Next]_vars => TypeOK'
<1> SUFFICES ASSUME TypeOK, [Next]_vars
             PROVE  TypeOK'
  OBVIOUS
<1> USE MaxFramesAssumption, EncoderDelayAssumption
        DEF TypeOK, Frame, Buffers, Pictures,
            flagVars, inputVars, graphVars, encoderVars
<1>1. CASE BeginRun BY <1>1 DEF BeginRun
<1>2. CASE EndRun BY <1>2 DEF EndRun
<1>3. CASE Stop BY <1>3 DEF Stop
<1>4. CASE ReadFrame BY <1>4 DEF ReadFrame
<1>5. CASE ReadFails BY <1>5 DEF ReadFails
<1>6. CASE Decode BY <1>6 DEF Decode
<1>7. CASE DecodeFails BY <1>7 DEF DecodeFails
<1>8. CASE AddFrame
  <2>1. PICK n \in 0 .. 2 : graph' = graph \o [i \in 1 .. n |-> rawFrame]
    BY <1>8 DEF AddFrame
  <2>2. [i \in 1 .. n |-> rawFrame] \in Seq(Pictures)
    OBVIOUS
  <2>3. graph' \in Seq(Pictures) /\ added' \in Seq(Pictures)
    BY <1>8, <2>1, <2>2 DEF AddFrame
  <2> QED BY <1>8, <2>3 DEF AddFrame
<1>9. CASE AddFails BY <1>9 DEF AddFails
<1>10. CASE Pull BY <1>10 DEF Pull
<1>11. CASE PullNothing BY <1>11 DEF PullNothing
<1>12. CASE PullFails BY <1>12 DEF PullFails
<1>13. CASE Convert
  <2>1. PICK b \in Buffers, scaled \in BOOLEAN :
            ConvertInto(b, scaled) /\ spoiled' = Spoils(b, scaled)
    BY <1>13 DEF Convert, Scales
  <2>2. converted' \in Frame /\ content' \in [Buffers -> Pictures]
    BY <2>1 DEF ConvertInto
  <2>3. spoiled' \subseteq Pictures
    BY <2>1 DEF Spoils
  <2> QED BY <2>1, <2>2, <2>3 DEF ConvertInto
<1>14. CASE Encode BY <1>14 DEF Encode
<1>15. CASE EncodeLater BY <1>15 DEF EncodeLater
<1>16. CASE EncodeFails BY <1>16 DEF EncodeFails
<1>17. CASE BeginRead BY <1>17 DEF BeginRead
<1>18. CASE UNCHANGED vars BY <1>18 DEF vars
<1> QED
  BY <1>1, <1>2, <1>3, <1>4, <1>5, <1>6, <1>7, <1>8, <1>9, <1>10, <1>11,
     <1>12, <1>13, <1>14, <1>15, <1>16, <1>17, <1>18 DEF Next, RunsOn, ReadReturns

\* Convert leaves the frames that the encoder refers to alone, or spoils them,
\* and makes convertedFrame right.
LEMMA ConvertStep ==
    ASSUME TypeOK, \A e \in encoder : Right(e), Convert
    PROVE  /\ \A e \in encoder' : Right(e)'
           /\ Right(converted)'
           /\ spoiled \subseteq spoiled'
<1> USE DEF TypeOK, Frame, Right
<1> DEFINE held == {e.buffer : e \in encoder}
<1>1. PICK b \in (Buffers \ held) \union {converted.buffer}, scaled \in BOOLEAN :
          /\ ConvertInto(b, scaled)
          /\ spoiled' = Spoils(b, scaled)
  BY DEF Convert, Scales
<1>2. /\ encoder' = encoder
      /\ converted' = [buffer |-> b, pts |-> filterFrame]
      /\ content' = [content EXCEPT
             ![b] = IF scaled THEN filterFrame ELSE content[converted.buffer]]
  BY <1>1 DEF ConvertInto
<1>3. spoiled \subseteq spoiled'
  BY <1>1 DEF Spoils
<1>4. ASSUME NEW e \in encoder
      PROVE  e.pts \in {0, content'[e.buffer]} \union spoiled'
  <2>1. CASE e.buffer # b
    BY <1>2, <1>3, <2>1
  <2>2. CASE e.buffer = b /\ scaled
    <3>1. e.pts \in {f.pts : f \in {g \in encoder : g.buffer = b}}
      BY <2>2
    <3> QED BY <1>1, <2>2, <3>1 DEF Spoils
  <2>3. CASE e.buffer = b /\ ~scaled
    <3>1. b = converted.buffer
      BY <2>3
    <3>2. content'[e.buffer] = content[e.buffer]
      BY <1>2, <2>3, <3>1
    <3> QED BY <1>3, <3>2
  <2> QED BY <2>1, <2>2, <2>3
<1>5. converted'.pts \in {0, content'[converted'.buffer]} \union spoiled'
  <2>1. CASE scaled
    BY <1>2, <2>1
  <2>2. CASE ~scaled
    BY <1>1, <1>2, <2>2 DEF Spoils
  <2> QED BY <2>1, <2>2
<1> QED BY <1>2, <1>3, <1>4, <1>5

\* Every step keeps the invariant.
LEMMA InvStep == IInv /\ [Next]_vars => IInv'
<1> SUFFICES ASSUME IInv, [Next]_vars
             PROVE  IInv'
  OBVIOUS
<1>1. TypeOK'
  BY TypeStep DEF IInv
<1> USE DEF IInv, Right, EncodedAsCaptured
<1>2. CASE Convert
  <2>1. handed' = handed /\ at' = "encode"
    BY <1>2 DEF Convert, ConvertInto
  <2>2. /\ \A e \in encoder' : Right(e)'
        /\ Right(converted)'
        /\ spoiled \subseteq spoiled'
    BY <1>2, ConvertStep
  <2> QED BY <1>1, <2>1, <2>2
<1>3. CASE Encode
  <2>1. PICK e \in encoder \union {converted} :
            /\ handed' = [picture |-> content[e.buffer], pts |-> e.pts]
            /\ encoder' = (encoder \union {converted}) \ {e}
    BY <1>3 DEF Encode
  <2>2. at = "encode" /\ at' = "pull" /\ UNCHANGED <<converted, content, spoiled>>
    BY <1>3 DEF Encode
  <2>3. \A f \in encoder \union {converted} : Right(f)
    BY <2>2
  <2>4. EncodedAsCaptured'
    BY <2>1, <2>2, <2>3
  <2>5. \A f \in encoder' : Right(f)'
    BY <2>1, <2>2, <2>3
  <2> QED BY <1>1, <2>2, <2>4, <2>5
<1>4. CASE EncodeLater
  BY <1>1, <1>4 DEF EncodeLater
<1>5. ASSUME UNCHANGED encoderVars, at' # "encode" \/ at' = at
      PROVE  IInv'
  BY <1>1, <1>5 DEF encoderVars
<1>6. CASE BeginRun \/ EndRun \/ BeginRead \/ ReadFrame \/ ReadFails \/ Stop
  BY <1>5, <1>6 DEF BeginRun, EndRun, BeginRead, ReadFrame, ReadFails, Stop
<1>7. CASE Decode \/ DecodeFails \/ AddFrame \/ AddFails
  BY <1>5, <1>7 DEF Decode, DecodeFails, AddFrame, AddFails
<1>8. CASE Pull \/ PullNothing \/ PullFails
  BY <1>5, <1>8 DEF Pull, PullNothing, PullFails, encoderVars
<1>9. CASE EncodeFails
  <2>1. /\ encoder' \subseteq encoder \union {converted}
        /\ at = "encode" /\ at' = "pull"
        /\ UNCHANGED <<converted, content, handed, spoiled>>
    BY <1>9 DEF EncodeFails
  <2> QED BY <1>1, <2>1
<1>10. CASE UNCHANGED vars
  BY <1>5, <1>10 DEF vars
<1> QED
  BY <1>2, <1>3, <1>4, <1>6, <1>7, <1>8, <1>9, <1>10
  DEF Next, RunsOn, ReadReturns

-----------------------------------------------------------------------------
\* The invariant holds of every behaviour.
LEMMA Invariant == Spec => []IInv
BY InvInit, InvStep, PTL DEF Spec

\* However long the encoder holds frames back and whatever FFmpeg's calls return,
\* a packet given to onEncodedDataCallback shows the picture whose pts it bears,
\* unless a failure of the converter's own calls has spoiled that picture.
THEOREM PacketsAreRight == Spec => []EncodedAsCaptured
<1>1. IInv => EncodedAsCaptured
  BY DEF IInv
<1> QED BY <1>1, Invariant, PTL
=============================================================================
