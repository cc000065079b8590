----------------------------- MODULE Transcoder -----------------------------
(***************************************************************************)
(* One camera's pictures on their way through Transcoder::run, in the      *)
(* transcoder's own thread: av_read_frame, decode, the filter graph, the   *)
(* converter, encode, and the callback with the encoded packet.            *)
(*                                                                         *)
(* FFmpeg is external: what its calls may return is taken from the cases   *)
(* the code distinguishes.  Each may fail at any time, the decoder and the *)
(* filter graph keep references to the frames they are given, and so does  *)
(* the encoder, which may have a delay.  Only convertedFrame is written to *)
(* again and again; its buffers are therefore modelled one by one.         *)
(***************************************************************************)
EXTENDS Naturals, Sequences, SequencesExt, FiniteSets

CONSTANTS
    MaxFrames,      \* bound on the pictures the camera captures
    EncoderDelay    \* how many pictures the encoder may hold back

ASSUME MaxFramesAssumption    == MaxFrames \in Nat \ {0}
ASSUME EncoderDelayAssumption == EncoderDelay \in Nat

\* The memory for convertedFrame: one buffer more than the encoder can hold.
Buffers == 1 .. EncoderDelay + 1

\* Pictures are numbered in the order they are captured; 0 stands for none.
Pictures == 0 .. MaxFrames

VARIABLES
    needToStopFlag, isRunningFlag,  \* as in the class
    at,             \* where run is
    captured,       \* how many pictures were read from the device
    decodingPacket, \* the picture in it
    rawFrame,       \* the picture in it
    added,          \* the pictures that were pushed to the filter graph
    graph,          \* the pictures that the filter graph has to give
    filterFrame,    \* the picture in it
    converted,      \* convertedFrame: its buffer, and the picture it is said
                    \* to show (pts and the other properties)
    content,        \* by buffer: the picture it really shows
    encoder,        \* the frames to which the encoder holds a reference
    handed,         \* the packet last given to onEncodedDataCallback: the
                    \* picture it shows, and its pts
    spoiled         \* history: pictures that were not written, or written
                    \* over, because the converter's calls have failed

flagVars == <<needToStopFlag, isRunningFlag>>
inputVars == <<captured, decodingPacket, rawFrame>>
graphVars == <<added, graph, filterFrame>>
encoderVars == <<converted, content, encoder, handed, spoiled>>

vars == <<at, flagVars, inputVars, graphVars, encoderVars>>

Init ==
    /\ needToStopFlag = FALSE
    /\ isRunningFlag = FALSE
    /\ at = "begin"
    /\ captured = 0
    /\ decodingPacket = 0
    /\ rawFrame = 0
    /\ added = <<>>
    /\ graph = <<>>
    /\ filterFrame = 0
    /\ converted = [buffer |-> 1, pts |-> 0]
    /\ content = [b \in Buffers |-> 0]
    /\ encoder = {}
    /\ handed = [picture |-> 0, pts |-> 0]
    /\ spoiled = {}

-----------------------------------------------------------------------------
(***************************************************************************)
(* The flags.                                                              *)
(***************************************************************************)

BeginRun ==
    /\ at = "begin"
    /\ at' = "read"
    /\ isRunningFlag' = TRUE
    /\ UNCHANGED <<needToStopFlag, inputVars, graphVars, encoderVars>>

EndRun ==
    /\ at = "read"
    /\ needToStopFlag
    /\ at' = "finished"
    /\ isRunningFlag' = FALSE
    /\ UNCHANGED <<needToStopFlag, inputVars, graphVars, encoderVars>>

\* stop, called by another thread while run is under way.
Stop ==
    /\ isRunningFlag
    /\ needToStopFlag' = TRUE
    /\ UNCHANGED <<at, isRunningFlag, inputVars, graphVars, encoderVars>>

-----------------------------------------------------------------------------
(***************************************************************************)
(* From the device to the filter graph.                                    *)
(***************************************************************************)

\* Mutant: the flag is not tested before the next picture is waited for.
BeginReadAnyway ==
    /\ at = "read"
    /\ at' = "reading"
    /\ UNCHANGED <<flagVars, inputVars, graphVars, encoderVars>>

\* The loop tests the flag, and waits in av_read_frame.
BeginRead ==
    /\ at = "read"
    /\ ~needToStopFlag
    /\ at' = "reading"
    /\ UNCHANGED <<flagVars, inputVars, graphVars, encoderVars>>

\* av_read_frame has a picture of the camera.
ReadFrame ==
    /\ at = "reading"
    /\ captured < MaxFrames
    /\ captured' = captured + 1
    /\ decodingPacket' = captured + 1
    /\ at' = "decode"
    /\ UNCHANGED <<flagVars, rawFrame, graphVars, encoderVars>>

\* av_read_frame has failed, or has a packet of another stream; the loop starts
\* over.
ReadFails ==
    /\ at = "reading"
    /\ at' = "read"
    /\ decodingPacket' = 0
    /\ UNCHANGED <<flagVars, captured, rawFrame, graphVars, encoderVars>>

\* decode: the picture is received into rawFrame.
Decode ==
    /\ at = "decode"
    /\ rawFrame' = decodingPacket
    /\ decodingPacket' = 0
    /\ at' = "add"
    /\ UNCHANGED <<flagVars, captured, graphVars, encoderVars>>

\* decode returns an error.  Its caller goes on all the same: it tests for 0,
\* which decode never returns.  If it was avcodec_send_packet that failed then
\* rawFrame still has the picture before; avcodec_receive_frame empties it.
DecodeFails ==
    /\ at = "decode"
    /\ rawFrame' \in {rawFrame, 0}
    /\ decodingPacket' = 0
    /\ at' = "add"
    /\ UNCHANGED <<flagVars, captured, graphVars, encoderVars>>

\* av_buffersrc_add_frame_flags, which keeps rawFrame.  The fps filter makes
\* no, one or several frames of it.
AddFrame ==
    /\ at = "add"
    /\ rawFrame # 0
    /\ added' = Append(added, rawFrame)
    /\ \E n \in 0 .. 2 : graph' = graph \o [i \in 1 .. n |-> rawFrame]
    /\ at' = "pull"
    /\ UNCHANGED <<flagVars, inputVars, filterFrame, encoderVars>>

\* The "workaround for buggy cameras": the graph has refused the frame, as it
\* always does when it is empty.
AddFails ==
    /\ at = "add"
    /\ filterFrame' = 0
    /\ at' = "read"
    /\ UNCHANGED <<flagVars, inputVars, added, graph, encoderVars>>

-----------------------------------------------------------------------------
(***************************************************************************)
(* From the filter graph to the callback.                                  *)
(***************************************************************************)

Pull ==
    /\ at = "pull"
    /\ graph # <<>>
    /\ filterFrame' = Head(graph)
    /\ graph' = Tail(graph)
    /\ at' = "convert"
    /\ UNCHANGED <<flagVars, inputVars, added, encoderVars>>

\* EAGAIN: the graph has nothing to give, or the filter waits for the next
\* frame to decide what to do with the last.
PullNothing ==
    /\ at = "pull"
    /\ Len(graph) <= 1
    /\ filterFrame' = 0
    /\ at' = "read"
    /\ UNCHANGED <<flagVars, inputVars, added, graph, encoderVars>>

\* Any other error is not looked at, as often as it comes: filterFrame is empty.
PullFails ==
    /\ at = "pull"
    /\ at' = "convert"
    /\ UNCHANGED <<flagVars, inputVars, graphVars, encoderVars>>

\* The picture now in buffer b is shown by no frame but convertedFrame, if it
\* was scaled; if not, convertedFrame shows another than its own.
Spoils(b, scaled) ==
    spoiled \union (IF scaled THEN {e.pts : e \in {f \in encoder : f.buffer = b}}
                    ELSE {filterFrame})

\* convertedFrame has buffer b and filterFrame's properties, and shows its
\* picture, if that was scaled, or still the one before.
ConvertInto(b, scaled) ==
    /\ converted' = [buffer |-> b, pts |-> filterFrame]
    /\ content' = [content EXCEPT
        ![b] = IF scaled THEN filterFrame ELSE content[converted.buffer]]
    /\ at' = "encode"
    /\ UNCHANGED <<flagVars, inputVars, graphVars, encoder, handed>>

\* sws_scale may fail, and has nothing to read if filterFrame is empty.
Scales == {scaled \in BOOLEAN : filterFrame = 0 => ~scaled}

\* Mutant: av_frame_make_writable is not called.
ConvertInPlace ==
    /\ at = "convert"
    /\ \E scaled \in Scales :
        /\ ConvertInto(converted.buffer, scaled)
        /\ spoiled' = IF scaled THEN spoiled ELSE spoiled \union {filterFrame}

\* av_frame_make_writable has another buffer, with a copy, if the encoder holds
\* this one, and leaves it at that if it fails: nobody looks at its result, nor
\* at that of sws_scale.  Then av_frame_copy_props.
Convert ==
    /\ at = "convert"
    /\ LET held == {e.buffer : e \in encoder}
       IN  \E b \in (Buffers \ held) \union {converted.buffer}, scaled \in Scales :
            /\ converted.buffer \notin held => b = converted.buffer
            /\ ConvertInto(b, scaled)
            /\ spoiled' = Spoils(b, scaled)

\* encode: avcodec_send_frame, and avcodec_receive_packet of this picture or of
\* one that was held back, whose packet goes to the callback.
Encode ==
    /\ at = "encode"
    /\ \E e \in encoder \union {converted} :
        /\ handed' = [picture |-> content[e.buffer], pts |-> e.pts]
        /\ encoder' = (encoder \union {converted}) \ {e}
    /\ filterFrame' = 0
    /\ at' = "pull"
    /\ UNCHANGED <<flagVars, inputVars, added, graph, converted, content,
                   spoiled>>

\* The encoder holds the picture back: EAGAIN from avcodec_receive_packet.
EncodeLater ==
    /\ at = "encode"
    /\ Cardinality(encoder) < EncoderDelay
    /\ encoder' = encoder \union {converted}
    /\ filterFrame' = 0
    /\ at' = "pull"
    /\ UNCHANGED <<flagVars, inputVars, added, graph, converted, content,
                   handed, spoiled>>

\* avcodec_send_frame fails, and the picture is dropped; or it is taken, and
\* avcodec_receive_packet fails for good for one of those it has.
EncodeFails ==
    /\ at = "encode"
    /\ \/ UNCHANGED encoder
       \/ \E e \in encoder \union {converted} :
              encoder' = (encoder \union {converted}) \ {e}
    /\ filterFrame' = 0
    /\ at' = "pull"
    /\ UNCHANGED <<flagVars, inputVars, added, graph, converted, content,
                   handed, spoiled>>

-----------------------------------------------------------------------------
\* av_read_frame returns.
ReadReturns == ReadFrame \/ ReadFails

\* Everything else that run does.
RunsOn ==
    \/ BeginRun \/ EndRun
    \/ BeginRead
    \/ Decode \/ DecodeFails
    \/ AddFrame \/ AddFails
    \/ Pull \/ PullNothing \/ PullFails
    \/ Convert
    \/ Encode \/ EncodeLater \/ EncodeFails

Next == RunsOn \/ ReadReturns \/ Stop

Spec == Init /\ [][Next]_vars

\* The thread is scheduled.  Of FFmpeg's calls only av_read_frame may block, as
\* long as the camera has nothing to give.
FairSpec == Spec /\ WF_vars(RunsOn)

-----------------------------------------------------------------------------
(***************************************************************************)
(* Properties.                                                             *)
(***************************************************************************)

Frame == [buffer : Buffers, pts : Pictures]

TypeOK ==
    /\ needToStopFlag \in BOOLEAN
    /\ isRunningFlag \in BOOLEAN
    /\ at \in {"begin", "read", "reading", "decode", "add", "pull", "convert",
               "encode", "finished"}
    /\ captured \in Pictures
    /\ decodingPacket \in Pictures
    /\ rawFrame \in Pictures
    /\ added \in Seq(Pictures)
    /\ graph \in Seq(Pictures)
    /\ filterFrame \in Pictures
    /\ converted \in Frame
    /\ content \in [Buffers -> Pictures]
    /\ encoder \in SUBSET Frame
    /\ handed \in [picture : Pictures, pts : Pictures]
    /\ spoiled \subseteq Pictures

\* A packet shows the picture whose pts it bears, however long the encoder has
\* held it back and however many pictures went through convertedFrame in the
\* meantime, and whatever decoder, graph and encoder return: no buffer is written
\* to while the encoder refers to it.  Errors of the converter's own calls, which
\* run does not look at, spoil no picture but the one at hand (sws_scale) or
\* those of which the encoder holds the buffer (av_frame_make_writable).  (Where
\* the filter graph has failed there is no pts.)
EncodedAsCaptured == handed.pts \in {0, handed.picture} \union spoiled

\* decode returns ">= 0 if success, otherwise error occurred" (Transcoder.hpp):
\* what is pushed to the filter graph was decoded from the packet just read, so
\* that no picture is pushed twice.
AddedOnce == IsInjective(added)

\* Transcoder::stop waits for run to end, which it does, with two exceptions: the
\* outer loop tests the flag, but not while the camera leaves av_read_frame
\* waiting, and the inner one does not test it, and does not end as long as
\* av_buffersink_get_frame returns errors other than EAGAIN and EOF.
StopEndsRun ==
    \/ needToStopFlag ~> ~isRunningFlag
    \/ <>[](at = "reading")
    \/ []<><<PullFails>>_vars
=============================================================================
