--------------------------- MODULE H265Fragmenter ---------------------------
(***************************************************************************)
(* How live555 cuts an H.265 NAL unit into the payloads of RTP packets     *)
(* (H264or5Fragmenter), and how a receiver puts it together again (RFC     *)
(* 7798, 4.4.3).                                                           *)
(*                                                                         *)
(* A byte is a record: which bits it holds, not their values.  Byte n of   *)
(* the unit is Data(n); the first two are its header.  The fragmenter has  *)
(* one buffer, whose byte 0 it keeps free, and makes room for the headers  *)
(* of a fragment by overwriting bytes that it has sent.                    *)
(***************************************************************************)
EXTENDS Integers, Sequences, SequencesExt

Data(n) == [kind |-> "data", n |-> n, first |-> FALSE, last |-> FALSE]

\* Byte b of a NAL unit's header with the type of a fragmentation unit (49).
WithTypeFU(b) == [b EXCEPT !.kind = "header"]

\* The header of a fragmentation unit: the type in b, and the S bit.
FUHeader(b) == [b EXCEPT !.kind = "FU", !.first = TRUE]

-----------------------------------------------------------------------------
(***************************************************************************)
(* The fragmenter.                                                         *)
(***************************************************************************)

\* reset: nothing is in the buffer.
Empty == [buffer |-> <<>>, fNumValidDataBytes |-> 1, fCurDataOffset |-> 1]

\* afterGettingFrame1: the source delivered a NAL unit of this size.
Loaded(size) ==
    [Empty EXCEPT !.buffer = [i \in 0 .. size |-> Data(i)],
                  !.fNumValidDataBytes = @ + size]

\* Bytes from .. from + size - 1 of the buffer.
Slice(buffer, from, size) == [i \in 1 .. size |-> buffer[from + i - 1]]

\* The state once bytes up to offset have been sent, and what was sent.
Sent(f, buffer, offset, payload) ==
    [fragmenter |-> IF offset >= f.fNumValidDataBytes THEN Empty
                    ELSE [f EXCEPT !.buffer = buffer, !.fCurDataOffset = offset],
     payload |-> payload]

\* Case 1: the whole unit.
Whole(f) ==
    Sent(f, f.buffer, f.fNumValidDataBytes,
         Slice(f.buffer, 1, f.fNumValidDataBytes - 1))

\* Case 2: the first fragment.
First(f, fMaxSize) ==
    LET buffer ==
            [f.buffer EXCEPT ![0] = WithTypeFU(f.buffer[1]),
                             ![1] = f.buffer[2],
                             ![2] = FUHeader(f.buffer[1])]
    IN  Sent(f, buffer, f.fCurDataOffset + fMaxSize - 1,
             Slice(buffer, 0, fMaxSize))

\* Mutant: the E bit is left out when the last fragment fills a packet.
LaterFullNotLast(f, fMaxSize) ==
    LET at     == f.fCurDataOffset
        rest   == 3 + (f.fNumValidDataBytes - at)
        size   == IF rest <= fMaxSize THEN rest ELSE fMaxSize
        buffer ==
            [f.buffer EXCEPT
                ![at - 3] = f.buffer[0],
                ![at - 2] = f.buffer[1],
                ![at - 1] = [f.buffer[2] EXCEPT !.first = FALSE,
                                                !.last = rest < fMaxSize]]
    IN  Sent(f, buffer, at + size - 3, Slice(buffer, at - 3, size))

\* Case 3: a later fragment.  The E bit is set in the last one.
Later(f, fMaxSize) ==
    LET at     == f.fCurDataOffset
        rest   == 3 + (f.fNumValidDataBytes - at)
        isLast == rest <= fMaxSize
        size   == IF isLast THEN rest ELSE fMaxSize
        buffer ==
            [f.buffer EXCEPT
                ![at - 3] = f.buffer[0],
                ![at - 2] = f.buffer[1],
                ![at - 1] = [f.buffer[2] EXCEPT !.first = FALSE,
                                                !.last = isLast]]
    IN  Sent(f, buffer, at + size - 3, Slice(buffer, at - 3, size))

\* doGetNextFrame with a unit in the buffer.
NextFragment(f, fMaxSize) ==
    IF f.fCurDataOffset # 1 THEN Later(f, fMaxSize)
    ELSE IF f.fNumValidDataBytes - 1 <= fMaxSize THEN Whole(f)
    ELSE First(f, fMaxSize)

\* One more packet is made, unless the unit has been sent.
SendNextPayload(sent, fMaxSize) ==
    LET next == NextFragment(sent.fragmenter, fMaxSize)
    IN  IF sent.fragmenter = Empty THEN sent
        ELSE [fragmenter |-> next.fragmenter,
              payloads   |-> Append(sent.payloads, next.payload)]

\* The payloads of all packets of a NAL unit, which are no more than its bytes.
Fragments(size, fMaxSize) ==
    LET After[n \in 0 .. size] ==
            IF n = 0 THEN [fragmenter |-> Loaded(size), payloads |-> <<>>]
            ELSE SendNextPayload(After[n - 1], fMaxSize)
    IN  After[size].payloads

-----------------------------------------------------------------------------
(***************************************************************************)
(* The receiver.                                                           *)
(***************************************************************************)

\* The unit of which these are the fragments, all of them, in order.
Reassembled(payloads) ==
    IF payloads[1][1].kind = "data" THEN payloads[1]
    ELSE <<Data(payloads[1][3].n), payloads[1][2]>>
         \o FlattenSeq([i \in 1 .. Len(payloads) |->
                            SubSeq(payloads[i], 4, Len(payloads[i]))])

\* Fragments are marked as such: S in the first, E in the last, and each with
\* the header of the unit.
WellMarked(payloads) ==
    IF Len(payloads) = 1 THEN payloads[1][1].kind = "data"
    ELSE \A i \in 1 .. Len(payloads) :
             /\ payloads[i][1] = WithTypeFU(Data(1))
             /\ payloads[i][2] = Data(2)
             /\ payloads[i][3] = [Data(1) EXCEPT !.kind = "FU",
                                                 !.first = (i = 1),
                                                 !.last = (i = Len(payloads))]
=============================================================================
