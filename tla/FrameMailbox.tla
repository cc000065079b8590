---------------------------- MODULE FrameMailbox ----------------------------
(***************************************************************************)
(* What LiveCamFramedSource promises the reader of a camera (the           *)
(* StreamReplicator that calls getNextFrame on it), with the threads, the  *)
(* event triggers and the buffer left out.                                 *)
(*                                                                         *)
(* Encoded frames are kept in a mailbox.  A request that is outstanding is *)
(* answered with the newest frame kept, and a frame answers at most one    *)
(* request.  A reader may withdraw its request; the frames kept stay.      *)
(***************************************************************************)
EXTENDS Naturals

CONSTANTS
    Cameras,    \* the cameras that are streamed
    Frames      \* a camera's frames: numbers, in the order they are encoded

VARIABLES
    awaiting,   \* awaiting[c]: a request of c's reader is outstanding
    kept,       \* kept[c]: the frames in c's mailbox
    answered    \* answered[c]: the frames that have answered a request

vars == <<awaiting, kept, answered>>

Init ==
    /\ awaiting = [c \in Cameras |-> FALSE]
    /\ kept     = [c \in Cameras |-> {}]
    /\ answered = [c \in Cameras |-> {}]

Request(c) ==
    /\ ~awaiting[c]
    /\ awaiting' = [awaiting EXCEPT ![c] = TRUE]
    /\ UNCHANGED <<kept, answered>>

Withdraw(c) ==
    /\ awaiting[c]
    /\ awaiting' = [awaiting EXCEPT ![c] = FALSE]
    /\ UNCHANGED <<kept, answered>>

\* A frame newer than any other seen so far is put into the mailbox; the
\* frames encoded in between were dropped.
Keep(c) ==
    /\ \E f \in Frames :
        /\ \A g \in kept[c] \union answered[c] : g < f
        /\ kept' = [kept EXCEPT ![c] = @ \union {f}]
    /\ UNCHANGED <<awaiting, answered>>

Answer(c) ==
    /\ awaiting[c]
    /\ \E f \in kept[c] :
        /\ \A g \in kept[c] : g <= f
        /\ kept'     = [kept EXCEPT ![c] = @ \ {f}]
        /\ answered' = [answered EXCEPT ![c] = @ \union {f}]
    /\ awaiting' = [awaiting EXCEPT ![c] = FALSE]

Next == \E c \in Cameras : Request(c) \/ Withdraw(c) \/ Keep(c) \/ Answer(c)

\* What the mailbox never does.
Safe == Init /\ [][Next]_vars

\* ... and what it does in the end: it does not sit on a frame while its
\* reader waits.
Spec == Safe /\ \A c \in Cameras : WF_vars(Answer(c))
=============================================================================
