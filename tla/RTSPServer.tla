----------------------------- MODULE RTSPServer -----------------------------
(***************************************************************************)
(* The RTSP server: connections of clients, their sessions, and the        *)
(* streams of these, from the request that sets one up to its packets.     *)
(*                                                                         *)
(* A session has one track, the camera's, and its stream has objects of    *)
(* its own: a replica of the camera's replicator, a sink with a fragmenter *)
(* that asks the replica for NAL units, and an RTCP instance.  Packets go  *)
(* by UDP or over the connection.                                          *)
(*                                                                         *)
(* Everything runs on the event loop's thread, one handler after another,  *)
(* so the objects are one record, server, and a handler is one step.       *)
(*                                                                         *)
(* Clients may come and go, send any request for any session on any        *)
(* connection at any time, and set up again, over TCP or for UDP.          *)
(*                                                                         *)
(* A session that was set up over TCP keeps its tcpSocketNum when it is    *)
(* set up again for UDP, and is then streamed over that socket although    *)
(* the table of streaming over TCP does not say so.                        *)
(*                                                                         *)
(* What happens once the program's behaviour is undefined is not modelled. *)
(***************************************************************************)
EXTENDS RTPInterface, H265Fragmenter

CONSTANTS
    NalSizes,       \* the sizes of NAL units, in bytes
    MaxPayload      \* fMaxOutputPacketSize

\* Shorter payloads would have no room for the headers that the fragmenter
\* writes over what it has sent.
ASSUME PayloadAssumption == MaxPayload \in Nat /\ MaxPayload >= 6
ASSUME SizesAssumption == NalSizes \subseteq Nat \ {0}

\* Identifiers of sessions are 32-bit numbers.
ASSUME SessionsAssumption == IsFiniteSet(Sessions)

VARIABLES
    server,
    there       \* the sockets whose clients have not closed their end

vars == <<server, there>>

RTP(id)  == <<id, "rtp">>
RTCP(id) == <<id, "rtcp">>

NoSession ==
    [exists  |-> FALSE,
     token   |-> FALSE,         \* streamToken: its StreamState exists
     socket  |-> NoSocket,      \* tcpSocketNum
     interleaved |-> FALSE,     \* the last SETUP was for packets over TCP
     rtcp    |-> FALSE,         \* fRTCPInstance
     playing |-> FALSE,         \* fAreCurrentlyPlaying
     sink    |-> "stopped",     \* or it waits for a unit, or for its task
     left    |-> 0]             \* payloads left in the fragmenter

\* The number of packets of a NAL unit.
Packets == [size \in NalSizes |-> Len(Fragments(size, MaxPayload))]

\* What may be left of a unit, in packets.
Leftovers == {0} \union UNION {0 .. Packets[size] - 1 : size \in NalSizes}

-----------------------------------------------------------------------------
(***************************************************************************)
(* The sink of a stream, with its fragmenter.                              *)
(***************************************************************************)

\* getNextFrame, through fragmenter and framer, of the replica.  A replica
\* must not be asked twice.
GetNextFrame(sv, id) ==
    [sv EXCEPT !.session[id].sink = "waiting",
               !.asked = @ \union {id},
               !.internalError = @ \/ id \in sv.asked]

\* sendPacketIfNecessary: the next packet is for a task.
SendPacketOfSink(sv, id, left, fails) ==
    LET sent == SendPacket(sv, RTP(id), "rtp" \in fails)
    IN  [sent EXCEPT !.session[id].sink = "sending",
                     !.session[id].left = left]

\* afterGettingFrame, of framer, fragmenter and sink, with a unit of that size.
AfterGettingFrame(sv, id, size, fails) ==
    SendPacketOfSink([sv EXCEPT !.asked = @ \ {id}], id,
                     Packets[size] - 1, fails)

\* buildAndSendPacket: with what the fragmenter has left, or a new unit.  If
\* the source has one at hand it is delivered at once.
BuildAndSendPacket(sv, id, atHand, fails) ==
    LET left  == sv.session[id].left
        asked == GetNextFrame(sv, id)
    IN  IF left > 0 THEN SendPacketOfSink(sv, id, left - 1, fails)
        ELSE IF atHand = {} THEN asked
        ELSE AfterGettingFrame(asked, id, CHOOSE size \in atHand : TRUE, fails)

\* Mutant: the fragmenter keeps what it has left.
StopPlayingKeeps(sv, id) ==
    [sv EXCEPT !.session[id].sink = "stopped",
               !.asked = @ \ {id}]

\* MultiFramedRTPSink::stopPlaying: no unit is waited for, none is left in
\* the fragmenter, and there is no task.
StopPlaying(sv, id) ==
    [sv EXCEPT !.session[id].sink = "stopped",
               !.session[id].left = 0,
               !.asked = @ \ {id}]

-----------------------------------------------------------------------------
(***************************************************************************)
(* StreamState and its subsession.                                         *)
(***************************************************************************)

\* StreamState::pause
Pause(sv, id) ==
    [StopPlaying(sv, id) EXCEPT !.session[id].playing = FALSE]

\* sendReport of the RTCP instance.
SendReport(sv, id, fails) == SendPacket(sv, RTCP(id), "rtcp" \in fails)

\* StreamState::startPlaying: the stream's socket, if it has one, is used for
\* both kinds of packets from now on, and requests on it are for the connection
\* of this request, t.
StartPlaying(sv, t, id, atHand, fails) ==
    LET s       == sv.session[id].socket
        created == [sv EXCEPT !.session[id].rtcp = TRUE]
        added   ==
            IF s = NoSocket THEN created
            ELSE AddRTCPSocket(
                     SetHandler(AddStreamSocket(created, RTP(id), s), s, t),
                     RTCP(id), s)
        told    == SendReport(added, id, fails)
    IN  IF sv.session[id].playing THEN told
        ELSE BuildAndSendPacket(
                 [told EXCEPT !.session[id].playing = TRUE], id, atHand, fails)

\* StreamState::endPlaying
EndPlaying(sv, id) ==
    LET s      == sv.session[id].socket
        silent == RemoveStreamSocket(ClearHandler(sv, s), RTP(id), s)
    IN  IF s = NoSocket THEN sv
        ELSE IF sv.session[id].rtcp THEN RemoveStreamSocket(silent, RTCP(id), s)
        ELSE silent

\* ~StreamState: RTCP instance, sink and replica are closed.
Reclaim(sv, id) ==
    [StopPlaying(sv, id) EXCEPT
        !.session[id] = [@ EXCEPT !.token = FALSE, !.rtcp = FALSE,
                                  !.playing = FALSE],
        !.awaiting = [s \in Sockets |-> sv.awaiting[s] \ {RTCP(id)}],
        !.replicas = @ \ {id}]

\* OnDemandServerMediaSubsession::deleteStream.  No two sessions share a
\* stream state.
DeleteStream(sv, id) ==
    IF sv.session[id].token THEN Reclaim(EndPlaying(sv, id), id) ELSE sv

\* OnDemandServerMediaSubsession::getStreamParameters
GetStreamParameters(sv, id) ==
    [sv EXCEPT !.session[id].token = TRUE, !.replicas = @ \union {id}]

-----------------------------------------------------------------------------
(***************************************************************************)
(* Sessions and connections.                                               *)
(***************************************************************************)

\* noteTCPStreamingOnSocket
Note(sv, s, id) == [sv EXCEPT !.streamingOn[s] = <<id>> \o @]

\* Mutant: only the head of the list is looked at.
UnnoteHead(sv, s, id) ==
    IF s = NoSocket THEN sv
    ELSE IF sv.streamingOn[s] = <<>> \/ Head(sv.streamingOn[s]) # id THEN sv
    ELSE [sv EXCEPT !.streamingOn[s] = Tail(@)]

\* unnoteTCPStreamingOnSocket
Unnote(sv, s, id) ==
    IF s = NoSocket THEN sv
    ELSE [sv EXCEPT !.streamingOn[s] = RemoveFirst(@, id)]

\* ~RTSPClientSession, and with it the liveness task.
DeleteSession(sv, id) ==
    LET reclaimed ==
            DeleteStream(Unnote(sv, sv.session[id].socket, id), id)
    IN  [reclaimed EXCEPT !.session[id] = NoSession]

\* deleteStreamByTrack: with its only stream the session goes.
DeleteStreamByTrack(sv, id) ==
    [DeleteStream(sv, id) EXCEPT !.session[id] = NoSession]

\* Mutant: only one stream is closed.
StopTCPStreamingOnOne(sv, s) ==
    IF sv.streamingOn[s] = <<>> THEN sv
    ELSE [DeleteStreamByTrack(sv, Head(sv.streamingOn[s]))
             EXCEPT !.streamingOn[s] = <<>>]

\* A record of the table: the session, if there still is one, ends its stream.
StopStreamingOver(sv, id) ==
    IF sv.session[id].exists THEN DeleteStreamByTrack(sv, id) ELSE sv

\* stopTCPStreamingOnSocket: one stream after another, the table last.
StopTCPStreaming(sv, s) ==
    LET list == sv.streamingOn[s]
        Stopped[n \in 0 .. Len(list)] ==
            IF n = 0 THEN sv ELSE StopStreamingOver(Stopped[n - 1], list[n])
    IN  [Stopped[Len(list)] EXCEPT !.streamingOn[s] = <<>>]

\* ~RTSPClientConnection, and closeSocketsRTSP: descriptors do not learn of it.
CloseConnection(sv, t) ==
    LET stopped == StopTCPStreaming(sv, t)
    IN  [stopped EXCEPT
            !.reader[t] = "nobody",
            !.connections = @ \ {t},
            !.handler = [s \in Sockets |->
                            IF stopped.handler[s] = t THEN Deleted
                            ELSE stopped.handler[s]]]

\* ~SocketDescriptor after a read error: its handler gets 0xFF, and goes.
ReadError(sv, s) ==
    LET t        == sv.handler[s]
        disposed == Disposed(sv, s)
    IN  IF t \in Sockets THEN CloseConnection(disposed, t)
        ELSE [disposed EXCEPT !.undefined = @ \/ t = Deleted]

-----------------------------------------------------------------------------
(***************************************************************************)
(* Requests.                                                               *)
(***************************************************************************)

\* createNewClientSessionWithId
CreateSession(sv, id) == [sv EXCEPT !.session[id].exists = TRUE]

\* Mutant: the old stream is not forgotten by the table.
StopOldStreamNoted(sv, id) ==
    IF ~sv.session[id].token THEN sv
    ELSE DeleteStream(Pause(sv, id), id)

\* handleCmd_SETUP for a stream that has been set up before.
StopOldStream(sv, id) ==
    IF ~sv.session[id].token THEN sv
    ELSE DeleteStream(Unnote(Pause(sv, id), sv.session[id].socket, id), id)

\* handleCmd_SETUP, of the connection t: over its socket, or for UDP, when the
\* socket of an earlier SETUP stays.
HandleSETUP(sv, t, id, overTCP) ==
    LET old == [StopOldStream(sv, id) EXCEPT !.session[id].interleaved = overTCP]
        new == Note([old EXCEPT !.session[id].socket = t], t, id)
    IN  GetStreamParameters(IF overTCP THEN new ELSE old, id)

\* handleCmd_PLAY, of the connection t.
HandlePLAY(sv, t, id, atHand, fails) ==
    IF sv.session[id].token THEN StartPlaying(sv, t, id, atHand, fails) ELSE sv

\* handleCmd_PAUSE
HandlePAUSE(sv, id) == IF sv.session[id].token THEN Pause(sv, id) ELSE sv

\* handleCmd_TEARDOWN: the session goes with its only stream.  (Before any
\* stream is set up the request is not supported.)
HandleTEARDOWN(sv, id) == IF sv.session[id].token THEN DeleteSession(sv, id) ELSE sv

\* The connection that gets the requests on s: the one of this socket, or the
\* handler of its descriptor.
Listener(sv, s) == IF sv.reader[s] = "descriptor" THEN sv.handler[s] ELSE s

\* The requests on s are heard by a connection.
Hears(sv, s) ==
    /\ s \in sv.connections
    /\ sv.reader[s] # "nobody"
    /\ Listener(sv, s) \in Sockets

\* A request can come in on s.
Incoming(s) == s \in there /\ Hears(server, s)

\* The units a source may have at hand when it is asked: none, or one.
AtHand == {{}} \union {{size} : size \in NalSizes}

Setup(s, id, overTCP) ==
    /\ Incoming(s)
    /\ server' = LeaveReadLoop(HandleSETUP(
                     CreateSession(EnterReadLoop(server, s), id),
                     Listener(server, s), id, overTCP))
    /\ UNCHANGED there

\* The same with a Range or x-playNow header: the stream is played as well.  (If
\* its old one was the last of the descriptor that has read the request, the
\* new one's channels go with this descriptor.)
SetupAndPlay(s, id, overTCP, atHand, fails) ==
    /\ Incoming(s)
    /\ LET t == Listener(server, s)
       IN  server' = LeaveReadLoop(HandlePLAY(
                         HandleSETUP(CreateSession(EnterReadLoop(server, s), id),
                                     t, id, overTCP),
                         t, id, atHand, fails))
    /\ UNCHANGED there

\* The requested stream does not exist: a new session stays, without a stream.
SetupNotFound(s, id) ==
    /\ Incoming(s)
    /\ server' = CreateSession(server, id)
    /\ UNCHANGED there

Play(s, id, atHand, fails) ==
    /\ Incoming(s)
    /\ server.session[id].exists
    /\ server' = LeaveReadLoop(HandlePLAY(EnterReadLoop(server, s),
                                          Listener(server, s), id, atHand, fails))
    /\ UNCHANGED there

PauseRequest(s, id) ==
    /\ Incoming(s)
    /\ server.session[id].exists
    /\ server' = LeaveReadLoop(HandlePAUSE(EnterReadLoop(server, s), id))
    /\ UNCHANGED there

Teardown(s, id) ==
    /\ Incoming(s)
    /\ server.session[id].exists
    /\ server' = LeaveReadLoop(HandleTEARDOWN(EnterReadLoop(server, s), id))
    /\ UNCHANGED there

\* handleRequestBytes when a request outgrows the buffer.  If the descriptor
\* that has read it still has channels, it goes on to read the closed socket.
RequestTooLong(s) ==
    /\ Incoming(s)
    /\ LET left == LeaveReadLoop(CloseConnection(EnterReadLoop(server, s),
                                                 Listener(server, s)))
       IN  server' = IF left.channels[s] # {} /\ s \notin left.connections
                     THEN ReadError(left, s)
                     ELSE left
    /\ UNCHANGED there

\* A byte of a request for a handler that has been deleted.
RequestToDeleted(s) ==
    /\ s \in there
    /\ server.reader[s] = "descriptor" /\ server.handler[s] = Deleted
    /\ server' = [server EXCEPT !.undefined = TRUE]
    /\ UNCHANGED there

-----------------------------------------------------------------------------
(***************************************************************************)
(* What else happens.                                                      *)
(***************************************************************************)

\* incomingConnectionHandlerOnSocket
Accept(s) ==
    /\ s \notin server.connections
    /\ server' = [server EXCEPT !.connections = @ \union {s},
                                !.reader[s] = "connection"]
    /\ there' = there \union {s}

\* The client closes its end.
ClientLeaves(s) ==
    /\ s \in server.connections /\ s \in there
    /\ there' = there \ {s}
    /\ UNCHANGED server

\* incomingRequestHandler of a connection whose client has gone.
ConnectionReadsEnd(s) ==
    /\ s \notin there /\ server.reader[s] = "connection"
    /\ server' = CloseConnection(server, s)
    /\ UNCHANGED there

\* The descriptor waits for the rest of a packet that does not come: an error
\* in the interface's read handler is none for the descriptor.
Awaits(s) == server.awaiting[s] \intersect server.channels[s] # {}

\* The client closes its end within an RTCP packet.
ClientLeavesWithinPacket(s, id) ==
    /\ s \in server.connections /\ s \in there
    /\ server.reader[s] = "descriptor" /\ RTCP(id) \in server.channels[s]
    /\ server' = [server EXCEPT !.awaiting[s] = {RTCP(id)}]
    /\ there' = there \ {s}

\* tcpReadHandler of its descriptor: the connection, if it is told, goes.
DescriptorReadsEnd(s) ==
    /\ s \notin there /\ server.reader[s] = "descriptor" /\ ~Awaits(s)
    /\ server' = ReadError(server, s)
    /\ UNCHANGED there

\* The source delivers the unit that a sink waits for.
FrameArrives(id, size, fails) ==
    /\ id \in server.asked
    /\ server' = AfterGettingFrame(server, id, size, fails)
    /\ UNCHANGED there

\* sendNext, the task of a sink.
SendNext(id, atHand, fails) ==
    /\ server.session[id].sink = "sending"
    /\ server' = BuildAndSendPacket(server, id, atHand, fails)
    /\ UNCHANGED there

\* onExpire, the task of an RTCP instance.
ReportIsDue(id, fails) ==
    /\ server.session[id].rtcp
    /\ server' = SendReport(server, id, fails)
    /\ UNCHANGED there

\* livenessTimeoutTask: nothing was heard of the client for a minute.  What
\* there is to read has been read by then.
LivenessTimeout(id) ==
    /\ server.session[id].exists
    /\ \A s \in Sockets \ there : server.reader[s] = "nobody" \/ Awaits(s)
    /\ server' = DeleteSession(server, id)
    /\ UNCHANGED there

Init ==
    /\ server = [connections   |-> {},
                 reader        |-> [s \in Sockets |-> "nobody"],
                 channels      |-> [s \in Sockets |-> {}],
                 handler       |-> [s \in Sockets |-> NoSocket],
                 awaiting      |-> [s \in Sockets |-> {}],
                 readLoop      |-> NoSocket,
                 deleteNext    |-> FALSE,
                 interface     |-> [c \in Channels |-> NoSocket],
                 streamingOn   |-> [s \in Sockets |-> <<>>],
                 session       |-> [id \in Sessions |-> NoSession],
                 replicas      |-> {},
                 asked         |-> {},
                 internalError |-> FALSE,
                 undefined     |-> FALSE]
    /\ there = {}

Request(s, id) ==
    \/ \E overTCP \in BOOLEAN :
           \/ Setup(s, id, overTCP)
           \/ \E atHand \in AtHand, fails \in SUBSET Kinds :
                  SetupAndPlay(s, id, overTCP, atHand, fails)
    \/ SetupNotFound(s, id)
    \/ \E atHand \in AtHand, fails \in SUBSET Kinds : Play(s, id, atHand, fails)
    \/ PauseRequest(s, id)
    \/ Teardown(s, id)

SocketHandler(s) ==
    \/ Accept(s)
    \/ ConnectionReadsEnd(s)
    \/ DescriptorReadsEnd(s)
    \/ RequestTooLong(s)
    \/ RequestToDeleted(s)

Client(s) ==
    \/ ClientLeaves(s)
    \/ \E id \in Sessions : ClientLeavesWithinPacket(s, id)

Task(id) ==
    \/ \E size \in NalSizes, fails \in SUBSET {"rtp"} :
           FrameArrives(id, size, fails)
    \/ \E atHand \in AtHand, fails \in SUBSET {"rtp"} :
           SendNext(id, atHand, fails)
    \/ \E fails \in SUBSET {"rtcp"} : ReportIsDue(id, fails)
    \/ LivenessTimeout(id)

Next ==
    /\ ~server.undefined
    /\ \/ \E s \in Sockets, id \in Sessions : Request(s, id)
       \/ \E s \in Sockets : SocketHandler(s) \/ Client(s)
       \/ \E id \in Sessions : Task(id)

Spec == Init /\ [][Next]_vars

-----------------------------------------------------------------------------
(***************************************************************************)
(* Properties.                                                             *)
(***************************************************************************)

TypeOK ==
    /\ there \subseteq Sockets
    /\ server \in
        [connections   : SUBSET Sockets,
         reader        : [Sockets -> {"nobody", "connection", "descriptor"}],
         channels      : [Sockets -> SUBSET Channels],
         handler       : [Sockets -> Sockets \union {NoSocket, Deleted}],
         awaiting      : [Sockets -> SUBSET Channels],
         readLoop      : {NoSocket},
         deleteNext    : {FALSE},
         interface     : [Channels -> Sockets \union {NoSocket}],
         streamingOn   : [Sockets -> SeqOf(Sessions, Cardinality(Sessions))],
         session       :
            [Sessions ->
                [exists      : BOOLEAN,
                 token       : BOOLEAN,
                 socket      : Sockets \union {NoSocket},
                 interleaved : BOOLEAN,
                 rtcp        : BOOLEAN,
                 playing     : BOOLEAN,
                 sink        : {"stopped", "waiting", "sending"},
                 left        : Leftovers]],
         replicas      : SUBSET Sessions,
         asked         : SUBSET Sessions,
         internalError : BOOLEAN,
         undefined     : BOOLEAN]

\* Sessions stream over s.
StreamsOver(s) ==
    {id \in Sessions : server.session[id].token /\ server.session[id].socket = s}

\* Those of them that were last set up over TCP.
Interleaved(s) == {id \in StreamsOver(s) : server.session[id].interleaved}

\* What the server's table of streaming over TCP says of a socket is what the
\* sessions were told: each session once whose last SETUP was over TCP, in
\* whatever order requests, time-outs and closing connections came
\* (noteTCPStreamingOnSocket and unnoteTCPStreamingOnSocket in five handlers).
TableAgrees ==
    \A s \in Sockets :
        /\ ToSet(server.streamingOn[s]) = Interleaved(s)
        /\ IsInjective(server.streamingOn[s])

\* A descriptor's channels are interfaces that send over its socket, and are of
\* streams over that socket; no such interface of a session set up over TCP is
\* unknown to the descriptor, whatever sessions set up for UDP do on the same
\* socket.  A descriptor that reads, or has a handler, has channels; no handler
\* is a connection that has gone without being marked so; and a closed socket
\* is not watched.
DescriptorsAgree ==
    \A s \in Sockets :
        /\ \A c \in server.channels[s] :
               server.interface[c] = s /\ c[1] \in StreamsOver(s)
        /\ \A c \in Interleaved(s) \X Kinds :
               server.interface[c] = s => c \in server.channels[s]
        /\ server.reader[s] = "descriptor" => server.channels[s] # {}
        /\ server.handler[s] # NoSocket => server.channels[s] # {}
        /\ server.handler[s] \in server.connections \union {NoSocket, Deleted}
        /\ server.reader[s] # "nobody" =>
               s \in server.connections \/ server.undefined

\* When a connection goes, so do the streams that were set up over it: the next
\* connection may have its socket's number, and must not get another client's
\* packets (closeSocketsRTSP).  Streams set up again for UDP are excepted: they
\* keep the socket, and go on.
StreamsHaveConnections ==
    \A s \in Sockets \ server.connections : Interleaved(s) = {}

\* The replicator has exactly the replicas of the streams, and is asked by
\* exactly those whose sinks wait; a sink waits or has its task exactly while
\* its stream plays; a fragmenter has something left only for a task to come
\* ("Make sure that we don't have any stale data fragments lying around",
\* H264or5VideoRTPSink.cpp:268); and nobody asks twice.
PlayersAgree ==
    /\ ~server.internalError
    /\ \A id \in Sessions :
        LET session == server.session[id]
        IN  /\ session.token <=> id \in server.replicas
            /\ session.sink = "waiting" <=> id \in server.asked
            /\ session.sink # "stopped" <=> session.playing
            /\ session.playing => session.token
            /\ session.left > 0 => session.sink = "sending"

\* The connection on s hears its client, and nobody else will be given the
\* socket back.
HearsItself(sv, s) ==
    /\ Hears(sv, s)
    /\ HasDescriptor(sv, s) => sv.handler[s] = s

\* A step that ends a stream over s, by request or time-out.
EndsStreamOver(s) ==
    \E id \in StreamsOver(s) :
        \/ LivenessTimeout(id)
        \/ \E r \in Sockets :
               \/ Teardown(r, id)
               \/ \E overTCP \in BOOLEAN :
                      \/ Setup(r, id, overTCP)
                      \/ \E atHand \in AtHand, fails \in SUBSET Kinds :
                             SetupAndPlay(r, id, overTCP, atHand, fails)

\* A stream over s is played at the request of another connection.
PlaysFromElsewhere(s) ==
    \E id \in StreamsOver(s), r \in Sockets, atHand \in AtHand,
       fails \in SUBSET Kinds :
        Listener(server, r) # s /\ Play(r, id, atHand, fails)

\* A connection stops hearing its client only by closing, when a stream over it
\* is ended (endPlaying clears the descriptor's handler), or when one is played
\* from another connection (which becomes the handler).  No failed packet, no
\* stream that starts or pauses on the same socket, and nothing that happens to
\* other connections silences it: the descriptor hands the socket back.  Streams
\* set up over TCP and then for UDP are excepted, as they share one channel.
HeardUntilEnded ==
    [][\A s \in Sockets :
           HearsItself(server, s) /\ ~HearsItself(server, s)' =>
               \/ s \notin server.connections'
               \/ StreamsOver(s) # Interleaved(s)
               \/ EndsStreamOver(s)
               \/ PlaysFromElsewhere(s)]_vars

\* The packets of a NAL unit of any size up to the largest are marked as the
\* receiver expects, fit, and are the whole unit, in order.
EveryUnitIsWhole ==
    \A size \in UNION {1 .. largest : largest \in NalSizes} :
        LET payloads == Fragments(size, MaxPayload)
        IN  /\ WellMarked(payloads)
            /\ \A i \in DOMAIN payloads : Len(payloads[i]) <= MaxPayload
            /\ Reassembled(payloads) = [n \in 1 .. size |-> Data(n)]

\* Whatever unit a sink that waits is given, the client gets it as it was,
\* although the fragmenter writes its headers into the unit itself
\* (H264or5VideoRTPSink.cpp:202-255).
FragmentsAreWhole == server.asked # {} => EveryUnitIsWhole
=============================================================================
