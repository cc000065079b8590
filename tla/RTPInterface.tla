---------------------------- MODULE RTPInterface ----------------------------
(***************************************************************************)
(* RTP and RTCP over the TCP connection of an RTSP client, interleaved     *)
(* with its requests.                                                      *)
(*                                                                         *)
(* While channels of a connection's socket are in use, a SocketDescriptor   *)
(* reads the socket in the connection's place: it hands packets to the     *)
(* channels' interfaces, and the bytes of requests to a connection, its    *)
(* "alternative byte handler".  With its last channel the descriptor goes, *)
(* and tells that connection to read its own socket again.                 *)
(*                                                                         *)
(* The objects of the event loop's thread are one record, sv; its methods  *)
(* are functions from record to record, called like the methods are.  The  *)
(* fields this module uses are                                             *)
(*   connections the sockets of the connections there are                  *)
(*   reader      by socket: who handles what can be read from it           *)
(*   channels    by socket: fSubChannelHashTable                           *)
(*   handler     by socket: the connection that is the descriptor's        *)
(*               alternative byte handler; nothing clears it when that     *)
(*               connection is deleted                                     *)
(*   awaiting    by socket: the channels of the interface for whose packet *)
(*               the descriptor waits, its end being there already         *)
(*   interface   by session and kind: the socket in fTCPStreams            *)
(*   session     of which only interleaved matters here                    *)
(*   readLoop    the socket whose descriptor is in its tcpReadHandler      *)
(*   deleteNext  fDeleteMyselfNext of that descriptor                      *)
(*   undefined   a deleted connection has been called, or select() is      *)
(*               asked for a closed socket, on which the scheduler aborts  *)
(* A channel is the interface it belongs to: clients do not use one        *)
(* channel number of a connection twice, nor 0xFF.  That is the number of  *)
(* both channels of a session that was set up over TCP first and for UDP   *)
(* then, because it keeps its socket.                                      *)
(***************************************************************************)
EXTENDS Sequences, FiniteSets

CONSTANTS
    Sockets,    \* the numbers of the sockets for connections
    Sessions,   \* the identifiers of client sessions
    NoSocket,   \* -1
    Deleted     \* a connection that has been deleted

ASSUME NoSocketAssumption == NoSocket \notin Sockets
ASSUME DeletedAssumption == Deleted \notin Sockets \union {NoSocket}

Kinds == {"rtp", "rtcp"}
Channels == Sessions \X Kinds

\* The channels with the number of this one, on the same socket.
SameChannel(sv, channel) ==
    IF sv.session[channel[1]].interleaved THEN {channel}
    ELSE {c \in Channels : ~sv.session[c[1]].interleaved}

\* lookupSocketDescriptor: s has one as long as it has channels, or is still
\* to be deleted.
HasDescriptor(sv, s) ==
    sv.channels[s] # {} \/ (sv.deleteNext /\ sv.readLoop = s)

\* ~SocketDescriptor up to the handler's turn: it reads no more, and no
\* interface uses the socket any more.
Disposed(sv, s) ==
    [sv EXCEPT
        !.reader[s] = "nobody",
        !.handler[s] = NoSocket,
        !.channels[s] = {},
        !.awaiting[s] = {},
        !.interface = [c \in Channels |-> IF c \in sv.channels[s] THEN NoSocket
                                          ELSE sv.interface[c]]]

\* Mutant: the handler gets the socket back only if reading failed.
DisposeSilently(sv, s) == Disposed(sv, s)

\* ~SocketDescriptor without read error, and handleAlternativeRequestByte1
\* with 0xFE: the connection called takes its own socket back.
Dispose(sv, s) ==
    LET t        == sv.handler[s]
        disposed == Disposed(sv, s)
    IN  IF t \in Sockets THEN [disposed EXCEPT !.reader[t] = "connection"]
        ELSE [disposed EXCEPT !.undefined = @ \/ t = Deleted]

\* deregisterRTPInterface: in its read loop the descriptor does not delete
\* itself yet.
Deregister(sv, s, channel) ==
    LET gone == [sv EXCEPT !.channels[s] = @ \ SameChannel(sv, channel)]
    IN  IF sv.channels[s] = {} \/ gone.channels[s] # {} THEN gone
        ELSE IF sv.readLoop = s THEN [gone EXCEPT !.deleteNext = TRUE]
        ELSE Dispose(gone, s)

\* RTPInterface::removeStreamSocket
RemoveStreamSocket(sv, channel, s) ==
    IF sv.interface[channel] # s THEN sv
    ELSE Deregister([sv EXCEPT !.interface[channel] = NoSocket], s, channel)

\* registerRTPInterface, of a new descriptor if there is none.
Register(sv, channel, s) ==
    LET added == [sv EXCEPT
                     !.channels[s] =
                         (@ \ SameChannel(sv, channel)) \union {channel}]
    IN  IF sv.channels[s] # {} THEN added
        ELSE [added EXCEPT !.reader[s] = "descriptor",
                           !.undefined = @ \/ s \notin sv.connections]

\* RTPInterface::addStreamSocket
AddStreamSocket(sv, channel, s) ==
    IF sv.interface[channel] = s THEN sv
    ELSE Register([sv EXCEPT !.interface[channel] = s], channel, s)

\* RTCPInstance::addStreamSocket, which registers the channel in any case:
\* startNetworkReading does.
AddRTCPSocket(sv, channel, s) ==
    Register([sv EXCEPT !.interface[channel] = s], channel, s)

\* setServerRequestAlternativeByteHandler: for a descriptor, if there is one.
SetHandler(sv, s, t) ==
    IF HasDescriptor(sv, s) THEN [sv EXCEPT !.handler[s] = t] ELSE sv

\* clearServerRequestAlternativeByteHandler
ClearHandler(sv, s) == SetHandler(sv, s, NoSocket)

\* RTPInterface::sendPacket: by UDP, and over its socket if it has one.  If
\* that fails for good, not just for a full buffer, it is not used any more.
SendPacket(sv, channel, fails) ==
    IF fails /\ sv.interface[channel] # NoSocket
    THEN RemoveStreamSocket(sv, channel, sv.interface[channel])
    ELSE sv

\* tcpReadHandler for socket s begins, if a descriptor handles it.
EnterReadLoop(sv, s) ==
    IF sv.reader[s] = "descriptor" THEN [sv EXCEPT !.readLoop = s] ELSE sv

\* Mutant: the descriptor forgets to delete itself.
LeaveReadLoopOnly(sv) ==
    [sv EXCEPT !.readLoop = NoSocket, !.deleteNext = FALSE]

\* It ends: now the descriptor can be deleted.
LeaveReadLoop(sv) ==
    LET left == [sv EXCEPT !.readLoop = NoSocket, !.deleteNext = FALSE]
    IN  IF sv.deleteNext THEN Dispose(left, sv.readLoop) ELSE left
=============================================================================
