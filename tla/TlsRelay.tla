------------------------------ MODULE TlsRelay ------------------------------
(***************************************************************************)
(* One session that does not use a pipeline, end to end: the ClientSession *)
(* (a SOCKS5 front end for CONNECT and UDP ASSOCIATE) or a NATSession or   *)
(* ForwardSession derived from it, the TLS connection, and at the server a *)
(* ServerSession.  When the server runs pipelines, a PipelineSession       *)
(* accepts the connection, finds that the first line is not its password   *)
(* and hands the socket over to a ServerSession.                           *)
(*                                                                         *)
(* Both programs are single threaded: a step is one completion handler.    *)
(* The asynchronous operations a session has begun are a set, ops; an      *)
(* operation that is begun twice sets clash.                               *)
(*                                                                         *)
(* Abstractions.  A unit of a byte stream is a number; Req is the trojan   *)
(* request, which fits in one read.  Datagram n is the units 2n - 1 and 2n *)
(* of a stream of UDPPackets.  A read of the TLS connection returns any    *)
(* number of the units that were written.  A write is visible to the other *)
(* end when it is begun; one that is under way when the session is         *)
(* destroyed may be lost or cut.                                           *)
(*                                                                         *)
(* What destroy() does not stop.  A name that is being resolved, and a     *)
(* handler that is already queued with success, come to their end all the  *)
(* same: a resolution, a dial and the guard of the UDP read outlive the    *)
(* session, and the handlers of the first two test no status.              *)
(***************************************************************************)
EXTENDS Integers, Sequences, SequencesExt, FiniteSetsExt

CONSTANTS MaxUp,     \* units or datagrams that the application sends
          MaxDown,   \* units or datagrams that the target sends
          LineMax    \* MAX_PASSWORD_LENGTH, in units

ASSUME BoundsAssumption == {MaxUp, MaxDown, LineMax} \subseteq Nat

VARIABLES setup,    \* who talks to whom, and with which password
          cs,       \* the ClientSession
          srv,      \* the ServerSession
          front,    \* the PipelineSession, when there is one
          link,     \* link[d]: the writes of the TLS connection not yet read
          eof,      \* eof[d]: its writer has shut the connection down
          made,     \* what the application and the target have sent
          closed    \* the application, the target have closed

vars == <<setup, cs, srv, front, link, eof, made, closed>>

Dir == {"up", "down"}
Req == 0
\* UDPPacket::generate, and whether UDPPacket::parse finds a packet.
Packet(n) == <<2 * n - 1, 2 * n>>
Whole(buf) == Len(buf) >= 2
Size == IF setup.kind = "udp" THEN 2 ELSE 1

\* cred is what the first line of the request holds: a password of the
\* configuration, the password of a user of the Authenticator, none of these,
\* or no line end at all.
Setup ==
  {s \in [origin : {"socks", "nat"}, kind : {"tcp", "udp"},
          front : {"ServerSession", "PipelineSession"},
          cred : {"listed", "user", "wrong", "raw"}] :
     /\ s.origin = "nat" => s.kind = "tcp"
     /\ s.cred = "raw" => s.origin = "nat"}

Client ==
  [status : {"HANDSHAKE", "REQUEST", "CONNECT", "FORWARD", "UDP_FORWARD",
             "INVALID", "DESTROY"},
   ops : SUBSET {"in_read", "in_write", "dial", "out_read", "out_write",
                 "udp_read", "udp_write"},
   clash : BOOLEAN, data : Seq(Nat), udpBuf : Seq(Nat),
   late : BOOLEAN,   \* connected after destroy closed its other sockets
   toApp : Seq(Nat), cause : {"", "eof", "error"}]      \* history
Server ==
  [status : {"NONE", "HANDSHAKE", "FORWARD", "UDP_FORWARD", "DESTROY"},
   ops : SUBSET {"handshake", "in_read", "in_write", "dial", "out_read",
                 "out_write", "resolve", "udp_read", "udp_write"},
   clash : BOOLEAN, data : Seq(Nat), outBuf : Seq(Nat), udpBuf : Seq(Nat),
   peer : {"none", "requested", "fallback"}, user : BOOLEAN, udpOpen : BOOLEAN,
   recorded : Nat, toTarget : Seq(Nat), cause : {"", "eof", "error"},  \* history
   late : BOOLEAN]   \* history: connected after destroy
PassFront ==
  [status : {"NONE", "HANDSHAKE", "DESTROY"}, ops : SUBSET {"handshake", "in_read"},
   timer : BOOLEAN, socket : BOOLEAN, buf : Seq(Nat)]

TypeOK ==
  /\ setup \in Setup /\ cs \in Client /\ srv \in Server /\ front \in PassFront
  /\ link \in [Dir -> Seq(Nat)] /\ eof \in [Dir -> BOOLEAN]
  /\ made \in [Dir -> Nat] /\ closed \in [Dir -> BOOLEAN]

-----------------------------------------------------------------------------
Begin(s, op) == [s EXCEPT !.clash = @ \/ op \in s.ops, !.ops = @ \cup {op}]
Done(s, op) == [s EXCEPT !.ops = @ \ {op}]

\* async_write on the TLS connection.
Write(d, data) == link' = [link EXCEPT ![d] = @ \o data]

\* What a read of the TLS connection returns, and what it leaves.
Arrived(d, k) == SubSeq(link[d], 1, k)
Taken(d, k) == [link EXCEPT ![d] = SubSeq(@, k + 1, Len(@))]

\* shutdown_ssl_socket, with a write that is under way or not.
Shutdown(d, writing) ==
  /\ eof' = [eof EXCEPT ![d] = TRUE]
  /\ \E lost \in 0..(IF writing THEN Min({Size, Len(link[d])}) ELSE 0) :
       link' = [link EXCEPT ![d] = SubSeq(@, 1, Len(@) - lost)]

\* ClientSession::destroy: the handlers of what was begun end with errors, but
\* for that of a dial.  Without a connection there is nothing to shut down.
ClientDestroy(c, why) ==
  /\ cs' = [c EXCEPT !.status = "DESTROY", !.ops = @ \cap {"dial"}, !.cause = why]
  /\ IF c.status \in {"FORWARD", "UDP_FORWARD"}
     THEN Shutdown("up", "out_write" \in c.ops)
     ELSE UNCHANGED <<link, eof>>

\* ServerSession::destroy records what the user of the Authenticator used.
\* A resolution or a connection that is made is not cancelled any more, and the
\* read of the UDP socket ends when its aborted handler runs.
ServerDestroyed(s, why) ==
  [s EXCEPT !.status = "DESTROY", !.ops = @ \cap {"resolve", "dial", "udp_read"},
            !.udpOpen = FALSE, !.recorded = IF s.user THEN @ + 1 ELSE @,
            !.cause = why]
ServerDestroyUnguarded(s, why) ==
  /\ srv' = ServerDestroyed(s, why)
  /\ Shutdown("down", "in_write" \in s.ops)
ServerDestroy(s, why) ==
  IF s.status = "DESTROY"
  THEN srv' = s /\ UNCHANGED <<link, eof>>
  ELSE srv' = ServerDestroyed(s, why) /\ Shutdown("down", "in_write" \in s.ops)

\* start() at the client.  A NATSession asks for the remote server at once, a
\* ClientSession first reads from its SOCKS5 client.
Init ==
  /\ setup \in Setup
  /\ cs = [status |-> IF setup.origin = "nat" THEN "CONNECT" ELSE "HANDSHAKE",
           ops |-> IF setup.origin = "nat" THEN {"dial"} ELSE {"in_read"},
           clash |-> FALSE, data |-> <<>>, udpBuf |-> <<>>, late |-> FALSE,
           toApp |-> <<>>, cause |-> ""]
  /\ srv = [status |-> "NONE", ops |-> {}, clash |-> FALSE, data |-> <<>>,
            outBuf |-> <<>>, udpBuf |-> <<>>, peer |-> "none", user |-> FALSE,
            udpOpen |-> FALSE, recorded |-> 0, toTarget |-> <<>>, cause |-> "",
            late |-> FALSE]
  /\ front = [status |-> "NONE", ops |-> {}, timer |-> FALSE, socket |-> FALSE,
              buf |-> <<>>]
  /\ link = [d \in Dir |-> <<>>] /\ eof = [d \in Dir |-> FALSE]
  /\ made = [d \in Dir |-> 0] /\ closed = [d \in Dir |-> FALSE]

-----------------------------------------------------------------------------
(* The client: from the SOCKS5 exchange to request_remote.                   *)

\* ClientSession::in_recv in HANDSHAKE and REQUEST.  What the SOCKS5 client
\* asks for may be malformed, or well formed and refused with a reply.
SocksRecv ==
  LET c == Done(cs, "in_read") IN
  /\ "in_read" \in cs.ops /\ cs.status \in {"HANDSHAKE", "REQUEST"}
  /\ \/ cs' = Begin(c, "in_write") /\ UNCHANGED <<link, eof>>
     \/ /\ cs' = Begin([c EXCEPT !.status = "INVALID"], "in_write")
        /\ UNCHANGED <<link, eof>>
     \/ ClientDestroy(c, "error")
  /\ UNCHANGED <<setup, srv, front, made, closed>>

\* in_sent
ClientInSent ==
  LET c == [Done(cs, "in_write") EXCEPT !.toApp = @ \o cs.data] IN
  /\ "in_write" \in cs.ops
  /\ \/ /\ cs.status = "HANDSHAKE"
        /\ cs' = Begin([c EXCEPT !.status = "REQUEST"], "in_read")
        /\ UNCHANGED <<link, eof>>
     \/ /\ cs.status = "REQUEST"
        /\ cs' = Begin([c EXCEPT !.status = "CONNECT"], "dial")
        /\ UNCHANGED <<link, eof>>
     \/ /\ cs.status = "FORWARD"
        /\ cs' = Begin(c, "out_read")
        /\ UNCHANGED <<link, eof>>
     \/ cs.status = "INVALID" /\ ClientDestroy(c, "error")
  /\ UNCHANGED <<setup, srv, front, made, closed>>

\* request_remote: the TLS connection is made and the request is sent.  The
\* server has accepted it, with the kind of session it was configured for.
RequestRemote(c) ==
  Begin(Begin([Done(c, "dial") EXCEPT
                 !.status = IF setup.kind = "udp" THEN "UDP_FORWARD" ELSE "FORWARD",
                 !.late = c.status = "DESTROY"],
              "out_read"), "out_write")
AsyncAccept ==
  IF setup.front = "ServerSession"
  THEN /\ srv' = [srv EXCEPT !.status = "HANDSHAKE", !.ops = {"handshake"}]
       /\ UNCHANGED front
  ELSE /\ front' = [front EXCEPT !.status = "HANDSHAKE", !.ops = {"handshake"},
                                 !.timer = TRUE, !.socket = TRUE]
       /\ UNCHANGED srv
\* The handler tests no status.  A UDP session may have been destroyed by its
\* idle timer while the name of the server was resolved; in a TCP session only
\* the timeout of the connection destroys it before, and closes the socket.
ClientDialed ==
  /\ "dial" \in cs.ops
  /\ cs.status = "DESTROY" => setup.kind = "udp"
  /\ cs' = RequestRemote(cs)
  /\ Write("up", <<Req>>)
  /\ AsyncAccept
  /\ UNCHANGED <<setup, eof, made, closed>>

\* The resolution, the connection or the TLS handshake fails.
ClientDialFailed ==
  /\ "dial" \in cs.ops
  /\ \/ cs.status # "DESTROY" /\ ClientDestroy(Done(cs, "dial"), "error")
     \/ /\ cs.status = "DESTROY" /\ cs' = Done(cs, "dial")
        /\ UNCHANGED <<link, eof>>
  /\ UNCHANGED <<setup, srv, front, made, closed>>

-----------------------------------------------------------------------------
(* The client: relaying.                                                     *)

\* in_recv in FORWARD: the application sent data.
ClientInRecv ==
  /\ "in_read" \in cs.ops /\ cs.status = "FORWARD" /\ made["up"] < MaxUp
  /\ made' = [made EXCEPT !["up"] = @ + 1]
  /\ cs' = Begin(Done(cs, "in_read"), "out_write")
  /\ Write("up", <<made["up"] + 1>>)
  /\ UNCHANGED <<setup, srv, front, eof, closed>>

\* udp_recv: the application sent a datagram.  An empty one is ignored, and
\* nothing reads the socket again; a malformed one ends the session.
UdpRecv ==
  LET c == Done(cs, "udp_read") IN
  /\ "udp_read" \in cs.ops /\ ~cs.late
  /\ \/ /\ made["up"] < MaxUp
        /\ made' = [made EXCEPT !["up"] = @ + 1]
        /\ cs' = Begin(c, "out_write")
        /\ Write("up", Packet(made["up"] + 1))
        /\ UNCHANGED eof
     \/ cs' = c /\ UNCHANGED <<link, eof, made>>
     \/ ClientDestroy(c, "error") /\ UNCHANGED made
  /\ UNCHANGED <<setup, srv, front, closed>>

\* out_sent
OutSentBoth(c) == Begin(Begin(c, "in_read"), "udp_read")
OutSent(c) == Begin(c, IF c.status = "UDP_FORWARD" THEN "udp_read" ELSE "in_read")
ClientOutSent ==
  /\ "out_write" \in cs.ops
  /\ cs' = OutSent(Done(cs, "out_write"))
  /\ UNCHANGED <<setup, srv, front, link, eof, made, closed>>

\* udp_sent: the next packet of udp_data_buf goes to the application; when
\* there is no whole packet, the session reads on.
UdpSentPartial(c) ==
  IF c.udpBuf # <<>>
  THEN Begin([c EXCEPT !.data = SubSeq(c.udpBuf, 1, Min({2, Len(c.udpBuf)})),
                       !.udpBuf = SubSeq(@, 3, Len(@))], "udp_write")
  ELSE Begin(c, "out_read")
UdpSentStopping(c) ==
  IF Whole(c.udpBuf)
  THEN Begin([c EXCEPT !.data = SubSeq(c.udpBuf, 1, 2),
                       !.udpBuf = SubSeq(@, 3, Len(@))], "udp_write")
  ELSE c
UdpSent(c) ==
  IF Whole(c.udpBuf)
  THEN Begin([c EXCEPT !.data = SubSeq(c.udpBuf, 1, 2),
                       !.udpBuf = SubSeq(@, 3, Len(@))], "udp_write")
  ELSE Begin(c, "out_read")

\* out_recv: a part of what the server wrote arrives.
ClientOutRecv ==
  LET c == Done(cs, "out_read") IN
  /\ "out_read" \in cs.ops
  /\ \E k \in 1..Len(link["down"]) :
       /\ link' = Taken("down", k)
       /\ cs' = IF cs.status = "UDP_FORWARD"
                THEN UdpSent([c EXCEPT !.udpBuf = @ \o Arrived("down", k)])
                ELSE Begin([c EXCEPT !.data = Arrived("down", k)], "in_write")
  /\ UNCHANGED <<setup, srv, front, eof, made, closed>>

ClientUdpSent ==
  /\ "udp_write" \in cs.ops /\ ~cs.late
  /\ cs' = UdpSent([Done(cs, "udp_write") EXCEPT !.toApp = @ \o cs.data])
  /\ UNCHANGED <<setup, srv, front, link, eof, made, closed>>

\* The application or the server has closed, which the read under way meets, or
\* the socket for the datagrams was closed when the session was destroyed before.
ClientEof ==
  /\ \/ "in_read" \in cs.ops /\ closed["up"] /\ ClientDestroy(cs, "error")
     \/ /\ "out_read" \in cs.ops /\ eof["down"] /\ link["down"] = <<>>
        /\ ClientDestroy(cs, "eof")
     \/ /\ cs.late /\ {"udp_read", "udp_write"} \cap cs.ops # {}
        /\ ClientDestroy(cs, "error")
  /\ UNCHANGED <<setup, srv, front, made, closed>>

\* An operation fails, the idle timer of a UDP session fires, or a connection
\* takes too long.
ClientError ==
  /\ cs.status # "DESTROY"
  /\ ClientDestroy(cs, "error")
  /\ UNCHANGED <<setup, srv, front, made, closed>>

-----------------------------------------------------------------------------
(* The server: from the handshake to the connection to the target.           *)

\* out_udp_sent: the next packet of udp_data_buf goes to its target, after a
\* resolution when it names a domain.  The first one opens the socket.
SendUdp(s) ==
  LET t == IF s.udpOpen THEN s ELSE Begin([s EXCEPT !.udpOpen = TRUE], "udp_read")
  IN  Begin([t EXCEPT !.toTarget = @ \o SubSeq(s.udpBuf, 1, 2),
                      !.udpBuf = SubSeq(@, 3, Len(@))], "udp_write")
OutUdpSent(s, resolve) ==
  IF ~Whole(s.udpBuf) THEN Begin(s, "in_read")
  ELSE IF resolve THEN Begin(s, "resolve") ELSE SendUdp(s)

\* Authenticator::auth: the password is that of a user, who has quota left
\* when it is asked.
Auth(quota) == setup.cred = "user" /\ quota

\* in_recv in HANDSHAKE.  A request that does not parse, or whose password
\* nobody knows, goes with all its bytes to the fallback; else what follows
\* the request is payload.
FirstRecvAnyone(s, data, quota, resolve) ==
  IF setup.kind = "udp"
  THEN OutUdpSent([s EXCEPT !.status = "UDP_FORWARD", !.udpBuf = Tail(data)], resolve)
  ELSE Begin([s EXCEPT !.outBuf = Tail(data), !.peer = "requested"], "dial")
FirstRecv(s, data, quota, resolve) ==
  LET t == [s EXCEPT !.user = Auth(quota)] IN
  IF ~(setup.cred = "listed" \/ t.user)
  THEN Begin([t EXCEPT !.outBuf = data, !.peer = "fallback"], "dial")
  ELSE IF setup.kind = "udp"
  THEN OutUdpSent([t EXCEPT !.status = "UDP_FORWARD", !.udpBuf = Tail(data)], resolve)
  ELSE Begin([t EXCEPT !.outBuf = Tail(data), !.peer = "requested"], "dial")

\* The TLS handshake of the session that accepted the connection ends.
ServerHandshake ==
  /\ "handshake" \in srv.ops
  /\ \/ /\ srv' = Begin(Done(srv, "handshake"), "in_read")
        /\ UNCHANGED <<link, eof>>
     \/ ServerDestroy(Done(srv, "handshake"), "error")
  /\ UNCHANGED front
FrontHandshake ==
  /\ "handshake" \in front.ops
  /\ \/ /\ front' = [front EXCEPT !.ops = {"in_read"}]
        /\ UNCHANGED <<link, eof>>
     \/ /\ front' = [front EXCEPT !.status = "DESTROY", !.ops = {}, !.timer = FALSE]
        /\ Shutdown("down", FALSE)
  /\ UNCHANGED srv
Handshake ==
  /\ ServerHandshake \/ FrontHandshake
  /\ UNCHANGED <<setup, cs, made, closed>>

\* move_socket_to_serversession, and what destroy() leaves of the front.
HandOver(f) == [f EXCEPT !.status = "DESTROY", !.ops = {}, !.timer = FALSE,
                         !.socket = FALSE, !.buf = <<>>]

\* PipelineSession::in_recv until the password line is complete, and
\* ServerSession::in_recv on what was read.
FrontRecv ==
  /\ "in_read" \in front.ops
  /\ \E k \in 1..Len(link["up"]), quota, resolve \in BOOLEAN :
       LET data == front.buf \o Arrived("up", k) IN
       /\ link' = Taken("up", k)
       /\ IF setup.cred = "raw" /\ Len(data) < LineMax
          THEN front' = [front EXCEPT !.buf = data] /\ UNCHANGED <<srv, eof>>
          ELSE /\ front' = HandOver(front)
               /\ eof' = [eof EXCEPT !["down"] = @ \/ front'.socket]
               /\ srv' = FirstRecv([srv EXCEPT !.status = "HANDSHAKE"], data, quota, resolve)
  /\ UNCHANGED <<setup, cs, made, closed>>

\* The front waits for a password for three seconds at most.
FrontTimeout ==
  /\ front.timer
  /\ front' = [front EXCEPT !.status = "DESTROY", !.ops = {}, !.timer = FALSE]
  /\ Shutdown("down", FALSE)
  /\ UNCHANGED <<setup, cs, srv, made, closed>>

FrontEof ==
  /\ "in_read" \in front.ops /\ eof["up"] /\ link["up"] = <<>>
  /\ front' = [front EXCEPT !.status = "DESTROY", !.ops = {}, !.timer = FALSE]
  /\ Shutdown("down", FALSE)
  /\ UNCHANGED <<setup, cs, srv, made, closed>>

\* connect_out_socket has reached the target.
ServerDialed ==
  LET s == Begin([Done(srv, "dial") EXCEPT !.status = "FORWARD"], "out_read") IN
  /\ "dial" \in srv.ops /\ srv.status # "DESTROY"
  /\ srv' = IF srv.outBuf # <<>>
            THEN Begin([s EXCEPT !.data = srv.outBuf, !.outBuf = <<>>], "out_write")
            ELSE Begin(s, "in_read")
  /\ UNCHANGED <<setup, cs, front, link, eof, made, closed>>

\* The same handler, queued when the timeout of the connection destroyed the
\* session: it sets FORWARD and reads out_socket, which destroy has closed, and
\* the failure of that read, queued next, destroys the session once more.
ServerDialedLate ==
  /\ "dial" \in srv.ops /\ srv.status = "DESTROY"
  /\ srv' = ServerDestroyed([Done(srv, "dial") EXCEPT !.late = TRUE], srv.cause)
  /\ UNCHANGED <<setup, cs, front, link, eof, made, closed>>

\* The resolution or the connection fails, or is aborted by destroy.
ServerDialFailed ==
  /\ "dial" \in srv.ops
  /\ ServerDestroy(Done(srv, "dial"), "error")
  /\ UNCHANGED <<setup, cs, front, made, closed>>

-----------------------------------------------------------------------------
(* The server: relaying.                                                     *)

\* in_recv
ServerInRecv ==
  LET s == Done(srv, "in_read") IN
  /\ "in_read" \in srv.ops
  /\ \E k \in 1..Len(link["up"]), quota, resolve \in BOOLEAN :
       /\ link' = Taken("up", k)
       /\ srv' = CASE srv.status = "HANDSHAKE" ->
                        FirstRecv(s, Arrived("up", k), quota, resolve)
                   [] srv.status = "FORWARD" ->
                        Begin([s EXCEPT !.data = Arrived("up", k)], "out_write")
                   [] srv.status = "UDP_FORWARD" ->
                        OutUdpSent([s EXCEPT !.udpBuf = @ \o Arrived("up", k)], resolve)
  /\ UNCHANGED <<setup, cs, front, eof, made, closed>>

\* The resolution ends, in time or after destroy.
Resolved ==
  /\ "resolve" \in srv.ops
  /\ \/ srv' = SendUdp(Done(srv, "resolve")) /\ UNCHANGED <<link, eof>>
     \/ ServerDestroy(Done(srv, "resolve"), "error")
  /\ UNCHANGED <<setup, cs, front, made, closed>>

\* out_sent, out_udp_sent
ServerOutSent ==
  /\ "out_write" \in srv.ops
  /\ srv' = Begin([Done(srv, "out_write") EXCEPT !.toTarget = @ \o srv.data], "in_read")
  /\ UNCHANGED <<setup, cs, front, link, eof, made, closed>>

ServerUdpSent ==
  LET s == Done(srv, "udp_write") IN
  /\ "udp_write" \in srv.ops
  /\ \E resolve \in BOOLEAN :
       srv' = IF srv.status = "UDP_FORWARD" THEN OutUdpSent(s, resolve) ELSE s
  /\ UNCHANGED <<setup, cs, front, link, eof, made, closed>>

\* out_recv and out_udp_recv: the target answers, and is read again only when
\* the answer has been sent.
OutRecvEager(s, op) == Begin(Begin(Done(s, op), "in_write"), op)
OutRecv(s, op) == Begin(Done(s, op), "in_write")
ServerOutRecv ==
  /\ \E op \in {"out_read", "udp_read"} \cap srv.ops :
       /\ srv.status # "DESTROY" /\ made["down"] < MaxDown
       /\ srv' = OutRecv(srv, op)
       /\ Write("down", IF op = "udp_read" THEN Packet(made["down"] + 1)
                                           ELSE <<made["down"] + 1>>)
  /\ made' = [made EXCEPT !["down"] = @ + 1]
  /\ UNCHANGED <<setup, cs, front, eof, closed>>

\* out_udp_async_read: the handler of a read that destroy aborted, or of one on
\* the socket that a late resolution opened, whose datagram is dropped.
UdpReadEnds ==
  /\ "udp_read" \in srv.ops /\ srv.status = "DESTROY"
  /\ srv' = Done(srv, "udp_read")
  /\ UNCHANGED <<setup, cs, front, link, eof, made, closed>>

\* in_sent
ServerInSent ==
  /\ "in_write" \in srv.ops
  /\ srv' = Begin(Done(srv, "in_write"),
                  IF srv.status = "UDP_FORWARD" THEN "udp_read" ELSE "out_read")
  /\ UNCHANGED <<setup, cs, front, link, eof, made, closed>>

ServerEof ==
  /\ \/ /\ "in_read" \in srv.ops /\ eof["up"] /\ link["up"] = <<>>
        /\ ServerDestroy(srv, "error")
     \/ "out_read" \in srv.ops /\ closed["down"] /\ ServerDestroy(srv, "eof")
  /\ UNCHANGED <<setup, cs, front, made, closed>>

\* An operation fails, the idle timer of a UDP session fires, or a connection
\* takes too long.
ServerError ==
  /\ srv.status \notin {"NONE", "DESTROY"}
  /\ ServerDestroy(srv, "error")
  /\ UNCHANGED <<setup, cs, front, made, closed>>

\* The application, or the target, closes its connection (external).
Closes ==
  /\ \E d \in Dir : ~closed[d] /\ closed' = [closed EXCEPT ![d] = TRUE]
  /\ UNCHANGED <<setup, cs, srv, front, link, eof, made>>

-----------------------------------------------------------------------------
Next ==
  \/ SocksRecv \/ ClientInSent \/ ClientDialed \/ ClientDialFailed
  \/ ClientInRecv \/ UdpRecv
  \/ ClientOutSent \/ ClientOutRecv \/ ClientUdpSent \/ ClientEof \/ ClientError
  \/ Handshake \/ FrontRecv \/ FrontTimeout \/ FrontEof \/ ServerDialed
  \/ ServerDialedLate \/ ServerDialFailed \/ UdpReadEnds
  \/ ServerInRecv \/ Resolved \/ ServerOutSent \/ ServerUdpSent
  \/ ServerOutRecv \/ ServerInSent \/ ServerEof \/ ServerError \/ Closes

\* The event loops run every handler that is ready; connections are made and
\* data is accepted.  Nothing has to be sent, and errors need not happen.
Fairness ==
  /\ WF_vars(ClientInSent) /\ WF_vars(ClientDialed) /\ WF_vars(ClientOutSent)
  /\ WF_vars(ClientOutRecv) /\ WF_vars(ClientUdpSent) /\ WF_vars(ClientEof)
  /\ WF_vars(Handshake) /\ WF_vars(FrontRecv) /\ WF_vars(FrontEof)
  /\ WF_vars(FrontTimeout) /\ WF_vars(ServerDialed) /\ WF_vars(ServerInRecv)
  /\ WF_vars(Resolved) /\ WF_vars(ServerOutSent) /\ WF_vars(ServerUdpSent)
  /\ WF_vars(ServerInSent) /\ WF_vars(ServerEof)

Spec == Init /\ [][Next]_vars
FairSpec == Spec /\ Fairness

-----------------------------------------------------------------------------
(* Properties.                                                               *)

Units(n) == [i \in 1..n |-> i]
\* What the two ends exchange arrives whole and in order, whatever the reads
\* of the TLS connection cut in two.  The requested target sees the payload
\* alone, the fallback sees the bytes of the connection from the first one;
\* datagrams keep their bounds.
Intact ==
  /\ IsPrefix(srv.toTarget, (IF srv.peer = "fallback" THEN <<Req>> ELSE <<>>)
                          \o Units(Size * made["up"]))
  /\ srv.peer # "fallback" =>
       IsPrefix(cs.toApp, Units(Size * made["down"])) /\ Len(cs.toApp) % Size = 0

\* Only a request with a known password reaches the target it names, and with
\* the password of a user only while the user has quota left.
OnlyAuthenticated ==
  (srv.peer = "requested" \/ srv.status = "UDP_FORWARD") =>
     setup.cred = "listed" \/ (setup.cred = "user" /\ srv.user)

\* No operation is begun while the same one is under way: begin_read would
\* throw, and two writes of one socket would mix their bytes.  The client never
\* does it, also when it connects after destroy; the server session does not
\* before it is destroyed, nor later unless it relays datagrams.
NoClash ==
  /\ ~cs.clash
  /\ srv.clash => srv.status = "DESTROY" /\ setup.kind = "udp"

\* What begin_read asserts, for every read: the one before it has ended.
GuardHeld == ~cs.clash /\ ~srv.clash

\* When the target closes and both sessions end for that reason alone, the
\* application has been given everything the target sent.
ClosedWhole ==
  (setup.kind = "tcp" /\ cs.cause = "eof" /\ srv.cause = "eof")
     => cs.toApp = Units(made["down"])

\* What a user of the Authenticator used is recorded once, when the session
\* ends, whichever of its handlers end it and whatever ends after that; twice
\* only when the connection to the target is made after it has timed out.
Recorded ==
  srv.recorded = IF srv.user /\ srv.status = "DESTROY"
                 THEN IF srv.late THEN 2 ELSE 1
                 ELSE 0

\* No half-dead session: when one end is destroyed the other follows.
Spreads ==
  /\ (cs.status = "DESTROY") ~> (srv.status \in {"NONE", "DESTROY"} /\ front.status # "HANDSHAKE")
  /\ (srv.status = "DESTROY") ~> (cs.status = "DESTROY")
=============================================================================
