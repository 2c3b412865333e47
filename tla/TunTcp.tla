------------------------------- MODULE TunTcp -------------------------------
(***************************************************************************)
(* One TCP connection taken from the TUN device: the lwip_tcp_client that  *)
(* owns the protocol control block of the user-space TCP stack, and the    *)
(* TUNSession that carries it to the far end.  The far end is reached in   *)
(* one of three ways, chosen when the connection is accepted:              *)
(*   "pipeline"  TUNProxySession over a pipeline,                          *)
(*   "tls"       TUNProxySession over a TLS connection of its own,         *)
(*   "local"     TUNLocalSession, straight to the target.                  *)
(*                                                                         *)
(* Abstractions.  Data is counted in units: 1, 2, 3, ... in each           *)
(* direction; Req is the trojan request.  The sent handlers of a           *)
(* SendDataCache run in the order of the pushes (module OrderedSender);    *)
(* a frame is visible to the far end when it is pushed.  lwip is external: *)
(* tcp_write takes what fits in the send buffer or answers ERR_MEM while   *)
(* something is still unacknowledged, tcp_recved reopens the receive       *)
(* window, tcp_close succeeds.  A handler that runs after the client is    *)
(* released finds its m_closed flag as it was left.                        *)
(***************************************************************************)
EXTENDS Integers, Sequences, SequencesExt, FiniteSetsExt

CONSTANTS Modes,         \* the ways to the far end that are explored
          Window,        \* pipeline_ack_window
          SndBuf,        \* TCP_SND_BUF of lwip, in units
          RcvWnd,        \* TCP_WND of lwip, in units
          SendMax,       \* the limit of m_send_buf before the session connects
          AppVolume,     \* units that the application sends
          FarVolume      \* units that the far end sends

Mode == {"pipeline", "tls", "local"}

ASSUME ModesAssumption == Modes \subseteq Mode
ASSUME BoundsAssumption ==
  /\ {Window, SndBuf, RcvWnd, SendMax} \subseteq Nat \ {0}
  /\ {AppVolume, FarVolume} \subseteq Nat

VARIABLES mode,    \* how the far end is reached
          tun,     \* the session and its client
          pipe,    \* the pipeline is not destroyed
          inbound, \* what the far end sent and the session has not received
          app,     \* units the application has sent
          far,     \* what the far end has done: see FarEnd
          cause    \* why the connection ended (history)

vars == <<mode, tun, pipe, inbound, app, far, cause>>

Req == 0
Request == IF mode = "local" THEN <<>> ELSE <<Req>>
Handler == {"start", "first", "data", "ack"}

\* The fields of TUNSession, its PipelineComponent and its ReadDataCache,
\* then those of lwip_tcp_client and of the control block it owns.
Tun ==
  [connected : BOOLEAN, destroyed : BOOLEAN,
   dialing : BOOLEAN,        \* connect_remote_server_ssl or connect_out_socket
   sendBuf : Seq(Nat),       \* m_send_buf
   waitConnected : Nat,      \* m_wait_connected_handler, in units
   waitAck : Nat,            \* m_wait_ack_handler
   credit : Nat,             \* pipeline_ack_counter
   firstCall : BOOLEAN,      \* pipeline_first_call_ack
   sends : Seq(Handler),     \* sent handlers still to run
   queue : Seq(Nat), pushAck : Nat, waiting : BOOLEAN,
   reading : Nat,            \* reads of the out socket under way
   readAck : Nat,            \* m_read_ack_count
   recvBuf : Seq(Nat),       \* m_recv_buf
   ackLength : Nat,          \* m_recv_buf_ack_length
   asyncWriting : BOOLEAN, closeFuture : BOOLEAN,
   client : {"open", "closed", "aborted"},  \* m_closed, m_aborted
   unacked : Nat,            \* in the send buffer of the control block
   recved : Nat,             \* given back with tcp_recved
   written : Seq(Nat),       \* all that tcp_write took (history)
   wire : Seq(Nat),          \* all that went to the far end (history)
   frames : Nat,             \* DATA frames after the first (history)
   acks : Nat]               \* the sum of the ACK frames sent (history)

FarEnd == [sent : Nat, closed : BOOLEAN, acked : Nat]

TypeOK ==
  /\ mode \in Modes /\ tun \in Tun /\ pipe \in BOOLEAN
  /\ inbound \in Seq([cmd : {"DATA", "ACK", "CLOSE"}, unit : Nat])
  /\ app \in Nat /\ far \in FarEnd
  /\ cause \in {"open", "app", "eof", "error"}

-----------------------------------------------------------------------------
(* lwip_tcp_client and the two destroy functions call each other: a step is  *)
(* composed from functions on the record w of the session and its client.    *)

Released(w, how) == [w EXCEPT !.client = how]

\* The close callback the client gives its session: it waits until nothing is
\* left to send.
CloseCallback(w) ==
  IF w.client = "open" /\ w.ackLength = 0 THEN Released(w, "closed") ELSE w

\* What destroy() of either session cancels.  A name resolution that runs ends
\* all the same and its handler dials: only TUNProxySession cancels its
\* resolver, which stops none that has begun.
Cancelled(w) ==
  [w EXCEPT !.destroyed = TRUE, !.waitAck = 0,
            !.sends = IF mode = "pipeline" THEN @ ELSE <<>>]

\* TUNProxySession::destroy, TUNLocalSession::destroy.  A cache of its own
\* fails its handlers, and the failed handler of client data aborts the
\* client; then the close callback runs.
DestroyForgetful(w) ==
  IF w.destroyed THEN w
  ELSE IF w.client # "open" THEN Cancelled(w)
  ELSE Released(Cancelled(w), "closed")
Destroy(w) ==
  IF w.destroyed THEN w ELSE
  LET aborts == mode # "pipeline" /\ Contains(w.sends, "data")
  IN  IF w.client = "open" /\ aborts THEN Released(Cancelled(w), "aborted")
      ELSE CloseCallback(Cancelled(w))

\* close_client: close_session destroys the session while m_closed is set.
CloseClient(w, how) ==
  IF w.client # "open" THEN w
  ELSE Released(Destroy([w EXCEPT !.client = how]), how)

\* try_out_async_read of the proxy session, out_async_read of the local one,
\* which does not look at the flag: its read of the closed socket just fails.
TryReadTwice(w) ==
  IF w.destroyed THEN w ELSE
  IF mode = "pipeline"
  THEN [w EXCEPT !.acks = @ + w.readAck, !.sends = Append(@, "ack")]
  ELSE [w EXCEPT !.reading = @ + 1]
TryRead(w) ==
  IF w.destroyed THEN w ELSE
  IF mode = "pipeline"
  THEN [w EXCEPT !.acks = @ + w.readAck, !.readAck = 0,
                 !.sends = Append(@, "ack")]
  ELSE [w EXCEPT !.reading = @ + 1]

\* What tcp_write may answer for what is in m_recv_buf: all that fits, or
\* ERR_MEM (0), or another error (-1).
TcpWrite(w) ==
  {Min({Len(w.recvBuf), SndBuf - w.unacked}), -1}
    \cup (IF w.unacked > 0 THEN {0} ELSE {})

\* recv_buf_consume: the next read begins when lwip has taken everything.
Consume(w, n) ==
  LET d == [w EXCEPT !.recvBuf = SubSeq(@, n + 1, Len(@))]
  IN  IF d.recvBuf = <<>> THEN TryRead(d) ELSE d

\* client_socks_recv_send_out, when tcp_write answers n.
SendOutEager(w, n) ==
  IF w.client # "open" THEN w ELSE
  IF n < 0 THEN CloseClient(w, "aborted") ELSE
  TryRead([w EXCEPT !.unacked = @ + n, !.written = @ \o SubSeq(w.recvBuf, 1, n),
                    !.recvBuf = SubSeq(@, n + 1, Len(@))])
SendOut(w, n) ==
  IF w.client # "open" \/ w.recvBuf = <<>> THEN w ELSE
  IF n < 0 THEN CloseClient(w, "aborted") ELSE
  Consume([w EXCEPT !.unacked = @ + n,
                    !.written = @ \o SubSeq(w.recvBuf, 1, n)], n)

\* The read handlers of out_async_read, up to m_write_to_lwip.
TakeUncounted(w, data, acks) ==
  [w EXCEPT !.readAck = @ + acks, !.recvBuf = @ \o data,
            !.asyncWriting = mode = "pipeline"]
Take(w, data, acks) ==
  [w EXCEPT !.readAck = @ + acks, !.recvBuf = @ \o data,
            !.ackLength = @ + Len(data), !.asyncWriting = mode = "pipeline"]

\* Receiving data, and handing it to lwip.
Received(w, data, acks) ==
  LET d == Take(w, data, acks) IN {SendOut(d, n) : n \in TcpWrite(d)}

\* ReadDataCache::async_read, then the read handler on what is queued.
CacheRead(w) ==
  IF w.queue = <<>>
  THEN {[w EXCEPT !.waiting = TRUE]}
  ELSE Received([w EXCEPT !.queue = <<>>, !.pushAck = 0], w.queue, w.pushAck)

\* out_async_read
OutAsyncRead(w) ==
  IF mode = "pipeline" THEN CacheRead(w) ELSE {[w EXCEPT !.reading = @ + 1]}

\* The handler client_recv_func gives with n units: tcp_recved.
Recved(w, n) == [w EXCEPT !.recved = IF w.client = "open" THEN @ + n ELSE @]

\* start(), once the way to the far end is open: the request goes before
\* whatever the application sent in the meantime.  The local session sends
\* no request, and reads at once when it has nothing to send.  It runs for a
\* session that was destroyed while it dialled, too: that one's cache refuses
\* what is pushed and the sent handler fails, but the local one may read.
StartUnordered(w) ==
  {[w EXCEPT !.connected = TRUE, !.dialing = FALSE, !.sendBuf = <<>>,
             !.wire = @ \o w.sendBuf \o <<Req>>,
             !.sends = Append(@, "first")]}
Start(w) ==
  LET d == [w EXCEPT !.connected = TRUE, !.dialing = FALSE, !.sendBuf = <<>>]
  IN  IF mode = "local" /\ w.sendBuf = <<>>
      THEN OutAsyncRead(d)
      ELSE IF w.destroyed THEN {d}
      ELSE {[d EXCEPT !.wire = Request \o w.sendBuf,
                      !.sends = Append(@, "first")]}

-----------------------------------------------------------------------------
\* listener_accept_func: the client is made and the session started.  Over a
\* pipeline CONNECT is sent and start() runs in its sent handler; else the
\* connection to the far end is being opened.
Init ==
  /\ mode \in Modes
  /\ tun = [connected |-> FALSE, destroyed |-> FALSE,
            dialing |-> mode # "pipeline",
            sendBuf |-> <<>>, waitConnected |-> 0, waitAck |-> 0,
            credit |-> Window, firstCall |-> TRUE,
            sends |-> IF mode = "pipeline" THEN <<"start">> ELSE <<>>,
            queue |-> <<>>, pushAck |-> 0, waiting |-> FALSE, reading |-> 0,
            readAck |-> 0, recvBuf |-> <<>>, ackLength |-> 0,
            asyncWriting |-> FALSE, closeFuture |-> FALSE,
            client |-> "open", unacked |-> 0,
            recved |-> 0, written |-> <<>>, wire |-> <<>>,
            frames |-> 0, acks |-> 0]
  /\ pipe = (mode = "pipeline")
  /\ inbound = <<>> /\ app = 0 /\ cause = "open"
  /\ far = [sent |-> 0, closed |-> FALSE, acked |-> 0]

\* The step ends with w; c is the cause if it destroys the session, or if the
\* application ends a connection that is still sending its rest.
Becomes(w, c) ==
  /\ tun' = w
  /\ cause' = IF \/ w.destroyed /\ ~tun.destroyed
                 \/ w.client # tun.client /\ c = "app"
              THEN c ELSE cause

\* connect_remote_server_ssl or connect_out_socket ends.
Dialed ==
  /\ tun.dialing
  /\ \/ \E w \in Start(tun) : Becomes(w, "error")
     \/ Becomes(Destroy([tun EXCEPT !.dialing = FALSE]), "error")
  /\ UNCHANGED <<mode, pipe, inbound, app, far>>

\* connect_time_out has passed.  The connect ends later, perhaps well.
DialTimeout ==
  /\ tun.dialing /\ ~tun.destroyed
  /\ Becomes(Destroy(tun), "error")
  /\ UNCHANGED <<mode, pipe, inbound, app, far>>

-----------------------------------------------------------------------------
(* From the application to the far end.                                      *)

\* out_async_send: before the session is connected the data is kept, up to a
\* limit.
OutAsyncSend(w, u) ==
  IF w.connected
  THEN [w EXCEPT !.wire = Append(@, u), !.frames = @ + 1,
                 !.sends = Append(@, "data")]
  ELSE IF Len(w.sendBuf) < SendMax
  THEN [w EXCEPT !.sendBuf = Append(@, u), !.waitConnected = @ + 1]
  ELSE Destroy(w)

\* client_recv_func with data.
AppSend ==
  /\ tun.client = "open" /\ app < AppVolume /\ app - tun.recved < RcvWnd
  /\ app' = app + 1
  /\ Becomes(IF tun.destroyed THEN CloseClient(tun, "aborted")
                              ELSE OutAsyncSend(tun, app + 1), "app")
  /\ UNCHANGED <<mode, pipe, inbound, far>>

\* client_recv_func without data, client_err_func, TUNDev::destroy.
AppClose ==
  /\ tun.client = "open"
  /\ \E how \in {"closed", "aborted"} : Becomes(CloseClient(tun, how), "app")
  /\ UNCHANGED <<mode, pipe, inbound, app, far>>

\* The sent handler of a DATA frame, after pre_call_ack_func: run h, or keep
\* the handler until an ACK frame comes.
DataSent(w) ==
  IF mode = "pipeline" /\ w.credit = 0
  THEN [w EXCEPT !.waitAck = @ + 1]
  ELSE Recved([w EXCEPT !.credit = IF mode = "pipeline" THEN @ - 1 ELSE @], 1)

\* The sent handler of the first send: the data that waited for it is
\* acknowledged to the application and the session begins to read.
FirstSent(w) ==
  OutAsyncRead([Recved(w, w.waitConnected) EXCEPT !.waitConnected = 0,
                                                   !.firstCall = FALSE])

\* The next sent handler runs without an error.  Those of a session that was
\* destroyed meanwhile run too: its client is closed by then, and nothing they
\* do reaches it.
Sent ==
  LET h == Head(tun.sends)
      w == [tun EXCEPT !.sends = Tail(@)]
  IN
  /\ tun.sends # <<>>
  /\ \/ tun.destroyed /\ Becomes(w, "error")
     \/ /\ ~tun.destroyed
        /\ \/ h = "start" /\ \E x \in Start(w) : Becomes(x, "error")
           \/ h = "first" /\ \E x \in FirstSent(w) : Becomes(x, "error")
           \/ h = "data"  /\ Becomes(DataSent(w), "error")
           \/ h = "ack"   /\ \E x \in CacheRead(w) : Becomes(x, "error")
  /\ UNCHANGED <<mode, pipe, inbound, app, far>>

\* A write to the socket of the session fails.
SendFailed ==
  /\ mode # "pipeline" /\ tun.sends # <<>>
  /\ Becomes(Destroy(tun), "error")
  /\ UNCHANGED <<mode, pipe, inbound, app, far>>

\* TUNProxySession::recv_ack_cmd: the ACK frame fills the counter and also
\* releases a handler that waits, without taking from the counter.
RecvAckCmdNoRelease(w) == [w EXCEPT !.credit = @ + 1]
RecvAckCmd(w) ==
  LET d == [w EXCEPT !.credit = @ + 1]
  IN  IF w.waitAck > 0 THEN Recved([d EXCEPT !.waitAck = @ - 1], 1) ELSE d

-----------------------------------------------------------------------------
(* From the far end to the application.                                      *)

\* The read of the out socket returns some of what the far end sent, also when
\* destroy came after it ended and before its handler runs.
ReadDone ==
  /\ mode # "pipeline" /\ tun.reading > 0
  /\ \E k \in 1..Len(inbound) :
       /\ \A i \in 1..k : inbound[i].cmd = "DATA"
       /\ inbound' = SubSeq(inbound, k + 1, Len(inbound))
       /\ \E w \in Received([tun EXCEPT !.reading = @ - 1],
                            [i \in 1..k |-> inbound[i].unit], 0) :
            Becomes(w, "error")
  /\ UNCHANGED <<mode, pipe, app, far>>

\* It ends with EOF.
ReadEof ==
  /\ mode # "pipeline" /\ tun.reading > 0 /\ ~tun.destroyed
  /\ inbound # <<>> /\ Head(inbound).cmd = "CLOSE"
  /\ Becomes(Destroy([tun EXCEPT !.reading = @ - 1]), "eof")
  /\ UNCHANGED <<mode, pipe, inbound, app, far>>

\* It ends with an error: after destroy, with operation_aborted.
ReadError ==
  /\ mode # "pipeline" /\ tun.reading > 0
  /\ Becomes(Destroy([tun EXCEPT !.reading = @ - 1]), "error")
  /\ UNCHANGED <<mode, pipe, inbound, app, far>>

\* Pipeline::out_async_recv: one frame for the session, if it is still
\* listed; a CLOSE waits until what was received is written.
RecvFrame ==
  LET f == Head(inbound) IN
  /\ mode = "pipeline" /\ pipe /\ inbound # <<>>
  /\ inbound' = Tail(inbound)
  /\ \/ tun.destroyed /\ UNCHANGED <<tun, cause>>
     \/ /\ ~tun.destroyed /\ f.cmd = "DATA"
        /\ IF tun.waiting
           THEN \E w \in Received([tun EXCEPT !.waiting = FALSE],
                                  <<f.unit>>, 1) : Becomes(w, "error")
           ELSE Becomes([tun EXCEPT !.pushAck = @ + 1,
                                    !.queue = Append(@, f.unit)], "error")
     \/ /\ ~tun.destroyed /\ f.cmd = "ACK"
        /\ Becomes(RecvAckCmd(tun), "error")
     \/ /\ ~tun.destroyed /\ f.cmd = "CLOSE"
        /\ IF tun.asyncWriting \/ tun.queue # <<>>
           THEN Becomes([tun EXCEPT !.closeFuture = TRUE], "eof")
           ELSE Becomes(Destroy(tun), "eof")
  /\ UNCHANGED <<mode, pipe, app, far>>

\* client_sent_func: the application has acknowledged k units.
\* recv_buf_ack_sent ends the session when a CLOSE was postponed, and answers
\* that the client is gone.
SentFuncNoClose(w, k) ==
  LET d == [w EXCEPT !.unacked = @ - k, !.ackLength = @ - k]
      e == [d EXCEPT !.asyncWriting = IF d.ackLength = 0 THEN FALSE ELSE @]
  IN  {SendOut(e, n) : n \in TcpWrite(e)}
SentFunc(w, k) ==
  LET d == [w EXCEPT !.unacked = @ - k, !.ackLength = @ - k]
      last == mode = "pipeline" /\ d.ackLength = 0
      e == [d EXCEPT !.asyncWriting = IF last THEN FALSE ELSE @]
  IN  IF last /\ d.closeFuture
      THEN {Destroy(d)}
      ELSE IF d.destroyed /\ d.ackLength = 0
      THEN {CloseClient(e, "closed")}
      ELSE {SendOut(e, n) : n \in TcpWrite(e)}

AppAck ==
  /\ tun.client = "open"
  /\ \E k \in 1..tun.unacked : \E w \in SentFunc(tun, k) :
       Becomes(w, IF tun.closeFuture THEN "eof" ELSE "error")
  /\ UNCHANGED <<mode, pipe, inbound, app, far>>

\* Pipeline::destroy: every sent handler runs with an error, which destroys
\* the session; the handler of client data then aborts the client.
PipeDestroy ==
  /\ pipe
  /\ pipe' = FALSE
  /\ LET d == Destroy(tun)
         w == IF Contains(tun.sends, "data") THEN CloseClient(d, "aborted") ELSE d
     IN  Becomes([w EXCEPT !.sends = <<>>], "error")
  /\ UNCHANGED <<mode, inbound, app, far>>

-----------------------------------------------------------------------------
(* The far end (external): the server, which holds the same window, or the   *)
(* target.                                                                   *)

FarReads ==
  (mode = "local" \/ tun.wire # <<>>) /\ (mode = "pipeline" => pipe)

FarSend ==
  /\ FarReads /\ ~far.closed /\ far.sent < FarVolume
  /\ mode = "pipeline" => far.sent <= Window + tun.acks
  /\ inbound' = Append(inbound, [cmd |-> "DATA", unit |-> far.sent + 1])
  /\ far' = [far EXCEPT !.sent = @ + 1]
  /\ UNCHANGED <<mode, tun, pipe, app, cause>>

FarClose ==
  /\ FarReads /\ ~far.closed
  /\ inbound' = Append(inbound, [cmd |-> "CLOSE", unit |-> 0])
  /\ far' = [far EXCEPT !.closed = TRUE]
  /\ UNCHANGED <<mode, tun, pipe, app, cause>>

\* The server acknowledges every DATA frame after the first.
FarAck ==
  /\ mode = "pipeline" /\ FarReads /\ ~far.closed /\ far.acked < tun.frames
  /\ inbound' = Append(inbound, [cmd |-> "ACK", unit |-> 0])
  /\ far' = [far EXCEPT !.acked = @ + 1]
  /\ UNCHANGED <<mode, tun, pipe, app, cause>>

-----------------------------------------------------------------------------
Next ==
  \/ Dialed \/ DialTimeout \/ AppSend \/ AppClose \/ Sent \/ SendFailed
  \/ ReadDone \/ ReadEof \/ ReadError \/ RecvFrame \/ AppAck \/ PipeDestroy
  \/ FarSend \/ FarClose \/ FarAck

\* The event loop runs what is ready, the application sends and acknowledges,
\* the far end answers.  Errors and closes are never assumed to happen.
Fairness ==
  /\ WF_vars(Dialed) /\ WF_vars(AppSend) /\ WF_vars(Sent)
  /\ WF_vars(~tun.destroyed /\ ReadDone) /\ WF_vars(ReadEof) /\ WF_vars(RecvFrame)
  /\ WF_vars(AppAck) /\ WF_vars(FarSend) /\ WF_vars(FarAck)

Spec == Init /\ [][Next]_vars
FairSpec == Spec /\ Fairness

-----------------------------------------------------------------------------
(* Properties.                                                               *)

Units(n) == [i \in 1..n |-> i]

\* Both streams arrive whole and in order: the far end sees the request, if
\* there is one, and then what the application sent, also what it sent before
\* the session connected; lwip is given what the far end sent.
StreamsIntact ==
  /\ IsPrefix(tun.wire, Request \o Units(app))
  /\ IsPrefix(tun.written, Units(far.sent))

Count(h) == Cardinality({i \in 1..Len(tun.sends) : tun.sends[i] = h})
If(b) == IF b THEN 1 ELSE 0

\* The reading chain of a live session has exactly one link: it is dialling,
\* or its first send is under way, or it reads, or it waits in the data cache,
\* or its ACK is being sent, or it holds data that lwip has no room for.  With
\* two, begin_read throws or the window is acknowledged twice; with none, the
\* connection is deaf.
OneReader ==
  ~tun.destroyed =>
     If(~tun.connected) + Count("first") + Count("ack") + tun.reading
       + If(tun.waiting) + If(tun.recvBuf # <<>>) = 1

\* The two decisions on closing rest on the bytes that lwip still owes to the
\* application: m_recv_buf_ack_length is exactly what is in the buffer of the
\* session and in the control block, and a pipeline session is marked as
\* writing for exactly as long.
OwedExact ==
  tun.client = "open" =>
     /\ tun.ackLength = Len(tun.recvBuf) + tun.unacked
     /\ (mode = "pipeline" /\ ~tun.destroyed) =>
          (tun.asyncWriting <=> tun.ackLength > 0)

\* Every DATA frame of the far end gives exactly one unit of credit back: the
\* frames counted in the data cache, the ones held in m_read_ack_count and
\* the sum of the ACK frames add up.
AcksExact ==
  (mode = "pipeline" /\ ~tun.destroyed) =>
     tun.acks + tun.readAck + tun.pushAck
       = Len(tun.written) + Len(tun.recvBuf) + Len(tun.queue)

\* A connection that is closed in the ordinary way because the far end closed
\* has nothing left to send: the application has acknowledged all that the
\* session took ("need to wait send remain buff").
ClosedDrained ==
  (cause = "eof" /\ tun.client = "closed") =>
     tun.unacked = 0 /\ tun.recvBuf = <<>>

\* What the far end sent before it closed has all been handed over by then,
\* also what was still in the data cache of the pipeline component when the
\* CLOSE frame came ("wait for writing done").
ClosedWhole ==
  (cause = "eof" /\ tun.client = "closed") => tun.written = Units(far.sent)

\* Neither window gets stuck: unless the session ends, everything crosses.
Transfer ==
  <>(tun.destroyed \/ (/\ Len(tun.wire) = Len(Request) + AppVolume
                       /\ Len(tun.written) = FarVolume /\ tun.unacked = 0))

\* A session that ends before its data is handed over leaves a client that
\* closes itself once the application has acknowledged all of it.
Drains == (tun.destroyed /\ ~tun.closeFuture) ~> (tun.client # "open")
=============================================================================
