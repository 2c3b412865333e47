----------------------------- MODULE UdpForward -----------------------------
(***************************************************************************)
(* UDP forwarding of a client: Service::udp_async_read gives each packet   *)
(* to the UDPForwardSession of its endpoint, or makes one; the session     *)
(* collects packets in out_write_buf while a write is under way and sends  *)
(* them together.  Replies come back as a stream of UDP packets, whole     *)
(* ones in the frames of a pipeline, in any pieces over a TLS connection   *)
(* of its own.                                                             *)
(*                                                                         *)
(* A step is one callback.  A packet is its number in the order of         *)
(* arrival, Req the trojan request that starts the stream of a session.    *)
(* Reply k of a session is the two pieces 2k-1 and 2k.  Frames that reach  *)
(* a session through a reused id are the subject of PipelineMux.           *)
(***************************************************************************)
EXTENDS Integers, Sequences, SequencesExt

CONSTANTS Endpoints,    \* the local UDP endpoints that send packets
          MaxSessions,  \* bound on the sessions ever made
          MaxPackets,   \* bound on the packets received
          MaxReplies    \* bound on the replies to one session

ASSUME EndpointsAssumption == Endpoints # {}
ASSUME BoundsAssumption == MaxSessions \in Nat /\ MaxPackets \in Nat /\ MaxReplies \in Nat

Num == 1..MaxSessions
Req == 0
Lost == 0      \* a reply that the system refused to send

VARIABLES config,     \* the configuration: see UsePipeline and IsNat
          ses,        \* the UDPForwardSessions
          list,       \* Service::udp_sessions, the weak pointers in order
          packets,    \* packets received so far
          running,    \* no exception has left the event loop
          accepted,   \* accepted[n]: what in_recv of n took (history)
          out,        \* out[n]: what n handed to the pipeline or TLS stream
          down,       \* down[n]: pieces of replies on their way to n
          replied,    \* replied[n]: replies sent to n so far
          delivered   \* delivered[n]: what its endpoint got of the replies n
                      \* took: each one, or Lost

vars == <<config, ses, list, packets, running, accepted, out, down, replied, delivered>>
replies == <<down, replied, delivered>>

UsePipeline == config.pipeline   \* pipeline_num > 0
IsNat == config.nat              \* run_type is NAT

Status == {"unborn", "CONNECT", "FORWARD", "FORWARDING", "DESTROY"}

Session ==
  [endpoint : Endpoints,
   status : Status,
   first : Nat,             \* the packet start_udp is called with
   starting : BOOLEAN,      \* the handler given to start_session is to run
   connecting : BOOLEAN,    \* connect_remote_server_ssl is under way
   writes : Nat,            \* writes of out_async_write under way
   reading : BOOLEAN,       \* out_async_read is under way
   buf : Seq(Nat),          \* out_write_buf
   rest : Seq(Nat),         \* udp_data_buf
   held : BOOLEAN]          \* some callback or list holds the object

TypeOK ==
  /\ config \in [pipeline : BOOLEAN, nat : BOOLEAN]
  /\ ses \in [Num -> Session] /\ list \in Seq(Num)
  /\ packets \in 0..MaxPackets /\ running \in BOOLEAN
  /\ accepted \in [Num -> Seq(Nat)] /\ out \in [Num -> Seq(Nat)]
  /\ down \in [Num -> Seq(Nat)] /\ replied \in [Num -> 0..MaxReplies]
  /\ delivered \in [Num -> Seq(Nat)]

\* The constructor: endpoint e, started with packet p.
NewSession(e, p) ==
  [endpoint |-> e, status |-> "CONNECT", first |-> p,
   starting |-> UsePipeline, connecting |-> FALSE, writes |-> 0,
   reading |-> FALSE, buf |-> <<>>, rest |-> <<>>, held |-> TRUE]

Unborn == [NewSession(CHOOSE e \in Endpoints : TRUE, 0)
             EXCEPT !.status = "unborn", !.starting = FALSE, !.held = FALSE]

Init ==
  /\ config \in [pipeline : BOOLEAN, nat : BOOLEAN]
  /\ ses = [n \in Num |-> Unborn] /\ list = <<>> /\ packets = 0 /\ running = TRUE
  /\ accepted = [n \in Num |-> <<>>] /\ out = [n \in Num |-> <<>>]
  /\ down = [n \in Num |-> <<>>] /\ replied = [n \in Num |-> 0]
  /\ delivered = [n \in Num |-> <<>>]

-----------------------------------------------------------------------------
(* The session towards the server, as functions on the session.              *)

\* out_async_write of out_write_buf, which is then consumed.
FlushKept(c) == [c EXCEPT !.status = "FORWARDING", !.writes = @ + 1]
Flush(c) == [c EXCEPT !.status = "FORWARDING", !.writes = @ + 1, !.buf = <<>>]

\* in_recv of packet p
InRecvAlways(c, p) ==
  IF c.status = "DESTROY" THEN c ELSE Flush([c EXCEPT !.buf = Append(@, p)])
InRecv(c, p) ==
  LET d == [c EXCEPT !.buf = Append(@, p)]
  IN  CASE c.status = "DESTROY" -> c
        [] c.status = "FORWARD" -> Flush(d)
        [] OTHER                -> d

\* out_sent
OutSentForgetful(c) == IF c.status = "FORWARDING" THEN [c EXCEPT !.status = "FORWARD"] ELSE c
OutSent(c) ==
  IF c.status # "FORWARDING" THEN c
  ELSE IF c.buf = <<>> THEN [c EXCEPT !.status = "FORWARD"]
  ELSE Flush(c)

\* What a step that turns c into d hands to the stream, p being added to c.
Sent(c, d, p) == IF d.writes > c.writes THEN c.buf \o p ELSE <<>>

Destroyed(c) == [c EXCEPT !.status = "DESTROY"]

\* The callback of start_udp: the session forwards, reads replies and sends
\* what was collected.  It does not look at the status.
Begin(c) == [Flush(c) EXCEPT !.connecting = FALSE, !.reading = TRUE]

\* With NAT the socket to answer from may fail to bind: then it destroys.
NotBound(c) == [Destroyed(c) EXCEPT !.connecting = FALSE]
Callback(c) == {Begin(c)} \cup (IF IsNat THEN {NotBound(c)} ELSE {})

\* start_udp up to the callback: the request, then the first packet.
Prepare(c) == InRecv([c EXCEPT !.starting = FALSE, !.buf = <<Req>>], c.first)

Set(n, c) == ses' = [ses EXCEPT ![n] = c]
Give(n, c, d) == out' = [out EXCEPT ![n] = @ \o Sent(c, d, <<>>)]

-----------------------------------------------------------------------------
(* Service::udp_async_read.                                                  *)

\* The pointers of the list that have not expired, in their order.
Held(l) ==
  LET kept[i \in 0..Len(l)] ==
        IF i = 0 THEN <<>>
        ELSE IF ses[l[i]].held THEN Append(kept[i - 1], l[i]) ELSE kept[i - 1]
  IN  kept[Len(l)]

\* Packet p of endpoint e for the first session of the list that has it.
Process(n, p) ==
  LET d == InRecv(ses[n], p) IN
  /\ Set(n, d) /\ list' = Held(list)
  /\ accepted' = [accepted EXCEPT ![n] = IF d = ses[n] THEN @ ELSE Append(@, p)]
  /\ out' = [out EXCEPT ![n] = @ \o Sent(ses[n], d, <<p>>)]

\* A new session: with a pipeline it waits for its CONNECT frame to be sent,
\* without one start_udp runs at once.
Create(n, e, p) ==
  LET c == NewSession(e, p) IN
  /\ ses[n].status = "unborn" /\ \A m \in Num : m < n => ses[m].status # "unborn"
  /\ IF UsePipeline
     THEN Set(n, c) /\ list' = Held(list) /\ UNCHANGED accepted
     ELSE /\ Set(n, [Prepare(c) EXCEPT !.connecting = TRUE])
          /\ list' = Append(Held(list), n)
          /\ accepted' = [accepted EXCEPT ![n] = <<p>>]
  /\ UNCHANGED out

Packet(e) ==
  LET l    == Held(list)
      mine == {i \in DOMAIN l : ses[l[i]].endpoint = e}
  IN
  /\ running /\ packets < MaxPackets /\ packets' = packets + 1
  /\ \/ \E i \in mine : (\A j \in mine : i <= j) /\ Process(l[i], packets + 1)
     \/ mine = {} /\ \E n \in Num : Create(n, e, packets + 1)
  /\ UNCHANGED <<config, running, replies>>

\* The packet has no original destination (NAT): it is dropped.
NoTarget ==
  /\ running /\ IsNat /\ packets < MaxPackets /\ packets' = packets + 1
  /\ UNCHANGED <<config, ses, list, running, accepted, out, replies>>

\* A receive error of the service's socket: stop, and an exception.
ReceiveError ==
  /\ running /\ running' = FALSE
  /\ UNCHANGED <<config, ses, list, packets, accepted, out, replies>>

-----------------------------------------------------------------------------
(* The life of a session.                                                    *)

\* The CONNECT frame is sent: the session is listed and start_udp runs, even
\* for a session that was destroyed since, whose in_recv then takes nothing.
Started(n) ==
  LET c == Prepare(ses[n]) IN
  /\ running /\ ses[n].starting
  /\ list' = Append(list, n)
  /\ accepted' = [accepted EXCEPT ![n] = IF ses[n].status = "DESTROY" THEN @
                                         ELSE Append(@, ses[n].first)]
  /\ \E d \in Callback(c) : Set(n, d) /\ Give(n, c, d)
  /\ UNCHANGED <<config, packets, running, replies>>

\* The pipeline broke before: the session is dropped, its packet is lost.
StartFailed(n) ==
  /\ running /\ ses[n].starting
  /\ Set(n, [Destroyed(ses[n]) EXCEPT !.starting = FALSE])
  /\ UNCHANGED <<config, list, packets, running, accepted, out, replies>>

\* connect_remote_server_ssl succeeded, perhaps for a session that has been
\* destroyed since: the callback starts it all the same.
ConnectDone(n) ==
  LET c == ses[n] IN
  /\ running /\ c.connecting
  /\ \E d \in Callback(c) : Set(n, d) /\ Give(n, c, d)
  /\ UNCHANGED <<config, list, packets, running, accepted, replies>>

ConnectFailed(n) ==
  /\ running /\ ses[n].connecting
  /\ Set(n, [Destroyed(ses[n]) EXCEPT !.connecting = FALSE])
  /\ UNCHANGED <<config, list, packets, running, accepted, out, replies>>

\* The completion of a write: out_sent.
WriteDone(n) ==
  LET c == [ses[n] EXCEPT !.writes = @ - 1] IN
  /\ running /\ ses[n].writes > 0
  /\ Set(n, OutSent(c)) /\ Give(n, c, OutSent(c))
  /\ UNCHANGED <<config, list, packets, running, accepted, replies>>

WriteFailed(n) ==
  /\ running /\ ses[n].writes > 0
  /\ Set(n, [Destroyed(ses[n]) EXCEPT !.writes = @ - 1])
  /\ UNCHANGED <<config, list, packets, running, accepted, out, replies>>

\* The server sends a reply, once it has something of the session.
Reply(n) ==
  /\ out[n] # <<>> /\ replied[n] < MaxReplies
  /\ replied' = [replied EXCEPT ![n] = @ + 1]
  /\ down' = [down EXCEPT ![n] = @ \o <<2 * replied[n] + 1, 2 * replied[n] + 2>>]
  /\ UNCHANGED <<config, ses, list, packets, running, accepted, out, delivered>>

\* The loop of out_recv: whole packets are taken out of udp_data_buf and sent
\* to the endpoint.  One that the system refuses (no_permission: the firewall,
\* a rate limit) is consumed like the others.
Whole(b) == Len(b) \div 2
Given(b, m, lost) == [i \in 1..m |-> IF i \in lost THEN Lost ELSE b[2 * i] \div 2]
RestDropped(b) == <<>>
Rest(b) == SubSeq(b, 2 * Whole(b) + 1, Len(b))

\* out_recv: m packets are sent, the lost ones without success.  It ends the
\* session when what is left is too long for a packet or, with NAT, when the
\* last one fails otherwise; a failure of the service's socket throws.
OutRecv(n) ==
  LET c == ses[n] IN
  /\ running /\ c.reading
  /\ \E k \in 1..Len(down[n]) :
       LET b == c.rest \o SubSeq(down[n], 1, k) IN
       /\ UsePipeline => k = 2
       /\ down' = [down EXCEPT ![n] = SubSeq(@, k + 1, Len(@))]
       /\ \E m \in 0..Whole(b) : \E lost \in SUBSET (1..m) :
            /\ delivered' = [delivered EXCEPT ![n] = @ \o Given(b, m, lost)]
            /\ \/ /\ c.status \in {"FORWARD", "FORWARDING"} /\ m = Whole(b)
                  /\ Set(n, [c EXCEPT !.rest = Rest(b)])
                  /\ UNCHANGED running
               \/ /\ c.status \in {"FORWARD", "FORWARDING"}
                  /\ (m = Whole(b) /\ Rest(b) # <<>>) \/ (IsNat /\ m \in lost)
                  /\ Set(n, [Destroyed(c) EXCEPT !.reading = FALSE])
                  /\ UNCHANGED running
               \/ /\ c.status \in {"FORWARD", "FORWARDING"} /\ ~IsNat /\ m \in lost
                  /\ running' = FALSE
                  /\ UNCHANGED ses
               \/ /\ c.status = "DESTROY" /\ m = 0
                  /\ Set(n, [c EXCEPT !.reading = FALSE])
                  /\ UNCHANGED running
  /\ UNCHANGED <<config, list, packets, accepted, out, replied>>

\* The read of the TLS connection fails, or is cancelled by destroy.
ReadFailed(n) ==
  /\ running /\ ~UsePipeline /\ ses[n].reading
  /\ Set(n, [Destroyed(ses[n]) EXCEPT !.reading = FALSE])
  /\ UNCHANGED <<config, list, packets, running, accepted, out, replies>>

\* The idle timer, or with a pipeline a CLOSE frame or the end of the pipeline.
End(n) ==
  /\ running /\ ses[n].status \in {"CONNECT", "FORWARD", "FORWARDING"}
  /\ Set(n, Destroyed(ses[n]))
  /\ UNCHANGED <<config, list, packets, running, accepted, out, replies>>

\* The last callback that holds a destroyed session is gone.
Release(n) ==
  /\ running /\ ses[n].status = "DESTROY" /\ ses[n].held
  /\ ~ses[n].starting /\ ~ses[n].connecting /\ ses[n].writes = 0 /\ (ses[n].reading => UsePipeline)
  /\ Set(n, [ses[n] EXCEPT !.held = FALSE, !.reading = FALSE])
  /\ UNCHANGED <<config, list, packets, running, accepted, out, replies>>

Step(n) ==
  \/ Started(n) \/ StartFailed(n) \/ ConnectDone(n) \/ ConnectFailed(n)
  \/ WriteDone(n) \/ WriteFailed(n) \/ Reply(n) \/ OutRecv(n) \/ ReadFailed(n)
  \/ End(n) \/ Release(n)

Next ==
  \/ \E e \in Endpoints : Packet(e)
  \/ NoTarget \/ ReceiveError
  \/ \E n \in Num : Step(n)

\* A start, a connect and a write that are under way end, well or badly.
Fairness ==
  \A n \in Num : /\ WF_vars(Started(n) \/ StartFailed(n))
                 /\ WF_vars(ConnectDone(n) \/ ConnectFailed(n))
                 /\ WF_vars(WriteDone(n) \/ WriteFailed(n))

Spec == Init /\ [][Next]_vars
FairSpec == Spec /\ Fairness

-----------------------------------------------------------------------------
(* Properties.                                                               *)

Alive(n) == ses[n].status \in {"CONNECT", "FORWARD", "FORWARDING"}

\* The stream of a session is the trojan request and then the packets it
\* took, in their order, none twice and none missing, whatever was collected
\* during a write: what is sent and what is still in out_write_buf.
UpOrder ==
  \A n \in Num :
    /\ Alive(n) /\ ~ses[n].starting => out[n] \o ses[n].buf = <<Req>> \o accepted[n]
    /\ IsPrefix(out[n], <<Req>> \o accepted[n])

\* Two writes are never under way at once (a TLS stream allows one), and a
\* session that has packets collected has a write, a connect or a start under
\* way whose end will send them: in_recv alone would not, except in FORWARD.
NothingStuck ==
  \A n \in Num :
    /\ ses[n].writes <= 1
    /\ ses[n].status = "FORWARD" => ses[n].buf = <<>> /\ ses[n].writes = 0
    /\ ses[n].status = "FORWARDING" => ses[n].writes = 1
    /\ ses[n].status = "CONNECT" => ses[n].starting \/ ses[n].connecting

\* The k-th reply that a session takes out of its stream is the k-th one the
\* server sent, in whatever pieces they came, and its endpoint gets it or the
\* system refused to send it: no reply comes twice, out of order or mixed with
\* another, and only a refused one is missing between two.
RepliesInOrder ==
  \A n \in Num :
    /\ Len(delivered[n]) <= replied[n]
    /\ \A k \in 1..Len(delivered[n]) : delivered[n][k] \in {k, Lost}

\* Whenever a session has taken packets there is a later moment when all that
\* it has taken by then is sent, or the session (or the process) ends: no
\* packet waits for the next one to push it out.
Flushed ==
  \A n \in Num : (accepted[n] # <<>>) ~>
     (Len(out[n]) > Len(accepted[n]) \/ ses[n].status = "DESTROY" \/ ~running)
=============================================================================
