---------------------------- MODULE PipelineFlow ----------------------------
(***************************************************************************)
(* One proxied TCP session carried by a pipeline, seen from both ends: the *)
(* ClientSession (NATSession and ForwardSession inherit its relaying) and  *)
(* the ServerSession it is paired with.  The two ends exchange CONNECT,    *)
(* DATA, ACK and CLOSE frames over the pipeline's TLS stream.  Each end    *)
(* reads its local socket only while it holds credit                       *)
(* (PipelineComponent::pre_call_ack_func), queues what it receives in a    *)
(* ReadDataCache, and postpones a CLOSE until what it received is written. *)
(*                                                                         *)
(* Both programs are single threaded: a step is one callback run by the    *)
(* event loop, from its first statement to its return.                     *)
(*                                                                         *)
(* Abstractions.  One read of a local socket is one number of a stream     *)
(* 1, 2, 3, ...; Req stands for the trojan request that the client sends   *)
(* first (these clients put no payload in it).  The SOCKS5 exchange before *)
(* it is the status HANDSHAKE of the client.  A frame is visible to the    *)
(* peer as soon as it is pushed into the SendDataCache of the pipeline,    *)
(* and the sent handler runs at any later time: the write may complete     *)
(* before or after the peer parses the bytes.                              *)
(***************************************************************************)
EXTENDS Integers, Sequences, SequencesExt

CONSTANTS Window,    \* pipeline_ack_window of the configuration
          Volume     \* how many reads the local socket of each end yields

Side == {"client", "server"}

ASSUME WindowAssumption == Window \in Nat \ {0}
ASSUME VolumeAssumption == Volume \in [Side -> Nat]

VARIABLES ses,       \* the session object of each end
          chan,      \* chan[s]: frames pushed by s that its peer has not parsed
          pipe,      \* pipe[s]: the pipeline of end s is not destroyed
          made,      \* made[s]: reads of the local socket that s passed on
          got,       \* got[s]: what s has written to its local socket
          ending     \* ending[s]: why s was destroyed (history)

vars == <<ses, chan, pipe, made, got, ending>>

Peer(s) == IF s = "client" THEN "server" ELSE "client"

Req == 0

Frame == [cmd : {"CONNECT", "DATA", "ACK", "CLOSE"}, data : Seq(Nat), ack : Nat]
Write == [data : Seq(Nat), ack : Nat]
Status == {"NONE", "HANDSHAKE", "QUERIED", "FORWARD", "DESTROY"}

\* The fields of a session and of its PipelineComponent that relaying uses.
\* status QUERIED is the HANDSHAKE of a ServerSession with has_queried_out,
\* while connect_out_socket runs.  destroy() does not stop that: of a session
\* with status DESTROY, late says that it still runs, or that it has set the
\* status back to FORWARD ("relaying").
Session ==
  [status : Status,
   listed : BOOLEAN,        \* in the sessions list of its pipeline
   credit : Nat,            \* pipeline_ack_counter
   waitAck : BOOLEAN,       \* pipeline_wait_for_ack
   firstCall : BOOLEAN,     \* pipeline_first_call_ack
   reading : Nat,           \* reads of the local socket begun and not ended
   sentData : Nat,          \* sent handlers of DATA frames still to run
   sentAck : Nat,           \* sent handlers of ACK frames still to run
   queue : Seq(Nat),        \* ReadDataCache::data_queue
   pushAck : Nat,           \* ReadDataCache::push_ack_count
   waiting : BOOLEAN,       \* ReadDataCache::is_waiting
   asyncWriting : BOOLEAN,  \* m_is_async_writing
   writes : Seq(Write),     \* async_writes to the local socket in flight
   closeFuture : BOOLEAN,   \* m_write_close_future
   late : {"no", "dialing", "relaying"}]

TypeOK ==
  /\ ses \in [Side -> Session]
  /\ chan \in [Side -> Seq(Frame)]
  /\ pipe \in [Side -> BOOLEAN]
  /\ made \in [Side -> Nat]
  /\ got \in [Side -> Seq(Nat)]
  /\ ending \in [Side -> {"open", "local", "peer", "pipe"}]

-----------------------------------------------------------------------------
(* PipelineComponent and ReadDataCache, as functions on the session.         *)

\* The constructor of PipelineComponent, and Session's other initial values.
NewSession(st) ==
  [status |-> st, listed |-> st # "NONE", credit |-> Window,
   waitAck |-> FALSE, firstCall |-> TRUE,
   reading |-> 0, sentData |-> 0, sentAck |-> 0,
   queue |-> <<>>, pushAck |-> 0, waiting |-> FALSE,
   asyncWriting |-> FALSE, writes |-> <<>>, closeFuture |-> FALSE,
   late |-> "no"]

\* pre_call_ack_func followed by begin_read when it permits the read.
GatedReadAlwaysFree(c) ==
  [c EXCEPT !.waitAck = FALSE, !.reading = @ + 1]
GatedRead(c) ==
  IF c.firstCall
  THEN [c EXCEPT !.waitAck = FALSE, !.firstCall = FALSE, !.reading = @ + 1]
  ELSE IF c.credit = 0
  THEN [c EXCEPT !.waitAck = TRUE]
  ELSE [c EXCEPT !.credit = @ - 1, !.waitAck = FALSE, !.reading = @ + 1]

\* in_async_write of the client, out_async_write of the server.
StartWrite(c, data, ack) ==
  [c EXCEPT !.asyncWriting = TRUE,
            !.writes = Append(@, [data |-> data, ack |-> ack])]

\* The handler given to ReadDataCache::async_read: ClientSession::out_recv
\* and ServerSession::in_recv.
ReadHandler(c, data, ack) ==
  CASE c.status = "FORWARD"   -> StartWrite(c, data, ack)
    [] c.status = "HANDSHAKE" -> [c EXCEPT !.status = "QUERIED"]
    [] OTHER                  -> c

\* ReadDataCache::push_data
PushDataUncounted(c, data) ==
  IF c.waiting
  THEN ReadHandler([c EXCEPT !.waiting = FALSE], data, 1)
  ELSE [c EXCEPT !.queue = @ \o data]
PushData(c, data) ==
  IF c.waiting
  THEN ReadHandler([c EXCEPT !.waiting = FALSE], data, 1)
  ELSE [c EXCEPT !.pushAck = @ + 1, !.queue = @ \o data]

\* ReadDataCache::async_read
CacheReadUnconsumed(c) ==
  IF c.queue = <<>>
  THEN [c EXCEPT !.waiting = TRUE]
  ELSE [ReadHandler(c, c.queue, c.pushAck) EXCEPT !.pushAck = 0]
CacheRead(c) ==
  IF c.queue = <<>>
  THEN [c EXCEPT !.waiting = TRUE]
  ELSE [ReadHandler(c, c.queue, c.pushAck) EXCEPT !.queue = <<>>, !.pushAck = 0]

\* recv_ack_cmd, and the read it lets through when the session waits for it.
RecvAckNoWake(c, n) == [c EXCEPT !.credit = @ + n]
RecvAckAlwaysRead(c, n) == GatedRead([c EXCEPT !.credit = @ + n])
RecvAck(c, n) ==
  LET d == [c EXCEPT !.credit = @ + n]
  IN  IF d.waitAck THEN GatedRead(d) ELSE d

CanBeClosedIgnoringQueue(c) == ~c.asyncWriting
CanBeClosed(c) == ~c.asyncWriting /\ c.queue = <<>>

\* destroy(): every later callback sees status DESTROY and does nothing, but
\* for the one of connect_out_socket, which does not look at the status:
\* resolver.cancel() stops no resolution that has begun, and a connect that
\* has succeeded is not undone.
Destroyed(c) ==
  [c EXCEPT !.status = "DESTROY", !.listed = FALSE,
            !.late = IF c.status = "QUERIED" THEN "dialing" ELSE "no"]

-----------------------------------------------------------------------------
FrameOf(cmd, data, ack) == [cmd |-> cmd, data |-> data, ack |-> ack]
Connect  == FrameOf("CONNECT", <<>>, 0)
Data(x)  == FrameOf("DATA", x, 0)
Ack(n)   == FrameOf("ACK", <<>>, n)
Close    == FrameOf("CLOSE", <<>>, 0)

\* Pushing a frame into the SendDataCache of the pipeline of s.
Push(s, f) == chan' = [chan EXCEPT ![s] = Append(@, f)]

\* destroy() of a session that the pipeline did not ask for: the session
\* leaves the list of its pipeline and the peer is told with a CLOSE frame.
DestroySilently(s, c) ==
  /\ ses' = [ses EXCEPT ![s] = Destroyed(c)]
  /\ ending' = [ending EXCEPT ![s] = "local"]
  /\ UNCHANGED chan
DestroyAndTell(s, c) ==
  /\ ses' = [ses EXCEPT ![s] = Destroyed(c)]
  /\ Push(s, Close)
  /\ ending' = [ending EXCEPT ![s] = "local"]

\* The ClientSession is accepted and CONNECT is sent: Pipeline::session_start.
\* Its first read, of the SOCKS5 exchange, is under way.
Init ==
  /\ ses = [s \in Side |-> IF s = "client"
                           THEN [NewSession("HANDSHAKE") EXCEPT !.reading = 1]
                           ELSE NewSession("NONE")]
  /\ chan = [s \in Side |-> IF s = "client" THEN <<Connect>> ELSE <<>>]
  /\ pipe = [s \in Side |-> TRUE]
  /\ made = [s \in Side |-> 0]
  /\ got = [s \in Side |-> <<>>]
  /\ ending = [s \in Side |-> "open"]

-----------------------------------------------------------------------------
(* Opening the session.                                                      *)

\* The SOCKS5 exchange is over: request_remote sets FORWARD, waits for data
\* from the pipeline and sends the trojan request.
RequestRemote ==
  LET c == ses["client"] IN
  /\ c.status = "HANDSHAKE" /\ c.reading > 0
  /\ ses' = [ses EXCEPT !["client"] =
               [CacheRead([c EXCEPT !.status = "FORWARD", !.reading = @ - 1])
                  EXCEPT !.sentData = @ + 1]]
  /\ Push("client", Data(<<Req>>))
  /\ UNCHANGED <<pipe, made, got, ending>>

\* connect_out_socket reached the target: the server reads the target and
\* takes the next data of the pipeline, also when it was destroyed meanwhile.
Connected(c) == CacheRead(GatedRead([c EXCEPT !.status = "FORWARD"]))
OutConnected ==
  LET c == ses["server"] IN
  /\ \/ /\ c.status = "QUERIED"
        /\ ses' = [ses EXCEPT !["server"] = Connected(c)]
     \/ /\ c.status = "DESTROY" /\ c.late = "dialing"
        /\ ses' = [ses EXCEPT !["server"] =
                     [Connected(c) EXCEPT !.status = "DESTROY", !.late = "relaying"]]
  /\ UNCHANGED <<chan, pipe, made, got, ending>>

\* The target does not resolve or refuses.
OutConnectFailed ==
  LET c == ses["server"] IN
  /\ \/ /\ c.status = "QUERIED"
        /\ DestroyAndTell("server", [c EXCEPT !.status = "HANDSHAKE"])
     \/ /\ c.status = "DESTROY" /\ c.late = "dialing"
        /\ ses' = [ses EXCEPT !["server"] = [c EXCEPT !.late = "no"]]
        /\ UNCHANGED <<chan, ending>>
  /\ UNCHANGED <<pipe, made, got>>

\* It does not answer within connect_time_out.
OutConnectTimeout ==
  /\ ses["server"].status = "QUERIED"
  /\ DestroyAndTell("server", ses["server"])
  /\ UNCHANGED <<pipe, made, got>>

-----------------------------------------------------------------------------
(* Relaying.                                                                 *)

\* The read of the local socket returns data, which goes out as a DATA frame.
LocalRead(s) ==
  LET c == ses[s] IN
  /\ c.status = "FORWARD" /\ c.reading > 0 /\ made[s] < Volume[s]
  /\ made' = [made EXCEPT ![s] = @ + 1]
  /\ ses' = [ses EXCEPT ![s] = [c EXCEPT !.reading = @ - 1, !.sentData = @ + 1]]
  /\ Push(s, Data(<<made[s] + 1>>))
  /\ UNCHANGED <<pipe, got, ending>>

\* The read of the local socket ends with EOF or an error.
LocalReadError(s) ==
  LET c == ses[s] IN
  /\ c.status \in {"HANDSHAKE", "FORWARD"} /\ c.reading > 0
  /\ DestroyAndTell(s, [c EXCEPT !.reading = @ - 1])
  /\ UNCHANGED <<pipe, made, got>>

\* The session was destroyed while it dialled and reads the target all the
\* same.  Whatever the read returns destroys it again: data is for a session
\* that in_send does not find in the list.
LateRead ==
  LET c == ses["server"] IN
  /\ c.status = "DESTROY" /\ c.late = "relaying" /\ c.reading > 0
  /\ ses' = [ses EXCEPT !["server"] = [c EXCEPT !.reading = @ - 1, !.late = "no"]]
  /\ UNCHANGED <<chan, pipe, made, got, ending>>

\* The sent handler of a DATA frame: out_sent of the client, in_sent of the
\* server ask for the next read.
DataSent(s) ==
  LET c == [ses[s] EXCEPT !.sentData = @ - 1] IN
  /\ ses[s].sentData > 0
  /\ ses' = [ses EXCEPT ![s] = IF c.status = "FORWARD" THEN GatedRead(c) ELSE c]
  /\ UNCHANGED <<chan, pipe, made, got, ending>>

\* The write to the local socket completes.  A CLOSE that was postponed takes
\* effect when nothing is left to write, else the peer is sent its credit.  A
\* destroyed session that relays all the same is not found in the list and is
\* destroyed again, or waits for data if its pipeline has been freed.
WriteDone(s) ==
  LET w == Head(ses[s].writes)
      c == [ses[s] EXCEPT !.writes = Tail(@)]
  IN
  /\ ses[s].writes # <<>>
  /\ got' = [got EXCEPT ![s] = @ \o w.data]
  /\ \/ /\ c.status # "FORWARD"
        /\ \/ ses' = [ses EXCEPT ![s] = [c EXCEPT !.late = "no"]]
           \/ /\ c.late = "relaying" /\ ~pipe[s]
              /\ ses' = [ses EXCEPT ![s] = [c EXCEPT !.waiting = TRUE]]
        /\ UNCHANGED <<chan, ending>>
     \/ /\ c.status = "FORWARD" /\ c.closeFuture /\ c.queue = <<>>
        /\ ses' = [ses EXCEPT ![s] = Destroyed(c)]
        /\ Push(s, Close)
        /\ ending' = [ending EXCEPT ![s] = "peer"]
     \/ /\ c.status = "FORWARD" /\ ~(c.closeFuture /\ c.queue = <<>>)
        /\ ses' = [ses EXCEPT ![s] = [c EXCEPT !.asyncWriting = FALSE,
                                               !.sentAck = @ + 1]]
        /\ Push(s, Ack(w.ack))
        /\ UNCHANGED ending
  /\ UNCHANGED <<pipe, made>>

\* The write to the local socket fails, or is aborted by destroy().
WriteFailed(s) ==
  LET c == [ses[s] EXCEPT !.writes = Tail(@)] IN
  /\ ses[s].writes # <<>>
  /\ \/ c.status = "FORWARD" /\ DestroyAndTell(s, c)
     \/ /\ c.status = "DESTROY"
        /\ ses' = [ses EXCEPT ![s] = [c EXCEPT !.late = "no"]]
        /\ UNCHANGED <<chan, ending>>
  /\ UNCHANGED <<pipe, made, got>>

\* The sent handler of an ACK frame: in_sent of the client, out_sent of the
\* server take the next data of the pipeline.
AckSent(s) ==
  LET c == [ses[s] EXCEPT !.sentAck = @ - 1] IN
  /\ ses[s].sentAck > 0
  /\ ses' = [ses EXCEPT ![s] = IF c.status = "FORWARD" THEN CacheRead(c) ELSE c]
  /\ UNCHANGED <<chan, pipe, made, got, ending>>

-----------------------------------------------------------------------------
(* Frames: Pipeline::out_async_recv of the client,                           *)
(* PipelineSession::process_streaming_data of the server.                    *)

Parse(s, cmd) ==
  /\ pipe[s] /\ chan[Peer(s)] # <<>> /\ Head(chan[Peer(s)]).cmd = cmd
  /\ chan' = [chan EXCEPT ![Peer(s)] = Tail(@)]
  /\ UNCHANGED <<pipe, made, got>>

\* The server makes a ServerSession, which waits for the trojan request.
RecvConnect ==
  /\ Parse("server", "CONNECT")
  /\ ses' = [ses EXCEPT !["server"] = CacheRead(NewSession("HANDSHAKE"))]
  /\ UNCHANGED ending

RecvData(s) ==
  /\ Parse(s, "DATA")
  /\ ses' = [ses EXCEPT ![s] = IF @.listed THEN PushData(@, Head(chan[Peer(s)]).data)
                                           ELSE @]
  /\ UNCHANGED ending

RecvAckCmd(s) ==
  /\ Parse(s, "ACK")
  /\ ses' = [ses EXCEPT ![s] = IF @.listed THEN RecvAck(@, Head(chan[Peer(s)]).ack)
                                           ELSE @]
  /\ UNCHANGED ending

RecvClose(s) ==
  /\ Parse(s, "CLOSE")
  /\ \/ /\ ~ses[s].listed
        /\ UNCHANGED <<ses, ending>>
     \/ /\ ses[s].listed /\ CanBeClosed(ses[s])
        /\ ses' = [ses EXCEPT ![s] = Destroyed(@)]
        /\ ending' = [ending EXCEPT ![s] = "peer"]
     \/ /\ ses[s].listed /\ ~CanBeClosed(ses[s])
        /\ ses' = [ses EXCEPT ![s].closeFuture = TRUE]
        /\ UNCHANGED ending

\* The pipeline of s is destroyed: a read or write error of the TLS socket,
\* or Service::stop.  Every sent handler runs with an error, the session is
\* destroyed without a CLOSE, and the frames not yet written are lost.
PipeDestroy(s) ==
  /\ pipe[s]
  /\ pipe' = [pipe EXCEPT ![s] = FALSE]
  /\ \E n \in 0..Len(chan[s]) :
       chan' = [chan EXCEPT ![s] = SubSeq(@, 1, n), ![Peer(s)] = <<>>]
  /\ ses' = [ses EXCEPT ![s] = [(IF @.listed THEN Destroyed(@) ELSE @)
                                 EXCEPT !.sentData = 0, !.sentAck = 0]]
  /\ ending' = [ending EXCEPT ![s] = IF ses[s].listed THEN "pipe" ELSE @]
  /\ UNCHANGED <<made, got>>

-----------------------------------------------------------------------------
Next ==
  \/ RequestRemote \/ OutConnected \/ OutConnectFailed \/ OutConnectTimeout
  \/ RecvConnect \/ LateRead
  \/ \E s \in Side :
       \/ LocalRead(s) \/ LocalReadError(s) \/ DataSent(s)
       \/ WriteDone(s) \/ WriteFailed(s) \/ AckSent(s)
       \/ RecvData(s) \/ RecvAckCmd(s) \/ RecvClose(s)
       \/ PipeDestroy(s)

\* A pipeline whose peer is gone meets a read error once it has parsed all.
PipeEOF(s) == ~pipe[Peer(s)] /\ chan[Peer(s)] = <<>> /\ PipeDestroy(s)

\* The event loop runs every callback that is ready, the socks client sends
\* its request, the target answers, and the sockets yield and accept data,
\* but a target that is reached late may be silent.  Errors are never assumed
\* to happen.
Fairness ==
  /\ WF_vars(RequestRemote) /\ WF_vars(OutConnected) /\ WF_vars(RecvConnect)
  /\ \A s \in Side :
       /\ WF_vars(LocalRead(s)) /\ WF_vars(DataSent(s))
       /\ WF_vars(WriteDone(s)) /\ WF_vars(AckSent(s))
       /\ WF_vars(RecvData(s)) /\ WF_vars(RecvAckCmd(s)) /\ WF_vars(RecvClose(s))
       /\ WF_vars(PipeEOF(s))

Spec == Init /\ [][Next]_vars
FairSpec == Spec /\ Fairness

-----------------------------------------------------------------------------
(* Properties.                                                               *)

\* begin_read throws logic_error when a read of the same socket is under way,
\* and two async_writes on one socket may interleave their bytes: the chains
\* read -> send -> sent handler -> read and write -> ACK -> sent handler ->
\* write, and the wake-up by an ACK frame, never start a second one.
NoOverlap ==
  \A s \in Side : ses[s].reading <= 1 /\ Len(ses[s].writes) <= 1

\* Each end writes to its local socket what its peer read, in order, with
\* nothing lost, duplicated or reordered on the way.
InOrder ==
  \A s \in Side : IsPrefix(got[s], [i \in 1..made[Peer(s)] |-> i])

\* The sum of a sequence of numbers.
Total(n) ==
  LET sum[i \in 0..Len(n)] == IF i = 0 THEN 0 ELSE sum[i - 1] + n[i]
  IN  sum[Len(n)]

\* How many frames of q carry a read, and the credit that the frames or the
\* writes of q give back.
Counted(f) == IF f.cmd = "DATA" /\ f.data # <<Req>> THEN 1 ELSE 0
Reads(q) == Total([i \in 1..Len(q) |-> Counted(q[i])])
AckTotal(q) == Total([i \in 1..Len(q) |-> q[i].ack])

\* Frames read by s whose credit has not come back yet.
Outstanding(s) ==
  Reads(chan[s]) + ses[Peer(s)].pushAck
    + AckTotal(ses[Peer(s)].writes) + AckTotal(chan[Peer(s)])

Relaying(s) == /\ ses[s].status = "FORWARD"
               /\ ses[Peer(s)].status # "DESTROY"
               /\ pipe[s] /\ pipe[Peer(s)]

\* While a session relays, no credit is lost and none is invented: the
\* counter, the read under way and what is outstanding add up to the window,
\* plus the first read, which pre_call_ack_func lets through for nothing.
CreditConservation ==
  \A s \in Side : Relaying(s) =>
     ses[s].credit + ses[s].reading + Outstanding(s)
       = Window + IF ses[s].firstCall THEN 0 ELSE 1

\* What the window is for: an end never has to hold more than Window + 1
\* reads of its peer, however slow its local socket is.
BoundedBacklog ==
  \A s \in Side :
     LET w == ses[s].writes IN
     Len(ses[s].queue) + Reads(chan[Peer(s)]) + Total([i \in 1..Len(w) |-> Len(w[i].data)])
       <= Window + 1

\* A session that ends because its peer closed has first written everything
\* that the peer read before it closed ("wait for writing done").
CloseLosesNothing ==
  \A s \in Side : ending[s] = "peer" => Len(got[s]) = made[Peer(s)]

Broken == \E s \in Side : ses[s].status = "DESTROY" \/ ~pipe[s]

\* The window never gets stuck: unless an end is destroyed, everything the
\* local sockets hold crosses the pipeline.
FullTransfer ==
  \A s \in Side : <>(Broken \/ Len(got[Peer(s)]) = Volume[s])

\* No half-dead session but one: when one end is destroyed, the other is too
\* or its pipeline is, save a server session that was dialling.  That one has
\* been destroyed and is off the list, but connect_out_socket brings it back,
\* and then it lives until its target sends something or closes.
CloseSpreads ==
  \A s \in Side :
    LET o == Peer(s) IN
    (ses[s].status = "DESTROY")
      ~> (\/ ses[o].status = "DESTROY" /\ ses[o].late # "relaying"
          \/ ~pipe[o]
          \/ o = "server" /\ ses[o].late = "relaying" /\ ~ses[o].listed)
=============================================================================
