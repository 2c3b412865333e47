# trojan-plus in TLA+

A verification project for trojan-plus: modules that model its sessions with and
without pipelines, its TUN connections and its DNS server, TLC runs that check them
on small instances, and TLAPS proofs of the properties that hold for every value of
the parameters. Paths below are relative to the
repository; the sources are under `src/src/`.

## 1. The system

trojan-plus is a proxy. A *client* accepts SOCKS5 connections (or redirected
connections, a fixed forward, or packets of a TUN device) and carries them to a
*server* over TLS; the server connects to the targets. Both are one process with
one thread: an asio event loop that runs callbacks one at a time. In pipeline mode
the client keeps `pipeline_num` long-lived TLS connections, the pipelines, and
multiplexes all sessions over them with small frames: CONNECT, DATA, ACK, CLOSE
and ICMP, each with a 16 bit session id.

```
 socks client -- ClientSession --+                       +-- ServerSession -- target
 socks client -- ClientSession --+- Pipeline === TLS === PipelineSession
 udp client --- UDPForwardSession+  (SendDataCache)      +-- ServerSession -- target
 lwip --------- TUNProxySession -+
                 Service (list of pipelines)

 without pipelines:
 socks client -- ClientSession === TLS === ServerSession -- target
 lwip -- TUNProxySession === TLS === ServerSession        (or through a
 lwip -- TUNLocalSession -- target                         PipelineSession that
 dns query -- DNSServer -- UDPForwardSession or            hands the socket over)
                           UDPLocalForwarder
```

### Inventory

| component | state | operations | interacts with | what makes it correct |
|---|---|---|---|---|
| `PipelineComponent` (`session/pipelinecomponent.*`) | id, ack counter, wait and first-call flags, writing and close-future flags; static id counter and set of used ids | allocate and free an id, `pre_call_ack_func`, `recv_ack_cmd` | every session | ids unique; credit neither lost nor invented |
| `ReadDataCache` (`core/utils.h`) | queue, count of pushes, waiting handler | `push_data`, `async_read` | session and pipeline | data handed out once, in order, with the right count |
| `SendDataCache` (`core/utils.*`) | two buffers, two handler vectors, sending and destroyed flags | `push_data`, `insert_data`, `async_send`, `destroy` | pipeline, its socket, sent handlers of sessions | order; one answer per frame; the buffer being written is left alone |
| `Pipeline` (`core/pipeline.*`) | connected, destroyed, list of sessions, read buffer | start, send a frame, start and end a session, receive, destroy | Service, sessions, socket | frames reach the session they are for; nobody left behind |
| `PipelineSession` (`session/pipelinesession.*`) | HANDSHAKE, STREAMING or DESTROY, list of sessions, password timer | handshake, process frames, send, destroy | ServerSessions, socket | as above; a stranger is passed to a plain ServerSession |
| `ClientSession`, `NATSession`, `ForwardSession` | status, sockets, read guards | SOCKS5 exchange, relay, UDP associate, destroy | Service, Pipeline | relays everything, once, in order |
| `ServerSession` | status, sockets, queried flag | authenticate, connect out, relay, UDP | PipelineSession | as above |
| `UDPForwardSession` | status, pending packets | packets in and out, idle timer | Service's UDP loop, Pipeline | one session per endpoint, packets kept whole |
| `Session` idle timer | time stamp, asio timer | `udp_timer_async_wait`, cancel | all UDP sessions | idle sessions end, busy ones stay |
| `Service` | list of pipelines, index, UDP sessions | prepare pipelines, start a session, find the pipeline of a session, accept, UDP loop, stop | everything | a session is started on a usable pipeline; load is spread |
| `TUNProxySession`, `TUNLocalSession`, `lwip_tcp_client` (`tun/`) | send and receive buffers, waiting handlers, bytes owed to lwip, closed and aborted flags | lwip's callbacks, frames or socket reads, the close callback, destroy | lwip, Pipeline, `TUNDev` | both streams complete and in order; windows never stuck; nobody closes over unsent data |
| `TUNDev` | lwip clients, UDP sessions | accept, route, packets in and out | lwip, DNS server | the right kind of session for an address |
| `DNSServer`, `UDPLocalForwarder` | cache, two lists of forwarders | queries, answers, expiry | Service, UDPForwardSession, `TUNDev` (route by cache) | answers fit their queries; proxied addresses stay proxied; a listed name goes past the proxy only by a direct forwarder its endpoint had already |
| `icmpd` | table of pending requests | forward and answer | Pipeline | answers go to who asked |
| framing and encodings (`proto/`) | none | parse, generate | all | parse undoes generate |
| matchers (`core/utils.cpp`) | loaded lists | load, match | TUN, DNS | agree with their definition |
| `Authenticator` | external database | `auth`, `record` | ServerSession | quota asked, usage recorded once |
| config, log, SSL helpers, main | - | - | - | not behaviour over time |

### What is hard to test

Nothing runs in parallel inside a process, so the hazards are orders of callbacks
and of frames: a completion that runs after the object was destroyed, a handler
that pushes into the structure that is calling it, an ACK that wakes a read while
another path starts one, a CLOSE that overtakes queued data, an id that is taken
again while frames of its former owner are on the way, a timer whose handler is
queued when it is cancelled, a resolution or a connection that ends after the session
was destroyed and brings it back, a packet cut
in two by a TLS read, a window that only opens when somebody else's window does, a
cached answer shared by several endpoints. `PROJECT.json` lists each one with its line and the
property that would catch it.

## 2. Modules

| module | models | kind |
|---|---|---|
| `PipelineFlow` | one TCP session over a pipeline, both ends | component pair |
| `MCPipelineFlow` | volumes for TLC | MC |
| `PipelineFlowProofs` | `TypeCorrect`, `NeverOverlaps`, `RelayInOrder`, `CloseWaits`, `CreditConserved`, `BacklogBounded` | proofs |
| `OrderedSender` | what a pipeline's sending side promises | abstract specification |
| `SendDataCache` | the double-buffered sender, refines `OrderedSender` | component |
| `SendDataCacheProofs` | `CacheTypeCorrect`, `SwapDiscipline`, `BufferNeverTouched`, `HandlersOnce`, `CacheRefinesSender` | proofs |
| `PipelineMux` | ids, routing, reuse, over one pipeline | composition |
| `PipelineMuxProofs` | `MuxTypeCorrect`, `IdsUnique`, `ListsSearchable`, `UpstreamRouted`, `FirstLapSafe`, `NoServerOrphan` | proofs |
| `UdpTimer` | the idle timer of UDP sessions | component |
| `UdpTimerProofs` | `TimerTypeCorrect`, `IdleSessionsEnd`, `TimerAlways` | proofs |
| `PipelineSelect` | the list of pipelines and the choice among them | component |
| `UdpForward` | `Service`'s UDP loop and the `UDPForwardSession`s | composition |
| `UdpForwardProofs` | `Forwarding`, `PacketsNeverStuck`, `PacketsInOrder`, `RepliesWhole` | proofs |
| `TlsRelay` | one session without a pipeline, from the SOCKS5 client to the target | composition |
| `TlsRelayProofs` | `TargetsNeedPassword`, `UsageRecorded`, `NoOperationTwice`, `StreamsIntact`, `ClosesWhole` | proofs |
| `TunTcp` | one TCP connection of the TUN device, three ways to the far end | composition |
| `TunTcpProofs` | `TunTypes`, `OneLink`, `OwedAlways`, `CreditReturned`, `StreamsWhole`, `NothingUnsent` | proofs |
| `DnsServer` | the DNS server, its cache and its forwarders | composition |
| `DnsServerProofs` | `DnsTypeCorrect`, `AnswersMatch`, `AddressesStayProxied`, `NamesDoNotLeak` | proofs |
| `MCDnsServer` | the symmetry of the endpoints for TLC | MC |

A step is always one callback of the event loop, from its first statement to its
return, with everything it calls. Where an operator has a neighbour with a longer
name (`GatedRead` and `GatedReadAlwaysFree`), the neighbour is a version with a
plausible mistake, kept to show that the properties notice it; it is used by no
specification. Every module states its types in `TypeOK`.

### PipelineFlow

`ses[s]` holds the fields of the session and its `PipelineComponent` at end `s`;
`chan[s]` the frames pushed by `s` and not yet parsed by its peer. The ends
mirror each other: "the local socket" is `in_socket` of the client and `out_socket`
of the server, so `LocalRead` is the completion of `ClientSession::in_async_read`
and of `ServerSession::out_async_read`, `WriteDone` that of
`ClientSession::in_async_write` and `ServerSession::out_async_write`, `DataSent`
is `ClientSession::out_sent` and `ServerSession::in_sent`, `AckSent` the other two.
`GatedRead` is `pre_call_ack_func` with the read it permits; `PushData` and
`CacheRead` are `ReadDataCache`.

Data is abstracted to numbers: the n-th read of a socket yields n, so that loss,
duplication and reordering are visible. The SOCKS5 exchange is one status. The
pipeline is a queue of frames whose sent handlers run at any later time, which is
what `OrderedSender` promises and `SendDataCache` is proved to implement. When a
pipeline is destroyed (`PipeDestroy`), any suffix of the frames may be lost.

`destroy` does not stop `connect_out_socket`: a resolution that has begun ends, and
the handler of the connection tests no status. A server session that is destroyed
while it connects may therefore set FORWARD again, although it is off the list
(`late`: "dialing", then "relaying"). It reads the target and takes what its cache
holds; whatever the read or the write returns ends it again (`LateRead`,
`WriteDone`), because `in_send` does not find it. Nothing it reads reaches the peer.
With a target that stays silent it remains, and `CloseSpreads` names it as the one
exception.

### SendDataCache and OrderedSender

The variables are the fields of the class plus the write in flight, the bytes the
TLS stream took, and the history of handler calls. `WriteDone` is the whole
completion: the handlers run, may push up to `MaxReentrant` frames, the written
pair is emptied, the next write starts. `owner` is chosen in the initial state, one
of the two writers: `Pipeline`'s calls the completion after destroying itself,
`PipelineSession`'s returns. The refinement maps the two buffers to one queue, the one being written
first.

### PipelineMux

Sessions are numbered in order of construction; ids come from the allocator and
wrap at `N`. Frames carry the number as a label that no action reads, and the
histories `crossUp` and `crossDown` record a frame that was given to another
session than the one it was meant for. `late` marks a server session destroyed
while the completion of its last write is queued. `PipelineBroken` stands for the
loss of the connection. An exception of the allocator leaves the event loop:
`main` catches it and the process ends (`running`).

### UdpTimer

`armed` is the asio timer with the timeout its handler captured; `queued` are
handlers that expired and cannot be cancelled. Seconds are those of
`time(nullptr)`; the loop is assumed prompt, no second passes while a handler waits.

### PipelineSelect

A pipeline is its configuration and its state; the list, its repair, arrangement
and the index are those of `Service`. `Becomes` stands for what happens to a
pipeline between two calls. `Pipeline::connected` is never reset, so a dead
pipeline counts as connected until it is released, as in the code.

### UdpForward

`ses[n]` is the n-th `UDPForwardSession`, `list` is `udp_sessions`; `config`, chosen
in the initial state, says whether there are pipelines and whether NAT is used. The functions
of the session (`InRecv`, `OutSent`, `Begin`, ...) are operators on its record, the
actions are the callbacks that call them. `Create` and `Started` are two steps with
a pipeline, as the session is listed only when its CONNECT frame has been sent; in
between it may be destroyed (`End`), and the callback starts it all the same, as in
the code. A session without pipeline connects first. `out[n]` is what was handed to
the pipeline or the TLS stream. A reply is two pieces that a TLS read may separate;
a frame of a pipeline holds a whole one. `OutRecv` takes whole replies out of
`udp_data_buf` and sends each to the endpoint; one that the system refuses
(`no_permission`, a firewall or a rate limit) is consumed like the others and counts
as `Lost`, another failure ends the session (with NAT) or the process after the
replies before it were delivered. The idle timer is one way to reach `End`
and is the subject of `UdpTimer`; a write to a pipeline that is gone fails in a step
of its own instead of inside the call. The targets of packets and the frames of a
former owner of the session id are left out.

### TlsRelay

`cs`, `srv` and `front` are the `ClientSession` (or `NATSession`, `ForwardSession`),
the `ServerSession` and, when the server runs pipelines, the `PipelineSession` that
accepted the connection and hands its socket over when the first line is not its
password. The asynchronous operations a session has begun are the set `ops`; an
action is the completion of one of them, named after the function of the session it
calls. `Begin` is also the read guard: an operation begun twice sets `clash`.
`link` holds the units written to the TLS connection, a read takes any number of
them. A datagram is two units, so that a read can cut it. `setup`, chosen in the
initial state, says who talks to whom and what the first line holds: a password of
the configuration, a user's, none of these, or no line end at all.

`destroy` closes sockets, but what is under way ends in a handler of its own. Four
kinds of handlers matter, because they test no status or hold something: a
resolution opens the UDP socket again, reads and sends (`Resolved`); a connection of
the server sets FORWARD again and its first read fails (`ServerDialedLate`), which
destroys the session a second time; the connection of a UDP client goes on with
sockets that are closed (`ClientDialed` with `late`); and the guard of an aborted UDP
read is released only when its handler runs (`UdpReadEnds`). A TCP session is
destroyed during its dial only by the timeout of the connection, and then the socket
is closed, so only a handler that is queued already succeeds; a UDP client may be
ended by its idle timer while the name of the server is being resolved. Another
behaviour is kept as it is: an empty datagram of the application ends the reading of
its socket (`UdpRecv`). The write that is under way when a session is destroyed may
be lost or cut.

### TunTcp

`tun` holds the fields of the session (`TUNProxySession` or `TUNLocalSession`, by
`mode`), of its `PipelineComponent` and `ReadDataCache`, of the `lwip_tcp_client` and
of lwip's control block. The session and the client call each other back and forth
(`destroy`, the close callback, `close_client`), so their functions are operators
on the record and an action composes them: `AppSend` and `AppClose` are
`client_recv_func` and `client_err_func`, `AppAck` is `client_sent_func`, `Sent` the
next sent handler, `RecvFrame` a frame of the pipeline, `ReadDone` a read of the
socket. lwip is external: `tcp_write` takes what fits, answers ERR_MEM while
something is unacknowledged, or fails. A session that is destroyed while it dials,
by the application or by the timeout (`DialTimeout`), is dialled all the same:
`Dialed` runs for it, its sent handler fails, and a `TUNLocalSession` may read.
The far end sends within the window, may
close at any time and acknowledges each frame.

### DnsServer

`cache` is `m_dns_cache` in its order, `fwd` all forwarders ever made, `lists` the two
lists of weak pointers. `InRecved` is a query from the look-up in the cache to the
forwarder that takes it; `RecvUpStream` an answer; `Started` the callback of
`start_session`; `Released` the moment a weak pointer expires. A query has its number
as ID. An answer has any number of A records with a TTL each; the cache keeps the
lowest (`LowestTtl`), which is unsigned in the message and an `int` in the cache
(`ToInt`), so that one with the top bit set has expired at once, and the largest number
stands for no record. The width of a TTL is the constant `MaxTtl`. `StaysProxied`
counts a TTL with the top bit set as 0, as RFC 2181 does. A and AAAA queries of a domain
share the cache, as in the code, and `AnswersFit` says nothing of the type. The result
of the domain matcher is the constant `Listed`, and
`ProxyByRoute` is `TUNDev::proxy_by_route` for route type gfwlist and an address on
no list. What a cached answer says about its TTL is not rewritten by the code, so an
application may keep an address longer than the cache does; `StaysProxied` is about
the cache's own time.

## 3. Runs

| run | instance | result |
|---|---|---|
| `flow` | window 2, 4 reads at the client, 1 at the server, all failures, fair | 291,943 states, holds |
| `cache` | both owners, 6 pushes, 2 from inside handlers per batch, fair | 1,704 states, holds |
| `mux` | 3 ids, 4 sessions, 1 data frame | 4.2 million states, holds |
| `udp_timer` | timeout 4, 16 seconds | 5,041 states, holds |
| `udp_timer_early` | timeout 3, 12 seconds | violated, see below |
| `udp_forward` | with and without pipeline and NAT, 1 endpoint, 2 sessions, 3 packets, 2 replies each, fair | 1.2 million states, holds |
| `select` | 2 configurations of 2 pipelines, 6 created in all | 25,144 states, holds |
| `tls_relay` | 2 units or datagrams each way, 20 setups, fair | 345,028 states, holds |
| `tls_relay_guard` | the same | violated, see below |
| `tun_tcp` | all three ways, window 1, send buffer 1, receive window 2, 4 units up, 2 down, fair | 222,190 states, holds |
| `tun_close` | pipeline, send buffer 2, 2 units down | violated, see below |
| `dns` | 2 endpoints (symmetric), 2 listed domains of which one is the server's own, 2 addresses (symmetric), TTLs 1 and 2 of 2 bits, 3 queries, 2 answers, 1 second | 6.4 million states, holds |

What each run shows is said in `PROJECT.json`; the properties are stated in words
above their definitions.

Why the bounds are enough. *flow*: 4 reads against a window of 2 (3 reads before
the first ACK is needed) make the client stall, be woken, and have several pushes
merged into one ACK; one read in the other direction lets both directions and all
frame kinds interleave. *cache*: a buffer is used, swapped, reused and swapped
again after three pushes. *mux*: with 3 ids the allocator refuses the third live
session, and the fourth session takes an id a second time while frames of the
first may be anywhere. *udp_timer*: several re-arms fit in four timeouts. *select*:
two pipelines can be replaced. *udp_forward*: a session collects packets while it
starts and during two writes in a row, an endpoint has two sessions, and two replies
can be cut at every place. *tls_relay*: two datagrams in each direction are cut
inside and between, and a second one waits while the first is sent; the line limit
of 2 makes the front read twice before it gives up on a line end. *tun_tcp*: the
application sends 4 units against a limit of 1 before the connection, a receive
window of 2 and a window of 1, so each of the three stalls and reopens; 2 units down
against a send buffer of 1 leave data in the session's buffer and in the cache.
*dns*: two entries of one domain with different ends of life, one by each way, and
a third query that meets them, two addresses in one answer with different TTLs, one
of which has its top bit set. A query of type AAAA does what one of type A whose
answer has no A record does, so the run leaves it out (`QTypes`). The endpoints are
interchangeable, and so are the addresses: no action or property tells them apart.

Deadlock checking is off: all these systems may stop, when every session has ended
or a bound is reached.

### Fairness

Liveness is checked under weak fairness of the callbacks only: the event loop runs
every handler that is ready, TCP delivers what was sent while the connection lives,
and a read of a connection whose peer is gone fails. No failure is assumed to happen.

* `flow` also assumes that the applications at both ends are willing: the socks
  client sends its request, the sockets yield and accept data, the target answers;
  but not the target of a session that was destroyed while it connected.
* `cache` assumes that a connect attempt and a write end, well or badly; the code
  bounds the connect with a timer. `udp_forward` assumes the same.
* `tls_relay` assumes that connections are made and accept data, and that the front's
  three second timer fires; nobody has to send.
* `tun_tcp` assumes that the application sends all it has and acknowledges what it
  gets, and that the far end sends and acknowledges. `Drains` leaves out a session
  whose CLOSE was postponed when its pipeline broke: the last acknowledgement then
  calls `destroy` of a session that is destroyed already and reports the client as
  gone (`lwip_tcp_client.cpp:159`), and nothing closes the client.

### Disagreements

* `udp_timer_early`: `docs/config.md` says `udp_timeout` is "how long (in seconds) a
  UDP session will last in idle". The timer's handler re-arms with the rest of the
  timeout it captured and compares with that rest the next time, so the limit shrinks:
  with a timeout of 3 a session is destroyed 1 second after a packet.
* `tun_close`: a CLOSE frame waits with the comment "wait for writing done"
  (`core/pipeline.cpp:217`), and `ClientSession` and `ServerSession` let it take effect
  only when nothing is queued. `TUNProxySession::recv_buf_ack_sent` destroys the
  session when lwip has acknowledged what it took, without asking whether frames
  received before the CLOSE are still in the data cache: the application sees a
  clean end of a truncated stream. `ClosedDrained` holds all the same: what lwip was
  given is never cut.
* `tls_relay_guard`: `begin_read` asserts that a read is not begun "before
  _guard_read_buf_end" (`core/utils.h:346`). `ServerSession::destroy` closes the UDP
  socket, and the guard is released by the aborted handler (`serversession.cpp:246`).
  A resolution whose handler is queued before that one finds the socket closed, opens
  it and reads again (`serversession.cpp:443-466`) with the guard still set: the
  `logic_error` leaves the event loop and ends the process. `NoClash` says that this is
  the only case.

Two more are part of what passing runs check:

* `docs/authenticator.md:34` says that after a connection is closed
  the user's fields are incremented "by the amount of data the user has used". A
  connection to the target that has succeeded when its timeout destroys the session
  sets FORWARD again (`serversession.cpp:364`); its read fails and `destroy` adds the
  same amounts again. `Recorded` says that this is the only case, and that the usage
  is then added twice and not more often.
* A comment in `prepare_pipelines` (`service.cpp:325`) says the list is arranged
  `012301230123...`. The search for the wanted configuration starts behind the
  current position, so that 4 configurations of 2 pipelines come out as
  `0 1 2 3 0 2 1 3`. `PipelineSelect` arranges as the code does; `NoStarvation` holds all
  the same.

## 4. Proofs

All proofs are for every value of the constants, from the assumptions named in the
modules (a positive window, volumes and bounds that are natural numbers, at least
one id, a positive timeout, at least one endpoint, positive windows and buffer sizes
of `TunTcp`). None bounds the number of steps. The types of each module are proved
first, as the other theorems rest on them, and every inductive invariant was checked
with TLC on the run's instance before it was proved.

*PipelineFlow.* `TypeCorrect`: the one delicate part is that the credit stays a
natural number, which rests on the test in `pre_call_ack_func`. `NeverOverlaps`: that
at most one read and one write are under way is not inductive. What makes it so is
that each direction has one token (`ChainInv`): for reads, either a read is under way,
or one DATA frame waits for its sent handler, or the session waits for an ACK, never two
of them; for writes, either a write is under way, or an ACK frame waits for its sent
handler, or the cache waits for data. An ACK frame only starts a read when the
wait flag holds the token, and `push_data` only starts a write when the cache
waits. The proof also needs that a frame of the trojan request is not confused with
data before the server is connected. `RelayInOrder` and `CloseWaits` share `FlowInv`,
which gives every part of a stream its position: what is written, the write under way and
the queue of the cache are consecutive numbers (`Rx`), and each DATA frame of the
channel follows on the one before it, or the first on what the receiver has reached
(`Towards`). CONNECT is the first frame and the only one of its kind (`Opened`), and a
CLOSE is the last frame of its sender, with all its data before it (`AtEnd`); so an
end that has seen it and has nothing queued has written all (`Closed`).
`CreditConserved` and `BacklogBounded` are read off `CreditInv`, an account of the window
for each direction: what the sender holds (its counter, the read it paid for, the free
first read), the DATA frames on the way, what the receiver holds (one unit for each
read in its cache or in a write, `Matched`) and the ACK frames on the way back are
`Window + 1` until an end is destroyed, and never more (`Balanced`). `CreditConservation`
alone is not inductive: it says nothing of a server that does not relay yet, whose
first read comes with the connection. The proof needs `FlowInv` to tell the trojan
request, the one DATA frame that costs nothing, from the reads. The sums are recursive
functions; that they exist, and what they are for a longer or a shorter sequence
(`SumsExist`, `TotalSplit`), is induction over sets of numbers.

*SendDataCache.* `SwapDiscipline`: while a write is in flight the sending flag is set
and pushes go to the other pair; and unless the cache is destroyed the flag means
that a write is in flight. `BufferNeverTouched` follows step by step from it.
`CacheInv` adds that each of the two buffers is paired with the handlers of the frames
in it (`Paired`), that called handlers, the pair being written and the other one are
the pushes in their order (`InTurn`), and what a destroyed cache has told its handlers
(`AllTold`). `HandlersOnce` is read off it. `CacheRefinesSender` maps the buffers to one queue
and shows that each action is a step of `OrderedSender` or leaves its variables alone;
only `WriteDone`, where handlers push while the batch is being finished, needs more
than unfolding.

*PipelineMux.* `IdsUnique`: the set of used ids is exactly the ids of the live
sessions, which with the allocator's test gives uniqueness. `UpstreamRouted` (no frame of
a client session is given to another session at the server) rests on the order of the
sessions that take one id after the other: their frames are queued in the order of the
sessions (`InTurn`), none that is queued belongs to an older session than one the
server has had with that id (`Behind`), the listed session is the newest (`Newest`), and a session is
announced once, before its other frames (`Announced`, `OnceEach`). So the search by id
finds the right session or none. `NoServerOrphan` adds that a session that ended by
itself has told the server, or the CLOSE is still in the channel (`AllTold`).
`FirstLapSafe` is about the other direction, for which the code has no such order: until
the counter has walked through the ids once (`FirstLap`), no frame is given to the
wrong client session.

*UdpTimer.* `IdleSessionsEnd`: the time stamp is never before the last packet by
more than a second's handling, the timer in use expires no later than the captured
timeout after the stamp, and the loop is prompt; so a timer looks at the session in
time and finds it idle. `TimerAlways`: a running session has a timer armed or a handler
queued, although a cancelled handler that was queued runs all the same.

*UdpForward.* `PacketsNeverStuck`: that no session has two writes under way and none
holds packets that nothing will send. It is not inductive because of the sessions that
are started although they were destroyed: `Fit` adds that a session whose start or
connect is pending has no write under way and only one of the two pending, whatever
its status. It is a statement about one session, and each function of the session is
shown to keep it. `PacketsInOrder`: what was handed over followed by what is buffered is
the request and the accepted packets in their order (`UpStream`), also for a destroyed
session that is still to be connected; a packet is only given to a session whose
`start_udp` was called, because only those are listed (`Listed`). `RepliesWhole`: while a
session reads, `udp_data_buf` and the pieces on the way continue what was taken
(`DownStream`), whether the endpoint got it or the system refused it. The list is pruned by a recursive function, and that the pruned list has
no new members is an induction over a set of numbers (`AllNumbers`, from the
well-foundedness of < on Nat).

*TlsRelay.* `TargetsNeedPassword` and `UsageRecorded` have one inductive invariant,
`IInv`. How often a destroyed session is recorded is not inductive: a completion
that runs after destroy may set another status and let the session be destroyed
again. `SrvOK` therefore says which operations can be pending after destroy: a
resolution, the datagram and the read it starts, none of which changes the status, and
a dial, which ends once. `Phases` says that there is no server session before the client is connected
and none while the front still waits for the password, nor while a destroyed client may
still connect, so that a session is made once
and with the status its first data is checked in. Each function of the server session
is shown to keep status, peer, user and record (`Same`), or is one of the two that
change them, `FirstRecv` and `ServerDestroy`. `NoOperationTwice`: the operations of a
session form two chains, one per direction, each operation being begun by the
completion of its predecessor; `Solo` says that of each chain at most one is under way
and which ones each status allows, so none is begun twice. Of a destroyed server
session that relayed datagrams it says nothing, as `NoClash` does. `StreamsIntact`: a unit is a
number, and each part of a stream, wherever it is, is a run of consecutive numbers
(`Run`). `Flow` gives every part its place: towards the target, what was handed over,
what is being written or waits for the connection, what `udp_data_buf` holds, what the
front has read and what is on the TLS connection follow on each other (`UpLine`), and in
the same way back to the application (`DownLine`). The last unit on its way is the last
that was sent while both ends live; after a destroy, which may cut a write that is under
way, it is at most that. Which operations each status allows (`ClientOps`, `ServerOps`)
says which buffer holds a part and which is left over. `ClosesWhole` adds `Ends`: the
connection to the client is shut down only when the server's session, or the front
before there is one, is destroyed for good, so that the cause and the count do not change
after the client has met that end; and a client that reads has nothing left to write.

*TunTcp.* One invariant, `Safe`, for all three ways to the far end. `Fit` counts: what
lwip still owes is what it was given and has not acknowledged plus the session's
buffer, and the credit taken from the frames is what was written or is held
(`OwedAlways`, `CreditReturned`); and it says that the reading of a live session is a
chain: it dials, or one sent handler that leads to a read is pending, or it reads, or
it waits in the data cache, or it holds data for lwip, and only one of these. Without
the chain a second read could put data behind a buffer that lwip has not taken, and
neither the counts nor the order would be kept. `OneLink` is `OneReader`: the links,
counted, are one. `UpLine`, `Rest` and `Exact` give both streams
their positions (`StreamsWhole`), and `Ended` says what an ordinary end leaves
(`NothingUnsent`).

*DnsServer.* `DnsInv` has three parts. `Ok`: a forwarder holds only queries of its own
endpoint, so an answer that reaches it goes to the endpoint that asked
(`AnswersMatch`), and each list has forwarders of its kind, also the sessions that
are listed only when their start is done; so what `try_to_find_existed` finds in the
first list leads through the proxy (`NamesDoNotLeak`). `Covers`: for every address that
has to be proxied the cache has the entry of its longest valid answer. `StaysProxied`
is not inductive: that some entry of the address is in the cache does not say
that it outlives the next look-up, which erases what has expired. What the erasing
loops leave (`Sift`) is found by induction along the list (`SiftFacts`).

Left to TLC: every liveness property (fairness is out of the prover's reach); all of
`PipelineSelect`, whose arrangement is a fold.

## 5. Not modelled

Byte layouts (what a parser tells apart is in the models), configuration, logging,
the database behind the authenticator, TLS itself, lwip and the asio library, which
appear as the order in which callbacks may run and the answers they may get. The
matchers are constants of the models that use them. Of the parts with behaviour, the
UDP sessions of the TUN device (they join and cut packets as `UdpForward` does), the
ICMP proxy, packet input and output of `TUNDev`, the step of a `PipelineSession` from
the password to its streaming state, and `Service::stop` are not modelled. The
hazards without a property say why: most are behaviours for which the code gives no
guarantee that could be stated.

## 6. Plan

1. (done) The core: relaying with credit, the sender, ids and routing, the idle
   timer, the choice of a pipeline, UDP forwarding; their first theorems.
2. (done) Sessions without pipelines with the SOCKS5 exchange, UDP associate, the
   password and the hand-over; TUN connections; the DNS server; the theorems of
   `TlsRelay`.
3. (done) Theorems for the order and completeness of what is relayed: `PipelineFlow`,
   `UdpForward`, `TunTcp`; the refinement of `OrderedSender`; routing in
   `PipelineMux`; `NoClash` of `TlsRelay`; conservation of credit in `PipelineFlow`.
4. (done) The theorems of `DnsServer`; the two streams of `TlsRelay`;
   `OneReader` of `TunTcp`.
5. The UDP sessions of the TUN device, the ICMP table, the framing against its
   parser on lengths, the matchers against reference definitions.
