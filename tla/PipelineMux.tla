----------------------------- MODULE PipelineMux -----------------------------
(***************************************************************************)
(* Many sessions over one pipeline.  A client session takes an id from the *)
(* static allocator of PipelineComponent when it is constructed and gives  *)
(* it back in its destructor; both ends find the session a frame is for by *)
(* that id alone.  The module follows the ids through CONNECT, DATA, ACK   *)
(* and CLOSE, the destruction of either end and the loss of the pipeline,  *)
(* and asks when a frame can reach a session it was not meant for.         *)
(*                                                                         *)
(* A client session is its number in the order of construction; the server *)
(* session its CONNECT creates has the same number.  Frames carry the      *)
(* number too, which the code does not: only properties look at it.  What  *)
(* a session does with a frame is in PipelineFlow; here DATA also stands   *)
(* for ACK, and whether a CLOSE finds queued data is a free choice.        *)
(***************************************************************************)
EXTENDS Integers, Sequences, FiniteSets

CONSTANTS N,            \* number of ids: 2^16 in the code
          MaxSessions,  \* bound on the sessions ever constructed
          MaxData       \* bound on the DATA and ACK frames ever sent

ASSUME NAssumption == N \in Nat \ {0}
ASSUME SessionsAssumption == MaxSessions \in Nat
ASSUME DataAssumption == MaxData \in Nat

Ids == 0..(N - 1)
Num == 1..MaxSessions
None == 0

VARIABLES counter,   \* s_session_id_counter
          used,      \* s_session_used_ids
          id,        \* m_session_id of the client session, kept after its end
          client,    \* where each client session is in its life
          server,    \* where each server session is in its life
          up, down,  \* frames from client to server, from server to client
          sent,      \* DATA and ACK frames sent so far
          crossUp,   \* <<x, y>>: a frame of x was given to server session y # x
          crossDown, \* <<x, y>>: a frame of x was given to client session y # x
          running    \* the client process has not thrown

vars == <<counter, used, id, client, server, up, down, sent, crossUp, crossDown, running>>
server_side == <<server, down, crossUp>>

\* idle: constructed, not given to a pipeline; listed: in Pipeline::sessions;
\* closing: listed, with m_write_close_future set; destroyed: the object is
\* still held by a callback; gone: the destructor has run.
ClientStates == {"unborn", "idle", "listed", "closing", "destroyed", "gone"}
\* late: destroyed while the completion of a write to its target is queued
ServerStates == {"none", "listed", "closing", "late", "dead"}
Frame == [cmd : {"CONNECT", "DATA", "CLOSE"}, sid : Ids, num : Num]

TypeOK ==
  /\ counter \in Ids /\ used \subseteq Ids
  /\ id \in [Num -> Ids]
  /\ client \in [Num -> ClientStates]
  /\ server \in [Num -> ServerStates]
  /\ up \in Seq(Frame) /\ down \in Seq(Frame)
  /\ sent \in 0..MaxData
  /\ crossUp \subseteq Num \X Num /\ crossDown \subseteq Num \X Num
  /\ running \in BOOLEAN

Init ==
  /\ counter = 0 /\ used = {} /\ id = [n \in Num |-> 0]
  /\ client = [n \in Num |-> "unborn"] /\ server = [n \in Num |-> "none"]
  /\ up = <<>> /\ down = <<>> /\ sent = 0
  /\ crossUp = {} /\ crossDown = {} /\ running = TRUE

InClientList(n) == client[n] \in {"listed", "closing"}
InServerList(n) == server[n] \in {"listed", "closing"}
Live(n) == client[n] \notin {"unborn", "gone"}

\* The sessions a search of the list by id can return: at most one, see
\* OnePerId; None when there is none.
FoundClient(i) == LET m == {n \in Num : InClientList(n) /\ id[n] = i}
                  IN  IF m = {} THEN {None} ELSE m
FoundServer(i) == LET m == {n \in Num : InServerList(n) /\ id[n] = i}
                  IN  IF m = {} THEN {None} ELSE m

\* Nothing happens after an exception left the event loop of the client.
Running == running /\ UNCHANGED running

FrameOf(c, n) == [cmd |-> c, sid |-> id[n], num |-> n]

-----------------------------------------------------------------------------
(* The allocator.                                                            *)

\* allocate_session_id: the first free id from the counter on, wrapping.
AllocateLowest(i) == i \notin used /\ \A j \in Ids : j < i => j \in used
AllocateAnyway(i) == i = counter
Allocate(i) ==
  \E k \in Ids : /\ i = (counter + k) % N /\ i \notin used
                 /\ \A j \in Ids : j < k => (counter + j) % N \in used

\* s_session_id_counter++ of a uint16_t
Advance(i) == (i + 1) % N

AtLimit == Cardinality(used) >= N - 1

\* The constructor of a ClientSession, UDPForwardSession or TUNProxySession.
Construct(n) ==
  /\ Running
  /\ client[n] = "unborn" /\ \A m \in Num : m < n => client[m] # "unborn"
  /\ ~AtLimit
  /\ \E i \in Ids : /\ Allocate(i)
                    /\ counter' = Advance(i)
                    /\ used' = used \cup {i}
                    /\ id' = [id EXCEPT ![n] = i]
  /\ client' = [client EXCEPT ![n] = "idle"]
  /\ UNCHANGED <<server_side, up, sent, crossDown>>

\* allocate_session_id throws, the exception leaves the event loop.
IdsExhausted ==
  /\ running /\ AtLimit /\ \E n \in Num : client[n] = "unborn"
  /\ running' = FALSE
  /\ UNCHANGED <<counter, used, id, client, server_side, up, sent, crossDown>>

\* The destructor, of a destroyed session or of one that was never started.
Release(n) ==
  /\ Running
  /\ client[n] \in {"idle", "destroyed"}
  /\ client' = [client EXCEPT ![n] = "gone"]
  /\ used' = used \ {id[n]}
  /\ UNCHANGED <<counter, id, server_side, up, sent, crossDown>>

-----------------------------------------------------------------------------
(* The client end.                                                           *)

\* Service::start_session, Pipeline::session_start
SessionStart(n) ==
  /\ Running
  /\ client[n] = "idle"
  /\ client' = [client EXCEPT ![n] = "listed"]
  /\ up' = Append(up, FrameOf("CONNECT", n))
  /\ UNCHANGED <<counter, used, id, server_side, sent, crossDown>>

\* session_async_send_cmd with DATA or ACK
ClientSend(n) ==
  /\ Running
  /\ InClientList(n) /\ sent < MaxData
  /\ sent' = sent + 1
  /\ up' = Append(up, FrameOf("DATA", n))
  /\ UNCHANGED <<counter, used, id, client, server_side, crossDown>>

\* destroy(false): session_destroy_in_pipeline, session_destroyed.  A closing
\* session comes here by itself, when what it had queued is written.
ClientDestroyUntold(n) ==
  /\ Running
  /\ InClientList(n)
  /\ client' = [client EXCEPT ![n] = "destroyed"]
  /\ UNCHANGED <<counter, used, id, server_side, up, sent, crossDown>>
ClientDestroy(n) ==
  /\ Running
  /\ InClientList(n)
  /\ client' = [client EXCEPT ![n] = "destroyed"]
  /\ up' = Append(up, FrameOf("CLOSE", n))
  /\ UNCHANGED <<counter, used, id, server_side, sent, crossDown>>

\* One frame of Pipeline::out_async_recv.
ClientRecv ==
  /\ Running
  /\ down # <<>>
  /\ down' = Tail(down)
  /\ \E n \in FoundClient(Head(down).sid) :
       /\ crossDown' = crossDown \cup ({<<Head(down).num, n>>} \cap
                                       {p \in Num \X Num : p[1] # p[2]})
       /\ IF n # None /\ Head(down).cmd = "CLOSE"
          THEN \E s \in {"closing", "destroyed"} : client' = [client EXCEPT ![n] = s]
          ELSE UNCHANGED client
  /\ UNCHANGED <<counter, used, id, server, up, sent, crossUp>>

-----------------------------------------------------------------------------
(* The server end.                                                           *)

\* A server session that goes may leave the completion of a write behind.
Ended == {"late", "dead"}

\* The CONNECT branch of process_streaming_data: a session that still has
\* the id is destroyed without a word, and a new one is listed.
AcceptOver(n, old) == server' = [server EXCEPT ![n] = "listed"]
Accept(n, old) ==
  \E s \in Ended :
    server' = [m \in Num |-> IF m = n THEN "listed" ELSE IF m = old THEN s ELSE server[m]]

\* One frame of PipelineSession::process_streaming_data.
ServerRecv ==
  /\ Running
  /\ up # <<>>
  /\ up' = Tail(up)
  /\ \E n \in FoundServer(Head(up).sid) :
       \/ /\ Head(up).cmd = "CONNECT"
          /\ Accept(Head(up).num, n)
          /\ UNCHANGED crossUp
       \/ /\ Head(up).cmd # "CONNECT"
          /\ crossUp' = crossUp \cup ({<<Head(up).num, n>>} \cap
                                      {p \in Num \X Num : p[1] # p[2]})
          /\ IF n # None /\ Head(up).cmd = "CLOSE"
             THEN \E s \in {"closing", "dead"} : server' = [server EXCEPT ![n] = s]
             ELSE UNCHANGED server
  /\ UNCHANGED <<counter, used, id, client, down, sent, crossDown>>

\* in_send with DATA or ACK for a listed session
ServerSend(n) ==
  /\ Running
  /\ InServerList(n) /\ sent < MaxData
  /\ sent' = sent + 1
  /\ down' = Append(down, FrameOf("DATA", n))
  /\ UNCHANGED <<counter, used, id, client, server, up, crossUp, crossDown>>

\* The queued completion of a destroyed session: session_write_ack sends if
\* in_send finds a session with its id, whichever that is.
ServerLateAck(n) ==
  /\ Running
  /\ server[n] = "late"
  /\ server' = [server EXCEPT ![n] = "dead"]
  /\ down' = IF FoundServer(id[n]) = {None} THEN down ELSE Append(down, FrameOf("DATA", n))
  /\ UNCHANGED <<counter, used, id, client, up, sent, crossUp, crossDown>>

\* destroy(false): remove_session_after_destroy sends CLOSE, then erases.
ServerDestroy(n) ==
  /\ Running
  /\ InServerList(n)
  /\ \E s \in Ended : server' = [server EXCEPT ![n] = s]
  /\ down' = Append(down, FrameOf("CLOSE", n))
  /\ UNCHANGED <<counter, used, id, client, up, sent, crossUp, crossDown>>

\* The connection breaks: Pipeline::destroy and PipelineSession::destroy.
\* The next session is started on a new pipeline, which begins empty.
PipelineBroken ==
  /\ Running
  /\ \E n \in Num : InClientList(n) \/ InServerList(n)
  /\ client' = [n \in Num |-> IF InClientList(n) THEN "destroyed" ELSE client[n]]
  /\ server' = [n \in Num |-> IF server[n] = "none" THEN "none" ELSE "dead"]
  /\ up' = <<>> /\ down' = <<>>
  /\ UNCHANGED <<counter, used, id, sent, crossUp, crossDown>>

ClientStep(n) == Construct(n) \/ Release(n) \/ SessionStart(n) \/ ClientSend(n) \/ ClientDestroy(n)
ServerStep(n) == ServerSend(n) \/ ServerLateAck(n) \/ ServerDestroy(n)

Next ==
  \/ \E n \in Num : ClientStep(n) \/ ServerStep(n)
  \/ IdsExhausted \/ ClientRecv \/ ServerRecv \/ PipelineBroken

Spec == Init /\ [][Next]_vars

-----------------------------------------------------------------------------
(* Properties.                                                               *)

\* No two client sessions hold the same id, and the allocator knows exactly
\* the ids that are held: the set and the objects cannot drift apart over any
\* sequence of constructions, wraps of the counter and destructions.
UniqueIds ==
  /\ \A m, n \in Num : Live(m) /\ Live(n) /\ m # n => id[m] # id[n]
  /\ used = {id[n] : n \in {m \in Num : Live(m)}}

\* At most one session per id is in the list of either end, so the search by
\* id cannot pick a wrong one of two.
OnePerId ==
  \A m, n \in Num : m # n /\ id[m] = id[n] =>
    ~(InClientList(m) /\ InClientList(n)) /\ ~(InServerList(m) /\ InServerList(n))

\* Towards the server no frame reaches a session of another client session,
\* also when an id is taken again at once: the CONNECT comes first and drops
\* whatever still has the id.
NoCrossUp == crossUp = {}

\* Towards the client a frame can only reach another session through an id
\* that was used before, so the first N sessions, one lap of the counter,
\* are out of the reach of every other session's frames.
FirstLapClean == \A p \in crossDown : p[2] > N

\* A client session that ends takes its server session with it: as long as
\* the server session is listed, the CLOSE frame that ends it is on its way,
\* also when the id is taken again meanwhile and frames of the successor
\* follow.  (The end by a late CLOSE of another session is not announced.)
NoOrphan ==
  \A n \in Num :
    (client[n] \in {"destroyed", "gone"} /\ \A p \in crossDown : p[2] # n) =>
      \/ server[n] # "listed" \/ ~running
      \/ \E k \in DOMAIN up :
           /\ up[k].cmd \in {"CLOSE", "CONNECT"} /\ up[k].sid = id[n]
           /\ \A j \in 1..(k - 1) : up[j].sid = id[n] => up[j].num = n
=============================================================================
