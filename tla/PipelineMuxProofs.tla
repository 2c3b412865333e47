-------------------------- MODULE PipelineMuxProofs --------------------------
(***************************************************************************)
(* Proofs about PipelineMux for every number of ids and of sessions: the   *)
(* allocator never hands out an id that is held, both lists hold at most   *)
(* one session per id, no frame reaches the server session of another      *)
(* client session, none reaches a wrong client session before the counter  *)
(* has wrapped, and no server session outlives its client session.         *)
(***************************************************************************)
EXTENDS PipelineMux, TLAPS

\* The variables the allocator works on.
alloc == <<counter, used, id>>

\* Next by actions, one case per operation.
LEMMA NextCases ==
  ASSUME [Next]_vars
  PROVE  \/ \E n \in Num : Construct(n)
         \/ \E n \in Num : Release(n)
         \/ \E n \in Num : SessionStart(n)
         \/ \E n \in Num : ClientSend(n)
         \/ \E n \in Num : ClientDestroy(n)
         \/ \E n \in Num : ServerSend(n)
         \/ \E n \in Num : ServerLateAck(n)
         \/ \E n \in Num : ServerDestroy(n)
         \/ IdsExhausted
         \/ ClientRecv
         \/ ServerRecv
         \/ PipelineBroken
         \/ UNCHANGED vars
  BY DEF Next, ClientStep, ServerStep

\* An id taken from the counter wraps into the range of the ids.
LEMMA NextCounter ==
  ASSUME NEW i \in Ids
  PROVE  (i + 1) % N \in Ids
  BY NAssumption DEF Ids

\* A frame of a session is a frame.
LEMMA FrameOfType ==
  ASSUME TypeOK, NEW n \in Num, NEW c \in {"CONNECT", "DATA", "CLOSE"}
  PROVE  FrameOf(c, n) \in Frame
  BY DEF FrameOf, Frame, TypeOK

\* Sending and reading frames keep the type of a channel.
LEMMA ChannelType ==
  ASSUME NEW S, NEW q \in Seq(S)
  PROVE  /\ \A f \in S : Append(q, f) \in Seq(S)
         /\ q # <<>> => Tail(q) \in Seq(S) /\ Head(q) \in S
  OBVIOUS

\* The search by id returns a session of the list or None.
LEMMA FoundType ==
  ASSUME NEW i
  PROVE  /\ FoundClient(i) \subseteq Num \cup {None}
         /\ FoundServer(i) \subseteq Num \cup {None}
         /\ \A n \in FoundClient(i) : n # None => n \in Num /\ InClientList(n)
         /\ \A n \in FoundServer(i) : n # None => n \in Num /\ InServerList(n)
  BY DEF FoundClient, FoundServer

\* Only the constructor and the destructor change which sessions hold an id:
\* every other step keeps the allocator and who is alive.
LEMMA LiveFrame ==
  ASSUME TypeOK, [Next]_vars,
         ~ \E n \in Num : Construct(n), ~ \E n \in Num : Release(n)
  PROVE  /\ UNCHANGED alloc
         /\ \A n \in Num : Live(n)' <=> Live(n)
<1> USE DEF TypeOK
<1>1. ASSUME NEW n \in Num, SessionStart(n) \/ ClientSend(n) \/ ClientDestroy(n)
      PROVE  UNCHANGED alloc /\ \A m \in Num : Live(m)' <=> Live(m)
  BY <1>1 DEF SessionStart, ClientSend, ClientDestroy, InClientList, Live, alloc
<1>2. ASSUME NEW n \in Num, ServerSend(n) \/ ServerLateAck(n) \/ ServerDestroy(n)
      PROVE  UNCHANGED alloc /\ \A m \in Num : Live(m)' <=> Live(m)
  BY <1>2 DEF ServerSend, ServerLateAck, ServerDestroy, Live, alloc
<1>3. CASE IdsExhausted
  BY <1>3 DEF IdsExhausted, Live, alloc
<1>4. CASE ClientRecv
  <2>1. PICK n \in FoundClient(Head(down).sid) :
          IF n # None /\ Head(down).cmd = "CLOSE"
          THEN \E s \in {"closing", "destroyed"} : client' = [client EXCEPT ![n] = s]
          ELSE UNCHANGED client
    BY <1>4 DEF ClientRecv
  <2>2. n # None => n \in Num /\ InClientList(n)
    BY FoundType
  <2>3. UNCHANGED alloc
    BY <1>4 DEF ClientRecv, alloc
  <2>4. CASE n # None /\ Head(down).cmd = "CLOSE"
    <3>1. PICK s \in {"closing", "destroyed"} : client' = [client EXCEPT ![n] = s]
      BY <2>1, <2>4
    <3> QED
      BY <2>2, <2>3, <2>4, <3>1 DEF InClientList, Live
  <2>5. CASE ~(n # None /\ Head(down).cmd = "CLOSE")
    BY <2>1, <2>3, <2>5 DEF Live
  <2> QED
    BY <2>4, <2>5
<1>5. CASE ServerRecv
  BY <1>5 DEF ServerRecv, Live, alloc
<1>6. CASE PipelineBroken
  BY <1>6 DEF PipelineBroken, InClientList, Live, alloc
<1>7. CASE UNCHANGED vars
  BY <1>7 DEF vars, Live, alloc
<1> QED
  BY NextCases, <1>1, <1>2, <1>3, <1>4, <1>5, <1>6, <1>7

\* Every step keeps the ids apart and the allocator's set exact.
LEMMA UniqueStep ==
  ASSUME TypeOK, UniqueIds, [Next]_vars
  PROVE  UniqueIds'
<1> USE DEF TypeOK
<1>1. ASSUME NEW n \in Num, Construct(n)
      PROVE  UniqueIds'
  <2>1. PICK i \in Ids : /\ Allocate(i) /\ used' = used \cup {i}
                         /\ id' = [id EXCEPT ![n] = i]
    BY <1>1 DEF Construct
  <2>2. i \notin used
    BY <2>1 DEF Allocate
  <2>3. client' = [client EXCEPT ![n] = "idle"] /\ ~Live(n)
    BY <1>1 DEF Construct, Live
  <2>4. \A m \in Num : m # n => (Live(m)' <=> Live(m)) /\ id'[m] = id[m]
    BY <2>1, <2>3 DEF Live
  <2>5. Live(n)' /\ id'[n] = i
    BY <2>1, <2>3 DEF Live
  <2>6. \A m \in Num : Live(m) => id[m] # i
    BY <2>2 DEF UniqueIds
  <2>7. \A m, k \in Num : Live(m)' /\ Live(k)' /\ m # k => id'[m] # id'[k]
    BY <2>4, <2>5, <2>6 DEF UniqueIds
  <2>8. used' = {id'[k] : k \in {m \in Num : Live(m)'}}
    <3>1. ASSUME NEW x \in used' PROVE \E k \in Num : Live(k)' /\ x = id'[k]
      <4>1. CASE x = i
        BY <2>5, <4>1
      <4>2. CASE x # i
        <5>1. x \in used
          BY <2>1, <3>1, <4>2
        <5>2. PICK k \in Num : Live(k) /\ x = id[k]
          BY <5>1 DEF UniqueIds
        <5> QED
          BY <2>3, <2>4, <5>2
      <4> QED
        BY <4>1, <4>2
    <3>2. ASSUME NEW k \in Num, Live(k)' PROVE id'[k] \in used'
      BY <2>1, <2>3, <2>4, <2>5, <3>2 DEF UniqueIds
    <3> QED
      BY <3>1, <3>2
  <2> QED
    BY <2>7, <2>8 DEF UniqueIds
<1>2. ASSUME NEW n \in Num, Release(n)
      PROVE  UniqueIds'
  <2>1. used' = used \ {id[n]} /\ id' = id
    BY <1>2 DEF Release
  <2>2. client' = [client EXCEPT ![n] = "gone"] /\ Live(n)
    BY <1>2 DEF Release, Live
  <2>3. ~Live(n)' /\ \A m \in Num : m # n => (Live(m)' <=> Live(m))
    BY <2>2 DEF Live
  <2>4. \A m, k \in Num : Live(m)' /\ Live(k)' /\ m # k => id'[m] # id'[k]
    BY <2>1, <2>3 DEF UniqueIds
  <2>5. used' = {id'[k] : k \in {m \in Num : Live(m)'}}
    <3>1. ASSUME NEW x \in used' PROVE \E k \in Num : Live(k)' /\ x = id'[k]
      <4>1. PICK k \in Num : Live(k) /\ x = id[k]
        BY <2>1, <3>1 DEF UniqueIds
      <4> QED
        BY <2>1, <2>3, <3>1, <4>1
    <3>2. ASSUME NEW k \in Num, Live(k)' PROVE id'[k] \in used'
      BY <2>1, <2>2, <2>3, <3>2 DEF UniqueIds
    <3> QED
      BY <3>1, <3>2
  <2> QED
    BY <2>4, <2>5 DEF UniqueIds
<1>3. CASE ~(\E n \in Num : Construct(n)) /\ ~(\E n \in Num : Release(n))
  <2>1. UNCHANGED alloc /\ \A n \in Num : Live(n)' <=> Live(n)
    BY <1>3, LiveFrame
  <2> QED
    BY <2>1 DEF UniqueIds, alloc
<1> QED
  BY <1>1, <1>2, <1>3

\* Every step keeps the types.
LEMMA MuxTypeStep ==
  ASSUME TypeOK, [Next]_vars
  PROVE  TypeOK'
<1> USE DEF TypeOK
<1>1. ASSUME NEW n \in Num, Construct(n) PROVE TypeOK'
  <2>1. PICK i \in Ids : /\ counter' = (i + 1) % N /\ used' = used \cup {i}
                         /\ id' = [id EXCEPT ![n] = i]
    BY <1>1 DEF Construct, Advance
  <2>2. counter' \in Ids
    BY <2>1, NextCounter
  <2>3. used' \subseteq Ids /\ id' \in [Num -> Ids]
    BY <2>1
  <2>4. client' \in [Num -> ClientStates]
    BY <1>1 DEF Construct, ClientStates
  <2> QED
    BY <1>1, <2>2, <2>3, <2>4 DEF Construct, Running, server_side
<1>2. ASSUME NEW n \in Num, Release(n) PROVE TypeOK'
  <2>1. client' \in [Num -> ClientStates]
    BY <1>2 DEF Release, ClientStates
  <2> QED
    BY <1>2, <2>1 DEF Release, Running, server_side
<1>3. ASSUME NEW n \in Num, SessionStart(n) PROVE TypeOK'
  <2>1. client' \in [Num -> ClientStates]
    BY <1>3 DEF SessionStart, ClientStates
  <2>2. up' \in Seq(Frame)
    BY <1>3, FrameOfType, ChannelType DEF SessionStart
  <2> QED
    BY <1>3, <2>1, <2>2 DEF SessionStart, Running, server_side
<1>4. ASSUME NEW n \in Num, ClientSend(n) PROVE TypeOK'
  <2>1. up' \in Seq(Frame)
    BY <1>4, FrameOfType, ChannelType DEF ClientSend
  <2>2. sent' \in 0..MaxData
    BY <1>4, DataAssumption DEF ClientSend
  <2> QED
    BY <1>4, <2>1, <2>2 DEF ClientSend, Running, server_side
<1>5. ASSUME NEW n \in Num, ClientDestroy(n) PROVE TypeOK'
  <2>1. client' \in [Num -> ClientStates]
    BY <1>5 DEF ClientDestroy, ClientStates
  <2>2. up' \in Seq(Frame)
    BY <1>5, FrameOfType, ChannelType DEF ClientDestroy
  <2> QED
    BY <1>5, <2>1, <2>2 DEF ClientDestroy, Running, server_side
<1>6. ASSUME NEW n \in Num, ServerSend(n) PROVE TypeOK'
  <2>1. down' \in Seq(Frame)
    BY <1>6, FrameOfType, ChannelType DEF ServerSend
  <2>2. sent' \in 0..MaxData
    BY <1>6, DataAssumption DEF ServerSend
  <2> QED
    BY <1>6, <2>1, <2>2 DEF ServerSend, Running
<1>7. ASSUME NEW n \in Num, ServerLateAck(n) PROVE TypeOK'
  <2>1. Append(down, FrameOf("DATA", n)) \in Seq(Frame)
    BY FrameOfType, ChannelType
  <2>2. server' \in [Num -> ServerStates]
    BY <1>7 DEF ServerLateAck, ServerStates
  <2> QED
    BY <1>7, <2>1, <2>2 DEF ServerLateAck, Running
<1>8. ASSUME NEW n \in Num, ServerDestroy(n) PROVE TypeOK'
  <2>1. down' \in Seq(Frame)
    BY <1>8, FrameOfType, ChannelType DEF ServerDestroy
  <2>2. server' \in [Num -> ServerStates]
    BY <1>8 DEF ServerDestroy, ServerStates, Ended
  <2> QED
    BY <1>8, <2>1, <2>2 DEF ServerDestroy, Running
<1>9. CASE IdsExhausted
  BY <1>9 DEF IdsExhausted, server_side
<1>10. CASE ClientRecv
  <2>1. PICK n \in FoundClient(Head(down).sid) :
          /\ crossDown' = crossDown \cup ({<<Head(down).num, n>>} \cap
                                          {p \in Num \X Num : p[1] # p[2]})
          /\ IF n # None /\ Head(down).cmd = "CLOSE"
             THEN \E s \in {"closing", "destroyed"} : client' = [client EXCEPT ![n] = s]
             ELSE UNCHANGED client
    BY <1>10 DEF ClientRecv
  <2>2. crossDown' \subseteq Num \X Num
    BY <2>1
  <2>3. client' \in [Num -> ClientStates]
    BY <2>1 DEF ClientStates
  <2>4. down' \in Seq(Frame)
    BY <1>10, ChannelType DEF ClientRecv
  <2> QED
    BY <1>10, <2>2, <2>3, <2>4 DEF ClientRecv, Running
<1>11. CASE ServerRecv
  <2>1. PICK n \in FoundServer(Head(up).sid) :
       \/ /\ Head(up).cmd = "CONNECT"
          /\ Accept(Head(up).num, n)
          /\ UNCHANGED crossUp
       \/ /\ Head(up).cmd # "CONNECT"
          /\ crossUp' = crossUp \cup ({<<Head(up).num, n>>} \cap
                                      {p \in Num \X Num : p[1] # p[2]})
          /\ IF n # None /\ Head(up).cmd = "CLOSE"
             THEN \E s \in {"closing", "dead"} : server' = [server EXCEPT ![n] = s]
             ELSE UNCHANGED server
    BY <1>11 DEF ServerRecv
  <2>2. crossUp' \subseteq Num \X Num
    BY <2>1
  <2>3. Accept(Head(up).num, n) => server' \in [Num -> ServerStates]
    BY DEF Accept, Ended, ServerStates
  <2>4. server' \in [Num -> ServerStates]
    BY <2>1, <2>3 DEF ServerStates
  <2>5. up' \in Seq(Frame)
    BY <1>11, ChannelType DEF ServerRecv
  <2> QED
    BY <1>11, <2>2, <2>4, <2>5 DEF ServerRecv, Running
<1>12. CASE PipelineBroken
  <2>1. client' \in [Num -> ClientStates] /\ server' \in [Num -> ServerStates]
    BY <1>12 DEF PipelineBroken, ClientStates, ServerStates
  <2>2. up' \in Seq(Frame) /\ down' \in Seq(Frame)
    BY <1>12 DEF PipelineBroken
  <2> QED
    BY <1>12, <2>1, <2>2 DEF PipelineBroken, Running
<1>13. CASE UNCHANGED vars
  BY <1>13 DEF vars
<1> QED
  BY NextCases, <1>1, <1>2, <1>3, <1>4, <1>5, <1>6, <1>7, <1>8, <1>9, <1>10,
     <1>11, <1>12, <1>13

\* The state of the two ends and of the allocator keeps its type; in
\* particular s_session_id_counter wraps as the uint16_t it is.
THEOREM MuxTypeCorrect == Spec => []TypeOK
<1>1. Init => TypeOK
  <2> SUFFICES ASSUME Init PROVE TypeOK
    OBVIOUS
  <2>1. 0 \in Ids
    BY NAssumption DEF Ids
  <2>2. up \in Seq(Frame) /\ down \in Seq(Frame)
    BY DEF Init
  <2>3. sent \in 0..MaxData
    BY DataAssumption DEF Init
  <2>4. client \in [Num -> ClientStates] /\ server \in [Num -> ServerStates]
    BY DEF Init, ClientStates, ServerStates
  <2> QED
    BY <2>1, <2>2, <2>3, <2>4 DEF Init, TypeOK
<1> QED
  BY <1>1, MuxTypeStep, PTL DEF Spec

\* Two sessions of the client never hold the same id, for any number of ids
\* and any sequence of constructions and destructions: s_session_used_ids is
\* at every moment the set of the ids that are held, so the scan of
\* allocate_session_id cannot return one of them.
THEOREM IdsUnique == Spec => []UniqueIds
<1>1. Init => UniqueIds
  BY DEF Init, UniqueIds, Live
<1> QED
  BY <1>1, MuxTypeCorrect, UniqueStep, PTL DEF Spec
-----------------------------------------------------------------------------
(* Routing.  The frames of the sessions that take the same id one after the  *)
(* other stay in the order of the sessions, both in the channel and between  *)
(* the channel and the list of the server: this is what makes the search by  *)
(* id find the right session.                                                *)

Born(n) == client[n] # "unborn"
Started(n) == client[n] \notin {"unborn", "idle"}

\* Sessions are numbered as they are constructed.
Prefix == \A m, n \in Num : m < n /\ Born(n) => Born(m)

\* The live session with an id is the last one that was given it.
Later == \A m, n \in Num : Live(n) /\ Born(m) /\ m # n /\ id[m] = id[n] => m < n

\* A frame carries the id of its session, which has been started.
Owned ==
  /\ \A k \in DOMAIN up : up[k].sid = id[up[k].num] /\ Started(up[k].num)
  /\ \A k \in DOMAIN down : down[k].sid = id[down[k].num] /\ Started(down[k].num)

\* No server session exists before the client session is started.
Fresh == \A n \in Num : ~Started(n) => server[n] = "none"

\* Frames with one id are queued in the order of their sessions.
InTurn ==
  \A j, k \in DOMAIN up : j < k /\ up[j].sid = up[k].sid => up[j].num <= up[k].num

\* No frame that is queued belongs to an older session than one the server
\* has had with the same id.
Behind ==
  \A m \in Num, k \in DOMAIN up :
    server[m] # "none" /\ up[k].sid = id[m] => m <= up[k].num

\* The CONNECT of a session the server does not know yet comes before its
\* other frames.
ConnectQueued(n, k) == \E j \in 1..k : up[j].cmd = "CONNECT" /\ up[j].num = n
Announced ==
  \A k \in DOMAIN up : server[up[k].num] = "none" => ConnectQueued(up[k].num, k)
Connected ==
  \A n \in Num : InClientList(n) /\ server[n] = "none" => ConnectQueued(n, Len(up))

\* The listed session with an id is the newest the server has had with it.
Newest ==
  \A m, n \in Num : InServerList(m) /\ server[n] # "none" /\ id[m] = id[n] => n <= m

\* A session is connected once.
OnceEach ==
  \A k \in DOMAIN up : up[k].cmd = "CONNECT" =>
    /\ server[up[k].num] = "none"
    /\ \A j \in DOMAIN up : up[j].cmd = "CONNECT" /\ up[j].num = up[k].num => j = k

\* CLOSE goes to the client only when the server session has ended.
Farewell == \A k \in DOMAIN down : down[k].cmd = "CLOSE" => server[down[k].num] \in Ended

RouteInv == /\ Owned /\ Fresh /\ InTurn /\ Behind /\ Announced /\ Connected
            /\ Newest /\ OnceEach /\ Farewell

\* What a channel holds after a frame was sent, and after one was read.
LEMMA SentFrame ==
  ASSUME NEW S, NEW q \in Seq(S), NEW f \in S
  PROVE  /\ Len(Append(q, f)) = Len(q) + 1 /\ DOMAIN Append(q, f) = 1..(Len(q) + 1)
         /\ \A k \in 1..Len(q) : Append(q, f)[k] = q[k]
         /\ Append(q, f)[Len(q) + 1] = f
         /\ DOMAIN q = 1..Len(q) /\ Len(q) \in Nat
  OBVIOUS

LEMMA ReadFrame ==
  ASSUME NEW S, NEW q \in Seq(S), q # <<>>
  PROVE  /\ Len(Tail(q)) = Len(q) - 1 /\ DOMAIN Tail(q) = 1..(Len(q) - 1)
         /\ \A k \in 1..(Len(q) - 1) : Tail(q)[k] = q[k + 1]
         /\ Head(q) = q[1] /\ 1 \in DOMAIN q
         /\ DOMAIN q = 1..Len(q) /\ Len(q) \in Nat
  OBVIOUS

\* The frames in a channel are frames.
LEMMA FrameType ==
  ASSUME TypeOK
  PROVE  /\ \A k \in DOMAIN up : up[k].num \in Num /\ up[k].sid \in Ids
         /\ \A k \in DOMAIN down : down[k].num \in Num /\ down[k].sid \in Ids
         /\ DOMAIN up = 1..Len(up) /\ Len(up) \in Nat
         /\ DOMAIN down = 1..Len(down) /\ Len(down) \in Nat
<1>1. up \in Seq(Frame) /\ down \in Seq(Frame)
  BY DEF TypeOK
<1>2. \A k \in DOMAIN up : up[k] \in Frame
  BY <1>1
<1>3. \A k \in DOMAIN down : down[k] \in Frame
  BY <1>1
<1> QED
  BY <1>1, <1>2, <1>3 DEF Frame

\* A live client session sends a frame.  Every session with the same id that
\* has frames in the channel or a server session is older.
LEMMA SendUpRoute ==
  ASSUME TypeOK, Later, RouteInv, NEW n \in Num,
         NEW c \in {"CONNECT", "DATA", "CLOSE"},
         up' = Append(up, FrameOf(c, n)), UNCHANGED <<id, server, down>>,
         Live(n), Started(n)',
         \A m \in Num : Started(m) => Started(m)',
         \A m \in Num : m # n => (Started(m)' <=> Started(m)) /\ (InClientList(m)' => InClientList(m)),
         c # "CONNECT" => InClientList(n),
         c = "CONNECT" => ~Started(n)
  PROVE  RouteInv'
<1> USE FrameType DEF RouteInv
<1>1. FrameOf(c, n) \in Frame
  BY FrameOfType
<1>2. /\ Len(up') = Len(up) + 1 /\ DOMAIN up' = 1..(Len(up) + 1)
      /\ \A k \in 1..Len(up) : up'[k] = up[k]
      /\ up'[Len(up) + 1] = FrameOf(c, n)
  BY <1>1, SentFrame DEF TypeOK
<1>3. /\ FrameOf(c, n).cmd = c /\ FrameOf(c, n).sid = id[n] /\ FrameOf(c, n).num = n
  BY DEF FrameOf
<1>4. n \in Nat /\ \A m \in Num : m \in Nat
  BY DEF Num
<1>5. \A m \in Num : Started(m) /\ id[m] = id[n] => m <= n
  <2> SUFFICES ASSUME NEW m \in Num, Started(m), id[m] = id[n] PROVE m <= n
    OBVIOUS
  <2>1. m # n => m < n
    BY DEF Later, Started, Born
  <2> QED
    BY <1>4, <2>1
<1>6. Owned'
  BY <1>2, <1>3 DEF Owned
<1>7. Fresh'
  BY DEF Fresh
<1>8. InTurn'
  <2> SUFFICES ASSUME NEW j \in DOMAIN up', NEW k \in DOMAIN up', j < k,
                      up'[j].sid = up'[k].sid
               PROVE  up'[j].num <= up'[k].num
    BY DEF InTurn
  <2>1. j \in 1..Len(up) /\ up'[j] = up[j]
    BY <1>2
  <2>2. CASE k \in 1..Len(up)
    BY <1>2, <2>1, <2>2 DEF InTurn
  <2>3. CASE k = Len(up) + 1
    BY <1>2, <1>3, <1>5, <2>1, <2>3 DEF Owned
  <2> QED
    BY <1>2, <2>2, <2>3
<1>9. Behind'
  <2> SUFFICES ASSUME NEW m \in Num, NEW k \in DOMAIN up', server[m] # "none",
                      up'[k].sid = id[m]
               PROVE  m <= up'[k].num
    BY DEF Behind
  <2>1. CASE k \in 1..Len(up)
    BY <1>2, <2>1 DEF Behind
  <2>2. CASE k = Len(up) + 1
    BY <1>2, <1>3, <1>5, <2>2 DEF Fresh
  <2> QED
    BY <1>2, <2>1, <2>2
<1>10. server[n] = "none" => \E j \in 1..(Len(up) + 1) : up'[j].cmd = "CONNECT" /\ up'[j].num = n
  <2>1. CASE c = "CONNECT"
    BY <1>2, <1>3, <2>1
  <2>2. CASE c # "CONNECT"
    BY <1>2, <2>2 DEF Connected, ConnectQueued
  <2> QED
    BY <2>1, <2>2
<1>11. Announced'
  <2> SUFFICES ASSUME NEW k \in DOMAIN up', server[up'[k].num] = "none"
               PROVE  \E j \in 1..k : up'[j].cmd = "CONNECT" /\ up'[j].num = up'[k].num
    BY DEF Announced, ConnectQueued
  <2>1. CASE k \in 1..Len(up)
    BY <1>2, <2>1 DEF Announced, ConnectQueued
  <2>2. CASE k = Len(up) + 1
    BY <1>2, <1>3, <1>10, <2>2
  <2> QED
    BY <1>2, <2>1, <2>2
<1>12. Connected'
  <2> SUFFICES ASSUME NEW m \in Num, InClientList(m)', server[m] = "none"
               PROVE  \E j \in 1..Len(up') : up'[j].cmd = "CONNECT" /\ up'[j].num = m
    BY DEF Connected, ConnectQueued
  <2>1. CASE m = n
    BY <1>2, <1>10, <2>1
  <2>2. CASE m # n
    BY <1>2, <2>2 DEF Connected, ConnectQueued
  <2> QED
    BY <2>1, <2>2
<1>13. Newest'
  BY DEF Newest, InServerList
<1>14. OnceEach'
  <2> SUFFICES ASSUME NEW k \in DOMAIN up', up'[k].cmd = "CONNECT"
               PROVE  /\ server[up'[k].num] = "none"
                      /\ \A j \in DOMAIN up' :
                           up'[j].cmd = "CONNECT" /\ up'[j].num = up'[k].num => j = k
    BY DEF OnceEach
  <2>1. CASE k \in 1..Len(up)
    BY <1>2, <1>3, <2>1 DEF OnceEach, Owned
  <2>2. CASE k = Len(up) + 1
    BY <1>2, <1>3, <2>2 DEF OnceEach, Owned, Fresh
  <2> QED
    BY <1>2, <2>1, <2>2
<1>15. Farewell'
  BY DEF Farewell
<1> QED
  BY <1>6, <1>7, <1>8, <1>9, <1>11, <1>12, <1>13, <1>14, <1>15

\* The client sessions change, the channels and the server do not: a session
\* is constructed, ends or is released.
LEMMA ClientRoute ==
  ASSUME TypeOK, RouteInv, UNCHANGED <<server, up, down>>,
         \A m \in Num : Started(m) => Started(m)' /\ id'[m] = id[m],
         \A m \in Num : InClientList(m)' => InClientList(m)
  PROVE  RouteInv'
<1> USE FrameType DEF RouteInv
<1>1. Owned'
  BY DEF Owned
<1>2. Fresh'
  BY DEF Fresh
<1>3. \A m \in Num : server[m] # "none" => id'[m] = id[m]
  BY DEF Fresh
<1>4. InTurn' /\ Announced' /\ OnceEach' /\ Farewell'
  BY DEF InTurn, Announced, ConnectQueued, OnceEach, Farewell
<1>5. Behind'
  BY <1>3 DEF Behind
<1>6. Connected'
  BY DEF Connected, ConnectQueued
<1>7. Newest'
  BY <1>3 DEF Newest, InServerList
<1> QED
  BY <1>1, <1>2, <1>4, <1>5, <1>6, <1>7

\* The server says something about session n, which may end with it.
LEMMA SendDownRoute ==
  ASSUME TypeOK, RouteInv, UNCHANGED <<client, id, up>>, NEW n \in Num,
         NEW c \in {"DATA", "CLOSE"}, NEW s \in ServerStates,
         server[n] # "none", s # "none",
         s \in {"listed", "closing"} => s = server[n],
         server' = [server EXCEPT ![n] = s],
         server[n] \in Ended => s \in Ended,
         c = "CLOSE" => s \in Ended,
         down' = down \/ down' = Append(down, FrameOf(c, n))
  PROVE  RouteInv'
<1> USE FrameType DEF RouteInv
<1>1. server \in [Num -> ServerStates]
  BY DEF TypeOK
<1>2. \A m \in Num : /\ server'[m] = "none" <=> server[m] = "none"
                     /\ InServerList(m)' => InServerList(m)
                     /\ server[m] \in Ended => server'[m] \in Ended
  BY <1>1 DEF InServerList, Ended
<1>3. Started(n)
  BY DEF Fresh
<1>4. \A m \in Num : /\ Started(m)' <=> Started(m)
                     /\ InClientList(m)' <=> InClientList(m)
  BY DEF Started, InClientList
<1>5. server'[n] = s
  BY <1>1
<1>6. Owned' /\ Farewell'
  <2>1. CASE down' = down
    BY <1>2, <1>4, <2>1 DEF Owned, Farewell
  <2>2. CASE down' = Append(down, FrameOf(c, n))
    <3>1. FrameOf(c, n) \in Frame
      BY FrameOfType
    <3>2. /\ DOMAIN down' = 1..(Len(down) + 1)
          /\ \A k \in 1..Len(down) : down'[k] = down[k]
          /\ down'[Len(down) + 1] = FrameOf(c, n)
      BY <2>2, <3>1, SentFrame DEF TypeOK
    <3>3. FrameOf(c, n).cmd = c /\ FrameOf(c, n).sid = id[n] /\ FrameOf(c, n).num = n
      BY DEF FrameOf
    <3>4. Owned'
      BY <1>3, <1>4, <3>2, <3>3 DEF Owned
    <3>5. Farewell'
      BY <1>2, <1>5, <3>2, <3>3 DEF Farewell
    <3> QED
      BY <3>4, <3>5
  <2> QED
    BY <2>1, <2>2
<1>7. Fresh'
  BY <1>2, <1>4 DEF Fresh
<1>8. InTurn'
  BY DEF InTurn
<1>9. Behind' /\ Announced' /\ OnceEach'
  BY <1>2 DEF Behind, Announced, ConnectQueued, OnceEach
<1>10. Connected'
  BY <1>2, <1>4 DEF Connected, ConnectQueued
<1>11. Newest'
  BY <1>2 DEF Newest
<1> QED
  BY <1>6, <1>7, <1>8, <1>9, <1>10, <1>11

\* Both ends have dropped the pipeline: nothing is queued, nobody is listed.
LEMMA BrokenRoute ==
  ASSUME TypeOK, RouteInv, PipelineBroken
  PROVE  RouteInv'
<1> USE DEF RouteInv, TypeOK
<1>1. up' = <<>> /\ down' = <<>> /\ id' = id
  BY DEF PipelineBroken
<1>2. \A m \in Num : /\ ~InServerList(m)' /\ ~InClientList(m)'
                     /\ Started(m)' <=> Started(m)
                     /\ server[m] = "none" => server'[m] = "none"
  BY DEF PipelineBroken, InServerList, InClientList, Started
<1>3. Owned' /\ InTurn' /\ Behind' /\ Announced' /\ OnceEach' /\ Farewell'
  BY <1>1 DEF Owned, InTurn, Behind, Announced, OnceEach, Farewell
<1>4. Fresh' /\ Connected' /\ Newest'
  BY <1>2 DEF Fresh, Connected, Newest
<1> QED
  BY <1>3, <1>4

\* The client reads a frame: the channel gets shorter, a session may end.
LEMMA ClientRecvRoute ==
  ASSUME TypeOK, RouteInv, ClientRecv
  PROVE  RouteInv'
<1> USE FrameType DEF RouteInv
<1>1. down # <<>> /\ down' = Tail(down) /\ UNCHANGED <<id, server, up>>
  BY DEF ClientRecv
<1>2. /\ DOMAIN down' = 1..(Len(down) - 1)
      /\ \A k \in 1..(Len(down) - 1) : down'[k] = down[k + 1]
  BY <1>1, ReadFrame DEF TypeOK
<1>3. \A m \in Num : /\ Started(m)' <=> Started(m)
                     /\ InClientList(m)' => InClientList(m)
  <2>1. PICK n \in FoundClient(Head(down).sid) :
          IF n # None /\ Head(down).cmd = "CLOSE"
          THEN \E s \in {"closing", "destroyed"} : client' = [client EXCEPT ![n] = s]
          ELSE UNCHANGED client
    BY DEF ClientRecv
  <2>2. n # None => n \in Num /\ InClientList(n)
    BY FoundType
  <2>3. CASE n # None /\ Head(down).cmd = "CLOSE"
    BY <2>1, <2>2, <2>3 DEF TypeOK, InClientList, Started
  <2>4. CASE ~(n # None /\ Head(down).cmd = "CLOSE")
    BY <2>1, <2>4 DEF InClientList, Started
  <2> QED
    BY <2>3, <2>4
<1>4. Owned'
  BY <1>1, <1>2, <1>3 DEF Owned
<1>5. Farewell'
  BY <1>1, <1>2 DEF Farewell
<1>6. InTurn' /\ Behind' /\ Announced' /\ OnceEach'
  BY <1>1 DEF InTurn, Behind, Announced, ConnectQueued, OnceEach
<1>7. Fresh' /\ Connected'
  BY <1>1, <1>3 DEF Fresh, Connected, ConnectQueued
<1>8. Newest'
  BY <1>1 DEF Newest, InServerList
<1> QED
  BY <1>4, <1>5, <1>6, <1>7, <1>8

\* The list of the server holds one session per id.
LEMMA OneListed ==
  ASSUME RouteInv, NEW m \in Num, NEW n \in Num, id[m] = id[n],
         InServerList(m), InServerList(n)
  PROVE  m = n
<1>1. m \in Int /\ n \in Int
  BY DEF Num
<1>2. server[m] # "none" /\ server[n] # "none"
  BY DEF InServerList
<1>3. n <= m /\ m <= n
  BY <1>2 DEF RouteInv, Newest
<1> QED
  BY <1>1, <1>3

\* The search by the id of a DATA, ACK or CLOSE frame finds the session the
\* frame is for, or none.
LEMMA FoundIsOwner ==
  ASSUME TypeOK, RouteInv, up # <<>>, Head(up).cmd # "CONNECT",
         NEW n \in FoundServer(Head(up).sid), n # None
  PROVE  n = Head(up).num
<1> USE FrameType DEF RouteInv
<1>1. Head(up) = up[1] /\ 1 \in DOMAIN up
  BY ReadFrame DEF TypeOK
<1>2. n \in Num /\ InServerList(n) /\ id[n] = up[1].sid
  BY <1>1 DEF FoundServer
<1>3. server[n] # "none"
  BY <1>2 DEF InServerList
<1>4. n <= up[1].num
  BY <1>1, <1>2, <1>3 DEF Behind
<1>5. server[up[1].num] # "none"
  <2>1. ASSUME server[up[1].num] = "none" PROVE FALSE
    <3>1. PICK j \in 1..1 : up[j].cmd = "CONNECT"
      BY <1>1, <2>1 DEF Announced, ConnectQueued
    <3>2. j = 1
      OBVIOUS
    <3> QED
      BY <1>1, <3>1, <3>2
  <2> QED
    BY <2>1
<1>6. up[1].num <= n
  BY <1>1, <1>2, <1>5 DEF Owned, Newest
<1>7. n \in Int /\ up[1].num \in Int
  BY <1>1, <1>2 DEF Num
<1> QED
  BY <1>1, <1>4, <1>6, <1>7

\* The server reads a frame that is not CONNECT: at most the session the frame
\* is for is changed.
LEMMA ServerReadRoute ==
  ASSUME TypeOK, RouteInv, ServerRecv, Head(up).cmd # "CONNECT"
  PROVE  /\ RouteInv' /\ UNCHANGED crossUp
         /\ \A m \in Num : server'[m] # server[m] => server'[m] \in {"closing", "dead"}
<1> USE FrameType DEF RouteInv
<1>1. up # <<>> /\ up' = Tail(up) /\ UNCHANGED <<id, client, down>>
  BY DEF ServerRecv
<1>2. /\ Len(up') = Len(up) - 1 /\ DOMAIN up' = 1..(Len(up) - 1)
      /\ \A k \in 1..(Len(up) - 1) : up'[k] = up[k + 1]
      /\ Head(up) = up[1] /\ 1 \in DOMAIN up
  BY <1>1, ReadFrame DEF TypeOK
<1>3. PICK n \in FoundServer(Head(up).sid) :
        /\ crossUp' = crossUp \cup ({<<Head(up).num, n>>} \cap
                                    {p \in Num \X Num : p[1] # p[2]})
        /\ IF n # None /\ Head(up).cmd = "CLOSE"
           THEN \E s \in {"closing", "dead"} : server' = [server EXCEPT ![n] = s]
           ELSE UNCHANGED server
  BY DEF ServerRecv
<1>4. n # None => n \in Num /\ InServerList(n) /\ n = Head(up).num
  BY <1>1, FoundIsOwner, FoundType
<1>5. UNCHANGED crossUp
  <2>1. None \notin Num
    BY DEF None, Num
  <2>2. <<Head(up).num, n>> \notin {p \in Num \X Num : p[1] # p[2]}
    BY <1>4, <2>1
  <2> QED
    BY <1>3, <2>2
<1>6. \A m \in Num : /\ server'[m] = "none" <=> server[m] = "none"
                     /\ InServerList(m)' => InServerList(m)
                     /\ server[m] \in Ended => server'[m] \in Ended
                     /\ server'[m] # server[m] => server'[m] \in {"closing", "dead"}
  <2>1. CASE n # None /\ Head(up).cmd = "CLOSE"
    <3>1. PICK s \in {"closing", "dead"} : server' = [server EXCEPT ![n] = s]
      BY <1>3, <2>1
    <3>2. server[n] \in {"listed", "closing"} /\ n \in Num
      BY <1>4, <2>1 DEF InServerList
    <3> QED
      BY <3>1, <3>2 DEF TypeOK, InServerList, Ended
  <2>2. CASE ~(n # None /\ Head(up).cmd = "CLOSE")
    BY <1>3, <2>2 DEF InServerList
  <2> QED
    BY <2>1, <2>2
<1>7. \A m \in Num : /\ Started(m)' <=> Started(m)
                     /\ InClientList(m)' <=> InClientList(m)
  BY <1>1 DEF Started, InClientList
<1>8. Owned'
  BY <1>1, <1>2, <1>7 DEF Owned
<1>9. Fresh'
  BY <1>6, <1>7 DEF Fresh
<1>10. InTurn'
  <2> SUFFICES ASSUME NEW j \in DOMAIN up', NEW k \in DOMAIN up', j < k,
                      up'[j].sid = up'[k].sid
               PROVE  up'[j].num <= up'[k].num
    BY DEF InTurn
  <2>1. /\ j + 1 \in DOMAIN up /\ k + 1 \in DOMAIN up /\ j + 1 < k + 1
        /\ up'[j] = up[j + 1] /\ up'[k] = up[k + 1]
    BY <1>2
  <2> QED
    BY <2>1 DEF InTurn
<1>11. Behind'
  BY <1>1, <1>2, <1>6 DEF Behind
<1>12. ASSUME NEW m \in Num, NEW k \in 1..Len(up), ConnectQueued(m, k)
       PROVE  k > 1 /\ \E j \in 1..(k - 1) : up'[j].cmd = "CONNECT" /\ up'[j].num = m
  <2>1. PICK j \in 1..k : up[j].cmd = "CONNECT" /\ up[j].num = m
    BY <1>12 DEF ConnectQueued
  <2>2. j # 1
    BY <1>2, <2>1
  <2>3. j - 1 \in 1..(k - 1) /\ up'[j - 1] = up[j]
    BY <1>2, <2>1, <2>2
  <2> QED
    BY <2>1, <2>3
<1>13. Announced'
  <2> SUFFICES ASSUME NEW k \in DOMAIN up', server'[up'[k].num] = "none"
               PROVE  \E j \in 1..k : up'[j].cmd = "CONNECT" /\ up'[j].num = up'[k].num
    BY DEF Announced, ConnectQueued
  <2>1. k + 1 \in 1..Len(up) /\ up'[k] = up[k + 1]
    BY <1>2
  <2>2. up[k + 1].num \in Num
    BY <2>1
  <2>3. ConnectQueued(up[k + 1].num, k + 1)
    BY <1>6, <2>1, <2>2 DEF Announced
  <2>4. \E j \in 1..((k + 1) - 1) : up'[j].cmd = "CONNECT" /\ up'[j].num = up[k + 1].num
    BY <1>12, <2>1, <2>2, <2>3
  <2>5. (k + 1) - 1 = k
    BY <1>2
  <2> QED
    BY <2>1, <2>4, <2>5
<1>14. Connected'
  <2> SUFFICES ASSUME NEW m \in Num, InClientList(m)', server'[m] = "none"
               PROVE  \E j \in 1..Len(up') : up'[j].cmd = "CONNECT" /\ up'[j].num = m
    BY DEF Connected, ConnectQueued
  <2>1. ConnectQueued(m, Len(up))
    BY <1>6, <1>7 DEF Connected
  <2>2. Len(up) \in 1..Len(up)
    BY <1>2
  <2> QED
    BY <1>2, <1>12, <2>1, <2>2
<1>15. Newest'
  BY <1>1, <1>6 DEF Newest
<1>16. OnceEach'
  <2> SUFFICES ASSUME NEW k \in DOMAIN up', up'[k].cmd = "CONNECT"
               PROVE  /\ server'[up'[k].num] = "none"
                      /\ \A j \in DOMAIN up' :
                           up'[j].cmd = "CONNECT" /\ up'[j].num = up'[k].num => j = k
    BY DEF OnceEach
  <2>1. k + 1 \in DOMAIN up /\ up'[k] = up[k + 1]
    BY <1>2
  <2>2. server'[up[k + 1].num] = "none"
    BY <1>6, <2>1 DEF OnceEach
  <2>3. ASSUME NEW j \in DOMAIN up', up'[j].cmd = "CONNECT", up'[j].num = up'[k].num
        PROVE  j = k
    <3>1. j + 1 \in DOMAIN up /\ up'[j] = up[j + 1]
      BY <1>2
    <3>2. j + 1 = k + 1
      BY <2>1, <2>3, <3>1 DEF OnceEach
    <3> QED
      BY <1>2, <3>2
  <2> QED
    BY <2>1, <2>2, <2>3
<1>17. Farewell'
  BY <1>1, <1>6 DEF Farewell
<1> QED
  BY <1>5, <1>6, <1>8, <1>9, <1>10, <1>11, <1>13, <1>14, <1>15, <1>16, <1>17

\* The server reads a CONNECT: the session with the id goes, if there is one,
\* and the new session is the newest the server has had with it.
LEMMA ServerAcceptRoute ==
  ASSUME TypeOK, RouteInv, ServerRecv, Head(up).cmd = "CONNECT"
  PROVE  /\ RouteInv' /\ UNCHANGED crossUp
         /\ \A m \in Num : m # Head(up).num /\ server'[m] # server[m] => server'[m] \in Ended
         /\ server[Head(up).num] = "none"
<1> USE FrameType DEF RouteInv
<1>1. up # <<>> /\ up' = Tail(up) /\ UNCHANGED <<id, client, down>>
  BY DEF ServerRecv
<1>2. /\ Len(up') = Len(up) - 1 /\ DOMAIN up' = 1..(Len(up) - 1)
      /\ \A k \in 1..(Len(up) - 1) : up'[k] = up[k + 1]
      /\ Head(up) = up[1] /\ 1 \in DOMAIN up
  BY <1>1, ReadFrame DEF TypeOK
<1> DEFINE x == up[1].num
<1>3. /\ x \in Num /\ x \in Int /\ up[1].sid = id[x] /\ up[1].cmd = "CONNECT" /\ server[x] = "none"
      /\ Started(x)
  BY <1>2 DEF Owned, OnceEach, Num
<1>4. PICK n \in FoundServer(id[x]) : Accept(x, n) /\ UNCHANGED crossUp
  BY <1>2, <1>3 DEF ServerRecv
<1>5. PICK s \in Ended :
        server' = [m \in Num |-> IF m = x THEN "listed" ELSE IF m = n THEN s ELSE server[m]]
  BY <1>4 DEF Accept
<1>6. n # None => n \in Num /\ InServerList(n) /\ id[n] = id[x]
  BY DEF FoundServer
<1>7. \A m \in Num : m # x => /\ server'[m] = "none" <=> server[m] = "none"
                              /\ InServerList(m)' => InServerList(m)
                              /\ server[m] \in Ended => server'[m] \in Ended
                              /\ server'[m] # server[m] => server'[m] \in Ended
  <2> SUFFICES ASSUME NEW m \in Num, m # x
               PROVE  /\ server'[m] = "none" <=> server[m] = "none"
                      /\ InServerList(m)' => InServerList(m)
                      /\ server[m] \in Ended => server'[m] \in Ended
                      /\ server'[m] # server[m] => server'[m] \in Ended
    OBVIOUS
  <2>1. CASE m = n
    <3>1. m # None
      BY DEF None, Num
    <3>2. InServerList(m) /\ server'[m] = s
      BY <1>5, <1>6, <2>1, <3>1
    <3> QED
      BY <3>2 DEF InServerList, Ended
  <2>2. CASE m # n
    BY <1>5, <2>2 DEF InServerList
  <2> QED
    BY <2>1, <2>2
<1>8. server'[x] = "listed"
  BY <1>3, <1>5
<1>9. \A m \in Num : m # x /\ id[m] = id[x] => ~InServerList(m)'
  <2> SUFFICES ASSUME NEW m \in Num, m # x, id[m] = id[x], InServerList(m)' PROVE FALSE
    OBVIOUS
  <2>1. InServerList(m)
    BY <1>7
  <2>2. n # None
    <3>1. m \in {k \in Num : InServerList(k) /\ id[k] = id[x]}
      BY <2>1
    <3>2. n \in Num
      BY <3>1 DEF FoundServer
    <3> QED
      BY <3>2 DEF None, Num
  <2>3. m = n
    BY <1>6, <2>1, <2>2, OneListed
  <2>4. server'[m] = s
    BY <1>5, <2>3
  <2> QED
    BY <2>4 DEF InServerList, Ended
<1>10. \A m \in Num : /\ Started(m)' <=> Started(m)
                      /\ InClientList(m)' <=> InClientList(m)
  BY <1>1 DEF Started, InClientList
<1>11. Owned'
  BY <1>1, <1>2, <1>10 DEF Owned
<1>12. Fresh'
  BY <1>3, <1>7, <1>10 DEF Fresh
<1>13. InTurn'
  <2> SUFFICES ASSUME NEW j \in DOMAIN up', NEW k \in DOMAIN up', j < k,
                      up'[j].sid = up'[k].sid
               PROVE  up'[j].num <= up'[k].num
    BY DEF InTurn
  <2>1. /\ j + 1 \in DOMAIN up /\ k + 1 \in DOMAIN up /\ j + 1 < k + 1
        /\ up'[j] = up[j + 1] /\ up'[k] = up[k + 1]
    BY <1>2
  <2> QED
    BY <2>1 DEF InTurn
<1>14. Behind'
  <2> SUFFICES ASSUME NEW m \in Num, NEW k \in DOMAIN up', server'[m] # "none",
                      up'[k].sid = id[m]
               PROVE  m <= up'[k].num
    BY <1>1 DEF Behind
  <2>1. k + 1 \in DOMAIN up /\ up'[k] = up[k + 1] /\ 1 < k + 1
    BY <1>2
  <2>2. CASE m = x
    BY <1>2, <1>3, <2>1, <2>2 DEF InTurn
  <2>3. CASE m # x
    BY <1>7, <2>1, <2>3 DEF Behind
  <2> QED
    BY <2>2, <2>3
<1>15. ASSUME NEW m \in Num, m # x, NEW k \in 1..Len(up), ConnectQueued(m, k)
       PROVE  \E j \in 1..(k - 1) : up'[j].cmd = "CONNECT" /\ up'[j].num = m
  <2>1. PICK j \in 1..k : up[j].cmd = "CONNECT" /\ up[j].num = m
    BY <1>15 DEF ConnectQueued
  <2>2. j # 1
    BY <1>15, <2>1
  <2>3. j - 1 \in 1..(k - 1) /\ up'[j - 1] = up[j]
    BY <1>2, <2>1, <2>2
  <2> QED
    BY <2>1, <2>3
<1>16. Announced'
  <2> SUFFICES ASSUME NEW k \in DOMAIN up', server'[up'[k].num] = "none"
               PROVE  \E j \in 1..k : up'[j].cmd = "CONNECT" /\ up'[j].num = up'[k].num
    BY DEF Announced, ConnectQueued
  <2>1. k + 1 \in 1..Len(up) /\ up'[k] = up[k + 1] /\ (k + 1) - 1 = k
    BY <1>2
  <2>2. up[k + 1].num \in Num /\ up[k + 1].num # x
    BY <1>8, <2>1
  <2>3. ConnectQueued(up[k + 1].num, k + 1)
    BY <1>7, <2>1, <2>2 DEF Announced
  <2>4. \E j \in 1..((k + 1) - 1) : up'[j].cmd = "CONNECT" /\ up'[j].num = up[k + 1].num
    BY <1>15, <2>1, <2>2, <2>3
  <2> QED
    BY <2>1, <2>4
<1>17. Connected'
  <2> SUFFICES ASSUME NEW m \in Num, InClientList(m)', server'[m] = "none"
               PROVE  \E j \in 1..Len(up') : up'[j].cmd = "CONNECT" /\ up'[j].num = m
    BY DEF Connected, ConnectQueued
  <2>1. m # x
    BY <1>8
  <2>2. ConnectQueued(m, Len(up))
    BY <1>7, <1>10, <2>1 DEF Connected
  <2>3. Len(up) \in 1..Len(up)
    BY <1>2
  <2> QED
    BY <1>2, <1>15, <2>1, <2>2, <2>3
<1>18. Newest'
  <2> SUFFICES ASSUME NEW m \in Num, NEW k \in Num, InServerList(m)', server'[k] # "none",
                      id[m] = id[k]
               PROVE  k <= m
    BY <1>1 DEF Newest
  <2>1. CASE m = x
    <3>1. CASE k = x
      BY <1>3, <2>1, <3>1
    <3>2. CASE k # x
      BY <1>2, <1>3, <1>7, <2>1, <3>2 DEF Behind
    <3> QED
      BY <3>1, <3>2
  <2>2. CASE m # x
    <3>1. k # x
      BY <1>9, <2>2
    <3> QED
      BY <1>7, <2>2, <3>1 DEF Newest
  <2> QED
    BY <2>1, <2>2
<1>19. OnceEach'
  <2> SUFFICES ASSUME NEW k \in DOMAIN up', up'[k].cmd = "CONNECT"
               PROVE  /\ server'[up'[k].num] = "none"
                      /\ \A j \in DOMAIN up' :
                           up'[j].cmd = "CONNECT" /\ up'[j].num = up'[k].num => j = k
    BY DEF OnceEach
  <2>1. k + 1 \in DOMAIN up /\ up'[k] = up[k + 1] /\ k + 1 # 1
    BY <1>2
  <2>2. up[k + 1].num # x /\ server[up[k + 1].num] = "none"
    BY <1>2, <1>3, <2>1 DEF OnceEach
  <2>3. server'[up[k + 1].num] = "none"
    BY <1>7, <2>1, <2>2
  <2>4. ASSUME NEW j \in DOMAIN up', up'[j].cmd = "CONNECT", up'[j].num = up'[k].num
        PROVE  j = k
    <3>1. j + 1 \in DOMAIN up /\ up'[j] = up[j + 1]
      BY <1>2
    <3>2. j + 1 = k + 1
      BY <2>1, <2>4, <3>1 DEF OnceEach
    <3> QED
      BY <1>2, <3>2
  <2> QED
    BY <2>1, <2>3, <2>4
<1>20. Farewell'
  <2>1. \A k \in DOMAIN down : down[k].cmd = "CLOSE" => down[k].num # x
    BY <1>3 DEF Farewell, Ended
  <2> QED
    BY <1>1, <1>7, <2>1 DEF Farewell
<1> QED
  BY <1>2, <1>3, <1>4, <1>7, <1>11, <1>12, <1>13, <1>14, <1>16, <1>17, <1>18, <1>19, <1>20

\* Only the constructor makes a session, and it alone gives out an id.
LEMMA BornFrame ==
  ASSUME TypeOK, [Next]_vars, ~ \E n \in Num : Construct(n)
  PROVE  /\ UNCHANGED <<counter, id>>
         /\ \A n \in Num : (Born(n)' <=> Born(n)) /\ (Live(n)' => Live(n))
<1> USE DEF TypeOK, Born, Live
<1>1. ASSUME NEW n \in Num,
             Release(n) \/ SessionStart(n) \/ ClientSend(n) \/ ClientDestroy(n)
      PROVE  /\ UNCHANGED <<counter, id>>
             /\ \A m \in Num : (Born(m)' <=> Born(m)) /\ (Live(m)' => Live(m))
  BY <1>1 DEF Release, SessionStart, ClientSend, ClientDestroy, InClientList
<1>2. ASSUME NEW n \in Num, ServerSend(n) \/ ServerLateAck(n) \/ ServerDestroy(n)
      PROVE  UNCHANGED <<counter, id, client>>
  BY <1>2 DEF ServerSend, ServerLateAck, ServerDestroy
<1>3. CASE IdsExhausted \/ ServerRecv \/ UNCHANGED vars
  BY <1>3 DEF IdsExhausted, ServerRecv, vars
<1>4. CASE ClientRecv
  <2>1. PICK n \in FoundClient(Head(down).sid) :
          IF n # None /\ Head(down).cmd = "CLOSE"
          THEN \E s \in {"closing", "destroyed"} : client' = [client EXCEPT ![n] = s]
          ELSE UNCHANGED client
    BY <1>4 DEF ClientRecv
  <2>2. n # None => n \in Num /\ InClientList(n)
    BY FoundType
  <2>3. UNCHANGED <<counter, id>>
    BY <1>4 DEF ClientRecv
  <2>4. CASE n # None /\ Head(down).cmd = "CLOSE"
    BY <2>1, <2>2, <2>3, <2>4 DEF InClientList
  <2>5. CASE ~(n # None /\ Head(down).cmd = "CLOSE")
    BY <2>1, <2>3, <2>5
  <2> QED
    BY <2>4, <2>5
<1>5. CASE PipelineBroken
  BY <1>5 DEF PipelineBroken, InClientList
<1> QED
  BY NextCases, <1>1, <1>2, <1>3, <1>4, <1>5

\* Every step keeps the order of construction: the constructor takes the next
\* number and an id that no live session has.
LEMMA OrderStep ==
  ASSUME TypeOK, UniqueIds, Prefix, Later, [Next]_vars
  PROVE  Prefix' /\ Later'
<1> USE DEF TypeOK
<1>0. \A m \in Num : m \in Int
  BY DEF Num
<1>1. ASSUME NEW n \in Num, Construct(n) PROVE Prefix' /\ Later'
  <2>1. PICK i \in Ids : Allocate(i) /\ used' = used \cup {i} /\ id' = [id EXCEPT ![n] = i]
    BY <1>1 DEF Construct
  <2>2. i \notin used
    BY <2>1 DEF Allocate
  <2>3. /\ client[n] = "unborn" /\ \A m \in Num : m < n => client[m] # "unborn"
        /\ client' = [client EXCEPT ![n] = "idle"]
    BY <1>1 DEF Construct
  <2>4. \A m \in Num : m # n => /\ Born(m)' <=> Born(m)
                                /\ Live(m)' <=> Live(m)
                                /\ id'[m] = id[m]
    BY <2>1, <2>3 DEF Born, Live
  <2>5. \A m \in Num : Born(m)' /\ m # n => m < n
    BY <1>0, <2>3, <2>4 DEF Prefix, Born
  <2>6. Prefix'
    BY <1>0, <2>3, <2>4, <2>5 DEF Prefix, Born
  <2>7. ASSUME NEW m \in Num, NEW k \in Num, Live(k)', Born(m)', m # k, id'[m] = id'[k]
        PROVE  m < k
    <3>1. CASE k = n
      BY <2>5, <2>7, <3>1
    <3>2. CASE m = n
      <4>1. Live(k) /\ id[k] = i
        BY <2>1, <2>4, <2>7, <3>2
      <4> QED
        BY <2>2, <4>1 DEF UniqueIds
    <3>3. CASE k # n /\ m # n
      BY <2>4, <2>7, <3>3 DEF Later
    <3> QED
      BY <3>1, <3>2, <3>3
  <2> QED
    BY <2>6, <2>7 DEF Later
<1>2. CASE ~ \E n \in Num : Construct(n)
  <2>1. /\ UNCHANGED <<counter, id>>
        /\ \A n \in Num : (Born(n)' <=> Born(n)) /\ (Live(n)' => Live(n))
    BY <1>2, BornFrame
  <2> QED
    BY <2>1 DEF Prefix, Later
<1> QED
  BY <1>1, <1>2

\* Every step keeps the routing invariant.
LEMMA RouteStep ==
  ASSUME TypeOK, Later, RouteInv, [Next]_vars
  PROVE  RouteInv'
<1> USE DEF TypeOK
<1>1. ASSUME NEW n \in Num, Construct(n) PROVE RouteInv'
  <2>1. /\ client[n] = "unborn" /\ client' = [client EXCEPT ![n] = "idle"]
        /\ UNCHANGED <<server, up, down>>
        /\ \E i \in Ids : id' = [id EXCEPT ![n] = i]
    BY <1>1 DEF Construct, server_side
  <2>2. /\ \A m \in Num : Started(m) => Started(m)' /\ id'[m] = id[m]
        /\ \A m \in Num : InClientList(m)' => InClientList(m)
    BY <2>1 DEF Started, InClientList
  <2> QED
    BY <2>1, <2>2, ClientRoute
<1>2. ASSUME NEW n \in Num, Release(n) PROVE RouteInv'
  <2>1. client' = [client EXCEPT ![n] = "gone"] /\ UNCHANGED <<server, up, down, id>>
    BY <1>2 DEF Release, server_side
  <2>2. /\ \A m \in Num : Started(m) => Started(m)' /\ id'[m] = id[m]
        /\ \A m \in Num : InClientList(m)' => InClientList(m)
    BY <2>1 DEF Started, InClientList
  <2> QED
    BY <2>1, <2>2, ClientRoute
<1>3. ASSUME NEW n \in Num, SessionStart(n) PROVE RouteInv'
  <2>1. /\ client[n] = "idle" /\ client' = [client EXCEPT ![n] = "listed"]
        /\ up' = Append(up, FrameOf("CONNECT", n)) /\ UNCHANGED <<id, server, down>>
    BY <1>3 DEF SessionStart, server_side
  <2>2. /\ Live(n) /\ Started(n)' /\ ~Started(n)
        /\ \A m \in Num : Started(m) => Started(m)'
        /\ \A m \in Num : m # n => (Started(m)' <=> Started(m)) /\ (InClientList(m)' => InClientList(m))
    BY <2>1 DEF Started, InClientList, Live
  <2> QED
    BY <2>1, <2>2, SendUpRoute
<1>4. ASSUME NEW n \in Num, ClientSend(n) PROVE RouteInv'
  <2>1. /\ InClientList(n) /\ UNCHANGED client
        /\ up' = Append(up, FrameOf("DATA", n)) /\ UNCHANGED <<id, server, down>>
    BY <1>4 DEF ClientSend, server_side
  <2>2. /\ Live(n) /\ Started(n)'
        /\ \A m \in Num : Started(m) => Started(m)'
        /\ \A m \in Num : m # n => (Started(m)' <=> Started(m)) /\ (InClientList(m)' => InClientList(m))
    BY <2>1 DEF Started, InClientList, Live
  <2> QED
    BY <2>1, <2>2, SendUpRoute
<1>5. ASSUME NEW n \in Num, ClientDestroy(n) PROVE RouteInv'
  <2>1. /\ InClientList(n) /\ client' = [client EXCEPT ![n] = "destroyed"]
        /\ up' = Append(up, FrameOf("CLOSE", n)) /\ UNCHANGED <<id, server, down>>
    BY <1>5 DEF ClientDestroy, server_side
  <2>2. /\ Live(n) /\ Started(n)'
        /\ \A m \in Num : Started(m) => Started(m)'
        /\ \A m \in Num : m # n => (Started(m)' <=> Started(m)) /\ (InClientList(m)' => InClientList(m))
    BY <2>1 DEF Started, InClientList, Live
  <2> QED
    BY <2>1, <2>2, SendUpRoute
<1>6. ASSUME NEW n \in Num, ServerSend(n) PROVE RouteInv'
  <2>1. /\ server[n] \in {"listed", "closing"} /\ UNCHANGED <<client, id, up, server>>
        /\ down' = Append(down, FrameOf("DATA", n))
    BY <1>6 DEF ServerSend, InServerList
  <2>2. server' = [server EXCEPT ![n] = server[n]] /\ server[n] \in ServerStates
    BY <2>1
  <2> QED
    BY <2>1, <2>2, SendDownRoute DEF Ended
<1>7. ASSUME NEW n \in Num, ServerLateAck(n) PROVE RouteInv'
  <2>1. /\ server[n] = "late" /\ server' = [server EXCEPT ![n] = "dead"]
        /\ UNCHANGED <<client, id, up>>
        /\ down' = down \/ down' = Append(down, FrameOf("DATA", n))
    BY <1>7 DEF ServerLateAck
  <2> QED
    BY <2>1, SendDownRoute DEF Ended, ServerStates
<1>8. ASSUME NEW n \in Num, ServerDestroy(n) PROVE RouteInv'
  <2>1. PICK s \in Ended : server' = [server EXCEPT ![n] = s]
    BY <1>8 DEF ServerDestroy
  <2>2. /\ server[n] \in {"listed", "closing"} /\ UNCHANGED <<client, id, up>>
        /\ down' = Append(down, FrameOf("CLOSE", n))
    BY <1>8 DEF ServerDestroy, InServerList
  <2>3. s \in ServerStates /\ s # "none" /\ s \notin {"listed", "closing"}
    BY DEF Ended, ServerStates
  <2> QED
    BY <2>1, <2>2, <2>3, SendDownRoute
<1>9. CASE IdsExhausted \/ UNCHANGED vars
  <2>1. UNCHANGED <<id, client, server, up, down>>
    BY <1>9 DEF IdsExhausted, vars, server_side
  <2>2. /\ \A m \in Num : Started(m) => Started(m)' /\ id'[m] = id[m]
        /\ \A m \in Num : InClientList(m)' => InClientList(m)
    BY <2>1 DEF Started, InClientList
  <2> QED
    BY <2>1, <2>2, ClientRoute
<1>10. CASE ServerRecv
  BY <1>10, ServerReadRoute, ServerAcceptRoute
<1> QED
  BY NextCases, <1>1, <1>2, <1>3, <1>4, <1>5, <1>6, <1>7, <1>8, <1>9, <1>10,
     ClientRecvRoute, BrokenRoute

\* The order of the sessions and the routing of their frames, from the start.
LEMMA Routing == Spec => [](UniqueIds /\ Prefix /\ Later /\ RouteInv)
<1>1. Init => Prefix /\ Later /\ RouteInv
  <2> SUFFICES ASSUME Init PROVE Prefix /\ Later /\ RouteInv
    OBVIOUS
  <2>1. \A n \in Num : ~Born(n) /\ ~Live(n) /\ ~InClientList(n) /\ ~InServerList(n)
                       /\ server[n] = "none"
    BY DEF Init, Born, Live, InClientList, InServerList
  <2>2. DOMAIN up = {} /\ DOMAIN down = {}
    BY DEF Init
  <2>3. Prefix /\ Later
    BY <2>1 DEF Prefix, Later
  <2>4. Owned /\ InTurn /\ Behind /\ Announced /\ OnceEach /\ Farewell
    BY <2>2 DEF Owned, InTurn, Behind, Announced, OnceEach, Farewell
  <2>5. Fresh /\ Connected /\ Newest
    BY <2>1 DEF Fresh, Connected, Newest
  <2> QED
    BY <2>3, <2>4, <2>5 DEF RouteInv
<1>2. TypeOK /\ UniqueIds /\ Prefix /\ Later /\ RouteInv /\ [Next]_vars
        => Prefix' /\ Later' /\ RouteInv'
  BY OrderStep, RouteStep
<1> QED
  BY <1>1, <1>2, MuxTypeCorrect, IdsUnique, PTL DEF Spec

\* Neither list ever holds two sessions with one id, so neither the loop of
\* Pipeline::out_async_recv nor PipelineSession::find_and_process_session can
\* pick the wrong one of two: the client's because a listed session holds its
\* id, the server's because a CONNECT drops the session that still has it.
THEOREM ListsSearchable == Spec => []OnePerId
<1>1. UniqueIds /\ RouteInv => OnePerId
  <2> SUFFICES ASSUME UniqueIds, RouteInv, NEW m \in Num, NEW n \in Num, m # n, id[m] = id[n]
               PROVE  ~(InClientList(m) /\ InClientList(n)) /\ ~(InServerList(m) /\ InServerList(n))
    BY DEF OnePerId
  <2>1. ~(InClientList(m) /\ InClientList(n))
    BY DEF UniqueIds, InClientList, Live
  <2>2. ~(InServerList(m) /\ InServerList(n))
    BY OneListed
  <2> QED
    BY <2>1, <2>2
<1> QED
  BY <1>1, Routing, PTL

\* No frame of a session is ever given to the server session of another one,
\* however ids are reused and whatever is still queued when they are.
THEOREM UpstreamRouted == Spec => []NoCrossUp
<1>1. Init => NoCrossUp
  BY DEF Init, NoCrossUp
<1>2. ASSUME TypeOK, RouteInv, NoCrossUp, [Next]_vars PROVE NoCrossUp'
  <2>1. CASE ServerRecv
    BY <1>2, <2>1, ServerReadRoute, ServerAcceptRoute DEF NoCrossUp
  <2>2. CASE ~ServerRecv
    <3>1. UNCHANGED crossUp
      BY <1>2, <2>2, NextCases DEF Construct, Release, SessionStart, ClientSend, ClientDestroy,
         ServerSend, ServerLateAck, ServerDestroy, IdsExhausted, ClientRecv, PipelineBroken,
         vars, server_side
    <3> QED
      BY <1>2, <3>1 DEF NoCrossUp
  <2> QED
    BY <2>1, <2>2
<1> QED
  BY <1>1, <1>2, Routing, MuxTypeCorrect, PTL DEF Spec

-----------------------------------------------------------------------------
(* The first lap of the counter, and the end of sessions.                    *)

\* The counter walks through the ids once before any is given out again: the
\* n-th session gets the id n - 1 as long as n is at most N.
FirstLap ==
  /\ \A n \in Num : n <= N /\ Born(n) => id[n] = n - 1
  /\ \A n \in Num :
       n <= N /\ ~Born(n) /\ (\A m \in Num : m < n => Born(m)) => counter = n - 1

\* Below N the counter does not wrap.
LEMMA NoWrap ==
  ASSUME NEW x \in 0..(N - 1)
  PROVE  x % N = x
<1>1. N \in Int /\ x \in Int /\ 0 <= x /\ x < N
  BY NAssumption
<1> QED
  BY <1>1

\* The constructor keeps to the first lap: the id the counter stands at has
\* not been given out, so the scan stops at once.
LEMMA FirstLapStep ==
  ASSUME TypeOK, UniqueIds, Prefix, FirstLap, [Next]_vars
  PROVE  FirstLap'
<1> USE DEF TypeOK
<1>0. N \in Nat /\ N > 0 /\ \A m \in Num : m \in Int /\ m >= 1
  BY NAssumption DEF Num
<1>1. ASSUME NEW n \in Num, Construct(n) PROVE FirstLap'
  <2>1. PICK i \in Ids : /\ Allocate(i) /\ counter' = (i + 1) % N
                         /\ id' = [id EXCEPT ![n] = i]
    BY <1>1 DEF Construct, Advance
  <2>2. /\ ~Born(n) /\ \A m \in Num : m < n => Born(m)
        /\ client' = [client EXCEPT ![n] = "idle"]
    BY <1>1 DEF Construct, Born
  <2>3. Born(n)' /\ \A m \in Num : m # n => (Born(m)' <=> Born(m)) /\ id'[m] = id[m]
    BY <2>1, <2>2 DEF Born
  <2>4. \A m \in Num : Born(m) => m < n
    BY <1>0, <2>2 DEF Prefix
  <2>5. n <= N => i = n - 1
    <3> SUFFICES ASSUME n <= N PROVE i = n - 1
      OBVIOUS
    <3>1. counter = n - 1 /\ n - 1 \in Ids
      BY <1>0, <2>2 DEF FirstLap, Ids
    <3>2. n - 1 \notin used
      <4> SUFFICES ASSUME n - 1 \in used PROVE FALSE
        OBVIOUS
      <4>1. PICK m \in Num : Live(m) /\ id[m] = n - 1
        BY DEF UniqueIds
      <4>2. Born(m)
        BY <4>1 DEF Live, Born
      <4>3. m < n /\ id[m] = m - 1
        BY <1>0, <2>4, <4>2 DEF FirstLap
      <4> QED
        BY <1>0, <4>1, <4>3
    <3>3. PICK k \in Ids : /\ i = (counter + k) % N
                           /\ \A j \in Ids : j < k => (counter + j) % N \in used
      BY <2>1 DEF Allocate
    <3>4. 0 \in Ids /\ (counter + 0) % N = n - 1
      <4>1. counter + 0 = n - 1 /\ n - 1 \in 0..(N - 1)
        BY <1>0, <3>1 DEF Ids
      <4>2. (n - 1) % N = n - 1
        BY <4>1, NoWrap
      <4> QED
        BY <1>0, <4>1, <4>2 DEF Ids
    <3>5. k = 0
      <4>1. k \in Nat
        BY <1>0 DEF Ids
      <4>2. 0 < k => (counter + 0) % N \in used
        BY <3>3, <3>4
      <4>3. ~(0 < k)
        BY <3>2, <3>4, <4>2
      <4> QED
        BY <4>1, <4>3
    <3> QED
      BY <3>3, <3>4, <3>5
  <2>6. ASSUME NEW m \in Num, m <= N, Born(m)' PROVE id'[m] = m - 1
    <3>1. CASE m = n
      BY <2>1, <2>5, <2>6, <3>1
    <3>2. CASE m # n
      BY <2>3, <2>6, <3>2 DEF FirstLap
    <3> QED
      BY <3>1, <3>2
  <2>7. ASSUME NEW m \in Num, m <= N, ~Born(m)', \A k \in Num : k < m => Born(k)'
        PROVE  counter' = m - 1
    <3>1. m # n /\ ~Born(m)
      BY <2>3, <2>7
    <3>2. n < m
      BY <1>0, <2>2, <3>1
    <3>3. m <= n + 1
      <4> SUFFICES ASSUME n + 1 < m PROVE FALSE
        BY <1>0
      <4>1. n + 1 \in Num
        BY <1>0, SessionsAssumption DEF Num
      <4>2. Born(n + 1)
        BY <1>0, <2>3, <2>7, <4>1
      <4> QED
        BY <1>0, <2>4, <4>1, <4>2
    <3>4. i = n - 1 /\ m = n + 1
      BY <1>0, <2>5, <2>7, <3>2, <3>3
    <3>5. (n - 1 + 1) % N = n
      BY <1>0, <2>7, <3>4
    <3> QED
      BY <1>0, <2>1, <3>4, <3>5
  <2> QED
    BY <2>6, <2>7 DEF FirstLap
<1>2. CASE ~ \E n \in Num : Construct(n)
  BY <1>2, BornFrame DEF FirstLap
<1> QED
  BY <1>1, <1>2

\* What a step of the client's reading can add to crossDown: the session that
\* is found has the id of the frame and is another one than the frame's.
LEMMA CrossStep ==
  ASSUME TypeOK, RouteInv, [Next]_vars, NEW p \in crossDown', p \notin crossDown
  PROVE  /\ ClientRecv /\ p[1] \in Num /\ p[2] \in Num /\ p[1] # p[2]
         /\ id[p[1]] = id[p[2]] /\ Born(p[1]) /\ InClientList(p[2])
<1>1. ClientRecv
  BY NextCases DEF Construct, Release, SessionStart, ClientSend, ClientDestroy,
     ServerSend, ServerLateAck, ServerDestroy, IdsExhausted, ServerRecv, PipelineBroken,
     vars, server_side
<1>2. down # <<>>
  BY <1>1 DEF ClientRecv
<1>3. Head(down) = down[1] /\ 1 \in DOMAIN down
  BY <1>2, ReadFrame DEF TypeOK
<1>4. PICK n \in FoundClient(Head(down).sid) :
        crossDown' = crossDown \cup ({<<Head(down).num, n>>} \cap
                                     {q \in Num \X Num : q[1] # q[2]})
  BY <1>1 DEF ClientRecv
<1>5. p = <<down[1].num, n>> /\ p \in Num \X Num /\ p[1] # p[2]
  BY <1>3, <1>4
<1>6. p[1] = down[1].num /\ p[2] = n /\ n \in Num
  BY <1>5
<1>7. n # None
  BY <1>6 DEF None, Num
<1>8. InClientList(n) /\ id[n] = down[1].sid
  BY <1>3, <1>7 DEF FoundClient
<1>9. down[1].sid = id[down[1].num] /\ Born(down[1].num)
  BY <1>3 DEF RouteInv, Owned, Started, Born
<1> QED
  BY <1>1, <1>5, <1>6, <1>8, <1>9

\* A frame from the server can only be given to a wrong client session after
\* s_session_id_counter has wrapped: the first N sessions are safe.
THEOREM FirstLapSafe == Spec => []FirstLapClean
<1>1. Init => FirstLap /\ FirstLapClean
  <2> SUFFICES ASSUME Init PROVE FirstLap /\ FirstLapClean
    OBVIOUS
  <2>1. \A n \in Num : ~Born(n) /\ n \in Int /\ n >= 1
    BY DEF Init, Born, Num
  <2>2. ASSUME NEW n \in Num, \A m \in Num : m < n => Born(m) PROVE n = 1
    <3>1. 1 \in Num
      BY <2>1, SessionsAssumption DEF Num
    <3> QED
      BY <2>1, <2>2, <3>1
  <2>3. FirstLap
    BY <2>1, <2>2 DEF Init, FirstLap
  <2> QED
    BY <2>3 DEF Init, FirstLapClean
<1>2. ASSUME TypeOK, UniqueIds, Prefix, Later, RouteInv, FirstLap, FirstLapClean, [Next]_vars
      PROVE  FirstLap' /\ FirstLapClean'
  <2>1. FirstLap'
    BY <1>2, FirstLapStep
  <2>2. ASSUME NEW p \in crossDown' PROVE p[2] > N
    <3>1. CASE p \in crossDown
      BY <1>2, <3>1 DEF FirstLapClean
    <3>2. CASE p \notin crossDown
      <4>1. /\ p[1] \in Num /\ p[2] \in Num /\ p[1] # p[2] /\ id[p[1]] = id[p[2]]
            /\ Born(p[1]) /\ InClientList(p[2])
        BY <1>2, <2>2, <3>2, CrossStep
      <4>2. Live(p[2]) /\ Born(p[2])
        BY <4>1 DEF InClientList, Live, Born
      <4>3. p[1] < p[2]
        BY <1>2, <4>1, <4>2 DEF Later
      <4>4. p[1] \in Int /\ p[2] \in Int /\ N \in Int
        BY <4>1, NAssumption DEF Num
      <4> QED
        BY <1>2, <4>1, <4>2, <4>3, <4>4 DEF FirstLap
    <3> QED
      BY <3>1, <3>2
  <2> QED
    BY <2>1, <2>2 DEF FirstLapClean
<1> QED
  BY <1>1, <1>2, Routing, MuxTypeCorrect, PTL DEF Spec

\* A session that has ended by itself, without the CLOSE of another session,
\* has told the server, which has read that or has it in the channel.
Ends(n) == client[n] \in {"destroyed", "gone"}
Uncrossed(n) == \A p \in crossDown : p[2] # n
Told(n) == \/ server[n] \in {"closing", "late", "dead"}
           \/ \E k \in DOMAIN up : up[k].cmd = "CLOSE" /\ up[k].num = n
           \/ server[n] = "none" /\ \A k \in DOMAIN up : up[k].num # n
AllTold == \A n \in Num : Ends(n) /\ Uncrossed(n) => Told(n)

\* A session sends a frame: the others are told as before, and so is the
\* sender if the frame is its CLOSE.
LEMMA SendTold ==
  ASSUME TypeOK, AllTold, NEW n \in Num, NEW c \in {"CONNECT", "DATA", "CLOSE"},
         up' = Append(up, FrameOf(c, n)), UNCHANGED <<server, crossDown>>,
         Ends(n)' => c = "CLOSE",
         \A m \in Num : m # n => (Ends(m)' => Ends(m))
  PROVE  AllTold'
<1> USE FrameType
<1>1. FrameOf(c, n) \in Frame
  BY FrameOfType
<1>2. /\ DOMAIN up' = 1..(Len(up) + 1)
      /\ \A k \in 1..Len(up) : up'[k] = up[k]
      /\ up'[Len(up) + 1] = FrameOf(c, n)
  BY <1>1, SentFrame DEF TypeOK
<1>3. FrameOf(c, n).cmd = c /\ FrameOf(c, n).num = n
  BY DEF FrameOf
<1>4. ASSUME NEW m \in Num, Ends(m)', Uncrossed(m)' PROVE Told(m)'
  <2>1. CASE m = n
    BY <1>2, <1>3, <1>4, <2>1 DEF Told
  <2>2. CASE m # n
    <3>1. Told(m)
      BY <1>4, <2>2 DEF AllTold, Uncrossed
    <3>2. CASE server[m] \in {"closing", "late", "dead"}
      BY <3>2 DEF Told
    <3>3. CASE \E k \in DOMAIN up : up[k].cmd = "CLOSE" /\ up[k].num = m
      BY <1>2, <3>3 DEF Told
    <3>4. CASE server[m] = "none" /\ \A k \in DOMAIN up : up[k].num # m
      BY <1>2, <1>3, <2>2, <3>4 DEF Told
    <3> QED
      BY <3>1, <3>2, <3>3, <3>4 DEF Told
  <2> QED
    BY <2>1, <2>2
<1> QED
  BY <1>4 DEF AllTold

\* The CLOSE frame of a session ends it at the server, unless it has ended.
LEMMA CloseRead ==
  ASSUME TypeOK, RouteInv, ServerRecv, Head(up).cmd = "CLOSE"
  PROVE  server'[Head(up).num] \in {"closing", "late", "dead"}
<1> USE FrameType DEF RouteInv
<1>1. up # <<>>
  BY DEF ServerRecv
<1>2. Head(up) = up[1] /\ 1 \in DOMAIN up
  BY <1>1, ReadFrame DEF TypeOK
<1> DEFINE x == up[1].num
<1>3. x \in Num /\ up[1].sid = id[x]
  BY <1>2 DEF Owned
<1>4. server[x] # "none"
  <2>1. ASSUME server[x] = "none" PROVE FALSE
    <3>1. PICK j \in 1..1 : up[j].cmd = "CONNECT"
      BY <1>2, <2>1 DEF Announced, ConnectQueued
    <3>2. j = 1
      OBVIOUS
    <3> QED
      BY <1>2, <3>1, <3>2
  <2> QED
    BY <2>1
<1>5. PICK n \in FoundServer(Head(up).sid) :
        IF n # None /\ Head(up).cmd = "CLOSE"
        THEN \E s \in {"closing", "dead"} : server' = [server EXCEPT ![n] = s]
        ELSE UNCHANGED server
  BY DEF ServerRecv
<1>6. CASE n # None
  <2>1. n = x
    BY <1>1, <1>2, <1>6, FoundIsOwner
  <2> QED
    BY <1>2, <1>3, <1>5, <1>6, <2>1 DEF TypeOK
<1>7. CASE n = None
  <2>1. ~InServerList(x)
    <3> SUFFICES ASSUME InServerList(x) PROVE FALSE
      OBVIOUS
    <3>1. x \in {m \in Num : InServerList(m) /\ id[m] = up[1].sid}
      BY <1>3
    <3>2. n \in Num
      BY <1>2, <3>1 DEF FoundServer
    <3> QED
      BY <1>7, <3>2 DEF None, Num
  <2>2. server' = server
    BY <1>5, <1>7
  <2> QED
    BY <1>2, <1>3, <1>4, <2>1, <2>2 DEF TypeOK, ServerStates, InServerList
<1> QED
  BY <1>6, <1>7

\* The server reads a frame and every ended session stays told.
LEMMA ServerRecvTold ==
  ASSUME TypeOK, RouteInv, AllTold, ServerRecv
  PROVE  AllTold'
<1> USE FrameType
<1>1. up # <<>> /\ up' = Tail(up) /\ UNCHANGED <<client, crossDown>>
  BY DEF ServerRecv
<1>2. /\ DOMAIN up' = 1..(Len(up) - 1)
      /\ \A k \in 1..(Len(up) - 1) : up'[k] = up[k + 1]
      /\ Head(up) = up[1] /\ 1 \in DOMAIN up
  BY <1>1, ReadFrame DEF TypeOK
<1>3. ASSUME NEW m \in Num, Ends(m)', Uncrossed(m)' PROVE Told(m)'
  <2>1. Told(m)
    BY <1>1, <1>3 DEF AllTold, Ends, Uncrossed
  <2>2. \A k \in DOMAIN up : k # 1 => k - 1 \in DOMAIN up' /\ up'[k - 1] = up[k]
    BY <1>2
  <2>3. \A k \in DOMAIN up' : k + 1 \in DOMAIN up /\ up'[k] = up[k + 1]
    BY <1>2
  <2>4. m # up[1].num \/ up[1].cmd # "CONNECT" =>
          server'[m] = server[m] \/ server'[m] \in {"closing", "late", "dead"}
    BY <1>2, ServerReadRoute, ServerAcceptRoute DEF Ended
  <2>5. CASE \E k \in DOMAIN up : up[k].cmd = "CLOSE" /\ up[k].num = m
    <3>1. PICK k \in DOMAIN up : up[k].cmd = "CLOSE" /\ up[k].num = m
      BY <2>5
    <3>2. CASE k = 1
      BY <1>2, <3>1, <3>2, CloseRead DEF Told
    <3>3. CASE k # 1
      BY <2>2, <3>1, <3>3 DEF Told
    <3> QED
      BY <3>2, <3>3
  <2>6. CASE server[m] = "none" /\ \A k \in DOMAIN up : up[k].num # m
    <3>1. \A k \in DOMAIN up' : up'[k].num # m
      BY <2>3, <2>6
    <3> QED
      BY <1>2, <2>4, <2>6, <3>1 DEF Told
  <2>7. CASE server[m] \in {"closing", "late", "dead"}
    <3>1. m # up[1].num \/ up[1].cmd # "CONNECT"
      BY <1>2, <2>7, ServerAcceptRoute
    <3> QED
      BY <2>4, <2>7, <3>1 DEF Told
  <2> QED
    BY <2>1, <2>5, <2>6, <2>7 DEF Told
<1> QED
  BY <1>3 DEF AllTold

\* The client reads a frame: a session that ends by its own CLOSE has no
\* server session any more, one that ends by another's is crossed.
LEMMA ClientRecvTold ==
  ASSUME TypeOK, RouteInv, AllTold, ClientRecv
  PROVE  AllTold'
<1> USE FrameType DEF TypeOK
<1>1. down # <<>> /\ UNCHANGED <<server, up>>
  BY DEF ClientRecv
<1>2. Head(down) = down[1] /\ 1 \in DOMAIN down
  BY <1>1, ReadFrame
<1>3. PICK n \in FoundClient(Head(down).sid) :
        /\ crossDown' = crossDown \cup ({<<Head(down).num, n>>} \cap
                                        {p \in Num \X Num : p[1] # p[2]})
        /\ IF n # None /\ Head(down).cmd = "CLOSE"
           THEN \E s \in {"closing", "destroyed"} : client' = [client EXCEPT ![n] = s]
           ELSE UNCHANGED client
  BY DEF ClientRecv
<1>4. ASSUME NEW m \in Num, Ends(m)', Uncrossed(m)' PROVE Told(m)'
  <2>1. Uncrossed(m)
    BY <1>3, <1>4 DEF Uncrossed
  <2>2. CASE Ends(m)
    BY <1>1, <2>1, <2>2 DEF AllTold, Told
  <2>3. CASE ~Ends(m)
    <3>1. n # None /\ Head(down).cmd = "CLOSE" /\ m = n
      BY <1>3, <1>4, <2>3 DEF Ends
    <3>2. down[1].num \in Num
      BY <1>2
    <3>3. down[1].num = m
      <4> SUFFICES ASSUME down[1].num # m PROVE FALSE
        OBVIOUS
      <4>1. <<down[1].num, m>> \in Num \X Num /\ <<down[1].num, m>>[1] # <<down[1].num, m>>[2]
        BY <3>2
      <4>2. <<down[1].num, m>> \in crossDown'
        BY <1>2, <1>3, <3>1, <4>1
      <4> QED
        BY <1>4, <4>2 DEF Uncrossed
    <3>4. server[m] \in Ended
      BY <1>2, <3>1, <3>3 DEF RouteInv, Farewell
    <3> QED
      BY <1>1, <3>4 DEF Told, Ended
  <2> QED
    BY <2>2, <2>3
<1> QED
  BY <1>4 DEF AllTold

\* Every step keeps every ended session told.
LEMMA ToldStep ==
  ASSUME TypeOK, RouteInv, AllTold, [Next]_vars
  PROVE  AllTold'
<1> USE DEF TypeOK
<1>1. ASSUME NEW n \in Num, Construct(n) PROVE AllTold'
  <2>1. client' = [client EXCEPT ![n] = "idle"] /\ UNCHANGED <<server, up, crossDown>>
    BY <1>1 DEF Construct, server_side
  <2> QED
    BY <2>1 DEF AllTold, Told, Ends, Uncrossed
<1>2. ASSUME NEW n \in Num, Release(n) PROVE AllTold'
  <2>1. /\ client[n] \in {"idle", "destroyed"} /\ client' = [client EXCEPT ![n] = "gone"]
        /\ UNCHANGED <<server, up, crossDown>>
    BY <1>2 DEF Release, server_side
  <2>2. ASSUME client[n] = "idle" PROVE Told(n)
    <3>1. ~Started(n)
      BY <2>2 DEF Started
    <3> QED
      BY <3>1, FrameType DEF RouteInv, Owned, Fresh, Told
  <2>3. \A m \in Num : Ends(m)' /\ Uncrossed(m) => Told(m)
    BY <2>1, <2>2 DEF AllTold, Ends
  <2> QED
    BY <2>1, <2>3 DEF AllTold, Told, Uncrossed
<1>3. ASSUME NEW n \in Num, SessionStart(n) PROVE AllTold'
  <2>1. /\ client' = [client EXCEPT ![n] = "listed"] /\ up' = Append(up, FrameOf("CONNECT", n))
        /\ UNCHANGED <<server, crossDown>>
    BY <1>3 DEF SessionStart, server_side
  <2>2. ~Ends(n)' /\ \A m \in Num : m # n => (Ends(m)' => Ends(m))
    BY <2>1 DEF Ends
  <2> QED
    BY <2>1, <2>2, SendTold
<1>4. ASSUME NEW n \in Num, ClientSend(n) PROVE AllTold'
  <2>1. /\ InClientList(n) /\ UNCHANGED <<client, server, crossDown>>
        /\ up' = Append(up, FrameOf("DATA", n))
    BY <1>4 DEF ClientSend, server_side
  <2>2. ~Ends(n)' /\ \A m \in Num : m # n => (Ends(m)' => Ends(m))
    BY <2>1 DEF Ends, InClientList
  <2> QED
    BY <2>1, <2>2, SendTold
<1>5. ASSUME NEW n \in Num, ClientDestroy(n) PROVE AllTold'
  <2>1. /\ client' = [client EXCEPT ![n] = "destroyed"] /\ up' = Append(up, FrameOf("CLOSE", n))
        /\ UNCHANGED <<server, crossDown>>
    BY <1>5 DEF ClientDestroy, server_side
  <2>2. \A m \in Num : m # n => (Ends(m)' => Ends(m))
    BY <2>1 DEF Ends
  <2> QED
    BY <2>1, <2>2, SendTold
<1>6. ASSUME NEW n \in Num, ServerSend(n) PROVE AllTold'
  BY <1>6 DEF ServerSend, AllTold, Told, Ends, Uncrossed
<1>7. ASSUME NEW n \in Num, ServerLateAck(n) PROVE AllTold'
  BY <1>7 DEF ServerLateAck, AllTold, Told, Ends, Uncrossed
<1>8. ASSUME NEW n \in Num, ServerDestroy(n) PROVE AllTold'
  <2>1. PICK s \in Ended : server' = [server EXCEPT ![n] = s]
    BY <1>8 DEF ServerDestroy
  <2>2. UNCHANGED <<client, up, crossDown>>
    BY <1>8 DEF ServerDestroy
  <2> QED
    BY <2>1, <2>2 DEF AllTold, Told, Ends, Uncrossed, Ended
<1>9. CASE IdsExhausted \/ UNCHANGED vars
  BY <1>9 DEF IdsExhausted, vars, server_side, AllTold, Told, Ends, Uncrossed
<1>10. CASE PipelineBroken
  <2>1. up' = <<>> /\ \A n \in Num : server'[n] \in {"none", "dead"}
    BY <1>10 DEF PipelineBroken
  <2>2. DOMAIN up' = {}
    BY <2>1
  <2> QED
    BY <2>1, <2>2 DEF AllTold, Told
<1> QED
  BY NextCases, <1>1, <1>2, <1>3, <1>4, <1>5, <1>6, <1>7, <1>8, <1>9, <1>10,
     ServerRecvTold, ClientRecvTold

\* The server keeps no session whose client session has ended, beyond the time
\* its CLOSE is in the channel; the id may be in use again by then.
THEOREM NoServerOrphan == Spec => []NoOrphan
<1>1. Init => AllTold
  BY DEF Init, AllTold, Ends
<1>2. ASSUME TypeOK, RouteInv, AllTold PROVE NoOrphan
  <2> USE <1>2, FrameType DEF RouteInv
  <2> SUFFICES ASSUME NEW n \in Num, Ends(n), Uncrossed(n), server[n] = "listed"
               PROVE  \E k \in DOMAIN up :
                        /\ up[k].cmd \in {"CLOSE", "CONNECT"} /\ up[k].sid = id[n]
                        /\ \A j \in 1..(k - 1) : up[j].sid = id[n] => up[j].num = n
    BY DEF NoOrphan, Ends, Uncrossed
  <2>1. PICK k \in DOMAIN up : up[k].cmd = "CLOSE" /\ up[k].num = n
    BY DEF AllTold, Told
  <2>2. up[k].sid = id[n]
    BY <2>1 DEF Owned
  <2>3. ASSUME NEW j \in 1..(k - 1), up[j].sid = id[n] PROVE up[j].num = n
    <3>1. j \in DOMAIN up /\ j < k
      BY <2>1
    <3>2. up[j].num <= n
      BY <2>1, <2>2, <2>3, <3>1 DEF InTurn
    <3>3. n <= up[j].num
      BY <2>3, <3>1 DEF Behind
    <3>4. n \in Int /\ up[j].num \in Int
      BY <3>1 DEF Num
    <3> QED
      BY <3>2, <3>3, <3>4
  <2> QED
    BY <2>1, <2>2, <2>3
<1> QED
  BY <1>1, <1>2, ToldStep, Routing, MuxTypeCorrect, PTL DEF Spec
=============================================================================
