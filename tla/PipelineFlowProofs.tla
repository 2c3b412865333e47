------------------------- MODULE PipelineFlowProofs -------------------------
(***************************************************************************)
(* Proofs about PipelineFlow for every window and every volume of traffic: *)
(* the state keeps its type, no socket ever has two reads or two writes    *)
(* under way, each end writes the stream of its peer in order, a CLOSE     *)
(* cuts nothing off, no credit is lost or invented, and an end holds no    *)
(* more of its peer's reads than the window allows.                        *)
(*                                                                         *)
(* NoOverlap is not inductive: a second read could come from a sent        *)
(* handler that runs while a read is under way, or from an ACK frame.  The *)
(* argument is that each end runs two chains of callbacks, and each chain  *)
(* is in one place at a time: the sender's is a read, the sent handler of  *)
(* a DATA frame, or the wait for credit; the receiver's is a write, the    *)
(* sent handler of an ACK frame, or the wait for data in the ReadDataCache.*)
(* Chains counts the places.                                               *)
(*                                                                         *)
(* InOrder and CloseLosesNothing need an account of where every number of  *)
(* a stream is.  Flow gives it for one direction: the receiver's part (Rx),*)
(* the channel towards it (Towards), and the end of the session (Closed).  *)
(* It needs Chains: the queue may be written only when no write is under   *)
(* way.                                                                    *)
(*                                                                         *)
(* CreditConservation and BoundedBacklog need an account of the window:    *)
(* what the sender holds (Near), the frames on the way, what the receiver  *)
(* holds (Far) and the ACK frames on the way back are Window + 1 until an  *)
(* end is destroyed, and never more than that (Balanced).  It needs Flow,  *)
(* which tells the trojan request, the one DATA frame that costs nothing,  *)
(* from the reads.                                                         *)
(***************************************************************************)
EXTENDS PipelineFlow, SequenceTheorems, WellFoundedInduction, TLAPS

\* The places the chain of callbacks that reads the local socket can be in.
SenderToken(c) == c.reading + c.sentData + (IF c.waitAck THEN 1 ELSE 0)
\* The places the chain that writes to the local socket can be in.
ReceiverToken(c) == Len(c.writes) + c.sentAck + (IF c.waiting THEN 1 ELSE 0)

\* The session of the server s was destroyed and connect_out_socket runs on.
Dialing(s, c) == s = "server" /\ c.status = "DESTROY" /\ c.late = "dialing"

\* Each chain is in at most one place; it has not begun before the session
\* relays.
Chains(s, c) ==
  /\ SenderToken(c) <= 1
  /\ ReceiverToken(c) <= 1
  /\ s = "server" /\ c.status \in {"NONE", "HANDSHAKE", "QUERIED"} => SenderToken(c) = 0
  /\ s = "client" /\ c.status = "HANDSHAKE" => ReceiverToken(c) = 0
  /\ c.status = "QUERIED" => ReceiverToken(c) = 0
  /\ Dialing(s, c) => SenderToken(c) = 0 /\ ReceiverToken(c) = 0

\* The inductive invariant.
ChainInv == TypeOK /\ \A s \in Side : Chains(s, ses[s])

\* The counts are natural numbers.
LEMMA TokenType ==
  ASSUME NEW c \in Session
  PROVE  SenderToken(c) \in Nat /\ ReceiverToken(c) \in Nat
BY DEF Session, SenderToken, ReceiverToken

\* pre_call_ack_func puts the sender's chain in one more place, a read or a
\* wait for credit, and leaves the receiver's chain alone.
LEMMA GatedReadFacts ==
  ASSUME NEW c \in Session
  PROVE  /\ GatedRead(c) \in Session
         /\ SenderToken(GatedRead(c)) = c.reading + c.sentData + 1
         /\ ReceiverToken(GatedRead(c)) = ReceiverToken(c)
         /\ GatedRead(c).status = c.status
         /\ GatedRead(c).queue = c.queue
         /\ GatedRead(c).late = c.late
<1> DEFINE d == GatedRead(c)
<1>1. CASE c.firstCall
  <2> DEFINE r == c.reading + 1
  <2>0. r \in Nat
    BY DEF Session
  <2>1. d = [c EXCEPT !.waitAck = FALSE, !.firstCall = FALSE, !.reading = r]
    BY <1>1 DEF GatedRead
  <2> HIDE DEF r
  <2>2. d \in Session
    BY <2>0, <2>1 DEF Session
  <2>3. /\ SenderToken(d) = c.reading + c.sentData + 1
        /\ ReceiverToken(d) = ReceiverToken(c)
        /\ d.status = c.status /\ d.queue = c.queue /\ d.late = c.late
    BY <2>1 DEF Session, SenderToken, ReceiverToken, r
  <2> QED BY <2>2, <2>3
<1>2. CASE ~c.firstCall /\ c.credit = 0
  BY <1>2 DEF GatedRead, Session, SenderToken, ReceiverToken
<1>3. CASE ~c.firstCall /\ c.credit # 0
  <2> DEFINE k == c.credit - 1
             r == c.reading + 1
  <2>1. d = [c EXCEPT !.credit = k, !.waitAck = FALSE, !.reading = r]
    BY <1>3 DEF GatedRead
  <2>2. k \in Nat /\ r \in Nat
    BY <1>3 DEF Session
  <2> HIDE DEF k, r
  <2>3. d \in Session
    BY <2>1, <2>2 DEF Session
  <2>4. /\ SenderToken(d) = c.reading + c.sentData + 1
        /\ ReceiverToken(d) = ReceiverToken(c)
        /\ d.status = c.status /\ d.queue = c.queue /\ d.late = c.late
    BY <2>1 DEF Session, SenderToken, ReceiverToken, r
  <2> QED BY <2>3, <2>4
<1> QED BY <1>1, <1>2, <1>3

\* out_recv and in_recv start at most one write, and nothing of the sender's.
LEMMA ReadHandlerFacts ==
  ASSUME NEW c \in Session, NEW data \in Seq(Nat), NEW ack \in Nat
  PROVE  LET d == ReadHandler(c, data, ack) IN
         /\ d \in Session
         /\ SenderToken(d) = SenderToken(c)
         /\ d.late = c.late
         /\ c.status = "FORWARD"   => /\ d.status = "FORWARD"
                                      /\ ReceiverToken(d) = ReceiverToken(c) + 1
         /\ c.status = "HANDSHAKE" => /\ d.status = "QUERIED"
                                      /\ ReceiverToken(d) = ReceiverToken(c)
         /\ c.status \notin {"FORWARD", "HANDSHAKE"} => d = c
<1>1. CASE c.status = "FORWARD"
  <2> DEFINE w == [data |-> data, ack |-> ack]
            q == Append(c.writes, w)
            d == [c EXCEPT !.asyncWriting = TRUE, !.writes = q]
  <2>1. ReadHandler(c, data, ack) = d
    BY <1>1 DEF ReadHandler, StartWrite
  <2>2. w \in Write
    BY DEF Write
  <2>3. q \in Seq(Write) /\ Len(q) = Len(c.writes) + 1
    BY <2>2 DEF Session
  <2> HIDE DEF q
  <2>4. d \in Session
    BY <2>3 DEF Session
  <2>5. /\ SenderToken(d) = SenderToken(c)
        /\ d.status = c.status /\ d.late = c.late
        /\ ReceiverToken(d) = ReceiverToken(c) + 1
    BY <2>3 DEF Session, SenderToken, ReceiverToken
  <2> QED BY <1>1, <2>1, <2>4, <2>5
<1>2. CASE c.status = "HANDSHAKE"
  BY <1>2 DEF ReadHandler, Session, Status, SenderToken, ReceiverToken
<1>3. CASE c.status \notin {"FORWARD", "HANDSHAKE"}
  BY <1>3 DEF ReadHandler
<1> QED BY <1>1, <1>2, <1>3

\* ReadDataCache::push_data moves the receiver's chain from its wait to a
\* write, or only queues.
LEMMA PushDataFacts ==
  ASSUME NEW c \in Session, NEW data \in Seq(Nat)
  PROVE  LET d == PushData(c, data) IN
         /\ d \in Session
         /\ SenderToken(d) = SenderToken(c)
         /\ ReceiverToken(d) <= ReceiverToken(c)
         /\ d.late = c.late
         /\ \/ d.status = c.status
            \/ /\ c.status = "HANDSHAKE" /\ d.status = "QUERIED"
               /\ ReceiverToken(d) = ReceiverToken(c) - 1
<1>1. CASE c.waiting
  <2> DEFINE e == [c EXCEPT !.waiting = FALSE]
  <2>1. PushData(c, data) = ReadHandler(e, data, 1)
    BY <1>1 DEF PushData
  <2>2. e \in Session
    BY DEF Session
  <2>3. /\ SenderToken(e) = SenderToken(c)
        /\ ReceiverToken(e) = ReceiverToken(c) - 1
        /\ e.status = c.status /\ e.late = c.late
    BY <1>1 DEF Session, SenderToken, ReceiverToken
  <2> HIDE DEF e
  <2>4. ReceiverToken(c) \in Nat
    BY TokenType
  <2> DEFINE d == ReadHandler(e, data, 1)
  <2>5. /\ d \in Session
        /\ SenderToken(d) = SenderToken(e)
        /\ d.late = e.late
        /\ e.status = "FORWARD"   => /\ d.status = "FORWARD"
                                     /\ ReceiverToken(d) = ReceiverToken(e) + 1
        /\ e.status = "HANDSHAKE" => /\ d.status = "QUERIED"
                                     /\ ReceiverToken(d) = ReceiverToken(e)
        /\ e.status \notin {"FORWARD", "HANDSHAKE"} => d = e
    BY <2>2, ReadHandlerFacts
  <2> HIDE DEF d
  <2>6. /\ ReceiverToken(d) <= ReceiverToken(c)
        /\ \/ d.status = c.status
           \/ /\ c.status = "HANDSHAKE" /\ d.status = "QUERIED"
              /\ ReceiverToken(d) = ReceiverToken(c) - 1
    BY <2>3, <2>4, <2>5
  <2> QED BY <2>1, <2>3, <2>5, <2>6 DEF d
<1>2. CASE ~c.waiting
  <2> DEFINE q == c.queue \o data
            n == c.pushAck + 1
            d == [c EXCEPT !.pushAck = n, !.queue = q]
  <2>1. PushData(c, data) = d
    BY <1>2 DEF PushData
  <2>2. q \in Seq(Nat) /\ n \in Nat
    BY DEF Session
  <2> HIDE DEF q, n
  <2>3. d \in Session
    BY <2>2 DEF Session
  <2>4. /\ SenderToken(d) = SenderToken(c)
        /\ ReceiverToken(d) = ReceiverToken(c)
        /\ d.status = c.status /\ d.late = c.late
    BY DEF Session, SenderToken, ReceiverToken
  <2>5. ReceiverToken(c) \in Nat
    BY TokenType
  <2> QED BY <2>1, <2>3, <2>4, <2>5
<1> QED BY <1>1, <1>2

\* ReadDataCache::async_read puts the receiver's chain in one more place, a
\* wait or a write.
LEMMA CacheReadFacts ==
  ASSUME NEW c \in Session, c.status = "FORWARD" \/ c.queue = <<>>
  PROVE  LET d == CacheRead(c) IN
         /\ d \in Session
         /\ SenderToken(d) = SenderToken(c)
         /\ ReceiverToken(d) <= ReceiverToken(c) + 1
         /\ d.status = c.status
         /\ d.reading = c.reading /\ d.sentData = c.sentData /\ d.waitAck = c.waitAck
<1>1. CASE c.queue = <<>>
  <2> DEFINE d == [c EXCEPT !.waiting = TRUE]
  <2>1. CacheRead(c) = d
    BY <1>1 DEF CacheRead
  <2>2. d \in Session
    BY DEF Session
  <2>3. /\ SenderToken(d) = SenderToken(c)
        /\ ReceiverToken(d) <= ReceiverToken(c) + 1
        /\ d.status = c.status
        /\ d.reading = c.reading /\ d.sentData = c.sentData /\ d.waitAck = c.waitAck
    BY DEF Session, SenderToken, ReceiverToken
  <2> QED BY <2>1, <2>2, <2>3
<1>2. CASE c.queue # <<>>
  <2> DEFINE e == ReadHandler(c, c.queue, c.pushAck)
            d == [e EXCEPT !.queue = <<>>, !.pushAck = 0]
  <2>1. CacheRead(c) = d
    BY <1>2 DEF CacheRead
  <2>2. /\ e \in Session
        /\ SenderToken(e) = SenderToken(c)
        /\ e.status = c.status
        /\ ReceiverToken(e) = ReceiverToken(c) + 1
    <3>1. c.queue \in Seq(Nat) /\ c.pushAck \in Nat
      BY DEF Session
    <3> QED BY <1>2, <3>1, ReadHandlerFacts
  <2>3. e.reading = c.reading /\ e.sentData = c.sentData /\ e.waitAck = c.waitAck
    BY <1>2 DEF ReadHandler, StartWrite, Session
  <2> HIDE DEF e
  <2>4. d \in Session
    <3>1. <<>> \in Seq(Nat) /\ 0 \in Nat
      OBVIOUS
    <3> DEFINE z == 0
              q == <<>>
    <3>2. q \in Seq(Nat) /\ z \in Nat
      BY <3>1
    <3>3. d = [e EXCEPT !.queue = q, !.pushAck = z]
      OBVIOUS
    <3> HIDE DEF z, q, d
    <3> QED BY <2>2, <3>2, <3>3 DEF Session
  <2>5. /\ SenderToken(d) = SenderToken(e)
        /\ ReceiverToken(d) = ReceiverToken(e)
        /\ d.status = e.status
        /\ d.reading = e.reading /\ d.sentData = e.sentData /\ d.waitAck = e.waitAck
    BY <2>2 DEF Session, SenderToken, ReceiverToken
  <2>6. ReceiverToken(c) \in Nat
    BY TokenType
  <2> QED BY <2>1, <2>2, <2>3, <2>4, <2>5, <2>6
<1> QED BY <1>1, <1>2

\* recv_ack_cmd moves the sender's chain from its wait to a read, if at all.
LEMMA RecvAckFacts ==
  ASSUME NEW c \in Session, NEW n \in Nat
  PROVE  LET d == RecvAck(c, n) IN
         /\ d \in Session
         /\ SenderToken(d) = SenderToken(c)
         /\ ReceiverToken(d) = ReceiverToken(c)
         /\ d.status = c.status /\ d.late = c.late
<1> DEFINE k == c.credit + n
           e == [c EXCEPT !.credit = k]
<1>0. k \in Nat
  BY DEF Session
<1>3. RecvAck(c, n) = IF e.waitAck THEN GatedRead(e) ELSE e
  BY DEF RecvAck
<1> HIDE DEF k
<1>1. e \in Session
  BY <1>0 DEF Session
<1>2. /\ SenderToken(e) = SenderToken(c)
      /\ ReceiverToken(e) = ReceiverToken(c)
      /\ e.status = c.status /\ e.late = c.late
  BY DEF Session, SenderToken, ReceiverToken
<1> HIDE DEF e
<1>4. e.waitAck => SenderToken(e) = e.reading + e.sentData + 1
  BY DEF SenderToken
<1> QED BY <1>1, <1>2, <1>3, <1>4, GatedReadFacts

\* destroy() leaves both chains where they are.
LEMMA DestroyedFacts ==
  ASSUME NEW c \in Session, NEW s \in Side, SenderToken(c) <= 1, ReceiverToken(c) <= 1,
         s = "server" /\ c.status = "QUERIED" => SenderToken(c) = 0 /\ ReceiverToken(c) = 0
  PROVE  Destroyed(c) \in Session /\ Chains(s, Destroyed(c))
<1> DEFINE l == IF c.status = "QUERIED" THEN "dialing" ELSE "no"
           d == [c EXCEPT !.status = "DESTROY", !.listed = FALSE, !.late = l]
<1>0. l \in {"no", "dialing", "relaying"} /\ (l = "dialing" => c.status = "QUERIED")
  OBVIOUS
<1>1. Destroyed(c) = d
  BY DEF Destroyed
<1> HIDE DEF l
<1>2. d \in Session
  BY <1>0 DEF Session, Status
<1>3. /\ SenderToken(d) = SenderToken(c)
      /\ ReceiverToken(d) = ReceiverToken(c)
      /\ d.status = "DESTROY" /\ d.late = l
  BY DEF Session, SenderToken, ReceiverToken
<1> HIDE DEF d
<1>4. Chains(s, d)
  BY <1>0, <1>3 DEF Chains, Dialing
<1> QED BY <1>1, <1>2, <1>4

\* Replacing one session by a well-typed one whose chains are in order keeps
\* the invariant of the sessions.
LEMMA SetSession ==
  ASSUME ChainInv, NEW s \in Side, NEW d \in Session, Chains(s, d),
         ses' = [ses EXCEPT ![s] = d]
  PROVE  ses' \in [Side -> Session] /\ \A t \in Side : Chains(t, ses'[t])
<1>1. ses \in [Side -> Session]
  BY DEF ChainInv, TypeOK
<1>2. ASSUME NEW t \in Side PROVE Chains(t, ses'[t])
  <2>1. CASE t = s
    BY <1>1, <2>1
  <2>2. CASE t # s
    BY <1>1, <2>2 DEF ChainInv
  <2> QED BY <2>1, <2>2
<1> QED BY <1>1, <1>2

\* request_remote starts both chains of the client.
LEMMA RequestRemoteStep ==
  ASSUME ChainInv, RequestRemote
  PROVE  ses' \in [Side -> Session] /\ \A t \in Side : Chains(t, ses'[t])
<1> DEFINE c == ses["client"]
           r == c.reading - 1
           e == [c EXCEPT !.status = "FORWARD", !.reading = r]
           f == CacheRead(e)
           k == f.sentData + 1
           g == [f EXCEPT !.sentData = k]
<1>0. c \in Session /\ Chains("client", c) /\ c.status = "HANDSHAKE" /\ c.reading > 0
  BY DEF ChainInv, TypeOK, RequestRemote, Side
<1>1. ses' = [ses EXCEPT !["client"] = g]
  BY DEF RequestRemote
<1>2. r \in Nat
  BY <1>0 DEF Session
<1>3. /\ SenderToken(e) = SenderToken(c) - 1
      /\ ReceiverToken(e) = ReceiverToken(c)
      /\ e.status = "FORWARD"
  BY <1>0 DEF Session, SenderToken, ReceiverToken
<1>4. e \in Session
  <2> HIDE DEF r, c
  <2> QED BY <1>0, <1>2 DEF Session, Status
<1>5. /\ SenderToken(e) = 0 /\ ReceiverToken(e) = 0
  BY <1>0, <1>3, <1>4, TokenType DEF Chains
<1> HIDE DEF e
<1>6. /\ f \in Session
      /\ SenderToken(f) = 0
      /\ ReceiverToken(f) <= 1
      /\ f.status = "FORWARD"
  BY <1>3, <1>4, <1>5, CacheReadFacts
<1> HIDE DEF f
<1>7. k \in Nat
  BY <1>6 DEF Session
<1>8. /\ SenderToken(g) = SenderToken(f) + 1
      /\ ReceiverToken(g) = ReceiverToken(f)
      /\ g.status = "FORWARD"
  BY <1>6 DEF Session, SenderToken, ReceiverToken
<1>9. g \in Session
  <2> HIDE DEF k
  <2> QED BY <1>6, <1>7 DEF Session
<1>10. Chains("client", g)
  BY <1>6, <1>8 DEF Chains, Dialing
<1> HIDE DEF g
<1> QED BY <1>1, <1>9, <1>10, SetSession DEF Side

\* The completion of connect_out_socket starts both chains of a session that
\* has none.
LEMMA ConnectedFacts ==
  ASSUME NEW c \in Session, SenderToken(c) = 0, ReceiverToken(c) = 0
  PROVE  /\ Connected(c) \in Session
         /\ SenderToken(Connected(c)) = 1
         /\ ReceiverToken(Connected(c)) <= 1
         /\ Connected(c).status = "FORWARD"
<1> DEFINE e == [c EXCEPT !.status = "FORWARD"]
           f == GatedRead(e)
           g == CacheRead(f)
<1>1. Connected(c) = g
  BY DEF Connected
<1>2. e \in Session
  BY DEF Session, Status
<1>3. /\ SenderToken(e) = SenderToken(c)
      /\ ReceiverToken(e) = ReceiverToken(c)
      /\ e.status = "FORWARD"
  BY DEF Session, SenderToken, ReceiverToken
<1> HIDE DEF e
<1>4. e.reading + e.sentData = 0
  BY <1>2, <1>3 DEF Session, SenderToken
<1>5. /\ f \in Session
      /\ SenderToken(f) = 1
      /\ ReceiverToken(f) = 0
      /\ f.status = "FORWARD"
  BY <1>2, <1>3, <1>4, GatedReadFacts
<1> HIDE DEF f
<1>6. /\ g \in Session
      /\ SenderToken(g) = 1
      /\ ReceiverToken(g) <= 1
      /\ g.status = "FORWARD"
  BY <1>5, CacheReadFacts
<1> QED BY <1>1, <1>6

\* A session that is destroyed, whose connect_out_socket has ended.
After(c, l) == [c EXCEPT !.status = "DESTROY", !.late = l]

\* Its chains are where they were.
LEMMA LateFacts ==
  ASSUME NEW c \in Session, NEW l \in {"no", "relaying"},
         SenderToken(c) <= 1, ReceiverToken(c) <= 1
  PROVE  /\ After(c, l) \in Session
         /\ \A s \in Side : Chains(s, After(c, l))
<1> DEFINE d == [c EXCEPT !.status = "DESTROY", !.late = l]
<1>0. d = After(c, l)
  BY DEF After
<1>1. d \in Session
  BY DEF Session, Status
<1>2. /\ SenderToken(d) = SenderToken(c)
      /\ ReceiverToken(d) = ReceiverToken(c)
      /\ d.status = "DESTROY" /\ d.late = l
  BY DEF Session, SenderToken, ReceiverToken
<1> HIDE DEF d
<1>3. \A s \in Side : Chains(s, d)
  BY <1>2 DEF Chains, Dialing
<1> QED BY <1>0, <1>1, <1>3

\* connect_out_socket completes, in time or after destroy().
LEMMA OutConnectedStep ==
  ASSUME ChainInv, OutConnected
  PROVE  ses' \in [Side -> Session] /\ \A t \in Side : Chains(t, ses'[t])
<1> DEFINE c == ses["server"]
           g == Connected(c)
           h == After(g, "relaying")
<1>0. /\ c \in Session /\ Chains("server", c)
      /\ c.status = "QUERIED" \/ Dialing("server", c)
  BY DEF ChainInv, TypeOK, OutConnected, Side, Dialing
<1>1. ses' = [ses EXCEPT !["server"] = g] \/ ses' = [ses EXCEPT !["server"] = h]
  BY DEF OutConnected, After
<1> HIDE DEF c
<1>2. SenderToken(c) = 0 /\ ReceiverToken(c) = 0
  BY <1>0 DEF Chains
<1>3. /\ g \in Session
      /\ SenderToken(g) = 1
      /\ ReceiverToken(g) <= 1
      /\ g.status = "FORWARD"
  BY <1>0, <1>2, ConnectedFacts
<1> HIDE DEF g
<1>4. Chains("server", g)
  BY <1>3 DEF Chains, Dialing
<1>5. h \in Session /\ Chains("server", h)
  BY <1>3, LateFacts DEF Side
<1> HIDE DEF h
<1> QED BY <1>1, <1>3, <1>4, <1>5, SetSession DEF Side

\* What a destroyed session that relays reads ends the sender's chain.
LEMMA LateReadStep ==
  ASSUME ChainInv, LateRead
  PROVE  ses' \in [Side -> Session] /\ \A t \in Side : Chains(t, ses'[t])
<1> DEFINE c == ses["server"]
           r == c.reading - 1
           e == [c EXCEPT !.reading = r]
           h == After(e, "no")
<1>0. c \in Session /\ Chains("server", c) /\ c.status = "DESTROY" /\ c.reading > 0
  BY DEF ChainInv, TypeOK, LateRead, Side
<1>1. ses' = [ses EXCEPT !["server"] = h]
  <2>1. ses' = [ses EXCEPT !["server"] = [c EXCEPT !.reading = r, !.late = "no"]]
    BY DEF LateRead
  <2>2. [c EXCEPT !.reading = r, !.late = "no"] = h
    <3> HIDE DEF r, c
    <3> QED BY <1>0 DEF Session, After
  <2> QED BY <2>1, <2>2
<1>2. r \in Nat
  BY <1>0 DEF Session
<1>3. SenderToken(e) = SenderToken(c) - 1 /\ ReceiverToken(e) = ReceiverToken(c)
  BY <1>0 DEF Session, SenderToken, ReceiverToken
<1>4. e \in Session
  <2> HIDE DEF r, c
  <2> QED BY <1>0, <1>2 DEF Session
<1>5. SenderToken(e) <= 1 /\ ReceiverToken(e) <= 1
  BY <1>0, <1>3, TokenType DEF Chains
<1> HIDE DEF e
<1>6. h \in Session /\ Chains("server", h)
  BY <1>4, <1>5, LateFacts DEF Side
<1> HIDE DEF h
<1> QED BY <1>1, <1>6, SetSession DEF Side

\* A read that returns data moves the sender's chain to a sent handler.
LEMMA LocalReadStep ==
  ASSUME ChainInv, NEW s \in Side, LocalRead(s)
  PROVE  ses' \in [Side -> Session] /\ \A t \in Side : Chains(t, ses'[t])
<1> DEFINE c == ses[s]
           r == c.reading - 1
           k == c.sentData + 1
           g == [c EXCEPT !.reading = r, !.sentData = k]
<1>0. c \in Session /\ Chains(s, c) /\ c.status = "FORWARD" /\ c.reading > 0
  BY DEF ChainInv, TypeOK, LocalRead
<1>1. ses' = [ses EXCEPT ![s] = g]
  BY DEF LocalRead
<1>2. r \in Nat /\ k \in Nat
  BY <1>0 DEF Session
<1>3. /\ SenderToken(g) = SenderToken(c)
      /\ ReceiverToken(g) = ReceiverToken(c)
      /\ g.status = "FORWARD"
  BY <1>0 DEF Session, SenderToken, ReceiverToken
<1>4. g \in Session
  <2> HIDE DEF r, k, c
  <2> QED BY <1>0, <1>2 DEF Session
<1>5. Chains(s, g)
  BY <1>0, <1>3 DEF Chains, Dialing
<1> HIDE DEF g
<1> QED BY <1>1, <1>4, <1>5, SetSession

\* A read that fails ends the sender's chain.
LEMMA LocalReadErrorStep ==
  ASSUME ChainInv, NEW s \in Side, LocalReadError(s)
  PROVE  ses' \in [Side -> Session] /\ \A t \in Side : Chains(t, ses'[t])
<1> DEFINE c == ses[s]
           r == c.reading - 1
           e == [c EXCEPT !.reading = r]
<1>0. c \in Session /\ Chains(s, c) /\ c.reading > 0
  BY DEF ChainInv, TypeOK, LocalReadError
<1>1. ses' = [ses EXCEPT ![s] = Destroyed(e)]
  BY DEF LocalReadError, DestroyAndTell
<1>2. r \in Nat
  BY <1>0 DEF Session
<1>3. SenderToken(e) = SenderToken(c) - 1 /\ ReceiverToken(e) = ReceiverToken(c)
  BY <1>0 DEF Session, SenderToken, ReceiverToken
<1>4. e \in Session
  <2> HIDE DEF r, c
  <2> QED BY <1>0, <1>2 DEF Session
<1>5. SenderToken(e) <= 1 /\ ReceiverToken(e) <= 1
  BY <1>0, <1>3, TokenType DEF Chains
<1>6. e.status # "QUERIED"
  BY DEF LocalReadError
<1> HIDE DEF e
<1> QED BY <1>1, <1>4, <1>5, <1>6, DestroyedFacts, SetSession

\* The sent handler of DATA moves the sender's chain to a read or a wait.
LEMMA DataSentStep ==
  ASSUME ChainInv, NEW s \in Side, DataSent(s)
  PROVE  ses' \in [Side -> Session] /\ \A t \in Side : Chains(t, ses'[t])
<1> DEFINE c == ses[s]
           k == c.sentData - 1
           e == [c EXCEPT !.sentData = k]
           g == IF e.status = "FORWARD" THEN GatedRead(e) ELSE e
<1>0. c \in Session /\ Chains(s, c) /\ c.sentData > 0
  BY DEF ChainInv, TypeOK, DataSent
<1>1. ses' = [ses EXCEPT ![s] = g]
  BY DEF DataSent
<1>2. k \in Nat
  BY <1>0 DEF Session
<1>3. /\ SenderToken(e) = SenderToken(c) - 1
      /\ ReceiverToken(e) = ReceiverToken(c)
      /\ e.status = c.status /\ e.late = c.late
      /\ e.reading + e.sentData + 1 <= SenderToken(c)
      /\ SenderToken(c) # 0
  BY <1>0 DEF Session, SenderToken, ReceiverToken
<1>4. e \in Session
  <2> HIDE DEF k, c
  <2> QED BY <1>0, <1>2 DEF Session
<1> HIDE DEF e
<1>5. CASE e.status = "FORWARD"
  <2>1. /\ g \in Session
        /\ SenderToken(g) <= SenderToken(c)
        /\ ReceiverToken(g) = ReceiverToken(c)
        /\ g.status = "FORWARD"
    BY <1>3, <1>4, <1>5, GatedReadFacts
  <2>2. SenderToken(g) \in Nat /\ SenderToken(c) \in Nat
    BY <1>0, <2>1, TokenType
  <2> HIDE DEF g
  <2>3. SenderToken(g) <= 1 /\ ReceiverToken(g) <= 1
    BY <1>0, <2>1, <2>2 DEF Chains
  <2>4. Chains(s, g)
    BY <2>1, <2>3 DEF Chains, Dialing
  <2> QED BY <1>1, <2>1, <2>4, SetSession
<1>6. CASE e.status # "FORWARD"
  <2>1. g = e
    BY <1>6
  <2>2. SenderToken(c) \in Nat
    BY <1>0, TokenType
  <2>3. Chains(s, e)
    BY <1>0, <1>3, <2>2 DEF Chains, Dialing
  <2> QED BY <1>1, <1>4, <2>1, <2>3, SetSession
<1> QED BY <1>5, <1>6

\* Taking a completed write away takes the receiver's chain out of one place.
LEMMA PopWrite ==
  ASSUME NEW c \in Session, c.writes # <<>>
  PROVE  LET e == [c EXCEPT !.writes = Tail(c.writes)] IN
         /\ e \in Session
         /\ SenderToken(e) = SenderToken(c)
         /\ ReceiverToken(e) = ReceiverToken(c) - 1
         /\ e.status = c.status /\ e.late = c.late
         /\ Head(c.writes) \in Write
<1> DEFINE q == Tail(c.writes)
           e == [c EXCEPT !.writes = q]
<1>1. q \in Seq(Write) /\ Len(q) = Len(c.writes) - 1 /\ Head(c.writes) \in Write
  BY DEF Session
<1> HIDE DEF q
<1>2. e \in Session
  BY <1>1 DEF Session
<1>3. SenderToken(e) = SenderToken(c) /\ e.status = c.status /\ e.late = c.late
  BY <1>1 DEF Session, SenderToken
<1>4. e.writes = q /\ e.sentAck = c.sentAck /\ e.waiting = c.waiting
  BY DEF Session
<1>5. c.sentAck \in Nat /\ Len(c.writes) \in Nat
  BY DEF Session
<1>6. ReceiverToken(e) = ReceiverToken(c) - 1
  <2> DEFINE b == IF c.waiting THEN 1 ELSE 0
  <2>1. b \in Nat
    OBVIOUS
  <2>2. /\ ReceiverToken(c) = Len(c.writes) + c.sentAck + b
        /\ ReceiverToken(e) = Len(q) + c.sentAck + b
    BY <1>4 DEF ReceiverToken
  <2> HIDE DEF b, e
  <2> QED BY <1>1, <1>5, <2>1, <2>2
<1> QED BY <1>1, <1>2, <1>3, <1>6 DEF q

\* A completed write moves the receiver's chain to a sent handler, or ends it.
LEMMA WriteDoneStep ==
  ASSUME ChainInv, NEW s \in Side, WriteDone(s)
  PROVE  ses' \in [Side -> Session] /\ \A t \in Side : Chains(t, ses'[t])
<1> DEFINE c == ses[s]
           e == [c EXCEPT !.writes = Tail(c.writes)]
           k == e.sentAck + 1
           g == [e EXCEPT !.asyncWriting = FALSE, !.sentAck = k]
           h == [e EXCEPT !.late = "no"]
           l == [e EXCEPT !.waiting = TRUE]
<1>0. c \in Session /\ Chains(s, c) /\ c.writes # <<>>
  BY DEF ChainInv, TypeOK, WriteDone
<1>1. \/ ses' = [ses EXCEPT ![s] = h]
      \/ e.late = "relaying" /\ ses' = [ses EXCEPT ![s] = l]
      \/ e.status = "FORWARD" /\ ses' = [ses EXCEPT ![s] = Destroyed(e)]
      \/ e.status = "FORWARD" /\ ses' = [ses EXCEPT ![s] = g]
  BY DEF WriteDone
<1>2. /\ e \in Session
      /\ SenderToken(e) = SenderToken(c)
      /\ ReceiverToken(e) = ReceiverToken(c) - 1
      /\ e.status = c.status /\ e.late = c.late
  BY <1>0, PopWrite
<1>3. ReceiverToken(c) \in Nat /\ SenderToken(c) \in Nat /\ ReceiverToken(e) \in Nat
  BY <1>0, <1>2, TokenType
<1> HIDE DEF e, c
<1>4. Chains(s, e)
  BY <1>0, <1>2, <1>3 DEF Chains, Dialing
<1>5. CASE ses' = [ses EXCEPT ![s] = h]
  <2>1. h \in Session
    BY <1>2 DEF Session
  <2>2. /\ SenderToken(h) = SenderToken(e) /\ ReceiverToken(h) = ReceiverToken(e)
        /\ h.status = e.status /\ h.late = "no"
    BY <1>2 DEF Session, SenderToken, ReceiverToken
  <2> HIDE DEF h
  <2>3. Chains(s, h)
    BY <1>4, <2>2 DEF Chains, Dialing
  <2> QED BY <1>5, <2>1, <2>3, SetSession
<1>8. CASE e.late = "relaying" /\ ses' = [ses EXCEPT ![s] = l]
  <2>1. l \in Session
    BY <1>2 DEF Session
  <2>2. /\ SenderToken(l) = SenderToken(e) /\ ReceiverToken(l) <= ReceiverToken(e) + 1
        /\ l.status = e.status /\ l.late = "relaying"
    BY <1>2, <1>8 DEF Session, SenderToken, ReceiverToken
  <2>3. ReceiverToken(e) = 0 /\ ReceiverToken(c) = 1
    BY <1>0, <1>2, <1>3 DEF Chains
  <2>4. ReceiverToken(l) \in Nat /\ SenderToken(l) \in Nat
    BY <2>1, TokenType
  <2> HIDE DEF l
  <2>5. Chains(s, l)
    BY <1>0, <1>2, <1>4, <2>2, <2>3, <2>4 DEF Chains, Dialing
  <2> QED BY <1>8, <2>1, <2>5, SetSession
<1>6. CASE e.status = "FORWARD" /\ ses' = [ses EXCEPT ![s] = Destroyed(e)]
  <2>1. SenderToken(e) <= 1 /\ ReceiverToken(e) <= 1
    BY <1>4 DEF Chains
  <2> QED BY <1>2, <1>6, <2>1, DestroyedFacts, SetSession
<1>7. CASE e.status = "FORWARD" /\ ses' = [ses EXCEPT ![s] = g]
  <2>1. k \in Nat
    BY <1>2 DEF Session
  <2>2. /\ SenderToken(g) = SenderToken(e)
        /\ ReceiverToken(g) = ReceiverToken(e) + 1
        /\ g.status = "FORWARD"
    BY <1>2, <1>7 DEF Session, SenderToken, ReceiverToken
  <2>3. g \in Session
    <3> HIDE DEF k
    <3> QED BY <1>2, <2>1 DEF Session
  <2> HIDE DEF g
  <2>4. SenderToken(g) <= 1 /\ ReceiverToken(g) <= 1
    BY <1>0, <1>2, <1>3, <2>2 DEF Chains
  <2>5. Chains(s, g)
    BY <2>2, <2>4 DEF Chains, Dialing
  <2> QED BY <1>7, <2>3, <2>5, SetSession
<1> QED BY <1>1, <1>5, <1>6, <1>7, <1>8

\* A failed write ends the receiver's chain.
LEMMA WriteFailedStep ==
  ASSUME ChainInv, NEW s \in Side, WriteFailed(s)
  PROVE  ses' \in [Side -> Session] /\ \A t \in Side : Chains(t, ses'[t])
<1> DEFINE c == ses[s]
           e == [c EXCEPT !.writes = Tail(c.writes)]
           h == [e EXCEPT !.late = "no"]
<1>0. c \in Session /\ Chains(s, c) /\ c.writes # <<>>
  BY DEF ChainInv, TypeOK, WriteFailed
<1>1. \/ ses' = [ses EXCEPT ![s] = h]
      \/ e.status = "FORWARD" /\ ses' = [ses EXCEPT ![s] = Destroyed(e)]
  BY DEF WriteFailed, DestroyAndTell
<1>2. /\ e \in Session
      /\ SenderToken(e) = SenderToken(c)
      /\ ReceiverToken(e) = ReceiverToken(c) - 1
      /\ e.status = c.status /\ e.late = c.late
  BY <1>0, PopWrite
<1>3. ReceiverToken(c) \in Nat /\ SenderToken(c) \in Nat /\ ReceiverToken(e) \in Nat
  BY <1>0, <1>2, TokenType
<1> HIDE DEF e, c
<1>4. Chains(s, e)
  BY <1>0, <1>2, <1>3 DEF Chains, Dialing
<1>5. CASE ses' = [ses EXCEPT ![s] = h]
  <2>1. h \in Session
    BY <1>2 DEF Session
  <2>2. /\ SenderToken(h) = SenderToken(e) /\ ReceiverToken(h) = ReceiverToken(e)
        /\ h.status = e.status /\ h.late = "no"
    BY <1>2 DEF Session, SenderToken, ReceiverToken
  <2> HIDE DEF h
  <2>3. Chains(s, h)
    BY <1>4, <2>2 DEF Chains, Dialing
  <2> QED BY <1>5, <2>1, <2>3, SetSession
<1>6. CASE e.status = "FORWARD" /\ ses' = [ses EXCEPT ![s] = Destroyed(e)]
  <2>1. SenderToken(e) <= 1 /\ ReceiverToken(e) <= 1
    BY <1>4 DEF Chains
  <2> QED BY <1>2, <1>6, <2>1, DestroyedFacts, SetSession
<1> QED BY <1>1, <1>5, <1>6

\* The sent handler of ACK moves the receiver's chain to a wait or a write.
LEMMA AckSentStep ==
  ASSUME ChainInv, NEW s \in Side, AckSent(s)
  PROVE  ses' \in [Side -> Session] /\ \A t \in Side : Chains(t, ses'[t])
<1> DEFINE c == ses[s]
           k == c.sentAck - 1
           e == [c EXCEPT !.sentAck = k]
           g == IF e.status = "FORWARD" THEN CacheRead(e) ELSE e
<1>0. c \in Session /\ Chains(s, c) /\ c.sentAck > 0
  BY DEF ChainInv, TypeOK, AckSent
<1>1. ses' = [ses EXCEPT ![s] = g]
  BY DEF AckSent
<1>2. k \in Nat
  BY <1>0 DEF Session
<1>3. /\ SenderToken(e) = SenderToken(c)
      /\ ReceiverToken(e) = ReceiverToken(c) - 1
      /\ e.status = c.status /\ e.late = c.late
  BY <1>0 DEF Session, SenderToken, ReceiverToken
<1>4. e \in Session
  <2> HIDE DEF k, c
  <2> QED BY <1>0, <1>2 DEF Session
<1>5. SenderToken(c) \in Nat /\ ReceiverToken(c) \in Nat /\ ReceiverToken(e) \in Nat
  BY <1>0, <1>4, TokenType
<1> HIDE DEF e, c
<1>6. CASE e.status = "FORWARD"
  <2>1. /\ g \in Session
        /\ SenderToken(g) = SenderToken(e)
        /\ ReceiverToken(g) <= ReceiverToken(e) + 1
        /\ g.status = "FORWARD"
    BY <1>4, <1>6, CacheReadFacts
  <2>2. ReceiverToken(g) \in Nat
    BY <2>1, TokenType
  <2> HIDE DEF g
  <2>3. Chains(s, g)
    BY <1>0, <1>3, <1>5, <2>1, <2>2 DEF Chains, Dialing
  <2> QED BY <1>1, <2>1, <2>3, SetSession
<1>7. CASE e.status # "FORWARD"
  <2>1. g = e
    BY <1>7
  <2>2. Chains(s, e)
    BY <1>0, <1>3, <1>5 DEF Chains, Dialing
  <2> QED BY <1>1, <1>4, <2>1, <2>2, SetSession
<1> QED BY <1>6, <1>7

\* CONNECT makes a new server session, which waits for the request.
LEMMA RecvConnectStep ==
  ASSUME ChainInv, RecvConnect
  PROVE  ses' \in [Side -> Session] /\ \A t \in Side : Chains(t, ses'[t])
<1> DEFINE c == NewSession("HANDSHAKE")
           g == CacheRead(c)
<1>1. ses' = [ses EXCEPT !["server"] = g]
  BY DEF RecvConnect
<1>2. c \in Session
  BY WindowAssumption DEF NewSession, Session, Status
<1>3. /\ SenderToken(c) = 0 /\ ReceiverToken(c) = 0
      /\ c.queue = <<>> /\ c.status = "HANDSHAKE"
  BY DEF NewSession, SenderToken, ReceiverToken
<1> HIDE DEF c
<1>4. /\ g \in Session
      /\ SenderToken(g) = 0
      /\ ReceiverToken(g) <= 1
      /\ g.status = "HANDSHAKE"
  BY <1>2, <1>3, CacheReadFacts
<1> HIDE DEF g
<1>5. Chains("server", g)
  BY <1>4 DEF Chains, Dialing
<1> QED BY <1>1, <1>4, <1>5, SetSession DEF Side

\* The frame at the head of a channel is a frame.
LEMMA HeadFrame ==
  ASSUME TypeOK, NEW s \in Side, chan[Peer(s)] # <<>>
  PROVE  Head(chan[Peer(s)]).data \in Seq(Nat) /\ Head(chan[Peer(s)]).ack \in Nat
<1>1. chan[Peer(s)] \in Seq(Frame)
  BY DEF TypeOK, Peer, Side
<1>2. Head(chan[Peer(s)]) \in Frame
  BY <1>1
<1> QED BY <1>2 DEF Frame

\* A DATA frame keeps the chains of the session it is for.
LEMMA RecvDataStep ==
  ASSUME ChainInv, NEW s \in Side, RecvData(s)
  PROVE  ses' \in [Side -> Session] /\ \A t \in Side : Chains(t, ses'[t])
<1> DEFINE c == ses[s]
           x == Head(chan[Peer(s)]).data
           d == PushData(c, x)
           g == IF c.listed THEN d ELSE c
<1>0. c \in Session /\ Chains(s, c)
  BY DEF ChainInv, TypeOK
<1>1. ses' = [ses EXCEPT ![s] = g]
  BY DEF RecvData
<1>2. x \in Seq(Nat)
  BY HeadFrame DEF RecvData, Parse, ChainInv
<1> HIDE DEF c, x
<1>3. /\ d \in Session
      /\ SenderToken(d) = SenderToken(c)
      /\ ReceiverToken(d) <= ReceiverToken(c)
      /\ d.late = c.late
      /\ \/ d.status = c.status
         \/ /\ c.status = "HANDSHAKE" /\ d.status = "QUERIED"
            /\ ReceiverToken(d) = ReceiverToken(c) - 1
  BY <1>0, <1>2, PushDataFacts
<1>4. ReceiverToken(d) \in Nat /\ ReceiverToken(c) \in Nat
  BY <1>0, <1>3, TokenType
<1> HIDE DEF d
<1>5. Chains(s, d)
  BY <1>0, <1>3, <1>4 DEF Chains, Dialing
<1>6. g \in Session /\ Chains(s, g)
  BY <1>0, <1>3, <1>5
<1> HIDE DEF g
<1> QED BY <1>1, <1>6, SetSession

\* An ACK frame keeps the chains of the session it is for.
LEMMA RecvAckCmdStep ==
  ASSUME ChainInv, NEW s \in Side, RecvAckCmd(s)
  PROVE  ses' \in [Side -> Session] /\ \A t \in Side : Chains(t, ses'[t])
<1> DEFINE c == ses[s]
           n == Head(chan[Peer(s)]).ack
           d == RecvAck(c, n)
           g == IF c.listed THEN d ELSE c
<1>0. c \in Session /\ Chains(s, c)
  BY DEF ChainInv, TypeOK
<1>1. ses' = [ses EXCEPT ![s] = g]
  BY DEF RecvAckCmd
<1>2. n \in Nat
  BY HeadFrame DEF RecvAckCmd, Parse, ChainInv
<1> HIDE DEF c, n
<1>3. /\ d \in Session
      /\ SenderToken(d) = SenderToken(c)
      /\ ReceiverToken(d) = ReceiverToken(c)
      /\ d.status = c.status /\ d.late = c.late
  BY <1>0, <1>2, RecvAckFacts
<1> HIDE DEF d
<1>4. Chains(s, d)
  BY <1>0, <1>3 DEF Chains, Dialing
<1>5. g \in Session /\ Chains(s, g)
  BY <1>0, <1>3, <1>4
<1> HIDE DEF g
<1> QED BY <1>1, <1>5, SetSession

\* A CLOSE frame keeps the chains of the session it is for.
LEMMA RecvCloseStep ==
  ASSUME ChainInv, NEW s \in Side, RecvClose(s)
  PROVE  ses' \in [Side -> Session] /\ \A t \in Side : Chains(t, ses'[t])
<1> DEFINE c == ses[s]
           e == [c EXCEPT !.closeFuture = TRUE]
<1>0. ses \in [Side -> Session] /\ c \in Session /\ Chains(s, c)
  BY DEF ChainInv, TypeOK
<1>1. \/ ses' = ses
      \/ ses' = [ses EXCEPT ![s] = Destroyed(c)]
      \/ ses' = [ses EXCEPT ![s] = e]
  BY DEF RecvClose
<1>2. CASE ses' = ses
  BY <1>0, <1>2 DEF ChainInv
<1>3. CASE ses' = [ses EXCEPT ![s] = Destroyed(c)]
  <2>1. /\ SenderToken(c) <= 1 /\ ReceiverToken(c) <= 1
        /\ s = "server" /\ c.status = "QUERIED" => SenderToken(c) = 0 /\ ReceiverToken(c) = 0
    BY <1>0 DEF Chains
  <2> HIDE DEF c
  <2> QED BY <1>0, <1>3, <2>1, DestroyedFacts, SetSession
<1>4. CASE ses' = [ses EXCEPT ![s] = e]
  <2>1. e \in Session
    BY <1>0 DEF Session
  <2>2. /\ SenderToken(e) = SenderToken(c)
        /\ ReceiverToken(e) = ReceiverToken(c)
        /\ e.status = c.status /\ e.late = c.late
    BY <1>0 DEF Session, SenderToken, ReceiverToken
  <2>3. Chains(s, e)
    BY <1>0, <2>2 DEF Chains, Dialing
  <2> HIDE DEF e
  <2> QED BY <1>4, <2>1, <2>3, SetSession
<1> QED BY <1>1, <1>2, <1>3, <1>4

\* The loss of the pipeline only drops sent handlers.
LEMMA PipeDestroyStep ==
  ASSUME ChainInv, NEW s \in Side, PipeDestroy(s)
  PROVE  ses' \in [Side -> Session] /\ \A t \in Side : Chains(t, ses'[t])
<1> DEFINE c == ses[s]
           e == IF c.listed THEN Destroyed(c) ELSE c
           z == 0
           g == [e EXCEPT !.sentData = z, !.sentAck = z]
<1>0. c \in Session /\ Chains(s, c)
  BY DEF ChainInv, TypeOK
<1>1. ses' = [ses EXCEPT ![s] = g]
  BY DEF PipeDestroy
<1>2. e \in Session /\ Chains(s, e)
  <2>1. /\ SenderToken(c) <= 1 /\ ReceiverToken(c) <= 1
        /\ s = "server" /\ c.status = "QUERIED" => SenderToken(c) = 0 /\ ReceiverToken(c) = 0
    BY <1>0 DEF Chains
  <2> HIDE DEF c
  <2> QED BY <1>0, <2>1, DestroyedFacts
<1> HIDE DEF e
<1>3. /\ SenderToken(g) <= SenderToken(e)
      /\ ReceiverToken(g) <= ReceiverToken(e)
      /\ g.status = e.status /\ g.late = e.late
  BY <1>2 DEF Session, SenderToken, ReceiverToken
<1>4. z \in Nat
  OBVIOUS
<1>5. g \in Session
  <2> HIDE DEF z
  <2> QED BY <1>2, <1>4 DEF Session
<1> HIDE DEF g
<1>6. /\ SenderToken(g) \in Nat /\ ReceiverToken(g) \in Nat
      /\ SenderToken(e) \in Nat /\ ReceiverToken(e) \in Nat
  BY <1>2, <1>5, TokenType
<1>7. Chains(s, g)
  BY <1>2, <1>3, <1>6 DEF Chains, Dialing
<1> QED BY <1>1, <1>5, <1>7, SetSession

\* The frames the two ends send are frames.
LEMMA FrameTypes ==
  /\ Connect \in Frame /\ Close \in Frame
  /\ \A x \in Seq(Nat) : Data(x) \in Frame
  /\ \A n \in Nat : Ack(n) \in Frame
BY DEF Connect, Close, Data, Ack, FrameOf, Frame

\* Pushing a frame keeps the type of the channels.
LEMMA PushType ==
  ASSUME TypeOK, NEW s \in Side, NEW f \in Frame, Push(s, f)
  PROVE  chan' \in [Side -> Seq(Frame)]
<1>1. chan \in [Side -> Seq(Frame)] /\ chan[s] \in Seq(Frame)
  BY DEF TypeOK
<1>2. Append(chan[s], f) \in Seq(Frame)
  BY <1>1
<1> QED BY <1>1, <1>2 DEF Push

\* Parsing a frame keeps the type of the channels.
LEMMA ParseType ==
  ASSUME TypeOK, NEW s \in Side, NEW cmd, Parse(s, cmd)
  PROVE  /\ chan' \in [Side -> Seq(Frame)]
         /\ pipe' = pipe /\ made' = made /\ got' = got
<1>1. chan \in [Side -> Seq(Frame)] /\ Peer(s) \in Side /\ chan[Peer(s)] \in Seq(Frame)
  BY DEF TypeOK, Peer, Side
<1>2. Tail(chan[Peer(s)]) \in Seq(Frame)
  BY <1>1 DEF Parse
<1>3. chan' = [chan EXCEPT ![Peer(s)] = Tail(chan[Peer(s)])]
  BY DEF Parse
<1> QED BY <1>1, <1>2, <1>3 DEF Parse

\* The types of everything but the sessions.
RestOK ==
  /\ chan \in [Side -> Seq(Frame)]
  /\ pipe \in [Side -> BOOLEAN]
  /\ made \in [Side -> Nat]
  /\ got \in [Side -> Seq(Nat)]
  /\ ending \in [Side -> {"open", "local", "peer", "pipe"}]

\* Every step keeps the types of everything but the sessions.
LEMMA RestStep ==
  ASSUME TypeOK, Next
  PROVE  RestOK'
<1> USE DEF RestOK
<1>0. RestOK
  BY DEF TypeOK
<1>1. CASE RequestRemote
  <2>1. Data(<<Req>>) \in Frame
    <3>1. <<Req>> \in Seq(Nat)
      BY DEF Req
    <3> QED BY <3>1, FrameTypes
  <2> QED BY <1>0, <1>1, <2>1, PushType DEF RequestRemote, Side
<1>2. CASE OutConnected
  BY <1>0, <1>2 DEF OutConnected
<1>3. CASE OutConnectFailed
  BY <1>0, <1>3, PushType, FrameTypes DEF OutConnectFailed, DestroyAndTell, Side
<1>4. CASE RecvConnect
  BY <1>0, <1>4, ParseType DEF RecvConnect, Side
<1>5. ASSUME NEW s \in Side, LocalRead(s) PROVE RestOK'
  <2>1. made[s] + 1 \in Nat
    BY <1>0
  <2>2. Data(<<made[s] + 1>>) \in Frame
    <3>1. <<made[s] + 1>> \in Seq(Nat)
      BY <2>1
    <3> QED BY <3>1, FrameTypes
  <2> QED BY <1>0, <1>5, <2>1, <2>2, PushType DEF LocalRead
<1>6. ASSUME NEW s \in Side, LocalReadError(s) PROVE RestOK'
  BY <1>0, <1>6, PushType, FrameTypes DEF LocalReadError, DestroyAndTell
<1>7. ASSUME NEW s \in Side, DataSent(s) PROVE RestOK'
  BY <1>0, <1>7 DEF DataSent
<1>8. ASSUME NEW s \in Side, WriteDone(s) PROVE RestOK'
  <2> DEFINE w == Head(ses[s].writes)
  <2>1. w \in Write
    BY <1>8 DEF WriteDone, TypeOK, Session
  <2>2. w.data \in Seq(Nat) /\ w.ack \in Nat
    BY <2>1 DEF Write
  <2>3. got[s] \o w.data \in Seq(Nat)
    BY <1>0, <2>2
  <2>4. got' = [got EXCEPT ![s] = got[s] \o w.data] /\ pipe' = pipe /\ made' = made
    BY <1>8 DEF WriteDone
  <2>5. \/ chan' = chan
        \/ Push(s, Close)
        \/ Push(s, Ack(w.ack))
    BY <1>8 DEF WriteDone
  <2>6. ending' = ending \/ ending' = [ending EXCEPT ![s] = "peer"]
    BY <1>8 DEF WriteDone
  <2> HIDE DEF w
  <2>7. chan' \in [Side -> Seq(Frame)]
    BY <1>0, <2>2, <2>5, PushType, FrameTypes
  <2> QED BY <1>0, <2>3, <2>4, <2>6, <2>7
<1>9. ASSUME NEW s \in Side, WriteFailed(s) PROVE RestOK'
  BY <1>0, <1>9, PushType, FrameTypes DEF WriteFailed, DestroyAndTell
<1>10. ASSUME NEW s \in Side, AckSent(s) PROVE RestOK'
  BY <1>0, <1>10 DEF AckSent
<1>11. ASSUME NEW s \in Side, RecvData(s) PROVE RestOK'
  BY <1>0, <1>11, ParseType DEF RecvData
<1>12. ASSUME NEW s \in Side, RecvAckCmd(s) PROVE RestOK'
  BY <1>0, <1>12, ParseType DEF RecvAckCmd
<1>13. ASSUME NEW s \in Side, RecvClose(s) PROVE RestOK'
  <2>1. ending' = ending \/ ending' = [ending EXCEPT ![s] = "peer"]
    BY <1>13 DEF RecvClose
  <2> QED BY <1>0, <1>13, <2>1, ParseType DEF RecvClose
<1>14. ASSUME NEW s \in Side, PipeDestroy(s) PROVE RestOK'
  <2>1. PICK n \in 0..Len(chan[s]) :
          chan' = [chan EXCEPT ![s] = SubSeq(chan[s], 1, n), ![Peer(s)] = <<>>]
    BY <1>14 DEF PipeDestroy, Peer
  <2>2. SubSeq(chan[s], 1, n) \in Seq(Frame) /\ <<>> \in Seq(Frame)
    BY <1>0
  <2>3. chan' \in [Side -> Seq(Frame)]
    BY <1>0, <2>1, <2>2 DEF Peer, Side
  <2>4. ending' \in [Side -> {"open", "local", "peer", "pipe"}]
    BY <1>0, <1>14 DEF PipeDestroy
  <2> QED BY <1>0, <1>14, <2>3, <2>4 DEF PipeDestroy
<1>15. CASE OutConnectTimeout
  BY <1>0, <1>15, PushType, FrameTypes DEF OutConnectTimeout, DestroyAndTell, Side
<1>16. CASE LateRead
  BY <1>0, <1>16 DEF LateRead
<1> QED BY <1>1, <1>2, <1>3, <1>4, <1>5, <1>6, <1>7, <1>8, <1>9, <1>10,
           <1>11, <1>12, <1>13, <1>14, <1>15, <1>16 DEF Next

\* A failed connect to the target destroys a session with no chain begun, or
\* leaves one that is destroyed as it is.
LEMMA OutConnectFailedStep ==
  ASSUME ChainInv, OutConnectFailed
  PROVE  ses' \in [Side -> Session] /\ \A t \in Side : Chains(t, ses'[t])
<1> DEFINE c == ses["server"]
           e == [c EXCEPT !.status = "HANDSHAKE"]
           d == [c EXCEPT !.late = "no"]
           h == After(c, "no")
<1>1. c \in Session /\ Chains("server", c)
  BY DEF ChainInv, TypeOK, Side
<1>2. \/ ses' = [ses EXCEPT !["server"] = Destroyed(e)]
      \/ c.status = "DESTROY" /\ ses' = [ses EXCEPT !["server"] = d]
  BY DEF OutConnectFailed, DestroyAndTell
<1>3. SenderToken(c) <= 1 /\ ReceiverToken(c) <= 1
  BY <1>1 DEF Chains
<1> HIDE DEF c
<1>4. /\ e \in Session /\ e.status # "QUERIED"
      /\ SenderToken(e) = SenderToken(c) /\ ReceiverToken(e) = ReceiverToken(c)
  BY <1>1 DEF Session, Status, SenderToken, ReceiverToken
<1>5. c.status = "DESTROY" => d = h
  BY <1>1 DEF Session, After
<1> HIDE DEF d, e
<1>6. Destroyed(e) \in Session /\ Chains("server", Destroyed(e))
  BY <1>3, <1>4, DestroyedFacts DEF Side
<1>7. h \in Session /\ Chains("server", h)
  BY <1>1, <1>3, LateFacts DEF Side
<1> HIDE DEF h
<1> QED BY <1>2, <1>5, <1>6, <1>7, SetSession DEF Side

\* connect_time_out destroys a session with no chain begun.
LEMMA OutConnectTimeoutStep ==
  ASSUME ChainInv, OutConnectTimeout
  PROVE  ses' \in [Side -> Session] /\ \A t \in Side : Chains(t, ses'[t])
<1> DEFINE c == ses["server"]
<1>1. c \in Session /\ Chains("server", c) /\ c.status = "QUERIED"
  BY DEF ChainInv, TypeOK, Side, OutConnectTimeout
<1>2. ses' = [ses EXCEPT !["server"] = Destroyed(c)]
  BY DEF OutConnectTimeout, DestroyAndTell
<1>3. /\ SenderToken(c) <= 1 /\ ReceiverToken(c) <= 1
      /\ SenderToken(c) = 0 /\ ReceiverToken(c) = 0
  BY <1>1 DEF Chains
<1> HIDE DEF c
<1> QED BY <1>1, <1>2, <1>3, DestroyedFacts, SetSession DEF Side

\* The invariant holds when the client session has just been accepted.
LEMMA ChainInit == Init => ChainInv
<1> SUFFICES ASSUME Init PROVE ChainInv
  OBVIOUS
<1> DEFINE n == NewSession("NONE")
           h == NewSession("HANDSHAKE")
           c == [h EXCEPT !.reading = 1]
<1>1. n \in Session /\ h \in Session
  BY WindowAssumption DEF NewSession, Session, Status
<1>2. c \in Session
  BY <1>1 DEF Session
<1>3. SenderToken(n) = 0 /\ ReceiverToken(n) = 0
  BY DEF NewSession, SenderToken, ReceiverToken
<1>4. SenderToken(c) = 1 /\ ReceiverToken(c) = 0
  BY DEF NewSession, SenderToken, ReceiverToken
<1>5. ses["client"] = c /\ ses["server"] = n /\ ses \in [Side -> Session]
  BY <1>1, <1>2 DEF Init, Side
<1>6. Chains("client", c) /\ Chains("server", n)
  BY <1>3, <1>4 DEF Chains, Dialing, NewSession
<1>7. RestOK
  BY FrameTypes DEF Init, RestOK
<1> HIDE DEF c, n
<1> QED BY <1>5, <1>6, <1>7 DEF ChainInv, TypeOK, RestOK, Side

\* Every callback of either end keeps the invariant.
LEMMA ChainStep == ChainInv /\ [Next]_vars => ChainInv'
<1> SUFFICES ASSUME ChainInv, [Next]_vars PROVE ChainInv'
  OBVIOUS
<1>1. CASE UNCHANGED vars
  BY <1>1 DEF ChainInv, TypeOK, vars
<1>2. CASE Next
  <2>1. RestOK'
    BY <1>2, RestStep DEF ChainInv
  <2>2. ses' \in [Side -> Session] /\ \A t \in Side : Chains(t, ses'[t])
    BY <1>2, RequestRemoteStep, OutConnectedStep, OutConnectFailedStep,
       OutConnectTimeoutStep, LateReadStep, RecvConnectStep, LocalReadStep, LocalReadErrorStep, DataSentStep,
       WriteDoneStep, WriteFailedStep, AckSentStep, RecvDataStep,
       RecvAckCmdStep, RecvCloseStep, PipeDestroyStep DEF Next
  <2>3. TypeOK'
    BY <2>1, <2>2 DEF TypeOK, RestOK
  <2> QED BY <2>2, <2>3 DEF ChainInv
<1> QED BY <1>1, <1>2

\* The sessions, the pipelines and the channels keep their types for every
\* window: in particular pipeline_ack_counter, which pre_call_ack_func
\* decrements and which is unsigned in the code, never wraps below zero.
THEOREM TypeCorrect == Spec => []TypeOK
<1>1. ChainInv => TypeOK
  BY DEF ChainInv
<1> QED BY <1>1, ChainInit, ChainStep, PTL DEF Spec

\* One of three counts that add up to at most one is itself at most one.
LEMMA OneOfThree ==
  ASSUME NEW x \in Nat, NEW y \in Nat, NEW z \in Nat, x + y + z <= 1
  PROVE  x <= 1
OBVIOUS

\* begin_read never throws and no socket has two async_writes at once, for
\* every pipeline_ack_window and every order of sent handlers, ACK frames,
\* write completions and losses of the pipeline.
THEOREM NeverOverlaps == Spec => []NoOverlap
<1>1. ChainInv => NoOverlap
  <2> SUFFICES ASSUME ChainInv, NEW s \in Side
               PROVE  ses[s].reading <= 1 /\ Len(ses[s].writes) <= 1
    BY DEF NoOverlap
  <2>1. ses[s] \in Session /\ SenderToken(ses[s]) <= 1 /\ ReceiverToken(ses[s]) <= 1
    BY DEF ChainInv, TypeOK, Chains
  <2>2. /\ ses[s].reading \in Nat /\ ses[s].sentData \in Nat /\ ses[s].sentAck \in Nat
        /\ Len(ses[s].writes) \in Nat
    BY <2>1 DEF Session
  <2> DEFINE a == IF ses[s].waitAck THEN 1 ELSE 0
            b == IF ses[s].waiting THEN 1 ELSE 0
  <2>3. a \in Nat /\ b \in Nat
    OBVIOUS
  <2>4. /\ SenderToken(ses[s]) = ses[s].reading + ses[s].sentData + a
        /\ ReceiverToken(ses[s]) = Len(ses[s].writes) + ses[s].sentAck + b
    BY DEF SenderToken, ReceiverToken
  <2> HIDE DEF a, b
  <2>5. /\ ses[s].reading + ses[s].sentData + a <= 1
        /\ Len(ses[s].writes) + ses[s].sentAck + b <= 1
    BY <2>1, <2>4
  <2>6. ses[s].reading <= 1
    BY <2>2, <2>3, <2>5, OneOfThree
  <2>7. Len(ses[s].writes) <= 1
    BY <2>2, <2>3, <2>5, OneOfThree
  <2> QED BY <2>6, <2>7
<1> QED BY <1>1, ChainInit, ChainStep, PTL DEF Spec

-----------------------------------------------------------------------------
(* Order.  Every part of a direction holds a run of consecutive numbers, and *)
(* each part goes on where the one before it ends: what the receiver has     *)
(* written, the write under way, the queue of its ReadDataCache, the DATA    *)
(* frames of the channel, and the last read of the sender.  So the invariant *)
(* speaks of positions, and needs no sum over the channel.                   *)

Run(q, b) == \A i \in DOMAIN q : q[i] = b + i
Held(c) == IF c.writes = <<>> THEN 0 ELSE Len(c.writes[1].data)

\* The server session has not been given the request yet.
Fresh(s, c) == s = "server" /\ c.status \in {"NONE", "HANDSHAKE"}
\* The last number the receiver s has been given.
Reached(s, c, g) == IF Fresh(s, c) THEN -1 ELSE Len(g) + Held(c) + Len(c.queue)

\* The session c at the receiving end s, of which g has been written.
Rx(s, c, g, m) ==
  /\ Run(g, 0) /\ Len(g) + Held(c) <= m
  /\ c.writes # <<>> => Run(c.writes[1].data, Len(g))
  /\ c.status # "DESTROY" =>
       /\ Run(c.queue, Len(g) + Held(c)) /\ Reached(s, c, g) <= m
       /\ Fresh(s, c) => g = <<>> /\ c.writes = <<>> /\ c.queue = <<>> /\ ~c.asyncWriting
       /\ c.writes # <<>> => c.asyncWriting
       /\ s = "server" /\ c.status = "HANDSHAKE" => c.waiting
       /\ c.waiting => c.queue = <<>>
  /\ c.listed <=> c.status \notin {"NONE", "DESTROY"}
  /\ s = "client" => c.status \notin {"NONE", "QUERIED"}

\* The DATA frames of a channel q: they rise, and each one follows on the one
\* before it, or the first on the number R that the receiver has reached.
IsData(f) == f.cmd = "DATA"
Val(f) == f.data[1]
Line(R, q, m) ==
  \A k \in DOMAIN q : IsData(q[k]) =>
    /\ Len(q[k].data) = 1 /\ Val(q[k]) <= m
    /\ \/ Val(q[k]) = R + 1
       \/ \E j \in 1..(k - 1) : IsData(q[j]) /\ Val(q[j]) = Val(q[k]) - 1
    /\ \A j \in 1..(k - 1) : IsData(q[j]) => Val(q[j]) < Val(q[k])

\* Everything up to m has reached the receiver or is in the first n frames.
Full(R, q, m, n) == R = m \/ \E j \in 1..n : j \in DOMAIN q /\ IsData(q[j]) /\ Val(q[j]) = m

\* The client has not sent the request.
Unsent(s, c, q, m) == s = "server" /\ m = 0 /\ Fresh(s, c) /\ \A k \in DOMAIN q : ~IsData(q[k])

\* CONNECT is the first frame of the client, and its only one.
Lead(st, q) == st = "NONE" /\ q # <<>> => q[1].cmd = "CONNECT"
Opened(s, st, q) ==
  \A k \in DOMAIN q : q[k].cmd = "CONNECT" => k = 1 /\ s = "server" /\ st = "NONE"

\* CLOSE is the last frame of a session, after all its data.
AtEnd(s, c, d, q, m, g) ==
  \A k \in DOMAIN q : q[k].cmd = "CLOSE" =>
    /\ k = Len(q) /\ d = "DESTROY"
    /\ Full(Reached(s, c, g), q, m, k - 1) \/ Unsent(s, c, q, m)

\* The channel q towards a session c that is alive, from a session whose
\* status is d and whose pipeline is (pp) or is not destroyed.
Towards(s, c, d, q, m, g, pp) ==
  /\ Line(Reached(s, c, g), q, m)
  /\ Lead(c.status, q)
  /\ pp /\ d # "DESTROY" =>
       /\ IF s = "server" /\ d = "HANDSHAKE" THEN Unsent(s, c, q, m)
                                             ELSE Full(Reached(s, c, g), q, m, Len(q))
       /\ c.status = "NONE" => q # <<>>
  /\ AtEnd(s, c, d, q, m, g)
  /\ c.closeFuture => d = "DESTROY" /\ Reached(s, c, g) = m

\* A session that ended because its peer closed.
Closed(c, d, m, g, e) ==
  e = "peer" => c.status = "DESTROY" /\ d = "DESTROY" /\ c.writes = <<>> /\ Len(g) = m

Flow(s, c, d, q, m, g, e, ps, pp) ==
  /\ Rx(s, c, g, m)
  /\ c.listed => ps
  /\ ps => Opened(s, c.status, q)
  /\ ps /\ c.status # "DESTROY" => Towards(s, c, d, q, m, g, pp)
  /\ Closed(c, d, m, g, e)

FlowOf(s) == Flow(s, ses[s], ses[Peer(s)].status, chan[Peer(s)], made[Peer(s)],
                  got[s], ending[s], pipe[s], pipe[Peer(s)])

-----------------------------------------------------------------------------
(* The DATA frames of a channel.                                             *)

\* A frame, its number, and the places in a channel.
LEMMA FrameFacts ==
  ASSUME NEW q \in Seq(Frame)
  PROVE  /\ Len(q) \in Nat /\ DOMAIN q = 1..Len(q)
         /\ \A k \in DOMAIN q : /\ q[k] \in Frame /\ q[k].data \in Seq(Nat)
                                /\ Len(q[k].data) = 1 => Val(q[k]) \in Nat
<1>1. \A k \in DOMAIN q : q[k] \in Frame
  OBVIOUS
<1>2. \A k \in DOMAIN q : q[k].data \in Seq(Nat)
  BY <1>1 DEF Frame
<1>3. ASSUME NEW r \in Seq(Nat), Len(r) = 1 PROVE r[1] \in Nat
  <2>1. 1 \in 1..Len(r)
    BY <1>3
  <2> QED BY <2>1
<1>4. Len(q) \in Nat /\ DOMAIN q = 1..Len(q)
  OBVIOUS
<1> QED BY <1>1, <1>2, <1>3, <1>4 DEF Val

\* A channel after a push.
LEMMA Pushed ==
  ASSUME NEW q \in Seq(Frame), NEW f \in Frame
  PROVE  /\ Append(q, f) \in Seq(Frame) /\ Len(Append(q, f)) = Len(q) + 1
         /\ DOMAIN Append(q, f) = 1..(Len(q) + 1)
         /\ \A k \in 1..Len(q) : Append(q, f)[k] = q[k]
         /\ Append(q, f)[Len(q) + 1] = f
  OBVIOUS

\* A channel without its first frame.
LEMMA Parsed ==
  ASSUME NEW q \in Seq(Frame), q # <<>>
  PROVE  /\ Tail(q) \in Seq(Frame) /\ Len(Tail(q)) = Len(q) - 1
         /\ DOMAIN Tail(q) = 1..(Len(q) - 1)
         /\ \A k \in 1..(Len(q) - 1) : Tail(q)[k] = q[k + 1]
         /\ Head(q) = q[1] /\ 1 \in DOMAIN q
  OBVIOUS

\* A channel of which the first n frames are left.
LEMMA Cut ==
  ASSUME NEW q \in Seq(Frame), NEW n \in 0..Len(q)
  PROVE  /\ SubSeq(q, 1, n) \in Seq(Frame) /\ Len(SubSeq(q, 1, n)) = n
         /\ DOMAIN SubSeq(q, 1, n) = 1..n
         /\ \A k \in 1..n : SubSeq(q, 1, n)[k] = q[k]
  OBVIOUS

\* CONNECT stays the first frame, and the only one of its kind.
LEMMA OpenedStays ==
  ASSUME NEW q \in Seq(Frame), NEW s, NEW st, Opened(s, st, q)
  PROVE  /\ \A f \in Frame : f.cmd # "CONNECT" => Opened(s, st, Append(q, f))
         /\ q # <<>> => \A st2 : Opened(s, st2, Tail(q))
         /\ \A n \in 0..Len(q) : Opened(s, st, SubSeq(q, 1, n))
         /\ st # "NONE" => \A st2 : Opened(s, st2, q)
<1>1. ASSUME NEW f \in Frame, f.cmd # "CONNECT" PROVE Opened(s, st, Append(q, f))
  <2> DEFINE p == Append(q, f)
  <2>1. /\ Len(q) \in Nat /\ DOMAIN q = 1..Len(q) /\ DOMAIN p = 1..(Len(q) + 1)
        /\ \A k \in 1..Len(q) : p[k] = q[k]
        /\ p[Len(q) + 1] = f
    BY FrameFacts, Pushed
  <2> HIDE DEF p
  <2> QED BY <1>1, <2>1 DEF Opened, p
<1>2. ASSUME q # <<>>, NEW st2 PROVE Opened(s, st2, Tail(q))
  <2> DEFINE p == Tail(q)
  <2>1. /\ Len(q) \in Nat /\ DOMAIN q = 1..Len(q) /\ DOMAIN p = 1..(Len(q) - 1)
        /\ \A k \in 1..(Len(q) - 1) : p[k] = q[k + 1]
    BY <1>2, FrameFacts, Parsed
  <2> HIDE DEF p
  <2>2. \A k \in DOMAIN p : k + 1 \in DOMAIN q /\ k + 1 # 1 /\ p[k] = q[k + 1]
    BY <2>1
  <2> QED BY <2>2 DEF Opened, p
<1>3. ASSUME NEW n \in 0..Len(q) PROVE Opened(s, st, SubSeq(q, 1, n))
  <2> DEFINE p == SubSeq(q, 1, n)
  <2>1. /\ Len(q) \in Nat /\ DOMAIN q = 1..Len(q) /\ DOMAIN p = 1..n
        /\ \A k \in 1..n : p[k] = q[k]
    BY FrameFacts, Cut
  <2> HIDE DEF p
  <2> QED BY <2>1 DEF Opened, p
<1> QED BY <1>1, <1>2, <1>3 DEF Opened

\* A frame without data leaves the line as it is.
LEMMA LinePushOther ==
  ASSUME NEW q \in Seq(Frame), NEW f \in Frame, ~IsData(f), NEW R \in Int, NEW m \in Nat,
         Line(R, q, m)
  PROVE  /\ Line(R, Append(q, f), m)
         /\ \A n \in 0..Len(q) : Full(R, q, m, n) =>
              Full(R, Append(q, f), m, n) /\ Full(R, Append(q, f), m, Len(q) + 1)
         /\ (\A k \in DOMAIN q : ~IsData(q[k])) =>
              \A k \in DOMAIN Append(q, f) : ~IsData(Append(q, f)[k])
<1> DEFINE p == Append(q, f)
<1>1. /\ Len(q) \in Nat /\ DOMAIN q = 1..Len(q) /\ DOMAIN p = 1..(Len(q) + 1)
      /\ \A k \in 1..Len(q) : p[k] = q[k]
      /\ p[Len(q) + 1] = f
  BY FrameFacts, Pushed
<1> HIDE DEF p
<1>2. Line(R, p, m)
  BY <1>1 DEF Line
<1>3. ASSUME NEW n \in 0..Len(q), Full(R, q, m, n)
      PROVE  Full(R, p, m, n) /\ Full(R, p, m, Len(q) + 1)
  BY <1>1, <1>3 DEF Full
<1> QED BY <1>1, <1>2, <1>3 DEF p

\* The next read goes to the end of the line.
LEMMA LinePushNext ==
  ASSUME NEW q \in Seq(Frame), NEW R \in Int, NEW m \in Nat,
         Line(R, q, m), Full(R, q, m, Len(q)), R <= m
  PROVE  LET p == Append(q, Data(<<m + 1>>)) IN
         /\ Line(R, p, m + 1) /\ Full(R, p, m + 1, Len(p))
<1> DEFINE f == Data(<<m + 1>>)
           p == Append(q, f)
<1>0. f \in Frame /\ IsData(f) /\ Val(f) = m + 1 /\ Len(f.data) = 1
  BY DEF Data, FrameOf, Frame, IsData, Val
<1> HIDE DEF f
<1>1. /\ Len(q) \in Nat /\ DOMAIN q = 1..Len(q) /\ DOMAIN p = 1..(Len(q) + 1)
      /\ \A k \in 1..Len(q) : p[k] = q[k]
      /\ p[Len(q) + 1] = f /\ Len(p) = Len(q) + 1
  BY <1>0, FrameFacts, Pushed
<1>2. \A k \in DOMAIN q : IsData(q[k]) => Val(q[k]) \in Nat
  BY FrameFacts DEF Line
<1> HIDE DEF p
<1>3. ASSUME NEW k \in DOMAIN p, IsData(p[k])
      PROVE  /\ Len(p[k].data) = 1 /\ Val(p[k]) <= m + 1
             /\ \/ Val(p[k]) = R + 1
                \/ \E j \in 1..(k - 1) : IsData(p[j]) /\ Val(p[j]) = Val(p[k]) - 1
             /\ \A j \in 1..(k - 1) : IsData(p[j]) => Val(p[j]) < Val(p[k])
  <2>1. CASE k \in 1..Len(q)
    <3>1. /\ Len(q[k].data) = 1 /\ Val(q[k]) <= m
          /\ \/ Val(q[k]) = R + 1
             \/ \E j \in 1..(k - 1) : IsData(q[j]) /\ Val(q[j]) = Val(q[k]) - 1
          /\ \A j \in 1..(k - 1) : IsData(q[j]) => Val(q[j]) < Val(q[k])
      BY <1>1, <1>3, <2>1 DEF Line
    <3>2. p[k] = q[k] /\ \A j \in 1..(k - 1) : p[j] = q[j]
      BY <1>1, <2>1
    <3>3. Val(q[k]) \in Nat
      BY <1>1, <1>2, <1>3, <2>1, <3>2
    <3>4. Val(q[k]) <= m + 1
      BY <3>1, <3>3
    <3> QED BY <3>1, <3>2, <3>4
  <2>2. CASE k = Len(q) + 1
    <3>1. \A j \in 1..Len(q) : IsData(q[j]) => Val(q[j]) < m + 1
      BY <1>1, <1>2 DEF Line
    <3>2. m + 1 = R + 1 \/ \E j \in 1..Len(q) : IsData(q[j]) /\ Val(q[j]) = (m + 1) - 1
      BY DEF Full
    <3> QED BY <1>0, <1>1, <2>2, <3>1, <3>2
  <2> QED BY <1>1, <2>1, <2>2
<1>4. Full(R, p, m + 1, Len(p))
  BY <1>0, <1>1 DEF Full
<1> QED BY <1>3, <1>4 DEF Line, p, f

\* The request is the first data of the client.
LEMMA LinePushReq ==
  ASSUME NEW q \in Seq(Frame), \A k \in DOMAIN q : ~IsData(q[k])
  PROVE  LET p == Append(q, Data(<<Req>>)) IN Line(-1, p, 0) /\ Full(-1, p, 0, Len(p))
<1> DEFINE f == Data(<<Req>>)
           p == Append(q, f)
<1>0. f \in Frame /\ IsData(f) /\ Val(f) = 0 /\ Len(f.data) = 1
  BY DEF Data, FrameOf, Frame, IsData, Val, Req
<1> HIDE DEF f
<1>1. /\ Len(q) \in Nat /\ DOMAIN q = 1..Len(q) /\ DOMAIN p = 1..(Len(q) + 1)
      /\ \A k \in 1..Len(q) : p[k] = q[k]
      /\ p[Len(q) + 1] = f /\ Len(p) = Len(q) + 1
  BY <1>0, FrameFacts, Pushed
<1> HIDE DEF p
<1>2. Line(-1, p, 0)
  BY <1>0, <1>1 DEF Line
<1>3. Full(-1, p, 0, Len(p))
  BY <1>0, <1>1 DEF Full
<1> QED BY <1>2, <1>3 DEF p, f

\* The first frame leaves; without data the line stays as it is.
LEMMA LineParseOther ==
  ASSUME NEW q \in Seq(Frame), q # <<>>, ~IsData(Head(q)), NEW R \in Int, NEW m \in Nat,
         Line(R, q, m)
  PROVE  /\ Line(R, Tail(q), m)
         /\ \A n \in 1..Len(q) : Full(R, q, m, n) => Full(R, Tail(q), m, n - 1)
<1> DEFINE p == Tail(q)
<1>1. /\ Len(q) \in Nat /\ DOMAIN q = 1..Len(q) /\ DOMAIN p = 1..(Len(q) - 1)
      /\ \A k \in 1..(Len(q) - 1) : p[k] = q[k + 1]
      /\ Head(q) = q[1] /\ 1 \in DOMAIN q
  BY FrameFacts, Parsed
<1> HIDE DEF p
<1>2. ASSUME NEW k \in DOMAIN p, IsData(p[k])
      PROVE  /\ Len(p[k].data) = 1 /\ Val(p[k]) <= m
             /\ \/ Val(p[k]) = R + 1
                \/ \E j \in 1..(k - 1) : IsData(p[j]) /\ Val(p[j]) = Val(p[k]) - 1
             /\ \A j \in 1..(k - 1) : IsData(p[j]) => Val(p[j]) < Val(p[k])
  <2>1. k + 1 \in DOMAIN q /\ p[k] = q[k + 1] /\ IsData(q[k + 1])
    BY <1>1, <1>2
  <2>2. /\ Len(q[k + 1].data) = 1 /\ Val(q[k + 1]) <= m
        /\ \/ Val(q[k + 1]) = R + 1
           \/ \E j \in 1..k : IsData(q[j]) /\ Val(q[j]) = Val(q[k + 1]) - 1
        /\ \A j \in 1..k : IsData(q[j]) => Val(q[j]) < Val(q[k + 1])
    <3>1. (k + 1) - 1 = k
      BY <1>1
    <3> QED BY <2>1, <3>1 DEF Line
  <2>3. \A j \in 1..(k - 1) : p[j] = q[j + 1] /\ j + 1 \in 1..k
    BY <1>1
  <2>4. \A j \in 1..k : j # 1 => j - 1 \in 1..(k - 1) /\ p[j - 1] = q[j]
    BY <1>1
  <2>5. ASSUME NEW j \in 1..k, IsData(q[j]), Val(q[j]) = Val(q[k + 1]) - 1
        PROVE  \E i \in 1..(k - 1) : IsData(p[i]) /\ Val(p[i]) = Val(p[k]) - 1
    <3>1. j # 1
      BY <1>1, <2>5
    <3> QED BY <2>1, <2>4, <2>5, <3>1
  <2> QED BY <2>1, <2>2, <2>3, <2>5
<1>3. ASSUME NEW n \in 1..Len(q), Full(R, q, m, n) PROVE Full(R, p, m, n - 1)
  <2>1. ASSUME NEW j \in 1..n, j \in DOMAIN q, IsData(q[j]), Val(q[j]) = m
        PROVE  \E i \in 1..(n - 1) : i \in DOMAIN p /\ IsData(p[i]) /\ Val(p[i]) = m
    <3>1. j # 1
      BY <1>1, <2>1
    <3>2. j - 1 \in 1..(n - 1) /\ j - 1 \in DOMAIN p /\ p[j - 1] = q[j]
      BY <1>1, <2>1, <3>1
    <3> QED BY <2>1, <3>2
  <2> QED BY <1>3, <2>1 DEF Full
<1> QED BY <1>2, <1>3 DEF Line, p

\* The first frame of the line is the number the receiver waits for.
LEMMA LineParseData ==
  ASSUME NEW q \in Seq(Frame), q # <<>>, IsData(Head(q)), NEW R \in Int, NEW m \in Nat,
         Line(R, q, m)
  PROVE  /\ Head(q).data = <<R + 1>> /\ R + 1 <= m
         /\ Line(R + 1, Tail(q), m)
         /\ \A n \in 1..Len(q) : Full(R, q, m, n) => Full(R + 1, Tail(q), m, n - 1)
<1> DEFINE p == Tail(q)
<1>1. /\ Len(q) \in Nat /\ DOMAIN q = 1..Len(q) /\ DOMAIN p = 1..(Len(q) - 1)
      /\ \A k \in 1..(Len(q) - 1) : p[k] = q[k + 1]
      /\ Head(q) = q[1] /\ 1 \in DOMAIN q
  BY FrameFacts, Parsed
<1>2. \A k \in DOMAIN q : IsData(q[k]) => Len(q[k].data) = 1 /\ Val(q[k]) \in Nat
  BY FrameFacts DEF Line
<1> HIDE DEF p
<1>3. Val(q[1]) = R + 1 /\ R + 1 <= m
  <2>1. 1..(1 - 1) = {}
    OBVIOUS
  <2> QED BY <1>1, <2>1 DEF Line
<1>4. q[1].data = <<R + 1>>
  <2>1. q[1].data \in Seq(Nat) /\ Len(q[1].data) = 1
    BY <1>1, <1>2, FrameFacts
  <2>2. \A r \in Seq(Nat) : Len(r) = 1 => r = <<r[1]>>
    OBVIOUS
  <2> QED BY <1>3, <2>1, <2>2 DEF Val
<1>5. ASSUME NEW k \in DOMAIN p, IsData(p[k])
      PROVE  /\ Len(p[k].data) = 1 /\ Val(p[k]) <= m
             /\ \/ Val(p[k]) = (R + 1) + 1
                \/ \E j \in 1..(k - 1) : IsData(p[j]) /\ Val(p[j]) = Val(p[k]) - 1
             /\ \A j \in 1..(k - 1) : IsData(p[j]) => Val(p[j]) < Val(p[k])
  <2>1. k + 1 \in DOMAIN q /\ p[k] = q[k + 1] /\ IsData(q[k + 1]) /\ Val(q[k + 1]) \in Nat
    BY <1>1, <1>2, <1>5
  <2>2. /\ Len(q[k + 1].data) = 1 /\ Val(q[k + 1]) <= m
        /\ \/ Val(q[k + 1]) = R + 1
           \/ \E j \in 1..k : IsData(q[j]) /\ Val(q[j]) = Val(q[k + 1]) - 1
        /\ \A j \in 1..k : IsData(q[j]) => Val(q[j]) < Val(q[k + 1])
    <3>1. (k + 1) - 1 = k
      BY <1>1
    <3> QED BY <2>1, <3>1 DEF Line
  <2>3. \A j \in 1..(k - 1) : p[j] = q[j + 1] /\ j + 1 \in 1..k
    BY <1>1
  <2>4. \A j \in 1..k : j # 1 => j - 1 \in 1..(k - 1) /\ p[j - 1] = q[j]
    BY <1>1
  <2>5. Val(q[1]) < Val(q[k + 1])
    <3>1. 1 \in 1..k
      BY <1>1
    <3> QED BY <1>1, <2>2, <3>1
  <2>6. ASSUME NEW j \in 1..k, IsData(q[j]), Val(q[j]) = Val(q[k + 1]) - 1
        PROVE  \/ Val(p[k]) = (R + 1) + 1
               \/ \E i \in 1..(k - 1) : IsData(p[i]) /\ Val(p[i]) = Val(p[k]) - 1
    <3>1. CASE j = 1
      BY <1>3, <2>1, <2>6, <3>1
    <3>2. CASE j # 1
      BY <2>1, <2>4, <2>6, <3>2
    <3> QED BY <3>1, <3>2
  <2>7. Val(q[k + 1]) # R + 1
    BY <1>3, <2>1, <2>5
  <2> QED BY <2>1, <2>2, <2>3, <2>6, <2>7
<1>6. ASSUME NEW n \in 1..Len(q), Full(R, q, m, n) PROVE Full(R + 1, p, m, n - 1)
  <2>1. ASSUME NEW j \in 1..n, j \in DOMAIN q, IsData(q[j]), Val(q[j]) = m, j # 1
        PROVE  \E i \in 1..(n - 1) : i \in DOMAIN p /\ IsData(p[i]) /\ Val(p[i]) = m
    <3>2. j - 1 \in 1..(n - 1) /\ j - 1 \in DOMAIN p /\ p[j - 1] = q[j]
      BY <1>1, <2>1
    <3> QED BY <2>1, <3>2
  <2>2. R # m
    BY <1>3
  <2> QED BY <1>3, <1>6, <2>1, <2>2 DEF Full
<1> QED BY <1>1, <1>3, <1>4, <1>5, <1>6 DEF Line, p

\* What is left of a line when its end is lost, and a line of nothing.
LEMMA LineCut ==
  ASSUME NEW q \in Seq(Frame), NEW n \in 0..Len(q), NEW R \in Int, NEW m \in Nat,
         Line(R, q, m)
  PROVE  /\ Line(R, SubSeq(q, 1, n), m)
         /\ \A k \in 0..n : Full(R, q, m, k) => Full(R, SubSeq(q, 1, n), m, k)
<1> DEFINE p == SubSeq(q, 1, n)
<1>1. /\ Len(q) \in Nat /\ DOMAIN q = 1..Len(q) /\ DOMAIN p = 1..n
      /\ \A k \in 1..n : p[k] = q[k]
  BY FrameFacts, Cut
<1> HIDE DEF p
<1>2. Line(R, p, m)
  <2>1. ASSUME NEW k \in DOMAIN p
        PROVE  k \in DOMAIN q /\ p[k] = q[k] /\ \A j \in 1..(k - 1) : p[j] = q[j]
    BY <1>1
  <2> QED BY <2>1 DEF Line
<1>3. ASSUME NEW k \in 0..n, Full(R, q, m, k) PROVE Full(R, p, m, k)
  BY <1>1, <1>3 DEF Full
<1> QED BY <1>2, <1>3 DEF p

-----------------------------------------------------------------------------
(* What the sending end does to a direction.                                 *)

\* The position of the receiver is a number, at least -1.
LEMMA ReachedType ==
  ASSUME NEW s \in Side, NEW c \in Session, NEW g \in Seq(Nat)
  PROVE  /\ Reached(s, c, g) \in Int /\ Held(c) \in Nat /\ Len(g) \in Nat
         /\ Len(c.queue) \in Nat
         /\ ~Fresh(s, c) => Reached(s, c, g) \in Nat
<1>1. Len(g) \in Nat /\ Len(c.queue) \in Nat
  BY DEF Session
<1>2. Held(c) \in Nat
  <2>1. CASE c.writes = <<>>
    BY <2>1 DEF Held
  <2>2. CASE c.writes # <<>>
    <3>1. c.writes \in Seq(Write)
      BY DEF Session
    <3>2. c.writes[1] \in Write
      BY <2>2, <3>1
    <3>3. c.writes[1].data \in Seq(Nat)
      BY <3>2 DEF Write
    <3> QED BY <2>2, <3>3 DEF Held
  <2> QED BY <2>1, <2>2
<1> QED BY <1>1, <1>2 DEF Reached

\* The sender changes its status; only the request takes the client out of
\* HANDSHAKE, and nothing brings a destroyed session back.
LEMMA SndStatus ==
  ASSUME NEW s \in Side, NEW c \in Session, NEW d, NEW d2, NEW q \in Seq(Frame),
         NEW m \in Nat, NEW g \in Seq(Nat), NEW e, NEW ps, NEW pp, NEW pp2,
         Flow(s, c, d, q, m, g, e, ps, pp),
         d = "DESTROY" => d2 = "DESTROY",
         d2 # "DESTROY" /\ pp2 => pp /\ (s = "server" => (d2 = "HANDSHAKE" <=> d = "HANDSHAKE"))
  PROVE  Flow(s, c, d2, q, m, g, e, ps, pp2)
  BY DEF Flow, Towards, AtEnd, Closed

\* The sender pushes an ACK frame.
LEMMA SndAck ==
  ASSUME NEW s \in Side, NEW c \in Session, NEW d, NEW q \in Seq(Frame),
         NEW m \in Nat, NEW g \in Seq(Nat), NEW e, NEW ps, NEW pp, NEW f \in Frame,
         Flow(s, c, d, q, m, g, e, ps, pp), f.cmd = "ACK", d # "DESTROY", pp
  PROVE  Flow(s, c, d, Append(q, f), m, g, e, ps, pp)
<1>0. ps => Opened(s, c.status, Append(q, f))
  BY OpenedStays DEF Flow
<1> SUFFICES ASSUME ps, c.status # "DESTROY"
             PROVE  Towards(s, c, d, Append(q, f), m, g, pp)
  BY <1>0 DEF Flow
<1> DEFINE p == Append(q, f)
           R == Reached(s, c, g)
<1>1. /\ Line(R, q, m) /\ Lead(c.status, q) /\ AtEnd(s, c, d, q, m, g)
      /\ IF s = "server" /\ d = "HANDSHAKE" THEN Unsent(s, c, q, m)
                                            ELSE Full(R, q, m, Len(q))
      /\ c.status = "NONE" => q # <<>>
      /\ ~c.closeFuture
  BY DEF Flow, Towards
<1>2. R \in Int
  BY ReachedType
<1>3. ~IsData(f)
  BY DEF IsData
<1>4. /\ Len(q) \in Nat /\ DOMAIN q = 1..Len(q) /\ DOMAIN p = 1..(Len(q) + 1)
      /\ \A k \in 1..Len(q) : p[k] = q[k]
      /\ p[Len(q) + 1] = f /\ Len(p) = Len(q) + 1
  BY FrameFacts, Pushed
<1>5. /\ Line(R, p, m)
      /\ Full(R, q, m, Len(q)) => Full(R, p, m, Len(q) + 1)
      /\ (\A k \in DOMAIN q : ~IsData(q[k])) => \A k \in DOMAIN p : ~IsData(p[k])
  <2>1. Len(q) \in 0..Len(q)
    BY <1>4
  <2> QED BY <1>1, <1>2, <1>3, <2>1, LinePushOther
<1> HIDE DEF p, R
<1>6. Lead(c.status, p)
  <2>1. q # <<>> => Len(q) >= 1
    BY <1>4
  <2>2. p # <<>> /\ (c.status = "NONE" => p[1] = q[1])
    BY <1>1, <1>4, <2>1
  <2> QED BY <1>1, <1>4, <2>2 DEF Lead
<1>7. AtEnd(s, c, d, p, m, g)
  BY <1>1, <1>4 DEF AtEnd
<1>8. IF s = "server" /\ d = "HANDSHAKE" THEN Unsent(s, c, p, m)
                                          ELSE Full(R, p, m, Len(p))
  BY <1>1, <1>4, <1>5 DEF Unsent
<1>9. p # <<>>
  BY <1>4
<1> QED BY <1>1, <1>5, <1>6, <1>7, <1>8, <1>9 DEF Towards, p, R

\* The sender reads its local socket and pushes a DATA frame.
LEMMA SndData ==
  ASSUME NEW s \in Side, NEW c \in Session, NEW q \in Seq(Frame),
         NEW m \in Nat, NEW g \in Seq(Nat), NEW e, NEW ps, NEW pp,
         Flow(s, c, "FORWARD", q, m, g, e, ps, pp), pp
  PROVE  Flow(s, c, "FORWARD", Append(q, Data(<<m + 1>>)), m + 1, g, e, ps, pp)
<1> DEFINE f == Data(<<m + 1>>)
           p == Append(q, f)
           R == Reached(s, c, g)
<1>0. f \in Frame /\ f.cmd = "DATA"
  BY DEF Data, FrameOf, Frame
<1> HIDE DEF f
<1>1. R \in Int /\ Held(c) \in Nat /\ Len(g) \in Nat
  BY ReachedType
<1>2. Rx(s, c, g, m + 1)
  BY <1>1 DEF Flow, Rx
<1>3. Closed(c, "FORWARD", m + 1, g, e) /\ (c.listed => ps)
  BY DEF Flow, Closed
<1>4. ASSUME ps, c.status # "DESTROY" PROVE Towards(s, c, "FORWARD", p, m + 1, g, pp)
  <2>1. /\ Line(R, q, m) /\ Lead(c.status, q) /\ AtEnd(s, c, "FORWARD", q, m, g)
        /\ Full(R, q, m, Len(q)) /\ R <= m
        /\ c.status = "NONE" => q # <<>>
        /\ ~c.closeFuture
    BY <1>4 DEF Flow, Towards, Rx
  <2>2. /\ Len(q) \in Nat /\ DOMAIN q = 1..Len(q) /\ DOMAIN p = 1..(Len(q) + 1)
        /\ \A k \in 1..Len(q) : p[k] = q[k]
        /\ p[Len(q) + 1] = f /\ Len(p) = Len(q) + 1
    BY <1>0, FrameFacts, Pushed
  <2>3. Line(R, p, m + 1) /\ Full(R, p, m + 1, Len(p))
    BY <1>1, <2>1, LinePushNext DEF f
  <2> HIDE DEF p, R
  <2>4. Lead(c.status, p)
    <3>1. q # <<>> => Len(q) >= 1
      BY <2>2
    <3>2. p # <<>> /\ (c.status = "NONE" => p[1] = q[1])
      BY <2>1, <2>2, <3>1
    <3> QED BY <1>0, <2>1, <2>2, <3>2 DEF Lead
  <2>5. AtEnd(s, c, "FORWARD", p, m + 1, g)
    BY <1>0, <2>1, <2>2 DEF AtEnd
  <2>6. p # <<>>
    BY <2>2
  <2> QED BY <2>1, <2>3, <2>4, <2>5, <2>6 DEF Towards, R
<1>5. ps => Opened(s, c.status, p)
  BY <1>0, OpenedStays DEF Flow
<1> QED BY <1>2, <1>3, <1>4, <1>5 DEF Flow, p, f

\* The client pushes the request.
LEMMA SndReq ==
  ASSUME NEW c \in Session, NEW q \in Seq(Frame),
         NEW m \in Nat, NEW g \in Seq(Nat), NEW e, NEW ps, NEW pp,
         Flow("server", c, "HANDSHAKE", q, m, g, e, ps, pp), pp
  PROVE  Flow("server", c, "FORWARD", Append(q, Data(<<Req>>)), m, g, e, ps, pp)
<1> DEFINE f == Data(<<Req>>)
           p == Append(q, f)
           R == Reached("server", c, g)
<1>0. f \in Frame /\ f.cmd = "DATA"
  BY DEF Data, FrameOf, Frame, Req
<1> HIDE DEF f
<1>1. Rx("server", c, g, m) /\ Closed(c, "FORWARD", m, g, e) /\ (c.listed => ps)
  BY DEF Flow, Closed
<1>2. ASSUME ps, c.status # "DESTROY" PROVE Towards("server", c, "FORWARD", p, m, g, pp)
  <2>1. /\ Lead(c.status, q) /\ AtEnd("server", c, "HANDSHAKE", q, m, g)
        /\ Unsent("server", c, q, m)
        /\ c.status = "NONE" => q # <<>>
        /\ ~c.closeFuture
    BY <1>2 DEF Flow, Towards
  <2>2. /\ Len(q) \in Nat /\ DOMAIN q = 1..Len(q) /\ DOMAIN p = 1..(Len(q) + 1)
        /\ \A k \in 1..Len(q) : p[k] = q[k]
        /\ p[Len(q) + 1] = f /\ Len(p) = Len(q) + 1
    BY <1>0, FrameFacts, Pushed
  <2>3. R = -1 /\ m = 0
    BY <2>1 DEF Unsent, Reached
  <2>4. Line(R, p, m) /\ Full(R, p, m, Len(p))
    BY <2>1, <2>3, LinePushReq DEF Unsent, f
  <2> HIDE DEF p, R
  <2>5. Lead(c.status, p)
    <3>1. q # <<>> => Len(q) >= 1
      BY <2>2
    <3>2. p # <<>> /\ (c.status = "NONE" => p[1] = q[1])
      BY <2>1, <2>2, <3>1
    <3> QED BY <1>0, <2>1, <2>2, <3>2 DEF Lead
  <2>6. AtEnd("server", c, "FORWARD", p, m, g)
    BY <1>0, <2>1, <2>2 DEF AtEnd
  <2>7. p # <<>>
    BY <2>2
  <2> QED BY <2>1, <2>4, <2>5, <2>6, <2>7 DEF Towards, R
<1>3. ps => Opened("server", c.status, p)
  BY <1>0, OpenedStays DEF Flow
<1> QED BY <1>1, <1>2, <1>3 DEF Flow, p, f

\* The sender is destroyed and tells its peer.
LEMMA SndClose ==
  ASSUME NEW s \in Side, NEW c \in Session, NEW d, NEW q \in Seq(Frame),
         NEW m \in Nat, NEW g \in Seq(Nat), NEW e, NEW ps, NEW pp,
         Flow(s, c, d, q, m, g, e, ps, pp), d # "DESTROY", pp
  PROVE  Flow(s, c, "DESTROY", Append(q, Close), m, g, e, ps, pp)
<1> DEFINE f == Close
           p == Append(q, f)
           R == Reached(s, c, g)
<1>0. f \in Frame /\ f.cmd = "CLOSE" /\ ~IsData(f)
  BY DEF Close, FrameOf, Frame, IsData
<1> HIDE DEF f
<1>1. R \in Int
  BY ReachedType
<1>2. Rx(s, c, g, m) /\ Closed(c, "DESTROY", m, g, e) /\ (c.listed => ps)
  BY DEF Flow, Closed
<1>3. ASSUME ps, c.status # "DESTROY" PROVE Towards(s, c, "DESTROY", p, m, g, pp)
  <2>1. /\ Line(R, q, m) /\ Lead(c.status, q) /\ AtEnd(s, c, d, q, m, g)
        /\ Unsent(s, c, q, m) \/ Full(R, q, m, Len(q))
        /\ c.status = "NONE" => q # <<>>
        /\ ~c.closeFuture
    BY <1>3 DEF Flow, Towards
  <2>2. /\ Len(q) \in Nat /\ DOMAIN q = 1..Len(q) /\ DOMAIN p = 1..(Len(q) + 1)
        /\ \A k \in 1..Len(q) : p[k] = q[k]
        /\ p[Len(q) + 1] = f /\ Len(p) = Len(q) + 1
    BY <1>0, FrameFacts, Pushed
  <2>3. /\ Line(R, p, m)
        /\ Full(R, q, m, Len(q)) => Full(R, p, m, Len(q))
        /\ (\A k \in DOMAIN q : ~IsData(q[k])) => \A k \in DOMAIN p : ~IsData(p[k])
    <3>1. Len(q) \in 0..Len(q)
      BY <2>2
    <3> QED BY <1>0, <1>1, <2>1, <3>1, LinePushOther
  <2> HIDE DEF p, R
  <2>4. Lead(c.status, p)
    <3>1. q # <<>> => Len(q) >= 1
      BY <2>2
    <3>2. p # <<>> /\ (c.status = "NONE" => p[1] = q[1])
      BY <2>1, <2>2, <3>1
    <3> QED BY <1>0, <2>1, <2>2, <3>2 DEF Lead
  <2>5. AtEnd(s, c, "DESTROY", p, m, g)
    <3>1. ASSUME NEW k \in DOMAIN p, p[k].cmd = "CLOSE" PROVE k = Len(p)
      BY <2>1, <2>2, <3>1 DEF AtEnd
    <3>2. (Len(q) + 1) - 1 = Len(q)
      BY <2>2
    <3>3. Full(R, p, m, Len(q)) \/ Unsent(s, c, p, m)
      BY <2>1, <2>3 DEF Unsent
    <3> QED BY <2>2, <3>1, <3>2, <3>3 DEF AtEnd, R
  <2> QED BY <2>1, <2>3, <2>4, <2>5 DEF Towards, R
<1>4. ps => Opened(s, c.status, p)
  BY <1>0, OpenedStays DEF Flow
<1> QED BY <1>2, <1>3, <1>4 DEF Flow, p, f

\* The pipeline of the sender is destroyed, with frames that were not written.
LEMMA SndCut ==
  ASSUME NEW s \in Side, NEW c \in Session, NEW d, NEW d2, NEW q \in Seq(Frame),
         NEW m \in Nat, NEW g \in Seq(Nat), NEW e, NEW ps, NEW pp, NEW n \in 0..Len(q),
         Flow(s, c, d, q, m, g, e, ps, pp), d2 \in {d, "DESTROY"}
  PROVE  Flow(s, c, d2, SubSeq(q, 1, n), m, g, e, ps, FALSE)
<1> DEFINE p == SubSeq(q, 1, n)
           R == Reached(s, c, g)
<1>1. R \in Int
  BY ReachedType
<1>2. Rx(s, c, g, m) /\ Closed(c, d2, m, g, e) /\ (c.listed => ps)
  BY DEF Flow, Closed
<1>3. ASSUME ps, c.status # "DESTROY" PROVE Towards(s, c, d2, p, m, g, FALSE)
  <2>1. /\ Line(R, q, m) /\ Lead(c.status, q) /\ AtEnd(s, c, d, q, m, g)
        /\ c.closeFuture => d = "DESTROY" /\ R = m
    BY <1>3 DEF Flow, Towards
  <2>2. /\ Len(q) \in Nat /\ DOMAIN q = 1..Len(q) /\ DOMAIN p = 1..n /\ Len(p) = n
        /\ \A k \in 1..n : p[k] = q[k]
    BY FrameFacts, Cut
  <2>3. /\ Line(R, p, m)
        /\ \A k \in 0..n : Full(R, q, m, k) => Full(R, p, m, k)
    BY <1>1, <2>1, LineCut
  <2> HIDE DEF p, R
  <2>4. Lead(c.status, p)
    <3>1. n = 0 => p = <<>>
      BY DEF p
    <3>2. n # 0 => 1 \in 1..n /\ 1 \in 1..Len(q)
      BY <2>2
    <3>3. n # 0 => q # <<>> /\ p[1] = q[1]
      BY <2>2, <3>2
    <3> QED BY <2>1, <2>2, <3>1, <3>3 DEF Lead
  <2>5. AtEnd(s, c, d2, p, m, g)
    <3> SUFFICES ASSUME NEW k \in DOMAIN p, p[k].cmd = "CLOSE"
                 PROVE  /\ k = Len(p) /\ d2 = "DESTROY"
                        /\ Full(R, p, m, k - 1) \/ Unsent(s, c, p, m)
      BY DEF AtEnd, R
    <3>1. k \in DOMAIN q /\ q[k].cmd = "CLOSE" /\ k \in 1..n
      BY <2>2
    <3>2. /\ k = Len(q) /\ d = "DESTROY"
          /\ Full(R, q, m, k - 1) \/ Unsent(s, c, q, m)
      BY <2>1, <3>1 DEF AtEnd, R
    <3>3. k = n /\ k - 1 \in 0..n
      <4>1. k \in 1..n /\ n \in 0..Len(q) /\ Len(q) \in Nat /\ k = Len(q)
        BY <2>2, <3>1, <3>2
      <4> QED BY <4>1
    <3>4. Unsent(s, c, q, m) => Unsent(s, c, p, m)
      BY <2>2 DEF Unsent
    <3> QED BY <2>2, <2>3, <3>2, <3>3, <3>4
  <2> QED BY <2>1, <2>3, <2>4, <2>5 DEF Towards, R
<1>4. ps => Opened(s, c.status, p)
  BY OpenedStays DEF Flow
<1> QED BY <1>2, <1>3, <1>4 DEF Flow, p

-----------------------------------------------------------------------------
(* What the receiving end does to a direction.                               *)

\* Two sessions that differ in nothing the direction depends on.
SameRx(c, c2) ==
  /\ c2.status = c.status /\ c2.listed = c.listed /\ c2.writes = c.writes
  /\ c2.queue = c.queue /\ c2.waiting = c.waiting
  /\ c2.asyncWriting = c.asyncWriting /\ c2.closeFuture = c.closeFuture

\* What a step of the receiver that only moves data on must keep.
LEMMA RcvMove ==
  ASSUME NEW s \in Side, NEW c \in Session, NEW c2 \in Session, NEW d, NEW q \in Seq(Frame),
         NEW m \in Nat, NEW g \in Seq(Nat), NEW g2 \in Seq(Nat), NEW e, NEW ps, NEW pp,
         Flow(s, c, d, q, m, g, e, ps, pp), c.status # "DESTROY",
         Rx(s, c2, g2, m), c2.closeFuture = c.closeFuture, c2.listed = c.listed,
         c2.status = "NONE" <=> c.status = "NONE", Fresh(s, c2) <=> Fresh(s, c),
         Reached(s, c2, g2) = Reached(s, c, g)
  PROVE  Flow(s, c2, d, q, m, g2, e, ps, pp)
<1>1. Closed(c2, d, m, g2, e)
  BY DEF Flow, Closed
<1>2. ASSUME ps, c2.status # "DESTROY" PROVE Towards(s, c2, d, q, m, g2, pp)
  <2>1. Towards(s, c, d, q, m, g, pp)
    BY <1>2 DEF Flow
  <2>2. Lead(c2.status, q)
    BY <2>1 DEF Towards, Lead
  <2>3. Unsent(s, c2, q, m) <=> Unsent(s, c, q, m)
    BY DEF Unsent
  <2>4. AtEnd(s, c2, d, q, m, g2)
    BY <2>1, <2>3 DEF Towards, AtEnd
  <2> QED BY <2>1, <2>2, <2>3, <2>4 DEF Towards
<1>3. ps => Opened(s, c2.status, q)
  BY DEF Flow, Opened
<1> QED BY <1>1, <1>2, <1>3 DEF Flow

\* A step that leaves the receiver's part of the session alone.
LEMMA SameFacts ==
  ASSUME NEW s, NEW c, NEW c2, NEW g, NEW m, SameRx(c, c2)
  PROVE  /\ Held(c2) = Held(c) /\ (Fresh(s, c2) <=> Fresh(s, c))
         /\ Reached(s, c2, g) = Reached(s, c, g)
         /\ Rx(s, c, g, m) => Rx(s, c2, g, m)
<1>1. Held(c2) = Held(c) /\ (Fresh(s, c2) <=> Fresh(s, c))
  BY DEF SameRx, Held, Fresh
<1>2. Reached(s, c2, g) = Reached(s, c, g)
  BY <1>1 DEF SameRx, Reached
<1>3. Rx(s, c, g, m) => Rx(s, c2, g, m)
  BY <1>1, <1>2 DEF Rx, SameRx
<1> QED BY <1>1, <1>2, <1>3

\* The direction does not notice such a step.
LEMMA RcvSame ==
  ASSUME NEW s \in Side, NEW c \in Session, NEW c2 \in Session, NEW d, NEW q \in Seq(Frame),
         NEW m \in Nat, NEW g \in Seq(Nat), NEW e, NEW ps, NEW pp,
         Flow(s, c, d, q, m, g, e, ps, pp), SameRx(c, c2)
  PROVE  Flow(s, c2, d, q, m, g, e, ps, pp)
<1>3. /\ Rx(s, c2, g, m) /\ (Fresh(s, c2) <=> Fresh(s, c))
      /\ Reached(s, c2, g) = Reached(s, c, g)
  BY SameFacts DEF Flow
<1>4. CASE c.status # "DESTROY"
  BY <1>3, <1>4, RcvMove DEF SameRx
<1>5. CASE c.status = "DESTROY"
  BY <1>3, <1>5 DEF Flow, Closed, SameRx
<1> QED BY <1>4, <1>5

\* The receiver is destroyed, whatever then happens to the channel.
LEMMA RcvDead ==
  ASSUME NEW s \in Side, NEW c \in Session, NEW c2 \in Session, NEW d,
         NEW m \in Nat, NEW g \in Seq(Nat), NEW e2,
         NEW q2 \in Seq(Frame), NEW ps2, NEW pp,
         Rx(s, c, g, m), c2.status = "DESTROY", ~c2.listed,
         c2.writes \in {c.writes, <<>>},
         ps2 => c.status # "NONE" /\ Opened(s, c.status, q2), e2 # "peer"
  PROVE  Flow(s, c2, d, q2, m, g, e2, ps2, pp)
<1>1. Held(c2) \in {Held(c), 0}
  BY DEF Held
<1>2. Held(c) \in Nat /\ Len(g) \in Nat
  BY ReachedType
<1>3. Len(g) + Held(c2) <= m
  BY <1>1, <1>2 DEF Rx
<1>4. Rx(s, c2, g, m)
  BY <1>3 DEF Rx
<1>5. ps2 => Opened(s, c2.status, q2)
  BY OpenedStays
<1> QED BY <1>4, <1>5 DEF Flow, Closed

\* The pipeline of the receiver is destroyed, and its session with it.
LEMMA RcvGone ==
  ASSUME NEW s \in Side, NEW c \in Session, NEW c2 \in Session, NEW d, NEW q, NEW q2,
         NEW m \in Nat, NEW g \in Seq(Nat), NEW e, NEW ps, NEW pp,
         Flow(s, c, d, q, m, g, e, ps, pp), ~c.listed, SameRx(c, c2)
  PROVE  Flow(s, c2, d, q2, m, g, e, FALSE, pp)
<1>3. /\ Rx(s, c2, g, m) /\ (Fresh(s, c2) <=> Fresh(s, c))
      /\ Reached(s, c2, g) = Reached(s, c, g)
  BY SameFacts DEF Flow
<1> QED BY <1>3 DEF Flow, Closed, SameRx

\* A frame without data leaves the channel: what it says of its end stays.
LEMMA PopOther ==
  ASSUME NEW s \in Side, NEW c \in Session, NEW d, NEW q \in Seq(Frame),
         NEW m \in Nat, NEW g \in Seq(Nat), q # <<>>, ~IsData(Head(q)),
         Line(Reached(s, c, g), q, m), AtEnd(s, c, d, q, m, g)
  PROVE  /\ Line(Reached(s, c, g), Tail(q), m)
         /\ AtEnd(s, c, d, Tail(q), m, g)
         /\ Unsent(s, c, q, m) => Unsent(s, c, Tail(q), m)
         /\ Full(Reached(s, c, g), q, m, Len(q))
              => Full(Reached(s, c, g), Tail(q), m, Len(Tail(q)))
<1> DEFINE p == Tail(q)
           R == Reached(s, c, g)
<1>1. R \in Int
  BY ReachedType
<1>3. /\ Len(q) \in Nat /\ DOMAIN q = 1..Len(q) /\ DOMAIN p = 1..(Len(q) - 1)
      /\ Len(p) = Len(q) - 1
      /\ \A k \in 1..(Len(q) - 1) : p[k] = q[k + 1]
      /\ Head(q) = q[1] /\ 1 \in DOMAIN q
  BY FrameFacts, Parsed
<1>4. Len(q) \in 1..Len(q)
  BY <1>3
<1>5. /\ Line(R, p, m)
      /\ \A n \in 1..Len(q) : Full(R, q, m, n) => Full(R, p, m, n - 1)
  BY <1>1, LineParseOther
<1> HIDE DEF p, R
<1>6. \A k \in DOMAIN p : k + 1 \in DOMAIN q /\ p[k] = q[k + 1]
  BY <1>3
<1>7. Unsent(s, c, q, m) => Unsent(s, c, p, m)
  BY <1>6 DEF Unsent
<1>8. AtEnd(s, c, d, p, m, g)
  <2> SUFFICES ASSUME NEW k \in DOMAIN p, p[k].cmd = "CLOSE"
               PROVE  /\ k = Len(p) /\ d = "DESTROY"
                      /\ Full(R, p, m, k - 1) \/ Unsent(s, c, p, m)
    BY DEF AtEnd, R
  <2>1. k + 1 \in DOMAIN q /\ q[k + 1].cmd = "CLOSE"
    BY <1>6
  <2>2. /\ k + 1 = Len(q) /\ d = "DESTROY"
        /\ Full(R, q, m, (k + 1) - 1) \/ Unsent(s, c, q, m)
    BY <2>1 DEF AtEnd, R
  <2>3. k \in 1..Len(q) /\ (k + 1) - 1 = k /\ k = Len(p)
    BY <1>3, <2>2
  <2> QED BY <1>5, <1>7, <2>2, <2>3
<1> QED BY <1>3, <1>4, <1>5, <1>7, <1>8 DEF p, R

\* The receiver parses an ACK or a CLOSE frame.
LEMMA RcvPop ==
  ASSUME NEW s \in Side, NEW c \in Session, NEW d, NEW q \in Seq(Frame),
         NEW m \in Nat, NEW g \in Seq(Nat), NEW e, NEW ps, NEW pp,
         Flow(s, c, d, q, m, g, e, ps, pp), ps,
         q # <<>>, Head(q).cmd \in {"ACK", "CLOSE"}
  PROVE  /\ Flow(s, c, d, Tail(q), m, g, e, ps, pp)
         /\ c.status # "NONE"
<1>1. Head(q) = q[1]
  BY Parsed
<1>2. c.status # "NONE"
  BY <1>1 DEF Flow, Towards, Lead
<1>3. ~IsData(Head(q))
  BY DEF IsData
<1>4. ASSUME c.status # "DESTROY" PROVE Towards(s, c, d, Tail(q), m, g, pp)
  <2>1. Towards(s, c, d, q, m, g, pp)
    BY <1>4 DEF Flow
  <2>2. Lead(c.status, Tail(q))
    BY <1>2 DEF Lead
  <2> QED BY <1>2, <1>3, <2>1, <2>2, PopOther DEF Towards
<1>5. Opened(s, c.status, Tail(q))
  BY OpenedStays DEF Flow
<1> QED BY <1>2, <1>4, <1>5 DEF Flow

\* The server makes the session.
LEMMA RcvConnect ==
  ASSUME NEW c \in Session, NEW c2 \in Session, NEW d, NEW q \in Seq(Frame),
         NEW m \in Nat, NEW g \in Seq(Nat), NEW e, NEW ps, NEW pp,
         Flow("server", c, d, q, m, g, e, ps, pp), ps,
         q # <<>>, Head(q).cmd = "CONNECT",
         c2.status = "HANDSHAKE", c2.listed, c2.writes = <<>>, c2.queue = <<>>,
         c2.waiting, ~c2.asyncWriting, ~c2.closeFuture
  PROVE  Flow("server", c2, d, Tail(q), m, g, e, ps, pp)
<1>1. Head(q) = q[1] /\ 1 \in DOMAIN q
  BY Parsed
<1>2. c.status = "NONE" /\ e # "peer"
  BY <1>1 DEF Flow, Opened, Closed
<1>3. ~IsData(Head(q))
  BY DEF IsData
<1>4. Towards("server", c, d, q, m, g, pp) /\ Rx("server", c, g, m)
  BY <1>2 DEF Flow
<1>5. Fresh("server", c) /\ Fresh("server", c2) /\ g = <<>> /\ Run(g, 0)
  BY <1>2, <1>4 DEF Fresh, Rx
<1>6. Reached("server", c, g) = -1 /\ Reached("server", c2, g) = -1 /\ Held(c2) = 0
  BY <1>5 DEF Reached, Held
<1>7. Rx("server", c2, g, m)
  <2>1. Len(g) = 0 /\ Run(<<>>, 0)
    BY <1>5 DEF Run
  <2> QED BY <1>5, <1>6, <2>1 DEF Rx
<1>8. "server" \in Side
  BY DEF Side
<1>9. /\ Line(-1, Tail(q), m) /\ AtEnd("server", c, d, Tail(q), m, g)
      /\ Unsent("server", c, q, m) => Unsent("server", c, Tail(q), m)
      /\ Full(-1, q, m, Len(q)) => Full(-1, Tail(q), m, Len(Tail(q)))
  BY <1>3, <1>4, <1>6, <1>8, PopOther DEF Towards
<1>10. /\ Unsent("server", c, q, m) => Unsent("server", c2, Tail(q), m)
       /\ AtEnd("server", c2, d, Tail(q), m, g)
  <2>1. Unsent("server", c2, Tail(q), m) <=> Unsent("server", c, Tail(q), m)
    BY <1>5 DEF Unsent
  <2> QED BY <1>6, <1>9, <2>1 DEF AtEnd
<1>11. Towards("server", c2, d, Tail(q), m, g, pp)
  BY <1>4, <1>6, <1>9, <1>10 DEF Towards, Lead
<1>12. Opened("server", c2.status, Tail(q))
  BY <1>8, OpenedStays DEF Flow
<1> QED BY <1>2, <1>7, <1>11, <1>12 DEF Flow, Closed

\* The receiver takes the number that the channel begins with.
LEMMA RcvTake ==
  ASSUME NEW s \in Side, NEW c \in Session, NEW c2 \in Session, NEW d, NEW q \in Seq(Frame),
         NEW m \in Nat, NEW g \in Seq(Nat), NEW e, NEW ps, NEW pp,
         Flow(s, c, d, q, m, g, e, ps, pp), ps, q # <<>>, Head(q).cmd = "DATA",
         c.status \notin {"NONE", "DESTROY"}, c2.status \notin {"NONE", "DESTROY"},
         Rx(s, c2, g, m), ~Fresh(s, c2), Reached(s, c2, g) = Reached(s, c, g) + 1,
         c2.closeFuture = c.closeFuture
  PROVE  Flow(s, c2, d, Tail(q), m, g, e, ps, pp)
<1> DEFINE p == Tail(q)
           R == Reached(s, c, g)
<1>1. R \in Int
  BY ReachedType
<1>2. /\ Len(q) \in Nat /\ DOMAIN q = 1..Len(q) /\ DOMAIN p = 1..(Len(q) - 1)
      /\ Len(p) = Len(q) - 1
      /\ \A k \in 1..(Len(q) - 1) : p[k] = q[k + 1]
      /\ Head(q) = q[1] /\ 1 \in DOMAIN q
  BY FrameFacts, Parsed
<1>3. /\ Line(R, q, m) /\ AtEnd(s, c, d, q, m, g)
      /\ pp /\ d # "DESTROY" =>
           IF s = "server" /\ d = "HANDSHAKE" THEN Unsent(s, c, q, m)
                                              ELSE Full(R, q, m, Len(q))
      /\ c.closeFuture => R = m
  BY DEF Flow, Towards
<1>4. IsData(Head(q)) /\ Len(q) \in 1..Len(q)
  BY <1>2 DEF IsData
<1>5. /\ R + 1 <= m
      /\ Line(R + 1, p, m)
      /\ \A n \in 1..Len(q) : Full(R, q, m, n) => Full(R + 1, p, m, n - 1)
  BY <1>1, <1>3, <1>4, LineParseData
<1>6. ~Unsent(s, c, q, m)
  BY <1>2, <1>4 DEF Unsent
<1>7. ~c2.closeFuture
  BY <1>1, <1>3, <1>5
<1> HIDE DEF p, R
<1>8. AtEnd(s, c2, d, p, m, g)
  <2> SUFFICES ASSUME NEW k \in DOMAIN p, p[k].cmd = "CLOSE"
               PROVE  /\ k = Len(p) /\ d = "DESTROY" /\ Full(R + 1, p, m, k - 1)
    BY DEF AtEnd, R
  <2>1. k + 1 \in DOMAIN q /\ q[k + 1].cmd = "CLOSE"
    BY <1>2
  <2>2. k + 1 = Len(q) /\ d = "DESTROY" /\ Full(R, q, m, (k + 1) - 1)
    BY <1>3, <1>6, <2>1 DEF AtEnd, R
  <2>3. k \in 1..Len(q) /\ (k + 1) - 1 = k /\ k = Len(p)
    BY <1>2, <2>2
  <2> QED BY <1>5, <2>2, <2>3
<1>9. pp /\ d # "DESTROY" =>
        /\ ~(s = "server" /\ d = "HANDSHAKE")
        /\ Full(R + 1, p, m, Len(p))
  BY <1>2, <1>3, <1>4, <1>5, <1>6
<1>10. Towards(s, c2, d, p, m, g, pp)
  BY <1>5, <1>7, <1>8, <1>9 DEF Towards, Lead, R
<1>11. Opened(s, c2.status, p)
  BY OpenedStays DEF Flow, p
<1> QED BY <1>10, <1>11 DEF Flow, Closed, p

\* A run followed by a run that goes on where it ends.
LEMMA RunConcat ==
  ASSUME NEW a \in Seq(Nat), NEW b \in Seq(Nat), NEW n \in Nat,
         Run(a, n), Run(b, n + Len(a))
  PROVE  /\ a \o b \in Seq(Nat) /\ Len(a \o b) = Len(a) + Len(b)
         /\ Run(a \o b, n)
<1>1. /\ a \o b \in Seq(Nat) /\ Len(a \o b) = Len(a) + Len(b)
      /\ Len(a) \in Nat /\ Len(b) \in Nat
      /\ DOMAIN a = 1..Len(a) /\ DOMAIN b = 1..Len(b)
      /\ DOMAIN (a \o b) = 1..(Len(a) + Len(b))
  OBVIOUS
<1>2. \A i \in 1..(Len(a) + Len(b)) :
        (a \o b)[i] = IF i <= Len(a) THEN a[i] ELSE b[i - Len(a)]
  OBVIOUS
<1>3. ASSUME NEW i \in 1..(Len(a) + Len(b)) PROVE (a \o b)[i] = n + i
  <2>1. CASE i <= Len(a)
    <3>1. i \in 1..Len(a)
      BY <1>1, <2>1
    <3> QED BY <1>1, <1>2, <2>1, <3>1 DEF Run
  <2>2. CASE ~(i <= Len(a))
    <3>1. i - Len(a) \in 1..Len(b)
      BY <1>1, <2>2
    <3>2. b[i - Len(a)] = (n + Len(a)) + (i - Len(a))
      BY <1>1, <3>1 DEF Run
    <3>3. (n + Len(a)) + (i - Len(a)) = n + i
      BY <1>1
    <3> QED BY <1>2, <2>2, <3>2, <3>3
  <2> QED BY <2>1, <2>2
<1> QED BY <1>1, <1>3 DEF Run

\* The chain of the receiver is in one place: who waits for data, or has a
\* sent handler to run, writes nothing.
LEMMA OneWrite ==
  ASSUME NEW c \in Session, ReceiverToken(c) <= 1
  PROVE  /\ c.waiting \/ c.sentAck > 0 \/ ReceiverToken(c) = 0 => c.writes = <<>>
         /\ ReceiverToken(c) = 0 => ~c.waiting
         /\ c.sentAck > 0 => ~c.waiting
         /\ c.writes # <<>> => ~c.waiting /\ Tail(c.writes) = <<>> /\ Head(c.writes) = c.writes[1]
                               /\ c.writes[1] \in Write
<1>1. /\ c.writes \in Seq(Write) /\ c.sentAck \in Nat /\ c.waiting \in BOOLEAN
      /\ Len(c.writes) \in Nat
  BY DEF Session
<1>2. Len(c.writes) + c.sentAck + (IF c.waiting THEN 1 ELSE 0) = ReceiverToken(c)
  BY DEF ReceiverToken
<1>3. c.writes # <<>> => Len(c.writes) >= 1
  BY <1>1
<1>4. c.writes # <<>> => Len(c.writes) = 1 /\ ~c.waiting /\ c.sentAck = 0
  <2> DEFINE n == Len(c.writes)
             t == IF c.waiting THEN 1 ELSE 0
  <2>1. n \in Nat /\ c.sentAck \in Nat /\ t \in {0, 1} /\ n + c.sentAck + t <= 1
    BY <1>1, <1>2
  <2>2. c.waiting => t = 1
    OBVIOUS
  <2> HIDE DEF n, t
  <2>3. n >= 1 => n = 1 /\ c.sentAck = 0 /\ t = 0
    BY <2>1
  <2> QED BY <1>3, <2>2, <2>3 DEF n
<1>5. Len(c.writes) = 1 => Tail(c.writes) = <<>> /\ Head(c.writes) = c.writes[1]
                           /\ c.writes[1] \in Write
  <2>1. ASSUME NEW r \in Seq(Write), Len(r) = 1
        PROVE  Tail(r) = <<>> /\ Head(r) = r[1] /\ r[1] \in Write
    <3>1. r # <<>>
      <4>1. Len(<<>>) = 0 /\ 0 # 1
        OBVIOUS
      <4> QED BY <2>1, <4>1
    <3>2. r[1] \in Write /\ Head(r) = r[1]
      BY <2>1, <3>1
    <3>3. Tail(r) \in Seq(Write) /\ Len(Tail(r)) = 0
      BY <2>1, <3>1
    <3>4. Tail(r) = <<>>
      BY <3>3, EmptySeq
    <3> QED BY <3>2, <3>4
  <2> QED BY <1>1, <2>1
<1>6. ReceiverToken(c) = 0 \/ c.sentAck > 0 => ~c.waiting
  BY <1>1, <1>2
<1> QED BY <1>1, <1>2, <1>4, <1>5, <1>6

\* ReadDataCache::async_read of a session that relays and writes nothing: it
\* waits, or begins to write the whole queue.
LEMMA CacheReadRx ==
  ASSUME NEW s \in Side, NEW c \in Session, NEW g \in Seq(Nat), NEW m \in Nat,
         Rx(s, c, g, m), c.status = "FORWARD", c.writes = <<>>
  PROVE  LET c2 == CacheRead(c) IN
         /\ Rx(s, c2, g, m) /\ Reached(s, c2, g) = Reached(s, c, g)
         /\ c2.status = "FORWARD" /\ c2.closeFuture = c.closeFuture
         /\ c2.listed = c.listed
<1>1. Held(c) = 0 /\ Len(g) \in Nat /\ c.queue \in Seq(Nat) /\ Len(c.queue) \in Nat
      /\ c.pushAck \in Nat /\ ~Fresh(s, c)
  BY DEF Held, Session, Fresh
<1>2. /\ Reached(s, c, g) = Len(g) + Len(c.queue) /\ Len(g) + Len(c.queue) <= m
      /\ Run(g, 0) /\ Len(g) <= m /\ Run(c.queue, Len(g)) /\ c.listed
      /\ c.waiting => c.queue = <<>>
  BY <1>1 DEF Rx, Reached
<1>3. CASE c.queue = <<>>
  <2> DEFINE c2 == [c EXCEPT !.waiting = TRUE]
  <2>1. CacheRead(c) = c2
    BY <1>3 DEF CacheRead
  <2>2. /\ c2.status = "FORWARD" /\ c2.listed = c.listed /\ c2.writes = <<>>
        /\ c2.queue = <<>> /\ c2.waiting /\ c2.closeFuture = c.closeFuture
    BY <1>3 DEF Session
  <2> HIDE DEF c2
  <2>3. Held(c2) = 0 /\ ~Fresh(s, c2)
    BY <2>2 DEF Held, Fresh
  <2>4. Reached(s, c2, g) = Reached(s, c, g)
    BY <1>1, <1>2, <1>3, <2>2, <2>3 DEF Reached
  <2>5. Rx(s, c2, g, m)
    BY <1>1, <1>2, <1>3, <2>2, <2>3, <2>4 DEF Rx
  <2> QED BY <2>1, <2>2, <2>4, <2>5
<1>4. CASE c.queue # <<>>
  <2> DEFINE w == [data |-> c.queue, ack |-> c.pushAck]
             ws == Append(c.writes, w)
             c2 == [c EXCEPT !.asyncWriting = TRUE, !.writes = ws,
                             !.queue = <<>>, !.pushAck = 0]
  <2>1. CacheRead(c) = c2
    BY <1>4 DEF CacheRead, ReadHandler, StartWrite, Session
  <2>2. ws # <<>> /\ ws[1].data = c.queue
    OBVIOUS
  <2> HIDE DEF ws
  <2>3. /\ c2.status = "FORWARD" /\ c2.listed = c.listed /\ c2.writes = ws
        /\ c2.queue = <<>> /\ c2.waiting = c.waiting /\ c2.closeFuture = c.closeFuture
        /\ c2.asyncWriting
    BY DEF Session
  <2> HIDE DEF c2
  <2>4. Held(c2) = Len(c.queue) /\ ~Fresh(s, c2)
    BY <2>2, <2>3 DEF Held, Fresh
  <2>5. Reached(s, c2, g) = Reached(s, c, g)
    <3>1. Len(<<>>) = 0
      OBVIOUS
    <3> QED BY <1>1, <1>2, <2>3, <2>4, <3>1 DEF Reached
  <2>6. Rx(s, c2, g, m)
    <3>1. Run(<<>>, Len(g) + Len(c.queue))
      BY DEF Run
    <3> QED BY <1>1, <1>2, <1>4, <2>2, <2>3, <2>4, <2>5, <3>1 DEF Rx
  <2> QED BY <2>1, <2>3, <2>5, <2>6
<1> QED BY <1>3, <1>4

\* ReadDataCache::push_data of the number that comes next: the request opens
\* the server session, what follows is written at once or queued.
LEMMA PushDataRx ==
  ASSUME NEW s \in Side, NEW c \in Session, NEW g \in Seq(Nat), NEW m \in Nat,
         Chains(s, c), Rx(s, c, g, m), c.listed, Reached(s, c, g) + 1 <= m,
         NEW x \in Int, x = Reached(s, c, g) + 1, NEW c2, c2 = PushData(c, <<x>>)
  PROVE  /\ Rx(s, c2, g, m) /\ Reached(s, c2, g) = Reached(s, c, g) + 1
         /\ ~Fresh(s, c2) /\ c2.status \notin {"NONE", "DESTROY"}
         /\ s # "server" => c2.status = c.status
         /\ c2.closeFuture = c.closeFuture
<1> DEFINE R == Reached(s, c, g)
<1>0. c.status \in Status /\ c.status \notin {"NONE", "DESTROY"}
  BY DEF Rx, Session
<1>1. /\ Held(c) \in Nat /\ Len(g) \in Nat /\ c.queue \in Seq(Nat) /\ Len(c.queue) \in Nat
      /\ R \in Int /\ R + 1 <= m
  BY ReachedType DEF Session
<1>2. /\ Run(g, 0) /\ Len(g) + Held(c) <= m /\ Run(c.queue, Len(g) + Held(c))
      /\ c.writes # <<>> => Run(c.writes[1].data, Len(g)) /\ c.asyncWriting
      /\ Fresh(s, c) => g = <<>> /\ c.writes = <<>> /\ c.queue = <<>> /\ ~c.asyncWriting
      /\ s = "server" /\ c.status = "HANDSHAKE" => c.waiting
      /\ c.waiting => c.queue = <<>>
      /\ s = "client" => c.status \notin {"NONE", "QUERIED"}
  BY <1>0 DEF Rx
<1>3. /\ c.waiting => c.writes = <<>>
      /\ s = "client" /\ c.status = "HANDSHAKE" => ~c.waiting
      /\ c.status = "QUERIED" => ~c.waiting
  BY OneWrite DEF Chains
<1>4. CASE c.waiting /\ c.status = "FORWARD"
  <2> DEFINE w == [data |-> <<R + 1>>, ack |-> 1]
             ws == Append(c.writes, w)
  <2>1. c2 = [c EXCEPT !.waiting = FALSE, !.asyncWriting = TRUE, !.writes = ws]
    BY <1>4 DEF PushData, ReadHandler, StartWrite, Session
  <2>2. ws # <<>> /\ ws[1].data = <<R + 1>>
    <3>1. c.writes = <<>>
      BY <1>3, <1>4
    <3> QED BY <3>1
  <2> HIDE DEF ws
  <2>3. /\ c2.status = "FORWARD" /\ c2.listed /\ c2.writes = ws
        /\ c2.queue = <<>> /\ ~c2.waiting /\ c2.closeFuture = c.closeFuture
        /\ c2.asyncWriting
    BY <1>2, <1>4, <2>1 DEF Session
  <2>4. Held(c2) = 1 /\ ~Fresh(s, c2)
    BY <2>2, <2>3 DEF Held, Fresh
  <2>5. Held(c) = 0 /\ Len(c.queue) = 0 /\ ~Fresh(s, c) /\ R = Len(g)
    <3>1. Held(c) = 0 /\ Len(c.queue) = 0 /\ ~Fresh(s, c)
      BY <1>2, <1>3, <1>4 DEF Held, Fresh
    <3> QED BY <1>1, <3>1 DEF Reached
  <2> HIDE DEF R
  <2>6. Reached(s, c2, g) = R + 1
    <3>1. Len(<<>>) = 0
      OBVIOUS
    <3>2. Reached(s, c2, g) = Len(g) + Held(c2) + Len(c2.queue)
      BY <2>4 DEF Reached
    <3>3. Len(g) \in Nat /\ Held(c2) = 1 /\ Len(c2.queue) = 0 /\ R = Len(g)
      BY <1>1, <2>3, <2>4, <2>5, <3>1
    <3> HIDE DEF w
    <3>4. Len(g) + Held(c2) + Len(c2.queue) = Len(g) + 1 + 0
      BY <3>3
    <3>5. Len(g) + 1 + 0 = R + 1
      BY <3>3
    <3> QED BY <3>2, <3>4, <3>5
  <2>7. Run(<<R + 1>>, Len(g)) /\ Run(<<>>, Len(g) + 1)
    BY <1>1, <2>5 DEF Run
  <2>8. Rx(s, c2, g, m)
    BY <1>1, <1>2, <2>2, <2>3, <2>4, <2>5, <2>6, <2>7 DEF Rx
  <2> QED BY <1>4, <2>3, <2>4, <2>6, <2>8 DEF R
<1>5. CASE c.waiting /\ c.status = "HANDSHAKE"
  <2>1. s = "server" /\ Fresh(s, c)
    BY <1>3, <1>5 DEF Side, Fresh
  <2>2. c2 = [c EXCEPT !.waiting = FALSE, !.status = "QUERIED"]
    BY <1>5 DEF PushData, ReadHandler, Session
  <2>3. /\ c2.status = "QUERIED" /\ c2.listed /\ c2.writes = <<>>
        /\ c2.queue = <<>> /\ ~c2.waiting /\ c2.closeFuture = c.closeFuture
    BY <1>2, <2>1, <2>2 DEF Session
  <2>4. R = -1 /\ g = <<>> /\ Held(c2) = 0 /\ ~Fresh(s, c2)
    BY <1>2, <2>1, <2>3 DEF Reached, Held, Fresh
  <2>5. Len(<<>>) = 0 /\ Len(g) = 0
    BY <2>4
  <2> HIDE DEF R
  <2>6. Reached(s, c2, g) = R + 1
    BY <2>3, <2>4, <2>5 DEF Reached
  <2>7. Run(<<>>, 0)
    BY DEF Run
  <2>8. Rx(s, c2, g, m)
    BY <1>1, <1>2, <2>1, <2>3, <2>4, <2>5, <2>6, <2>7 DEF Rx
  <2> QED BY <2>1, <2>3, <2>4, <2>6, <2>8 DEF R
<1>6. CASE ~c.waiting
  <2> DEFINE qs == c.queue \o <<R + 1>>
             n == c.pushAck + 1
  <2>1. c2 = [c EXCEPT !.pushAck = n, !.queue = qs]
    BY <1>6 DEF PushData
  <2>2. ~Fresh(s, c)
    BY <1>0, <1>2, <1>6 DEF Fresh
  <2>3. R = Len(g) + Held(c) + Len(c.queue) /\ R \in Nat /\ R + 1 \in Nat
    BY <1>1, <2>2 DEF Reached
  <2> HIDE DEF R
  <2>4. Run(qs, Len(g) + Held(c)) /\ Len(qs) = Len(c.queue) + 1
    <3> DEFINE r == <<R + 1>>
               b == Len(g) + Held(c)
    <3>1. r \in Seq(Nat) /\ Len(r) = 1
      BY <2>3
    <3>2. b \in Nat /\ Run(r, b + Len(c.queue))
      BY <1>1, <2>3 DEF Run
    <3>3. Run(c.queue, b) /\ qs = c.queue \o r
      BY <1>2
    <3> HIDE DEF qs, r, b
    <3>4. Run(qs, b) /\ Len(qs) = Len(c.queue) + Len(r)
      BY <1>1, <3>1, <3>2, <3>3, RunConcat
    <3> QED BY <3>1, <3>4 DEF b
  <2> HIDE DEF qs, n
  <2>5. /\ c2.status = c.status /\ c2.listed /\ c2.writes = c.writes
        /\ c2.queue = qs /\ ~c2.waiting /\ c2.closeFuture = c.closeFuture
        /\ c2.asyncWriting = c.asyncWriting
    BY <1>6, <2>1 DEF Session
  <2>6. Held(c2) = Held(c) /\ ~Fresh(s, c2)
    BY <2>2, <2>5 DEF Held, Fresh
  <2>7. Reached(s, c2, g) = R + 1
    <3>1. Reached(s, c2, g) = Len(g) + Held(c2) + Len(c2.queue)
      BY <2>6 DEF Reached
    <3>2. /\ Len(g) \in Nat /\ Held(c) \in Nat /\ Len(c.queue) \in Nat /\ Held(c2) = Held(c)
          /\ Len(c2.queue) = Len(c.queue) + 1 /\ R = Len(g) + Held(c) + Len(c.queue)
      BY <1>1, <2>3, <2>4, <2>5, <2>6
    <3>3. Len(g) + Held(c2) + Len(c2.queue) = R + 1
      BY <3>2
    <3> QED BY <3>1, <3>3
  <2>8. s = "server" => c2.status # "HANDSHAKE"
    BY <2>6 DEF Fresh
  <2>9. Rx(s, c2, g, m)
    BY <1>0, <1>1, <1>2, <2>4, <2>5, <2>6, <2>7, <2>8 DEF Rx
  <2> QED BY <1>0, <2>5, <2>6, <2>7, <2>9 DEF R
<1> QED BY <1>0, <1>3, <1>4, <1>5, <1>6 DEF Status

\* The write under way is over: its data is the next of the stream.
LEMMA WrittenRx ==
  ASSUME NEW s \in Side, NEW c \in Session, NEW c2 \in Session, NEW g \in Seq(Nat), NEW m \in Nat,
         ReceiverToken(c) <= 1, Rx(s, c, g, m), c.writes # <<>>,
         c2.writes = <<>>, c2.queue = c.queue, c2.waiting = c.waiting,
         c2.status = c.status, c2.listed = c.listed
  PROVE  LET g2 == g \o Head(c.writes).data IN
         /\ g2 \in Seq(Nat) /\ Rx(s, c2, g2, m)
         /\ Len(g2) = Len(g) + Held(c)
         /\ c.status # "DESTROY" => Reached(s, c2, g2) = Reached(s, c, g) /\ ~Fresh(s, c)
<1> DEFINE w == c.writes[1].data
           g2 == g \o w
<1>1. Head(c.writes).data = w /\ w \in Seq(Nat) /\ ~c.waiting
  BY OneWrite DEF Write
<1>2. Held(c) = Len(w) /\ Held(c2) = 0 /\ Len(g) \in Nat /\ Len(w) \in Nat
      /\ Len(c.queue) \in Nat
  <2>1. c.queue \in Seq(Nat)
    BY DEF Session
  <2>2. Held(c) = Len(w) /\ Held(c2) = 0
    BY DEF Held
  <2> QED BY <1>1, <2>1, <2>2
<1>3. Run(g, 0) /\ Run(w, Len(g)) /\ Len(g) + Held(c) <= m
  BY DEF Rx
<1>4. g2 \in Seq(Nat) /\ Len(g2) = Len(g) + Len(w) /\ Run(g2, 0)
  <2>1. 0 + Len(g) = Len(g)
    BY <1>2
  <2> QED BY <1>1, <1>2, <1>3, <2>1, RunConcat
<1> HIDE DEF g2, w
<1>5. ASSUME c.status # "DESTROY" PROVE Reached(s, c2, g2) = Reached(s, c, g) /\ ~Fresh(s, c)
  <2>1. ~Fresh(s, c) /\ ~Fresh(s, c2)
    BY <1>5 DEF Rx, Fresh
  <2> QED BY <1>2, <1>4, <2>1 DEF Reached
<1>6. Len(g2) + Held(c2) <= m /\ Len(g2) + Held(c2) = Len(g) + Held(c)
  BY <1>2, <1>3, <1>4
<1>7. Rx(s, c2, g2, m)
  BY <1>1, <1>3, <1>4, <1>5, <1>6 DEF Rx, Fresh
<1> QED BY <1>1, <1>2, <1>4, <1>5, <1>7 DEF g2

-----------------------------------------------------------------------------
(* Every step keeps both directions.                                         *)

\* The queue of a destroyed session that still dials goes on where the target
\* has been written to; a CLOSE that took effect at once found it empty.
Late(c, g, m, e) ==
  Dialing("server", c) =>
    /\ Run(c.queue, Len(g)) /\ Len(g) + Len(c.queue) <= m
    /\ e = "peer" => c.queue = <<>>
LateOf == Late(ses["server"], got["server"], made["client"], ending["server"])

FlowInv == ChainInv /\ (\A s \in Side : FlowOf(s)) /\ LateOf

\* pre_call_ack_func, and the ACK frame that lets a read through, leave the
\* receiver's part of the session alone.
LEMMA GatedReadSame ==
  ASSUME NEW c \in Session, NEW n \in Nat
  PROVE  SameRx(c, GatedRead(c)) /\ SameRx(c, RecvAck(c, n))
<1>1. ASSUME NEW d \in Session PROVE SameRx(d, GatedRead(d))
  <2>1. CASE d.firstCall
    BY <2>1 DEF GatedRead, SameRx, Session
  <2>2. CASE ~d.firstCall /\ d.credit = 0
    BY <2>2 DEF GatedRead, SameRx, Session
  <2>3. CASE ~d.firstCall /\ d.credit # 0
    BY <2>3 DEF GatedRead, SameRx, Session
  <2> QED BY <2>1, <2>2, <2>3
<1>2. SameRx(c, RecvAck(c, n))
  <2> DEFINE k == c.credit + n
             d == [c EXCEPT !.credit = k]
  <2>1. k \in Nat
    BY DEF Session
  <2> HIDE DEF k
  <2>2. d \in Session /\ SameRx(c, d)
    BY <2>1 DEF Session, SameRx
  <2>3. RecvAck(c, n) = IF d.waitAck THEN GatedRead(d) ELSE d
    BY DEF RecvAck, k
  <2> HIDE DEF d
  <2>4. SameRx(d, GatedRead(d))
    BY <1>1, <2>2
  <2> QED BY <2>2, <2>3, <2>4 DEF SameRx
<1> QED BY <1>1, <1>2

\* The two ends, and what they hold.
LEMMA Ends ==
  ASSUME TypeOK, NEW s \in Side
  PROVE  /\ Peer(s) \in Side /\ Peer(s) # s /\ Peer(Peer(s)) = s
         /\ \A t \in Side : t = s \/ t = Peer(s)
         /\ ses[s] \in Session /\ chan[s] \in Seq(Frame) /\ made[s] \in Nat
         /\ got[s] \in Seq(Nat)
         /\ ses[Peer(s)] \in Session /\ chan[Peer(s)] \in Seq(Frame)
         /\ made[Peer(s)] \in Nat /\ got[Peer(s)] \in Seq(Nat)
<1>1. Peer(s) \in Side /\ Peer(s) # s /\ Peer(Peer(s)) = s /\ \A t \in Side : t = s \/ t = Peer(s)
  BY DEF Peer, Side
<1> QED BY <1>1 DEF TypeOK

\* One end of an array over the two ends is given a new value.
LEMMA SetEnd ==
  ASSUME NEW f, DOMAIN f = Side, NEW s \in Side, NEW v
  PROVE  /\ [f EXCEPT ![s] = v][s] = v
         /\ [f EXCEPT ![s] = v][Peer(s)] = f[Peer(s)]
<1>1. Peer(s) \in Side /\ Peer(s) # s
  BY DEF Peer, Side
<1> QED BY <1>1

\* The arrays are over the two ends.
LEMMA Arrays ==
  ASSUME TypeOK
  PROVE  /\ DOMAIN ses = Side /\ DOMAIN chan = Side /\ DOMAIN pipe = Side
         /\ DOMAIN made = Side /\ DOMAIN got = Side /\ DOMAIN ending = Side
BY DEF TypeOK

\* The invariant, of both directions of an end.
LEMMA BothFlows ==
  ASSUME FlowInv, NEW s \in Side
  PROVE  LET o == Peer(s) IN
         /\ Flow(s, ses[s], ses[o].status, chan[o], made[o], got[s], ending[s], pipe[s], pipe[o])
         /\ Flow(o, ses[o], ses[s].status, chan[s], made[s], got[o], ending[o], pipe[o], pipe[s])
         /\ Chains(s, ses[s]) /\ TypeOK
<1>1. Peer(s) \in Side /\ Peer(Peer(s)) = s /\ TypeOK
  BY Ends DEF FlowInv, ChainInv
<1> QED BY <1>1 DEF FlowInv, ChainInv, FlowOf

\* A session that is alive is on a pipeline that is.
LEMMA AlivePipe ==
  ASSUME NEW s, NEW c, NEW d, NEW q, NEW m, NEW g, NEW e, NEW ps, NEW pp,
         Flow(s, c, d, q, m, g, e, ps, pp), c.status \notin {"NONE", "DESTROY"}
  PROVE  ps /\ c.listed
BY DEF Flow, Rx

\* The socks client is done and the request goes out.
LEMMA RequestRemoteFlow ==
  ASSUME FlowInv, RequestRemote, TypeOK' PROVE \A s \in Side : FlowOf(s)'
<1> DEFINE c == ses["client"]
           o == ses["server"]
           r == c.reading - 1
           c1 == [c EXCEPT !.status = "FORWARD", !.reading = r]
           k == CacheRead(c1)
           c2 == [k EXCEPT !.sentData = @ + 1]
<1>1. /\ "client" \in Side /\ Peer("client") = "server" /\ Peer("server") = "client"
      /\ \A s \in Side : s = "client" \/ s = "server"
  BY DEF Side, Peer
<1>2. /\ c \in Session /\ o \in Session /\ chan["client"] \in Seq(Frame)
      /\ chan["server"] \in Seq(Frame)
      /\ made["client"] \in Nat /\ got["client"] \in Seq(Nat)
      /\ made["server"] \in Nat /\ got["server"] \in Seq(Nat)
  BY <1>1, BothFlows, Ends
<1>3. /\ Flow("client", c, o.status, chan["server"], made["server"], got["client"],
              ending["client"], pipe["client"], pipe["server"])
      /\ Flow("server", o, c.status, chan["client"], made["client"], got["server"],
              ending["server"], pipe["server"], pipe["client"])
      /\ Chains("client", c) /\ TypeOK
  BY <1>1, BothFlows
<1>4. /\ c.status = "HANDSHAKE" /\ c.reading > 0
      /\ ses' = [ses EXCEPT !["client"] = c2]
      /\ chan' = [chan EXCEPT !["client"] = Append(chan["client"], Data(<<Req>>))]
      /\ pipe' = pipe /\ made' = made /\ got' = got /\ ending' = ending
  BY <1>1, <1>3 DEF RequestRemote, Push, TypeOK
<1>5. /\ ses'["client"] = c2 /\ ses'["server"] = o
      /\ chan'["client"] = Append(chan["client"], Data(<<Req>>))
      /\ chan'["server"] = chan["server"]
  BY <1>1, <1>3, <1>4, Arrays, SetEnd
<1>6. pipe["client"] /\ c.writes = <<>> /\ ~c.waiting
  <2>1. c.status \notin {"NONE", "DESTROY"} /\ ReceiverToken(c) = 0 /\ ReceiverToken(c) <= 1
    BY <1>3, <1>4 DEF Chains
  <2>2. c.writes = <<>> /\ ~c.waiting
    BY <1>2, <2>1, OneWrite
  <2>3. pipe["client"]
    BY <1>3, <2>1, AlivePipe
  <2> QED BY <2>2, <2>3
<1>7. r \in Nat
  <2>1. c.reading \in Nat /\ c.reading > 0
    BY <1>2, <1>4 DEF Session
  <2> QED BY <2>1
<1> HIDE DEF r
<1>8. /\ c1 \in Session /\ c1.status = "FORWARD" /\ c1.writes = <<>> /\ c1.queue = c.queue
      /\ c1.waiting = c.waiting /\ c1.closeFuture = c.closeFuture
      /\ c1.asyncWriting = c.asyncWriting /\ c1.listed = c.listed
  BY <1>2, <1>6, <1>7 DEF Session, Status
<1> HIDE DEF c1
<1>9. /\ Held(c) = 0 /\ Held(c1) = 0 /\ ~Fresh("client", c) /\ ~Fresh("client", c1)
      /\ Reached("client", c1, got["client"]) = Reached("client", c, got["client"])
  BY <1>6, <1>8 DEF Held, Fresh, Reached
<1>10. Rx("client", c1, got["client"], made["server"])
  <2>1. Rx("client", c, got["client"], made["server"])
    BY <1>3 DEF Flow
  <2> QED BY <1>4, <1>6, <1>8, <1>9, <2>1 DEF Rx
<1>11. /\ Rx("client", k, got["client"], made["server"])
       /\ Reached("client", k, got["client"]) = Reached("client", c1, got["client"])
       /\ k.status = "FORWARD" /\ k.closeFuture = c1.closeFuture /\ k.listed = c1.listed
  BY <1>1, <1>2, <1>8, <1>10, CacheReadRx
<1>12. k \in Session /\ c2 \in Session
  <2>1. k \in Session
    BY <1>8, CacheReadFacts
  <2>2. ses'["client"] \in Session
    BY <1>1 DEF TypeOK
  <2> QED BY <1>5, <2>1, <2>2
<1> HIDE DEF k
<1>13. SameRx(k, c2) /\ c2.status = "FORWARD" /\ c2.listed = c.listed
       /\ c2.closeFuture = c.closeFuture
  BY <1>8, <1>11, <1>12 DEF SameRx, Session
<1> HIDE DEF c2
<1>14. /\ Rx("client", c2, got["client"], made["server"])
       /\ Reached("client", c2, got["client"]) = Reached("client", c, got["client"])
       /\ ~Fresh("client", c2)
  BY <1>9, <1>11, <1>13, SameFacts DEF Fresh
<1> HIDE DEF c, o
<1>15. Flow("client", c2, o.status, chan["server"], made["server"], got["client"],
            ending["client"], pipe["client"], pipe["server"])
  BY <1>1, <1>2, <1>3, <1>4, <1>9, <1>12, <1>13, <1>14, RcvMove
<1>16. Flow("server", o, "FORWARD", Append(chan["client"], Data(<<Req>>)), made["client"],
            got["server"], ending["server"], pipe["server"], pipe["client"])
  BY <1>2, <1>3, <1>4, <1>6, SndReq
<1>17. FlowOf("client")' /\ FlowOf("server")'
  BY <1>1, <1>4, <1>5, <1>13, <1>15, <1>16 DEF FlowOf
<1> QED BY <1>1, <1>17

\* Both directions of an end are kept.
LEMMA BothKept ==
  ASSUME NEW s \in Side,
         Flow(s, ses'[s], ses'[Peer(s)].status, chan'[Peer(s)], made'[Peer(s)], got'[s],
              ending'[s], pipe'[s], pipe'[Peer(s)]),
         Flow(Peer(s), ses'[Peer(s)], ses'[s].status, chan'[s], made'[s], got'[Peer(s)],
              ending'[Peer(s)], pipe'[Peer(s)], pipe'[s])
  PROVE  \A t \in Side : FlowOf(t)'
<1>1. Peer(Peer(s)) = s /\ \A t \in Side : t = s \/ t = Peer(s)
  BY DEF Peer, Side
<1> QED BY <1>1 DEF FlowOf

\* The session of an end that is destroyed changes, and its peer does not.
LEMMA DeadFlow ==
  ASSUME FlowInv, NEW s \in Side, NEW c2, NEW g2, TypeOK',
         ses' = [ses EXCEPT ![s] = c2], ses[s].status = "DESTROY",
         c2.status = "DESTROY", ~c2.listed, Rx(s, c2, g2, made[Peer(s)]),
         Closed(c2, ses[Peer(s)].status, made[Peer(s)], g2, ending[s]),
         got'[s] = g2, got'[Peer(s)] = got[Peer(s)],
         UNCHANGED <<chan, pipe, made, ending>>
  PROVE  \A t \in Side : FlowOf(t)'
<1> DEFINE o == Peer(s)
           c == ses[s]
<1>1. /\ Flow(s, c, ses[o].status, chan[o], made[o], got[s], ending[s], pipe[s], pipe[o])
      /\ Flow(o, ses[o], c.status, chan[s], made[s], got[o], ending[o], pipe[o], pipe[s])
      /\ TypeOK
  BY BothFlows
<1>2. ses'[s] = c2 /\ ses'[o] = ses[o]
  BY <1>1, Arrays, SetEnd
<1>3. Flow(s, c2, ses[o].status, chan[o], made[o], g2, ending[s], pipe[s], pipe[o])
  BY <1>1 DEF Flow
<1> QED BY <1>1, <1>2, <1>3, BothKept

\* A session that writes relays or is destroyed.
LEMMA WriterStatus ==
  ASSUME FlowInv, NEW s \in Side, ses[s].writes # <<>>
  PROVE  ses[s].status \in {"FORWARD", "DESTROY"}
<1> DEFINE c == ses[s]
<1>1. c \in Session /\ Chains(s, c) /\ Rx(s, c, got[s], made[Peer(s)])
  BY BothFlows, Ends DEF Flow
<1>2. c.status \in Status /\ c.writes \in Seq(Write) /\ c.sentAck \in Nat
  BY <1>1 DEF Session
<1>3. ReceiverToken(c) > 0
  <2>1. Len(c.writes) > 0
    BY <1>2
  <2> HIDE DEF c
  <2> QED BY <1>2, <2>1 DEF ReceiverToken
<1>4. s = "client" \/ s = "server"
  BY DEF Side
<1> HIDE DEF c
<1>5. c.writes # <<>>
  BY DEF c
<1>6. c.status # "QUERIED" /\ ~(s = "client" /\ c.status = "HANDSHAKE")
  BY <1>1, <1>3 DEF Chains
<1>7. ~Fresh(s, c)
  BY <1>1, <1>5 DEF Rx, Fresh
<1>8. ~(s = "client" /\ c.status = "NONE")
  BY <1>1 DEF Rx
<1> QED BY <1>2, <1>4, <1>6, <1>7, <1>8 DEF Status, Fresh, c

\* The sent handler of a DATA frame asks for the next read.
LEMMA DataSentFlow ==
  ASSUME FlowInv, NEW s \in Side, DataSent(s), TypeOK' PROVE \A t \in Side : FlowOf(t)'
<1> DEFINE o == Peer(s)
           c == ses[s]
<1>1. /\ o \in Side /\ Peer(o) = s /\ \A t \in Side : t = s \/ t = o
      /\ c \in Session /\ ses[o] \in Session /\ chan[s] \in Seq(Frame) /\ chan[o] \in Seq(Frame)
      /\ made[s] \in Nat /\ got[s] \in Seq(Nat) /\ made[o] \in Nat /\ got[o] \in Seq(Nat)
  BY BothFlows, Ends
<1>2. /\ Flow(s, c, ses[o].status, chan[o], made[o], got[s], ending[s], pipe[s], pipe[o])
      /\ Flow(o, ses[o], c.status, chan[s], made[s], got[o], ending[o], pipe[o], pipe[s])
      /\ Chains(s, c) /\ TypeOK
  BY BothFlows
<1> DEFINE n == c.sentData - 1
           c1 == [c EXCEPT !.sentData = n]
           c2 == IF c1.status = "FORWARD" THEN GatedRead(c1) ELSE c1
<1>3. /\ ses' = [ses EXCEPT ![s] = c2] /\ c.sentData > 0
      /\ chan' = chan /\ pipe' = pipe /\ made' = made /\ got' = got /\ ending' = ending
  BY DEF DataSent
<1>4. n \in Nat
  <2>1. c.sentData \in Nat
    BY <1>1 DEF Session
  <2> QED BY <1>3, <2>1
<1> HIDE DEF n
<1>5. c1 \in Session /\ SameRx(c, c1)
  BY <1>1, <1>4 DEF Session, SameRx
<1> HIDE DEF c1
<1>6. SameRx(c1, GatedRead(c1))
  BY <1>5, GatedReadSame, 0 \in Nat
<1>7. SameRx(c, c2)
  BY <1>5, <1>6 DEF SameRx
<1> HIDE DEF c2
<1>8. ses'[s] = c2 /\ ses'[o] = ses[o] /\ c2 \in Session
  BY <1>1, <1>2, <1>3, Arrays, SetEnd DEF TypeOK
<1> HIDE DEF c, o
<1>9. Flow(s, c2, ses[o].status, chan[o], made[o], got[s], ending[s], pipe[s], pipe[o])
  BY <1>1, <1>2, <1>7, <1>8, RcvSame
<1>10. c2.status = c.status
  BY <1>7 DEF SameRx
<1> QED BY <1>2, <1>3, <1>8, <1>9, <1>10, BothKept DEF c, o

\* A read of the local socket goes out as a DATA frame.
LEMMA LocalReadFlow ==
  ASSUME FlowInv, NEW s \in Side, LocalRead(s), TypeOK' PROVE \A t \in Side : FlowOf(t)'
<1> DEFINE o == Peer(s)
           c == ses[s]
<1>1. /\ o \in Side /\ Peer(o) = s /\ \A t \in Side : t = s \/ t = o
      /\ c \in Session /\ ses[o] \in Session /\ chan[s] \in Seq(Frame) /\ chan[o] \in Seq(Frame)
      /\ made[s] \in Nat /\ got[s] \in Seq(Nat) /\ made[o] \in Nat /\ got[o] \in Seq(Nat)
  BY BothFlows, Ends
<1>2. /\ Flow(s, c, ses[o].status, chan[o], made[o], got[s], ending[s], pipe[s], pipe[o])
      /\ Flow(o, ses[o], c.status, chan[s], made[s], got[o], ending[o], pipe[o], pipe[s])
      /\ Chains(s, c) /\ TypeOK
  BY BothFlows
<1> DEFINE n == c.reading - 1
           k == c.sentData + 1
           c2 == [c EXCEPT !.reading = n, !.sentData = k]
<1>3. /\ ses' = [ses EXCEPT ![s] = c2] /\ c.status = "FORWARD"
      /\ chan' = [chan EXCEPT ![s] = Append(chan[s], Data(<<made[s] + 1>>))]
      /\ made' = [made EXCEPT ![s] = made[s] + 1]
      /\ pipe' = pipe /\ got' = got /\ ending' = ending
  <2>1. DOMAIN chan = Side /\ DOMAIN made = Side
    BY <1>2, Arrays
  <2> QED BY <2>1 DEF LocalRead, Push
<1>4. SameRx(c, c2)
  BY <1>1 DEF Session, SameRx
<1> HIDE DEF c2
<1>5. /\ ses'[s] = c2 /\ ses'[o] = ses[o] /\ c2 \in Session
      /\ chan'[s] = Append(chan[s], Data(<<made[s] + 1>>)) /\ chan'[o] = chan[o]
      /\ made'[s] = made[s] + 1 /\ made'[o] = made[o]
  BY <1>1, <1>2, <1>3, Arrays, SetEnd DEF TypeOK
<1> HIDE DEF c, o
<1>6. c2.status = "FORWARD" /\ pipe[s]
  BY <1>2, <1>3, <1>4, AlivePipe DEF SameRx
<1>7. Flow(s, c2, ses[o].status, chan[o], made[o], got[s], ending[s], pipe[s], pipe[o])
  BY <1>1, <1>2, <1>4, <1>5, RcvSame
<1>8. Flow(o, ses[o], "FORWARD", Append(chan[s], Data(<<made[s] + 1>>)), made[s] + 1, got[o],
           ending[o], pipe[o], pipe[s])
  BY <1>1, <1>2, <1>3, <1>6, SndData
<1> QED BY <1>3, <1>5, <1>6, <1>7, <1>8, BothKept DEF c, o

\* An end that relays or opens is destroyed and tells its peer.
LEMMA TellFlow ==
  ASSUME FlowInv, NEW s \in Side, TypeOK', NEW c1, DestroyAndTell(s, c1),
         c1 \in Session, c1.writes \in {ses[s].writes, <<>>},
         ses[s].status \notin {"NONE", "DESTROY"}, UNCHANGED <<pipe, made, got>>
  PROVE  \A t \in Side : FlowOf(t)'
<1> DEFINE o == Peer(s)
           c == ses[s]
<1>1. /\ o \in Side /\ Peer(o) = s /\ \A t \in Side : t = s \/ t = o
      /\ c \in Session /\ ses[o] \in Session /\ chan[s] \in Seq(Frame) /\ chan[o] \in Seq(Frame)
      /\ made[s] \in Nat /\ got[s] \in Seq(Nat) /\ made[o] \in Nat /\ got[o] \in Seq(Nat)
  BY BothFlows, Ends
<1>2. /\ Flow(s, c, ses[o].status, chan[o], made[o], got[s], ending[s], pipe[s], pipe[o])
      /\ Flow(o, ses[o], c.status, chan[s], made[s], got[o], ending[o], pipe[o], pipe[s])
      /\ Chains(s, c) /\ TypeOK
  BY BothFlows
<1> DEFINE c2 == Destroyed(c1)
<1>3. /\ ses' = [ses EXCEPT ![s] = c2]
      /\ chan' = [chan EXCEPT ![s] = Append(chan[s], Close)]
      /\ ending' = [ending EXCEPT ![s] = "local"]
      /\ pipe' = pipe /\ made' = made /\ got' = got
  <2>1. DOMAIN chan = Side
    BY <1>2, Arrays
  <2> QED BY <2>1 DEF DestroyAndTell, Push
<1>4. c2.status = "DESTROY" /\ ~c2.listed /\ c2.writes \in {c.writes, <<>>}
  BY DEF Destroyed, Session
<1> HIDE DEF c2
<1>5. /\ ses'[s] = c2 /\ ses'[o] = ses[o] /\ c2 \in Session
      /\ chan'[s] = Append(chan[s], Close) /\ chan'[o] = chan[o]
      /\ ending'[s] = "local" /\ ending'[o] = ending[o]
  BY <1>1, <1>2, <1>3, Arrays, SetEnd DEF TypeOK
<1>6. pipe[s] /\ c.status \notin {"NONE", "DESTROY"}
  BY <1>2, AlivePipe
<1> HIDE DEF c, o
<1>7. Rx(s, c, got[s], made[o]) /\ Opened(s, c.status, chan[o])
  BY <1>2, <1>6 DEF Flow
<1>8. Flow(s, c2, ses[o].status, chan[o], made[o], got[s], "local", pipe[s], pipe[o])
  BY <1>1, <1>4, <1>5, <1>6, <1>7, RcvDead
<1>9. Flow(o, ses[o], "DESTROY", Append(chan[s], Close), made[s], got[o], ending[o], pipe[o], pipe[s])
  BY <1>1, <1>2, <1>6, SndClose
<1> QED BY <1>3, <1>4, <1>5, <1>8, <1>9, BothKept DEF c, o

\* The target cannot be reached, the local socket ends, or its write fails.
LEMMA EndFlow ==
  ASSUME FlowInv, TypeOK',
         OutConnectFailed \/ OutConnectTimeout \/ \E s \in Side : LocalReadError(s)
  PROVE  \A t \in Side : FlowOf(t)'
<1>0. "server" \in Side
  BY DEF Side
<1>1. CASE OutConnectFailed
  <2> DEFINE s == "server"
             c == ses[s]
             c1 == [c EXCEPT !.status = "HANDSHAKE"]
             c2 == [c EXCEPT !.late = "no"]
  <2>2. c \in Session
    BY <1>0 DEF FlowInv, ChainInv, TypeOK
  <2>3. CASE c.status = "QUERIED" /\ DestroyAndTell(s, c1)
    <3>1. c1 \in Session /\ c1.writes = c.writes
      BY <2>2 DEF Session, Status
    <3>2. UNCHANGED <<pipe, made, got>> /\ c.status \notin {"NONE", "DESTROY"}
      BY <1>1, <2>3 DEF OutConnectFailed
    <3> HIDE DEF c1
    <3> QED BY <1>0, <2>3, <3>1, <3>2, TellFlow
  <2>4. CASE c.status = "DESTROY" /\ ses' = [ses EXCEPT ![s] = c2] /\ UNCHANGED <<chan, ending>>
    <3>1. UNCHANGED <<pipe, made, got>>
      BY <1>1 DEF OutConnectFailed
    <3>2. SameRx(c, c2) /\ c2.status = "DESTROY"
      BY <2>2, <2>4 DEF SameRx, Session
    <3>3. Rx(s, c, got[s], made[Peer(s)]) /\ Closed(c, ses[Peer(s)].status, made[Peer(s)], got[s], ending[s])
      BY <1>0, BothFlows DEF Flow
    <3> HIDE DEF c2
    <3>6. Rx(s, c2, got[s], made[Peer(s)])
      BY <3>2, <3>3, SameFacts
    <3>4. Rx(s, c2, got[s], made[Peer(s)]) /\ ~c2.listed
      BY <3>2, <3>6 DEF Rx
    <3>5. Closed(c2, ses[Peer(s)].status, made[Peer(s)], got[s], ending[s])
      BY <3>2, <3>3 DEF Closed, SameRx
    <3> QED BY <1>0, <2>4, <3>1, <3>2, <3>4, <3>5, DeadFlow
  <2> QED BY <1>1, <2>3, <2>4 DEF OutConnectFailed
<1>3. CASE OutConnectTimeout
  <2>2. ses["server"] \in Session
    BY <1>0 DEF FlowInv, ChainInv, TypeOK
  <2> QED BY <1>0, <1>3, <2>2, TellFlow DEF OutConnectTimeout
<1>2. ASSUME NEW s \in Side, LocalReadError(s) PROVE \A t \in Side : FlowOf(t)'
  <2> DEFINE c == ses[s]
             n == c.reading - 1
             c1 == [c EXCEPT !.reading = n]
  <2>1. c \in Session
    BY DEF FlowInv, ChainInv, TypeOK
  <2>2. /\ c.status \in {"HANDSHAKE", "FORWARD"} /\ c.reading > 0
        /\ DestroyAndTell(s, c1) /\ UNCHANGED <<pipe, made, got>>
    BY <1>2 DEF LocalReadError
  <2>3. n \in Nat
    <3>1. c.reading \in Nat
      BY <2>1 DEF Session
    <3> QED BY <2>2, <3>1
  <2> HIDE DEF n
  <2>4. c1 \in Session /\ c1.writes = c.writes
    BY <2>1, <2>3 DEF Session
  <2> HIDE DEF c1
  <2> QED BY <2>2, <2>4, TellFlow
<1> QED BY <1>1, <1>2, <1>3

\* A session that relays and writes nothing takes the next data of the
\* pipeline.
LEMMA TakeNext ==
  ASSUME NEW s \in Side, NEW c \in Session, NEW c1 \in Session, NEW c2 \in Session, NEW d,
         NEW q \in Seq(Frame), NEW m \in Nat, NEW g \in Seq(Nat), NEW e, NEW ps, NEW pp,
         Flow(s, c, d, q, m, g, e, ps, pp), c.status \in {"QUERIED", "FORWARD"},
         c1.status = "FORWARD", c1.listed = c.listed, c1.writes = c.writes,
         c1.queue = c.queue, c1.waiting = c.waiting, c1.asyncWriting = c.asyncWriting,
         c1.closeFuture = c.closeFuture, c.writes = <<>>,
         c2 = CacheRead(c1)
  PROVE  Flow(s, c2, d, q, m, g, e, ps, pp) /\ c2.status = "FORWARD"
<1>1. /\ Held(c) = 0 /\ Held(c1) = 0 /\ ~Fresh(s, c) /\ ~Fresh(s, c1)
      /\ Reached(s, c1, g) = Reached(s, c, g)
  BY DEF Held, Fresh, Reached
<1>2. Rx(s, c1, g, m)
  <2>1. Rx(s, c, g, m)
    BY DEF Flow
  <2> QED BY <1>1, <2>1 DEF Rx
<1>3. /\ Rx(s, c2, g, m) /\ Reached(s, c2, g) = Reached(s, c, g)
      /\ c2.status = "FORWARD" /\ c2.closeFuture = c.closeFuture /\ c2.listed = c.listed
  BY <1>1, <1>2, CacheReadRx
<1>4. ~Fresh(s, c2)
  BY <1>3 DEF Fresh
<1> QED BY <1>1, <1>3, <1>4, RcvMove

\* What a session that writes nothing writes once the target is reached.
LEMMA ConnectedRx ==
  ASSUME NEW c \in Session, c.writes = <<>>
  PROVE  LET d == Connected(c) IN
         /\ d.listed = c.listed
         /\ c.queue = <<>> => d.writes = <<>>
         /\ c.queue # <<>> => d.writes = <<[data |-> c.queue, ack |-> c.pushAck]>>
<1> DEFINE e == [c EXCEPT !.status = "FORWARD"]
           f == GatedRead(e)
           d == Connected(c)
<1>1. d = CacheRead(f)
  BY DEF Connected
<1>2. e \in Session /\ e.status = "FORWARD" /\ e.listed = c.listed /\ e.writes = c.writes
      /\ e.queue = c.queue /\ e.pushAck = c.pushAck
  BY DEF Session, Status
<1> HIDE DEF e
<1>3. f \in Session /\ SameRx(e, f)
  BY <1>2, GatedReadFacts, GatedReadSame, 0 \in Nat
<1>4. f.pushAck = e.pushAck
  BY <1>2 DEF GatedRead, Session
<1>5. /\ f \in Session /\ f.status = "FORWARD" /\ f.listed = c.listed /\ f.writes = <<>>
      /\ f.queue = c.queue /\ f.pushAck = c.pushAck
  BY <1>2, <1>3, <1>4 DEF SameRx
<1> HIDE DEF f, d
<1>6. CASE c.queue = <<>>
  <2>1. d = [f EXCEPT !.waiting = TRUE]
    BY <1>1, <1>5, <1>6 DEF CacheRead
  <2>2. d.listed = f.listed /\ d.writes = f.writes
    BY <1>5, <2>1 DEF Session
  <2> QED BY <1>5, <1>6, <2>2 DEF d
<1>7. CASE c.queue # <<>>
  <2> DEFINE w == [data |-> c.queue, ack |-> c.pushAck]
             ws == Append(f.writes, w)
  <2>1. d = [f EXCEPT !.asyncWriting = TRUE, !.writes = ws, !.queue = <<>>, !.pushAck = 0]
    BY <1>1, <1>5, <1>7 DEF CacheRead, ReadHandler, StartWrite, Session
  <2>2. ws = <<w>>
    BY <1>5
  <2> HIDE DEF ws, w
  <2>3. d.listed = f.listed /\ d.writes = ws
    BY <1>5, <2>1 DEF Session
  <2> QED BY <1>5, <1>7, <2>2, <2>3 DEF d, w
<1> QED BY <1>6, <1>7

\* The target is reached by a session that was destroyed meanwhile: it writes
\* what it had queued.
LEMMA LateConnectedFlow ==
  ASSUME FlowInv, NEW s \in Side, s = "server", TypeOK', Dialing(s, ses[s]),
         ses' = [ses EXCEPT ![s] = After(Connected(ses[s]), "relaying")],
         UNCHANGED <<chan, pipe, made, got, ending>>
  PROVE  \A t \in Side : FlowOf(t)'
<1> DEFINE o == Peer(s)
           c == ses[s]
           d == Connected(c)
           h == After(d, "relaying")
           g == got[s]
           m == made[o]
<1>1. c \in Session /\ g \in Seq(Nat) /\ m \in Nat /\ Chains(s, c)
  BY BothFlows, Ends
<1>2. Rx(s, c, g, m) /\ Closed(c, ses[o].status, m, g, ending[s])
  BY BothFlows DEF Flow
<1>3. Run(c.queue, Len(g)) /\ Len(g) + Len(c.queue) <= m /\ (ending[s] = "peer" => c.queue = <<>>)
  <2>1. o = "client"
    BY DEF Peer
  <2> QED BY <2>1 DEF FlowInv, LateOf, Late
<1>4. c.writes = <<>> /\ c.status = "DESTROY" /\ ~c.listed
  <2>1. ReceiverToken(c) = 0 /\ ReceiverToken(c) <= 1
    BY <1>1 DEF Chains
  <2>2. c.writes = <<>>
    BY <1>1, <2>1, OneWrite
  <2> QED BY <1>2, <2>2 DEF Rx, Dialing
<1>5. d \in Session
  <2>1. SenderToken(c) = 0 /\ ReceiverToken(c) = 0
    BY <1>1 DEF Chains
  <2> QED BY <1>1, <2>1, ConnectedFacts
<1>6. /\ d.listed = c.listed
      /\ c.queue = <<>> => d.writes = <<>>
      /\ c.queue # <<>> => d.writes = <<[data |-> c.queue, ack |-> c.pushAck]>>
  BY <1>1, <1>4, ConnectedRx
<1> HIDE DEF d
<1>7. h.status = "DESTROY" /\ h.listed = d.listed /\ h.writes = d.writes
  BY <1>5 DEF After, Session
<1> HIDE DEF h
<1>8. Len(g) \in Nat /\ Len(c.queue) \in Nat
  BY <1>1 DEF Session
<1>9. Rx(s, h, g, m)
  <2>1. CASE c.queue = <<>>
    <3>1. h.writes = <<>> /\ Held(h) = 0
      BY <1>6, <1>7, <2>1 DEF Held
    <3>2. Run(g, 0) /\ Len(g) + Held(c) <= m /\ Held(c) = 0
      BY <1>2, <1>4 DEF Rx, Held
    <3> QED BY <1>2, <1>4, <1>6, <1>7, <3>1, <3>2 DEF Rx
  <2>2. CASE c.queue # <<>>
    <3> DEFINE w == [data |-> c.queue, ack |-> c.pushAck]
    <3>1. h.writes = <<w>> /\ w.data = c.queue
      BY <1>6, <1>7, <2>2
    <3>2. h.writes # <<>> /\ h.writes[1].data = c.queue
      BY <3>1
    <3>3. Held(h) = Len(c.queue)
      BY <3>2 DEF Held
    <3>4. Run(g, 0)
      BY <1>2 DEF Rx
    <3> QED BY <1>2, <1>3, <1>4, <1>6, <1>7, <3>2, <3>3, <3>4 DEF Rx
  <2> QED BY <2>1, <2>2
<1>10. Closed(h, ses[o].status, m, g, ending[s])
  BY <1>2, <1>3, <1>6, <1>7 DEF Closed
<1>11. ses' = [ses EXCEPT ![s] = h]
  BY DEF h, d
<1> QED BY <1>4, <1>6, <1>7, <1>9, <1>10, <1>11, DeadFlow

\* What the target sends to such a session ends it.
LEMMA LateReadFlow ==
  ASSUME FlowInv, NEW s \in Side, s = "server", LateRead, TypeOK'
  PROVE  \A t \in Side : FlowOf(t)'
<1> DEFINE o == Peer(s)
           c == ses[s]
           r == c.reading - 1
           h == [c EXCEPT !.reading = r, !.late = "no"]
<1>1. c \in Session
  BY BothFlows, Ends
<1>2. /\ ses' = [ses EXCEPT ![s] = h] /\ c.status = "DESTROY"
      /\ UNCHANGED <<chan, pipe, made, got, ending>>
  BY DEF LateRead
<1>3. SameRx(c, h) /\ h.status = "DESTROY"
  <2> HIDE DEF r
  <2> QED BY <1>1, <1>2 DEF SameRx, Session
<1> HIDE DEF h
<1>4. Rx(s, c, got[s], made[o]) /\ Closed(c, ses[o].status, made[o], got[s], ending[s])
  BY BothFlows DEF Flow
<1>7. Rx(s, h, got[s], made[o])
  BY <1>3, <1>4, SameFacts
<1>5. Rx(s, h, got[s], made[o]) /\ ~h.listed
  BY <1>3, <1>7 DEF Rx
<1>6. Closed(h, ses[o].status, made[o], got[s], ending[s])
  BY <1>3, <1>4 DEF Closed, SameRx
<1> QED BY <1>2, <1>3, <1>5, <1>6, DeadFlow

\* The server has reached the target.
LEMMA OutConnectedFlow ==
  ASSUME FlowInv, NEW s \in Side, s = "server", ses[s].status = "QUERIED", OutConnected, TypeOK'
  PROVE  \A t \in Side : FlowOf(t)'
<1> DEFINE o == Peer(s)
           c == ses[s]
<1>1. /\ o \in Side /\ Peer(o) = s /\ \A t \in Side : t = s \/ t = o
      /\ c \in Session /\ ses[o] \in Session /\ chan[s] \in Seq(Frame) /\ chan[o] \in Seq(Frame)
      /\ made[s] \in Nat /\ got[s] \in Seq(Nat) /\ made[o] \in Nat /\ got[o] \in Seq(Nat)
  BY BothFlows, Ends
<1>2. /\ Flow(s, c, ses[o].status, chan[o], made[o], got[s], ending[s], pipe[s], pipe[o])
      /\ Flow(o, ses[o], c.status, chan[s], made[s], got[o], ending[o], pipe[o], pipe[s])
      /\ Chains(s, c) /\ TypeOK
  BY BothFlows
<1> DEFINE c0 == [c EXCEPT !.status = "FORWARD"]
           c1 == GatedRead(c0)
           c2 == CacheRead(c1)
<1>3. /\ ses' = [ses EXCEPT ![s] = c2] /\ c.status = "QUERIED"
      /\ chan' = chan /\ pipe' = pipe /\ made' = made /\ got' = got /\ ending' = ending
  BY DEF OutConnected, Connected
<1>4. c0 \in Session /\ c0.status = "FORWARD" /\ c0.listed = c.listed /\ c0.writes = c.writes
      /\ c0.queue = c.queue /\ c0.waiting = c.waiting /\ c0.asyncWriting = c.asyncWriting
      /\ c0.closeFuture = c.closeFuture
  BY <1>1 DEF Session, Status
<1> HIDE DEF c0
<1>5. c1 \in Session /\ SameRx(c0, c1)
  BY <1>4, GatedReadFacts, GatedReadSame, 0 \in Nat
<1>6. c.writes = <<>>
  <2>1. ReceiverToken(c) = 0 /\ ReceiverToken(c) <= 1
    BY <1>2, <1>3 DEF Chains
  <2> QED BY <1>1, <2>1, OneWrite
<1> HIDE DEF c1
<1>7. /\ c1.status = "FORWARD" /\ c1.listed = c.listed /\ c1.writes = c.writes
      /\ c1.queue = c.queue /\ c1.waiting = c.waiting /\ c1.asyncWriting = c.asyncWriting
      /\ c1.closeFuture = c.closeFuture
  BY <1>4, <1>5 DEF SameRx
<1>8. c2 = CacheRead(c1)
  OBVIOUS
<1> HIDE DEF c2
<1>9. ses'[s] = c2 /\ ses'[o] = ses[o] /\ c2 \in Session
  BY <1>1, <1>2, <1>3, Arrays, SetEnd DEF TypeOK
<1>10. o = "client"
  BY DEF Peer
<1> HIDE DEF c, o
<1>11. Flow(s, c2, ses[o].status, chan[o], made[o], got[s], ending[s], pipe[s], pipe[o])
       /\ c2.status = "FORWARD"
  BY <1>1, <1>2, <1>3, <1>5, <1>6, <1>7, <1>8, <1>9, TakeNext
<1>12. Flow(o, ses[o], "FORWARD", chan[s], made[s], got[o], ending[o], pipe[o], pipe[s])
  BY <1>1, <1>2, <1>3, <1>10, SndStatus
<1> QED BY <1>3, <1>9, <1>11, <1>12, BothKept DEF c, o

\* The sent handler of an ACK frame takes the next data.
LEMMA AckSentFlow ==
  ASSUME FlowInv, NEW s \in Side, AckSent(s), TypeOK' PROVE \A t \in Side : FlowOf(t)'
<1> DEFINE o == Peer(s)
           c == ses[s]
<1>1. /\ o \in Side /\ Peer(o) = s /\ \A t \in Side : t = s \/ t = o
      /\ c \in Session /\ ses[o] \in Session /\ chan[s] \in Seq(Frame) /\ chan[o] \in Seq(Frame)
      /\ made[s] \in Nat /\ got[s] \in Seq(Nat) /\ made[o] \in Nat /\ got[o] \in Seq(Nat)
  BY BothFlows, Ends
<1>2. /\ Flow(s, c, ses[o].status, chan[o], made[o], got[s], ending[s], pipe[s], pipe[o])
      /\ Flow(o, ses[o], c.status, chan[s], made[s], got[o], ending[o], pipe[o], pipe[s])
      /\ Chains(s, c) /\ TypeOK
  BY BothFlows
<1> DEFINE n == c.sentAck - 1
           c1 == [c EXCEPT !.sentAck = n]
           c2 == IF c1.status = "FORWARD" THEN CacheRead(c1) ELSE c1
<1>3. /\ ses' = [ses EXCEPT ![s] = c2] /\ c.sentAck > 0
      /\ chan' = chan /\ pipe' = pipe /\ made' = made /\ got' = got /\ ending' = ending
  BY DEF AckSent
<1>4. n \in Nat
  <2>1. c.sentAck \in Nat
    BY <1>1 DEF Session
  <2> QED BY <1>3, <2>1
<1> HIDE DEF n
<1>5. c1 \in Session /\ SameRx(c, c1)
  BY <1>1, <1>4 DEF Session, SameRx
<1> HIDE DEF c1
<1>6. c.writes = <<>>
  <2>1. ReceiverToken(c) <= 1
    BY <1>2 DEF Chains
  <2> QED BY <1>1, <1>3, <2>1, OneWrite
<1>7. (c1.status = "FORWARD" => c2 = CacheRead(c1)) /\ (c1.status # "FORWARD" => c2 = c1)
  OBVIOUS
<1> HIDE DEF c2
<1>8. ses'[s] = c2 /\ ses'[o] = ses[o] /\ c2 \in Session
  BY <1>1, <1>2, <1>3, Arrays, SetEnd DEF TypeOK
<1> HIDE DEF c, o
<1>9. Flow(s, c2, ses[o].status, chan[o], made[o], got[s], ending[s], pipe[s], pipe[o])
      /\ c2.status = c.status
  <2>1. CASE c.status = "FORWARD"
    <3>1. /\ c1.status = "FORWARD" /\ c1.listed = c.listed /\ c1.writes = c.writes
          /\ c1.queue = c.queue /\ c1.waiting = c.waiting /\ c1.asyncWriting = c.asyncWriting
          /\ c1.closeFuture = c.closeFuture
      BY <1>5, <2>1 DEF SameRx
    <3> QED BY <1>1, <1>2, <1>5, <1>6, <1>7, <1>8, <2>1, <3>1, TakeNext
  <2>2. CASE c.status # "FORWARD"
    <3>1. c2 = c1 /\ c2.status = c.status
      BY <1>5, <1>7, <2>2 DEF SameRx
    <3> QED BY <1>1, <1>2, <1>5, <3>1, RcvSame
  <2> QED BY <2>1, <2>2
<1> QED BY <1>2, <1>3, <1>8, <1>9, BothKept DEF c, o

\* A write to the local socket completes.
LEMMA WriteDoneFlow ==
  ASSUME FlowInv, NEW s \in Side, WriteDone(s), TypeOK' PROVE \A t \in Side : FlowOf(t)'
<1> DEFINE o == Peer(s)
           c == ses[s]
<1>1. /\ o \in Side /\ Peer(o) = s /\ \A t \in Side : t = s \/ t = o
      /\ c \in Session /\ ses[o] \in Session /\ chan[s] \in Seq(Frame) /\ chan[o] \in Seq(Frame)
      /\ made[s] \in Nat /\ got[s] \in Seq(Nat) /\ made[o] \in Nat /\ got[o] \in Seq(Nat)
  BY BothFlows, Ends
<1>2. /\ Flow(s, c, ses[o].status, chan[o], made[o], got[s], ending[s], pipe[s], pipe[o])
      /\ Flow(o, ses[o], c.status, chan[s], made[s], got[o], ending[o], pipe[o], pipe[s])
      /\ Chains(s, c) /\ TypeOK
  BY BothFlows
<1> DEFINE ws == Tail(c.writes)
           w == Head(c.writes)
           c1 == [c EXCEPT !.writes = ws]
           g2 == got[s] \o w.data
           n == c.sentAck + 1
           c2 == [c1 EXCEPT !.asyncWriting = FALSE, !.sentAck = n]
           h1 == [c1 EXCEPT !.late = "no"]
           h2 == [c1 EXCEPT !.waiting = TRUE]
<1>3. /\ c.writes # <<>> /\ got' = [got EXCEPT ![s] = g2] /\ pipe' = pipe /\ made' = made
      /\ \/ /\ c1.status # "FORWARD"
            /\ ses' = [ses EXCEPT ![s] = h1] \/ ses' = [ses EXCEPT ![s] = h2]
            /\ chan' = chan /\ ending' = ending
         \/ /\ c1.status = "FORWARD" /\ c1.closeFuture /\ c1.queue = <<>>
            /\ ses' = [ses EXCEPT ![s] = Destroyed(c1)]
            /\ chan' = [chan EXCEPT ![s] = Append(chan[s], Close)]
            /\ ending' = [ending EXCEPT ![s] = "peer"]
         \/ /\ c1.status = "FORWARD"
            /\ ses' = [ses EXCEPT ![s] = c2]
            /\ chan' = [chan EXCEPT ![s] = Append(chan[s], Ack(w.ack))]
            /\ ending' = ending
  <2>1. DOMAIN chan = Side /\ DOMAIN got = Side
    BY <1>2, Arrays
  <2>2. c1.sentAck = c.sentAck
    BY <1>1 DEF Session
  <2> QED BY <2>1, <2>2 DEF WriteDone, Push
<1>4. ReceiverToken(c) <= 1
  BY <1>2 DEF Chains
<1>5. ws = <<>> /\ w \in Write
  BY <1>1, <1>3, <1>4, OneWrite
<1>6. c1 \in Session /\ c1.writes = <<>> /\ c1.queue = c.queue /\ c1.waiting = c.waiting
      /\ c1.status = c.status /\ c1.listed = c.listed /\ c1.closeFuture = c.closeFuture
  <2> HIDE DEF ws
  <2> QED BY <1>1, <1>3, <1>5, PopWrite DEF Session, ws
<1>7. Rx(s, c, got[s], made[o])
  BY <1>2 DEF Flow
<1> HIDE DEF c, o, ws, c1
<1>8. /\ g2 \in Seq(Nat) /\ Rx(s, c1, g2, made[o]) /\ Len(g2) = Len(got[s]) + Held(c)
      /\ c.status # "DESTROY" =>
           /\ Reached(s, c1, g2) = Reached(s, c, got[s])
           /\ ~Fresh(s, c)
  <2>1. c.writes # <<>>
    BY <1>3
  <2> HIDE DEF w, g2
  <2>2. g2 = got[s] \o Head(c.writes).data
    BY DEF g2, w
  <2>3. c \in Session /\ got[s] \in Seq(Nat) /\ made[o] \in Nat
    BY <1>1
  <2> QED BY <1>4, <1>6, <1>7, <2>1, <2>2, <2>3, WrittenRx
<1> HIDE DEF g2
<1>9. got'[s] = g2 /\ got'[o] = got[o]
  BY <1>1, <1>2, <1>3, Arrays, SetEnd DEF o
<1>10. c.status # "NONE"
  <2>1. c.status = "NONE" => s = "server"
    BY <1>7 DEF Rx, Side
  <2> QED BY <1>8, <2>1 DEF Fresh
<1>11. CASE /\ c1.status # "FORWARD"
            /\ ses' = [ses EXCEPT ![s] = h1] \/ ses' = [ses EXCEPT ![s] = h2]
            /\ chan' = chan /\ ending' = ending
  <2>1. c.status = "DESTROY"
    <3>1. c.status \in {"FORWARD", "DESTROY"}
      BY <1>3, WriterStatus DEF c
    <3> QED BY <1>6, <1>11, <3>1
  <2>2. ending[s] # "peer" /\ ~c.listed
    BY <1>2, <1>3, <1>7, <2>1 DEF Flow, Closed, Rx
  <2>3. ASSUME NEW h, h = h1 \/ h = h2
        PROVE  /\ h.status = "DESTROY" /\ ~h.listed /\ Rx(s, h, g2, made[o])
               /\ Closed(h, ses[o].status, made[o], g2, ending[s])
    <3>1. h.status = c1.status /\ h.listed = c1.listed /\ h.writes = c1.writes
      BY <1>6, <2>3 DEF Session
    <3>2. Held(h) = Held(c1)
      BY <3>1 DEF Held
    <3> QED BY <1>6, <1>8, <2>1, <2>2, <3>1, <3>2 DEF Rx, Closed
  <2> HIDE DEF h1, h2
  <2>4. c.status = ses[s].status /\ UNCHANGED <<chan, pipe, made, ending>>
    BY <1>3, <1>11 DEF c
  <2> QED BY <1>9, <1>11, <2>1, <2>3, <2>4, DeadFlow DEF o
<1>12. CASE /\ c1.status = "FORWARD" /\ c1.closeFuture /\ c1.queue = <<>>
            /\ ses' = [ses EXCEPT ![s] = Destroyed(c1)]
            /\ chan' = [chan EXCEPT ![s] = Append(chan[s], Close)]
            /\ ending' = [ending EXCEPT ![s] = "peer"]
  <2> DEFINE c3 == Destroyed(c1)
  <2>1. c3.status = "DESTROY" /\ ~c3.listed /\ c3.writes = <<>>
    BY <1>6 DEF Destroyed, Session
  <2> HIDE DEF c3
  <2>2. /\ ses'[s] = c3 /\ ses'[o] = ses[o]
        /\ chan'[s] = Append(chan[s], Close) /\ chan'[o] = chan[o]
        /\ ending'[s] = "peer" /\ ending'[o] = ending[o]
    BY <1>1, <1>2, <1>12, Arrays, SetEnd DEF o, c3
  <2>3. pipe[s] /\ c.status = "FORWARD" /\ c.closeFuture /\ c.queue = <<>>
    <3>1. c.status = "FORWARD" /\ c.closeFuture /\ c.queue = <<>>
      BY <1>6, <1>12
    <3> QED BY <1>2, <3>1, AlivePipe
  <2>4. ses[o].status = "DESTROY" /\ Reached(s, c, got[s]) = made[o]
    BY <1>2, <2>3 DEF Flow, Towards
  <2>5. Len(g2) = made[o]
    <3>1. Reached(s, c, got[s]) = Len(got[s]) + Held(c) + Len(c.queue) /\ Len(c.queue) = 0
      BY <1>8, <2>3 DEF Reached
    <3>2. Len(got[s]) \in Nat /\ Held(c) \in Nat
      BY <1>1, ReachedType
    <3> QED BY <1>8, <2>4, <3>1, <3>2
  <2>6. Held(c3) = 0 /\ Held(c1) = 0
    BY <1>6, <2>1 DEF Held
  <2>7. Rx(s, c3, g2, made[o])
    BY <1>8, <2>1, <2>6 DEF Rx
  <2>8. Opened(s, "DESTROY", chan[o])
    BY <1>1, <1>2, <2>3, OpenedStays DEF Flow
  <2>9. Flow(s, c3, ses[o].status, chan[o], made[o], g2, "peer", pipe[s], pipe[o])
    BY <2>1, <2>4, <2>5, <2>7, <2>8 DEF Flow, Closed
  <2>10. Flow(o, ses[o], "DESTROY", Append(chan[s], Close), made[s], got[o], ending[o],
              pipe[o], pipe[s])
    BY <1>1, <1>2, <2>3, SndClose
  <2> QED BY <1>3, <1>9, <2>1, <2>2, <2>9, <2>10, BothKept DEF o
<1>13. CASE /\ c1.status = "FORWARD"
            /\ ses' = [ses EXCEPT ![s] = c2]
            /\ chan' = [chan EXCEPT ![s] = Append(chan[s], Ack(w.ack))]
            /\ ending' = ending
  <2>1. /\ c2.writes = <<>> /\ c2.queue = c.queue /\ c2.waiting = c.waiting
        /\ c2.status = "FORWARD" /\ c2.listed = c.listed /\ c2.closeFuture = c.closeFuture
    BY <1>6, <1>13 DEF Session
  <2> HIDE DEF c2
  <2>2. /\ ses'[s] = c2 /\ ses'[o] = ses[o] /\ c2 \in Session
        /\ chan'[s] = Append(chan[s], Ack(w.ack)) /\ chan'[o] = chan[o]
    BY <1>1, <1>2, <1>13, Arrays, SetEnd DEF o, TypeOK
  <2>3. pipe[s] /\ c.status = "FORWARD"
    BY <1>2, <1>6, <1>13, AlivePipe
  <2>4. /\ Rx(s, c2, g2, made[o]) /\ Reached(s, c2, g2) = Reached(s, c, got[s])
    <3>1. c.writes # <<>> /\ c2.status = c.status /\ c.status # "DESTROY"
      BY <1>3, <2>1, <2>3
    <3> QED BY <1>1, <1>4, <1>7, <2>1, <2>2, <3>1, WrittenRx DEF g2
  <2>5. ~Fresh(s, c2)
    BY <2>1 DEF Fresh
  <2>6. Flow(s, c2, ses[o].status, chan[o], made[o], g2, ending[s], pipe[s], pipe[o])
    <3>1. c.status # "DESTROY" /\ c.status # "NONE" /\ c2.status # "NONE"
          /\ ~Fresh(s, c) /\ g2 \in Seq(Nat)
      BY <1>8, <2>1, <2>3
    <3> QED BY <1>1, <1>2, <2>1, <2>2, <2>4, <2>5, <3>1, RcvMove
  <2>7. Ack(w.ack) \in Frame /\ Ack(w.ack).cmd = "ACK"
    BY <1>5 DEF Write, Ack, FrameOf, Frame
  <2>8. Flow(o, ses[o], "FORWARD", Append(chan[s], Ack(w.ack)), made[s], got[o], ending[o],
             pipe[o], pipe[s])
    <3>1. c.status # "DESTROY"
      BY <2>3
    <3> QED BY <1>1, <1>2, <2>3, <2>7, <3>1, SndAck
  <2> QED BY <1>3, <1>9, <1>13, <2>1, <2>2, <2>6, <2>8, BothKept DEF o
<1> QED BY <1>3, <1>11, <1>12, <1>13

\* A write to the local socket fails.
LEMMA WriteFailedFlow ==
  ASSUME FlowInv, NEW s \in Side, WriteFailed(s), TypeOK' PROVE \A t \in Side : FlowOf(t)'
<1> DEFINE o == Peer(s)
           c == ses[s]
<1>1. /\ o \in Side /\ Peer(o) = s /\ \A t \in Side : t = s \/ t = o
      /\ c \in Session /\ ses[o] \in Session /\ chan[s] \in Seq(Frame) /\ chan[o] \in Seq(Frame)
      /\ made[s] \in Nat /\ got[s] \in Seq(Nat) /\ made[o] \in Nat /\ got[o] \in Seq(Nat)
  BY BothFlows, Ends
<1>2. /\ Flow(s, c, ses[o].status, chan[o], made[o], got[s], ending[s], pipe[s], pipe[o])
      /\ Flow(o, ses[o], c.status, chan[s], made[s], got[o], ending[o], pipe[o], pipe[s])
      /\ Chains(s, c) /\ TypeOK
  BY BothFlows
<1> DEFINE ws == Tail(c.writes)
           c1 == [c EXCEPT !.writes = ws]
           h == [c1 EXCEPT !.late = "no"]
<1>3. /\ c.writes # <<>> /\ pipe' = pipe /\ made' = made /\ got' = got
      /\ \/ c1.status = "FORWARD" /\ DestroyAndTell(s, c1)
         \/ /\ c1.status = "DESTROY" /\ ses' = [ses EXCEPT ![s] = h]
            /\ chan' = chan /\ ending' = ending
  BY DEF WriteFailed
<1>4. ReceiverToken(c) <= 1
  BY <1>2 DEF Chains
<1>5. ws = <<>>
  BY <1>1, <1>3, <1>4, OneWrite
<1>6. c1 \in Session /\ c1.writes = <<>> /\ c1.status = c.status /\ c1.listed = c.listed
  <2> HIDE DEF ws
  <2> QED BY <1>1, <1>3, <1>5, PopWrite DEF Session, ws
<1> HIDE DEF c1, ws
<1>7. CASE c1.status = "FORWARD" /\ DestroyAndTell(s, c1)
  BY <1>3, <1>6, <1>7, TellFlow
<1>8. CASE /\ c1.status = "DESTROY" /\ ses' = [ses EXCEPT ![s] = h]
           /\ chan' = chan /\ ending' = ending
  <2>1. h \in Session /\ h.status = "DESTROY" /\ h.listed = c.listed /\ h.writes = <<>>
    BY <1>6, <1>8 DEF Session
  <2> HIDE DEF h
  <2>2. ses'[s] = h /\ ses'[o] = ses[o]
    BY <1>1, <1>2, <1>8, Arrays, SetEnd
  <2> HIDE DEF c, o
  <2>3. Rx(s, c, got[s], made[o]) /\ c.status = "DESTROY" /\ ending[s] # "peer" /\ ~c.listed
        /\ (pipe[s] => Opened(s, c.status, chan[o]))
    BY <1>2, <1>3, <1>6, <1>8 DEF Flow, Closed, Rx
  <2>4. Flow(s, h, ses[o].status, chan[o], made[o], got[s], ending[s], pipe[s], pipe[o])
    BY <1>1, <2>1, <2>3, RcvDead
  <2> QED BY <1>2, <1>3, <1>8, <2>1, <2>2, <2>3, <2>4, BothKept DEF c, o
<1> QED BY <1>3, <1>7, <1>8

\* The server parses CONNECT and makes the session.
LEMMA RecvConnectFlow ==
  ASSUME FlowInv, NEW s \in Side, s = "server", RecvConnect, TypeOK' PROVE \A t \in Side : FlowOf(t)'
<1> DEFINE o == Peer(s)
           c == ses[s]
<1>1. /\ o \in Side /\ Peer(o) = s /\ \A t \in Side : t = s \/ t = o
      /\ c \in Session /\ ses[o] \in Session /\ chan[s] \in Seq(Frame) /\ chan[o] \in Seq(Frame)
      /\ made[s] \in Nat /\ got[s] \in Seq(Nat) /\ made[o] \in Nat /\ got[o] \in Seq(Nat)
  BY BothFlows, Ends
<1>2. /\ Flow(s, c, ses[o].status, chan[o], made[o], got[s], ending[s], pipe[s], pipe[o])
      /\ Flow(o, ses[o], c.status, chan[s], made[s], got[o], ending[o], pipe[o], pipe[s])
      /\ Chains(s, c) /\ TypeOK
  BY BothFlows
<1> DEFINE c2 == CacheRead(NewSession("HANDSHAKE"))
           q == chan[o]
<1>3. /\ pipe[s] /\ q # <<>> /\ Head(q).cmd = "CONNECT"
      /\ chan' = [chan EXCEPT ![o] = Tail(q)]
      /\ ses' = [ses EXCEPT ![s] = c2]
      /\ pipe' = pipe /\ made' = made /\ got' = got /\ ending' = ending
  <2>1. DOMAIN chan = Side
    BY <1>2, Arrays
  <2> QED BY <1>1, <2>1 DEF RecvConnect, Parse
<1>4. /\ c2.status = "HANDSHAKE" /\ c2.listed /\ c2.writes = <<>> /\ c2.queue = <<>>
      /\ c2.waiting /\ ~c2.asyncWriting /\ ~c2.closeFuture
  BY DEF CacheRead, NewSession
<1> HIDE DEF c2
<1>5. /\ ses'[s] = c2 /\ ses'[o] = ses[o] /\ c2 \in Session
      /\ chan'[o] = Tail(q) /\ chan'[s] = chan[s]
  <2>1. ses'[s] = c2 /\ ses'[o] = ses[o]
    <3>1. DOMAIN ses = Side /\ ses' = [ses EXCEPT ![s] = c2]
      BY <1>2, <1>3, Arrays
    <3> QED BY <3>1, SetEnd
  <2>2. chan'[o] = Tail(q) /\ chan'[s] = chan[s]
    <3>1. DOMAIN chan = Side /\ chan' = [chan EXCEPT ![o] = Tail(q)]
      BY <1>2, <1>3, Arrays
    <3>2. o \in Side /\ o # s
      BY DEF Peer, Side
    <3> HIDE DEF o, q
    <3> QED BY <3>1, <3>2
  <2>3. ses'[s] \in Session
    BY DEF TypeOK
  <2> QED BY <2>1, <2>2, <2>3
<1>6. c.status = "NONE" /\ o = "client"
  <2>1. Head(q) = q[1] /\ 1 \in DOMAIN q
    BY <1>1, <1>3, Parsed
  <2>2. Opened(s, c.status, q)
    BY <1>2, <1>3 DEF Flow
  <2> QED BY <1>3, <2>1, <2>2 DEF Opened, Peer
<1> HIDE DEF c, o
<1>7. Flow(s, c2, ses[o].status, Tail(q), made[o], got[s], ending[s], pipe[s], pipe[o])
  <2>1. Flow("server", c, ses[o].status, q, made[o], got[s], ending[s], pipe[s], pipe[o])
    BY <1>2
  <2> HIDE DEF q
  <2>2. q \in Seq(Frame)
    BY <1>1 DEF q
  <2>3. Flow("server", c2, ses[o].status, Tail(q), made[o], got[s], ending[s], pipe[s], pipe[o])
    BY <1>1, <1>3, <1>4, <1>5, <2>1, <2>2, RcvConnect
  <2> QED BY <2>3
<1>8. Flow(o, ses[o], "HANDSHAKE", chan[s], made[s], got[o], ending[o], pipe[o], pipe[s])
  BY <1>1, <1>2, <1>6, SndStatus
<1> QED BY <1>3, <1>4, <1>5, <1>7, <1>8, BothKept DEF c, o

\* A DATA frame is parsed: the number that comes next, or data for a session
\* that is gone.
LEMMA RecvDataFlow ==
  ASSUME FlowInv, NEW s \in Side, RecvData(s), TypeOK' PROVE \A t \in Side : FlowOf(t)'
<1> DEFINE o == Peer(s)
           c == ses[s]
<1>1. /\ o \in Side /\ Peer(o) = s /\ \A t \in Side : t = s \/ t = o
      /\ c \in Session /\ ses[o] \in Session /\ chan[s] \in Seq(Frame) /\ chan[o] \in Seq(Frame)
      /\ made[s] \in Nat /\ got[s] \in Seq(Nat) /\ made[o] \in Nat /\ got[o] \in Seq(Nat)
  BY BothFlows, Ends
<1>2. /\ Flow(s, c, ses[o].status, chan[o], made[o], got[s], ending[s], pipe[s], pipe[o])
      /\ Flow(o, ses[o], c.status, chan[s], made[s], got[o], ending[o], pipe[o], pipe[s])
      /\ Chains(s, c) /\ TypeOK
  BY BothFlows
<1> DEFINE q == chan[o]
           c2 == IF c.listed THEN PushData(c, Head(q).data) ELSE c
<1>3. /\ pipe[s] /\ q # <<>> /\ Head(q).cmd = "DATA"
      /\ chan' = [chan EXCEPT ![o] = Tail(q)]
      /\ ses' = [ses EXCEPT ![s] = c2]
      /\ pipe' = pipe /\ made' = made /\ got' = got /\ ending' = ending
  <2>1. DOMAIN chan = Side /\ DOMAIN ses = Side
    BY <1>2, Arrays
  <2> QED BY <1>1, <2>1 DEF RecvData, Parse
<1>4. (c.listed => c2 = PushData(c, Head(q).data)) /\ (~c.listed => c2 = c)
  OBVIOUS
<1> HIDE DEF c2
<1>5. /\ ses'[s] = c2 /\ ses'[o] = ses[o] /\ c2 \in Session
      /\ chan'[o] = Tail(q) /\ chan'[s] = chan[s]
  BY <1>1, <1>2, <1>3, Arrays, SetEnd DEF TypeOK
<1>6. Rx(s, c, got[s], made[o]) /\ Opened(s, c.status, q)
  BY <1>2, <1>3 DEF Flow
<1> HIDE DEF c, o
<1>7. CASE c.listed
  <2>1. c.status \notin {"NONE", "DESTROY"}
    BY <1>6, <1>7 DEF Rx
  <2>2. Towards(s, c, ses[o].status, q, made[o], got[s], pipe[o])
    BY <1>2, <1>3, <2>1 DEF Flow
  <2> DEFINE R == Reached(s, c, got[s])
  <2>3. Head(q).data = <<R + 1>> /\ R + 1 <= made[o]
    <3>1. R \in Int /\ Line(R, q, made[o]) /\ IsData(Head(q))
      BY <1>1, <1>3, <2>2, ReachedType DEF Towards, IsData
    <3> HIDE DEF R
    <3> QED BY <1>1, <1>3, <3>1, LineParseData
  <2>4. /\ Rx(s, c2, got[s], made[o]) /\ Reached(s, c2, got[s]) = R + 1
        /\ ~Fresh(s, c2) /\ c2.status \notin {"NONE", "DESTROY"}
        /\ s # "server" => c2.status = c.status
        /\ c2.closeFuture = c.closeFuture
    <3>2. Reached(s, c, got[s]) + 1 <= made[o]
      BY <2>3
    <3>3. c \in Session /\ got[s] \in Seq(Nat) /\ made[o] \in Nat /\ Chains(s, c)
      BY <1>1, <1>2
    <3> DEFINE x == R + 1
    <3>4. x = Reached(s, c, got[s]) + 1 /\ x = R + 1 /\ x \in Int
      BY <3>3, ReachedType
    <3>5. c2 = PushData(c, <<x>>)
      BY <1>4, <1>7, <2>3
    <3> HIDE DEF x, R
    <3> QED BY <1>6, <1>7, <3>2, <3>3, <3>4, <3>5, PushDataRx
  <2>5. Flow(s, c2, ses[o].status, Tail(q), made[o], got[s], ending[s], pipe[s], pipe[o])
    BY <1>1, <1>2, <1>3, <1>5, <2>1, <2>4, RcvTake
  <2>6. o = "server" => s # "server"
    BY DEF o, Peer, Side
  <2>7. Flow(o, ses[o], c2.status, chan[s], made[s], got[o], ending[o], pipe[o], pipe[s])
    BY <1>1, <1>2, <2>1, <2>4, <2>6, SndStatus
  <2> QED BY <1>3, <1>5, <2>5, <2>7, BothKept DEF c, o
<1>8. CASE ~c.listed
  <2>1. c2 = c
    BY <1>4, <1>8
  <2>2. c.status = "DESTROY"
    <3>1. c.status # "NONE"
      <4>1. Head(q) = q[1]
        BY <1>1, <1>3, Parsed
      <4> QED BY <1>2, <1>3, <4>1 DEF Flow, Towards, Lead
    <3> QED BY <1>6, <1>8, <3>1 DEF Rx
  <2>3. Opened(s, c.status, Tail(q))
    BY <1>1, <1>3, <1>6, OpenedStays
  <2>4. Flow(s, c, ses[o].status, Tail(q), made[o], got[s], ending[s], pipe[s], pipe[o])
    BY <1>2, <2>2, <2>3 DEF Flow
  <2> QED BY <1>2, <1>3, <1>5, <2>1, <2>4, BothKept DEF c, o
<1> QED BY <1>7, <1>8

\* An ACK frame is parsed.
LEMMA RecvAckCmdFlow ==
  ASSUME FlowInv, NEW s \in Side, RecvAckCmd(s), TypeOK' PROVE \A t \in Side : FlowOf(t)'
<1> DEFINE o == Peer(s)
           c == ses[s]
<1>1. /\ o \in Side /\ Peer(o) = s /\ \A t \in Side : t = s \/ t = o
      /\ c \in Session /\ ses[o] \in Session /\ chan[s] \in Seq(Frame) /\ chan[o] \in Seq(Frame)
      /\ made[s] \in Nat /\ got[s] \in Seq(Nat) /\ made[o] \in Nat /\ got[o] \in Seq(Nat)
  BY BothFlows, Ends
<1>2. /\ Flow(s, c, ses[o].status, chan[o], made[o], got[s], ending[s], pipe[s], pipe[o])
      /\ Flow(o, ses[o], c.status, chan[s], made[s], got[o], ending[o], pipe[o], pipe[s])
      /\ Chains(s, c) /\ TypeOK
  BY BothFlows
<1> DEFINE q == chan[o]
           n == Head(q).ack
           c2 == IF c.listed THEN RecvAck(c, n) ELSE c
<1>3. /\ pipe[s] /\ q # <<>> /\ Head(q).cmd = "ACK"
      /\ chan' = [chan EXCEPT ![o] = Tail(q)]
      /\ ses' = [ses EXCEPT ![s] = c2]
      /\ pipe' = pipe /\ made' = made /\ got' = got /\ ending' = ending
  <2>1. DOMAIN chan = Side /\ DOMAIN ses = Side
    BY <1>2, Arrays
  <2> QED BY <1>1, <2>1 DEF RecvAckCmd, Parse
<1>4. n \in Nat
  <2>1. Head(q) \in Frame
    BY <1>1, <1>3, FrameFacts, Parsed
  <2> QED BY <2>1 DEF Frame
<1> HIDE DEF n
<1>5. SameRx(c, c2)
  <2>1. SameRx(c, RecvAck(c, n)) /\ SameRx(c, c)
    BY <1>1, <1>4, GatedReadSame DEF SameRx
  <2> QED BY <2>1
<1> HIDE DEF c2
<1>6. /\ ses'[s] = c2 /\ ses'[o] = ses[o] /\ c2 \in Session
      /\ chan'[o] = Tail(q) /\ chan'[s] = chan[s]
  BY <1>1, <1>2, <1>3, Arrays, SetEnd DEF TypeOK
<1> HIDE DEF c, o
<1>7. Flow(s, c, ses[o].status, Tail(q), made[o], got[s], ending[s], pipe[s], pipe[o])
  BY <1>1, <1>2, <1>3, RcvPop
<1>8. Tail(q) \in Seq(Frame) /\ c2.status = c.status
  BY <1>1, <1>3, <1>5, Parsed DEF SameRx
<1>9. Flow(s, c2, ses[o].status, Tail(q), made[o], got[s], ending[s], pipe[s], pipe[o])
  BY <1>1, <1>5, <1>6, <1>7, <1>8, RcvSame
<1> QED BY <1>2, <1>3, <1>6, <1>8, <1>9, BothKept DEF c, o

\* A CLOSE frame is parsed: it ends a session that has written everything, or
\* is kept for the write that does.
LEMMA RecvCloseFlow ==
  ASSUME FlowInv, NEW s \in Side, RecvClose(s), TypeOK' PROVE \A t \in Side : FlowOf(t)'
<1> DEFINE o == Peer(s)
           c == ses[s]
<1>1. /\ o \in Side /\ Peer(o) = s /\ \A t \in Side : t = s \/ t = o
      /\ c \in Session /\ ses[o] \in Session /\ chan[s] \in Seq(Frame) /\ chan[o] \in Seq(Frame)
      /\ made[s] \in Nat /\ got[s] \in Seq(Nat) /\ made[o] \in Nat /\ got[o] \in Seq(Nat)
  BY BothFlows, Ends
<1>2. /\ Flow(s, c, ses[o].status, chan[o], made[o], got[s], ending[s], pipe[s], pipe[o])
      /\ Flow(o, ses[o], c.status, chan[s], made[s], got[o], ending[o], pipe[o], pipe[s])
      /\ Chains(s, c) /\ TypeOK
  BY BothFlows
<1> DEFINE q == chan[o]
<1>3. /\ pipe[s] /\ q # <<>> /\ Head(q).cmd = "CLOSE"
      /\ chan' = [chan EXCEPT ![o] = Tail(q)]
      /\ pipe' = pipe /\ made' = made /\ got' = got
  <2>1. DOMAIN chan = Side
    BY <1>2, Arrays
  <2> QED BY <1>1, <2>1 DEF RecvClose, Parse
<1>4. \/ ~c.listed /\ ses' = ses /\ ending' = ending
      \/ /\ c.listed /\ CanBeClosed(c) /\ ses' = [ses EXCEPT ![s] = Destroyed(c)]
         /\ ending' = [ending EXCEPT ![s] = "peer"]
      \/ /\ c.listed /\ ~CanBeClosed(c) /\ ses' = [ses EXCEPT ![s] = [c EXCEPT !.closeFuture = TRUE]]
         /\ ending' = ending
  <2>1. DOMAIN ses = Side
    BY <1>2, Arrays
  <2> QED BY <2>1 DEF RecvClose
<1>5. chan'[o] = Tail(q) /\ chan'[s] = chan[s] /\ Tail(q) \in Seq(Frame)
  BY <1>1, <1>2, <1>3, Arrays, SetEnd, Parsed
<1> HIDE DEF c, o
<1>6. Flow(s, c, ses[o].status, Tail(q), made[o], got[s], ending[s], pipe[s], pipe[o])
  BY <1>1, <1>2, <1>3, RcvPop
<1>7. CASE ~c.listed /\ ses' = ses /\ ending' = ending
  BY <1>2, <1>3, <1>5, <1>6, <1>7, BothKept DEF c, o
<1> DEFINE R == Reached(s, c, got[s])
<1>8. ASSUME c.listed
      PROVE  /\ c.status \notin {"NONE", "DESTROY"} /\ ses[o].status = "DESTROY"
             /\ R = made[o] \/ (Fresh(s, c) /\ made[o] = 0)
  <2>1. c.status \notin {"NONE", "DESTROY"}
    BY <1>2, <1>8 DEF Flow, Rx
  <2>2. AtEnd(s, c, ses[o].status, q, made[o], got[s])
    BY <1>2, <1>3, <2>1 DEF Flow, Towards
  <2>3. 1 \in DOMAIN q /\ q[1].cmd = "CLOSE"
    BY <1>1, <1>3, Parsed
  <2>4. ses[o].status = "DESTROY" /\ (Full(R, q, made[o], 1 - 1) \/ Unsent(s, c, q, made[o]))
    BY <2>2, <2>3 DEF AtEnd
  <2>5. Full(R, q, made[o], 1 - 1) => R = made[o]
    BY DEF Full
  <2> QED BY <2>1, <2>4, <2>5 DEF Unsent
<1>9. CASE /\ c.listed /\ CanBeClosed(c) /\ ses' = [ses EXCEPT ![s] = Destroyed(c)]
           /\ ending' = [ending EXCEPT ![s] = "peer"]
  <2> DEFINE c3 == Destroyed(c)
  <2>1. c3.status = "DESTROY" /\ ~c3.listed /\ c3.writes = c.writes
    BY <1>1 DEF Destroyed, Session
  <2> HIDE DEF c3
  <2>2. /\ ses'[s] = c3 /\ ses'[o] = ses[o]
        /\ ending'[s] = "peer" /\ ending'[o] = ending[o]
    BY <1>1, <1>2, <1>9, Arrays, SetEnd DEF o, c3
  <2>3. Rx(s, c, got[s], made[o])
    BY <1>2 DEF Flow
  <2>4. c.writes = <<>> /\ c.queue = <<>> /\ Held(c) = 0 /\ Held(c3) = 0
    BY <1>8, <1>9, <2>1, <2>3 DEF Rx, CanBeClosed, Held
  <2>5. Len(got[s]) = made[o]
    <3>1. Len(got[s]) \in Nat /\ Len(c.queue) = 0
      BY <1>1, <2>4
    <3>2. CASE Fresh(s, c) /\ made[o] = 0
      <4>1. got[s] = <<>>
        BY <1>8, <1>9, <2>3, <3>2 DEF Rx
      <4> QED BY <3>2, <4>1
    <3>3. CASE R = made[o] /\ ~Fresh(s, c)
      BY <2>4, <3>1, <3>3 DEF Reached
    <3>4. Fresh(s, c) => R # made[o]
      <4>1. Fresh(s, c) => R = -1
        BY DEF Reached
      <4> HIDE DEF R
      <4> QED BY <1>1, <4>1
    <3> HIDE DEF R
    <3> QED BY <1>8, <1>9, <3>2, <3>3, <3>4
  <2>6. Rx(s, c3, got[s], made[o])
    BY <2>1, <2>3, <2>4 DEF Rx
  <2>7. Opened(s, c3.status, Tail(q))
    BY <1>1, <1>2, <1>3, OpenedStays DEF Flow
  <2>8. Flow(s, c3, ses[o].status, Tail(q), made[o], got[s], "peer", pipe[s], pipe[o])
    BY <1>8, <1>9, <2>1, <2>4, <2>5, <2>6, <2>7 DEF Flow, Closed
  <2>9. Flow(o, ses[o], "DESTROY", chan[s], made[s], got[o], ending[o], pipe[o], pipe[s])
    BY <1>1, <1>2, SndStatus
  <2> QED BY <1>3, <1>5, <2>1, <2>2, <2>8, <2>9, BothKept DEF o
<1>10. CASE /\ c.listed /\ ~CanBeClosed(c)
            /\ ses' = [ses EXCEPT ![s] = [c EXCEPT !.closeFuture = TRUE]] /\ ending' = ending
  <2> DEFINE c3 == [c EXCEPT !.closeFuture = TRUE]
  <2>1. /\ c3.status = c.status /\ c3.listed = c.listed /\ c3.writes = c.writes
        /\ c3.queue = c.queue /\ c3.waiting = c.waiting
        /\ c3.asyncWriting = c.asyncWriting /\ c3.closeFuture
    BY <1>1 DEF Session
  <2> HIDE DEF c3
  <2>2. ses'[s] = c3 /\ ses'[o] = ses[o]
    BY <1>1, <1>2, <1>10, Arrays, SetEnd DEF o, c3
  <2>3. Held(c3) = Held(c) /\ (Fresh(s, c3) <=> Fresh(s, c))
    BY <2>1 DEF Held, Fresh
  <2>4. Reached(s, c3, got[s]) = R
    BY <2>1, <2>3 DEF Reached
  <2>5. Rx(s, c, got[s], made[o])
    BY <1>2 DEF Flow
  <2>6. Rx(s, c3, got[s], made[o])
    BY <2>1, <2>3, <2>4, <2>5 DEF Rx
  <2>7. R = made[o]
    <3>1. ~Fresh(s, c)
      BY <1>8, <1>10, <2>5 DEF Rx, CanBeClosed
    <3> HIDE DEF R
    <3> QED BY <1>8, <1>10, <3>1
  <2>8. Towards(s, c, ses[o].status, Tail(q), made[o], got[s], pipe[o])
    BY <1>3, <1>6, <1>8, <1>10 DEF Flow
  <2>9. Towards(s, c3, ses[o].status, Tail(q), made[o], got[s], pipe[o])
    <3>1. Unsent(s, c3, Tail(q), made[o]) <=> Unsent(s, c, Tail(q), made[o])
      BY <2>3 DEF Unsent
    <3>2. AtEnd(s, c3, ses[o].status, Tail(q), made[o], got[s])
      BY <2>4, <2>8, <3>1 DEF Towards, AtEnd
    <3> QED BY <1>8, <1>10, <2>1, <2>4, <2>7, <2>8, <3>1, <3>2 DEF Towards
  <2>10. Flow(s, c3, ses[o].status, Tail(q), made[o], got[s], ending[s], pipe[s], pipe[o])
    BY <1>6, <1>8, <1>10, <2>1, <2>6, <2>9 DEF Flow, Closed
  <2> QED BY <1>2, <1>3, <1>5, <1>10, <2>1, <2>2, <2>10, BothKept DEF c, o
<1> QED BY <1>4, <1>7, <1>9, <1>10

\* The pipeline of an end is destroyed.
LEMMA PipeDestroyFlow ==
  ASSUME FlowInv, NEW s \in Side, PipeDestroy(s), TypeOK' PROVE \A t \in Side : FlowOf(t)'
<1> DEFINE o == Peer(s)
           c == ses[s]
<1>1. /\ o \in Side /\ Peer(o) = s /\ \A t \in Side : t = s \/ t = o
      /\ c \in Session /\ ses[o] \in Session /\ chan[s] \in Seq(Frame) /\ chan[o] \in Seq(Frame)
      /\ made[s] \in Nat /\ got[s] \in Seq(Nat) /\ made[o] \in Nat /\ got[o] \in Seq(Nat)
  BY BothFlows, Ends
<1>2. /\ Flow(s, c, ses[o].status, chan[o], made[o], got[s], ending[s], pipe[s], pipe[o])
      /\ Flow(o, ses[o], c.status, chan[s], made[s], got[o], ending[o], pipe[o], pipe[s])
      /\ Chains(s, c) /\ TypeOK
  BY BothFlows
<1> DEFINE k == IF c.listed THEN Destroyed(c) ELSE c
           c2 == [k EXCEPT !.sentData = 0, !.sentAck = 0]
           e2 == IF c.listed THEN "pipe" ELSE ending[s]
<1>3. /\ ses' = [ses EXCEPT ![s] = c2] /\ ending' = [ending EXCEPT ![s] = e2]
      /\ pipe' = [pipe EXCEPT ![s] = FALSE] /\ made' = made /\ got' = got
  <2>1. DOMAIN ses = Side /\ DOMAIN ending = Side
    BY <1>2, Arrays
  <2> QED BY <2>1 DEF PipeDestroy
<1>4. PICK n \in 0..Len(chan[s]) : chan' = [chan EXCEPT ![s] = SubSeq(@, 1, n), ![o] = <<>>]
  BY DEF PipeDestroy
<1>5. chan'[s] = SubSeq(chan[s], 1, n) /\ chan'[o] = <<>>
  <2>1. DOMAIN chan = Side /\ o # s
    BY <1>2, Arrays, Ends
  <2> QED BY <1>1, <1>4, <2>1
<1>6. /\ c.listed => c2.status = "DESTROY" /\ ~c2.listed /\ c2.writes = c.writes /\ e2 = "pipe"
      /\ ~c.listed => SameRx(c, c2) /\ e2 = ending[s]
  <2>1. CASE c.listed
    BY <1>1, <2>1 DEF Destroyed, Session
  <2>2. CASE ~c.listed
    BY <1>1, <2>2 DEF SameRx, Session
  <2> QED BY <2>1, <2>2
<1> HIDE DEF c2, e2
<1>7. /\ ses'[s] = c2 /\ ses'[o] = ses[o] /\ c2 \in Session
      /\ pipe'[s] = FALSE /\ pipe'[o] = pipe[o]
      /\ ending'[s] = e2 /\ ending'[o] = ending[o]
  BY <1>1, <1>2, <1>3, Arrays, SetEnd DEF TypeOK
<1> HIDE DEF c, o
<1>8. Flow(s, c2, ses[o].status, <<>>, made[o], got[s], e2, FALSE, pipe[o])
  <2>1. CASE c.listed
    <3>1. Rx(s, c, got[s], made[o]) /\ <<>> \in Seq(Frame)
      BY <1>2 DEF Flow
    <3> QED BY <1>1, <1>6, <1>7, <2>1, <3>1, RcvDead
  <2>2. CASE ~c.listed
    BY <1>1, <1>2, <1>6, <1>7, <2>2, RcvGone
  <2> QED BY <2>1, <2>2
<1>9. c2.status \in {c.status, "DESTROY"}
  BY <1>6 DEF SameRx
<1>10. Flow(o, ses[o], c2.status, SubSeq(chan[s], 1, n), made[s], got[o], ending[o], pipe[o], FALSE)
  BY <1>1, <1>2, <1>9, SndCut
<1> QED BY <1>3, <1>5, <1>7, <1>8, <1>10, BothKept DEF c, o

\* The accepted client, and a server that has not heard of it.
LEMMA FlowInit == Init => FlowInv
<1> SUFFICES ASSUME Init PROVE FlowInv
  OBVIOUS
<1>1. ChainInv
  BY ChainInit
<1>2. /\ Peer("client") = "server" /\ Peer("server") = "client"
      /\ \A s \in Side : s = "client" \/ s = "server"
      /\ "client" \in Side /\ "server" \in Side
  BY DEF Peer, Side
<1> DEFINE c == ses["client"]
           o == ses["server"]
<1>3. /\ c.status = "HANDSHAKE" /\ c.listed /\ c.writes = <<>> /\ c.queue = <<>>
      /\ ~c.waiting /\ ~c.asyncWriting /\ ~c.closeFuture
      /\ o.status = "NONE" /\ ~o.listed /\ o.writes = <<>> /\ o.queue = <<>>
      /\ ~o.waiting /\ ~o.asyncWriting /\ ~o.closeFuture
  BY <1>2 DEF Init, NewSession
<1>4. /\ chan["client"] = <<Connect>> /\ chan["server"] = <<>>
      /\ pipe["client"] /\ pipe["server"] /\ made["client"] = 0 /\ made["server"] = 0
      /\ got["client"] = <<>> /\ got["server"] = <<>>
      /\ ending["client"] = "open" /\ ending["server"] = "open"
  BY <1>2 DEF Init
<1> HIDE DEF c, o
<1>5. Held(c) = 0 /\ Held(o) = 0 /\ Len(<<>>) = 0 /\ Run(<<>>, 0)
  BY <1>3 DEF Held, Run
<1>6. /\ ~Fresh("client", c) /\ Fresh("server", o)
      /\ Reached("client", c, <<>>) = 0 /\ Reached("server", o, <<>>) = -1
  BY <1>3, <1>5 DEF Fresh, Reached
<1>7. Rx("client", c, <<>>, 0) /\ Rx("server", o, <<>>, 0)
  BY <1>3, <1>5, <1>6 DEF Rx
<1>8. /\ DOMAIN <<Connect>> = {1} /\ <<Connect>>[1] = Connect
      /\ <<Connect>> # <<>> /\ Connect.cmd = "CONNECT"
      /\ \A k \in DOMAIN <<>> : FALSE
  BY DEF Connect, FrameOf
<1>9. Towards("client", c, "NONE", <<>>, 0, <<>>, TRUE) /\ Opened("client", c.status, <<>>)
  BY <1>3, <1>6, <1>8 DEF Towards, Line, Lead, AtEnd, Full, Opened
<1>10. Towards("server", o, "HANDSHAKE", <<Connect>>, 0, <<>>, TRUE)
       /\ Opened("server", o.status, <<Connect>>)
  BY <1>3, <1>6, <1>8 DEF Towards, Line, Lead, AtEnd, Unsent, Opened, IsData
<1>11. FlowOf("client")
  BY <1>2, <1>3, <1>4, <1>7, <1>9 DEF FlowOf, Flow, Closed, c, o
<1>12. FlowOf("server")
  BY <1>2, <1>3, <1>4, <1>7, <1>10 DEF FlowOf, Flow, Closed, c, o
<1>13. LateOf
  BY <1>3 DEF LateOf, Late, Dialing, o
<1> QED BY <1>1, <1>2, <1>11, <1>12, <1>13 DEF FlowInv

\* destroy() keeps the queue, and leaves connect_out_socket running.
LEMMA DestroyedFields ==
  ASSUME NEW c \in Session
  PROVE  /\ Destroyed(c).queue = c.queue
         /\ Destroyed(c).late = "dialing" => c.status = "QUERIED"
BY DEF Destroyed, Session

\* How a server session comes to dial after its destroy(), or goes on to.
Redial(c, c2, g, g2, e, e2) ==
  Dialing("server", c2) =>
    /\ c2.queue = c.queue /\ g2 = g
    /\ \/ Dialing("server", c) /\ e2 = e
       \/ c.status = "QUERIED" /\ (e2 = "peer" => c.queue = <<>>)

\* Its queue then still goes on where the target has been written to.
LEMMA RedialLate ==
  ASSUME FlowInv, TypeOK', made'["client"] >= made["client"],
         Redial(ses["server"], ses'["server"], got["server"], got'["server"],
                ending["server"], ending'["server"])
  PROVE  LateOf'
<1> DEFINE s == "server"
           c == ses[s]
           c2 == ses'[s]
           g == got[s]
           m == made["client"]
           m2 == made'["client"]
<1> SUFFICES ASSUME Dialing(s, c2)
             PROVE  /\ Run(c2.queue, Len(got'[s])) /\ Len(got'[s]) + Len(c2.queue) <= m2
                    /\ ending'[s] = "peer" => c2.queue = <<>>
  BY DEF LateOf, Late
<1>1. c2.queue = c.queue /\ got'[s] = g
  BY DEF Redial
<1>2. s \in Side /\ "client" \in Side /\ Peer(s) = "client"
  BY DEF Side, Peer
<1>3. /\ c \in Session /\ g \in Seq(Nat) /\ m \in Nat /\ Chains(s, c)
      /\ Rx(s, c, g, m)
  BY <1>2, BothFlows, Ends DEF Flow
<1>4. m2 \in Nat /\ m2 >= m
  BY <1>2 DEF TypeOK
<1>5. Len(g) \in Nat /\ Len(c.queue) \in Nat
  BY <1>3 DEF Session
<1>6. CASE Dialing(s, c) /\ ending'[s] = ending[s]
  <2>1. Run(c.queue, Len(g)) /\ Len(g) + Len(c.queue) <= m /\ (ending[s] = "peer" => c.queue = <<>>)
    BY <1>6 DEF FlowInv, LateOf, Late
  <2> HIDE DEF c, c2, g, m, m2
  <2>2. Len(g) + Len(c.queue) <= m2
    BY <1>3, <1>4, <1>5, <2>1
  <2> QED BY <1>1, <1>6, <2>1, <2>2
<1>7. CASE c.status = "QUERIED" /\ (ending'[s] = "peer" => c.queue = <<>>)
  <2>1. ReceiverToken(c) = 0 /\ ReceiverToken(c) <= 1
    BY <1>3, <1>7 DEF Chains
  <2>2. c.writes = <<>> /\ Held(c) = 0 /\ ~Fresh(s, c)
    BY <1>3, <1>7, <2>1, OneWrite DEF Held, Fresh
  <2> HIDE DEF c, c2, g, m, m2
  <2>3. Run(c.queue, Len(g) + 0) /\ Len(g) + 0 + Len(c.queue) <= m
    BY <1>3, <1>7, <2>2 DEF Rx, Reached
  <2>4. Len(g) + 0 = Len(g)
    BY <1>5
  <2>5. Len(g) + Len(c.queue) <= m2
    BY <1>3, <1>4, <1>5, <2>3
  <2> QED BY <1>1, <1>7, <2>3, <2>4, <2>5
<1> QED BY <1>6, <1>7 DEF Redial

\* Steps of the client leave the server session as it is.
LEMMA ClientLate ==
  ASSUME FlowInv, TypeOK', made'["client"] >= made["client"], ses'["server"] = ses["server"],
         got'["server"] = got["server"], ending'["server"] = ending["server"]
  PROVE  LateOf'
BY RedialLate DEF Redial

\* Steps that the server session takes itself, or its dialling.
LEMMA ServerLate ==
  ASSUME FlowInv, TypeOK', NEW s \in Side, s = "server",
         \/ OutConnected \/ OutConnectFailed \/ OutConnectTimeout \/ LateRead \/ RecvConnect
         \/ LocalRead(s) \/ LocalReadError(s) \/ DataSent(s) \/ WriteDone(s)
         \/ WriteFailed(s) \/ AckSent(s)
  PROVE  LateOf'
<1> DEFINE c == ses[s]
           c2 == ses'[s]
<1>1. /\ c \in Session /\ TypeOK /\ DOMAIN ses = Side /\ DOMAIN ending = Side /\ DOMAIN made = Side
      /\ made["client"] \in Nat
  BY BothFlows, Ends, Arrays DEF TypeOK, Side
<1>2. made'["client"] = made["client"]
  <2>1. s # "client"
    OBVIOUS
  <2>2. CASE LocalRead(s)
    <3>1. made' = [made EXCEPT ![s] = made[s] + 1]
      BY <1>1, <2>2 DEF LocalRead
    <3> QED BY <1>1, <2>1, <3>1
  <2>3. CASE WriteDone(s)
    BY <2>3 DEF WriteDone
  <2>4. CASE \/ OutConnected \/ OutConnectFailed \/ OutConnectTimeout \/ LateRead \/ RecvConnect
            \/ LocalReadError(s) \/ DataSent(s) \/ WriteFailed(s) \/ AckSent(s)
    <3>1. made' = made
      BY <2>4 DEF OutConnected, OutConnectFailed, OutConnectTimeout, LateRead, RecvConnect,
         Parse, LocalReadError, DataSent, WriteFailed, AckSent
    <3> QED BY <3>1
  <2> QED BY <2>2, <2>3, <2>4
<1>3. made'["client"] >= made["client"]
  BY <1>1, <1>2
<1>4. ASSUME NEW d \in Session, d.status # "QUERIED" PROVE ~Dialing(s, Destroyed(d))
  BY <1>4, DestroyedFields DEF Dialing
<1>5. CASE OutConnected
  <2>1. \/ c2 = Connected(c) /\ (c.status = "QUERIED" \/ Dialing(s, c))
        \/ c2 = [Connected(c) EXCEPT !.status = "DESTROY", !.late = "relaying"] /\ Dialing(s, c)
    BY <1>1, <1>5 DEF OutConnected, Dialing
  <2>2. SenderToken(c) = 0 /\ ReceiverToken(c) = 0
    BY <2>1, BothFlows DEF Chains
  <2>3. Connected(c) \in Session /\ Connected(c).status = "FORWARD"
    BY <1>1, <2>2, ConnectedFacts
  <2>4. ~Dialing(s, c2)
    BY <2>1, <2>3 DEF Dialing, Session
  <2> QED BY <1>3, <2>4, RedialLate DEF Redial
<1>6. CASE OutConnectFailed
  <2> DEFINE d == [c EXCEPT !.status = "HANDSHAKE"]
  <2>1. c2 = Destroyed(d) \/ c2 = [c EXCEPT !.late = "no"]
    BY <1>1, <1>6 DEF OutConnectFailed, DestroyAndTell
  <2>2. d \in Session /\ d.status # "QUERIED"
    BY <1>1 DEF Session, Status
  <2> HIDE DEF d
  <2>3. ~Dialing(s, Destroyed(d))
    BY <1>4, <2>2
  <2>4. ~Dialing(s, [c EXCEPT !.late = "no"])
    BY <1>1 DEF Session, Dialing
  <2>5. ~Dialing(s, c2)
    BY <2>1, <2>3, <2>4
  <2> QED BY <1>3, <2>5, RedialLate DEF Redial
<1>7. CASE OutConnectTimeout
  <2>1. c2 = Destroyed(c) /\ c.status = "QUERIED" /\ ending'[s] = "local" /\ got' = got
    BY <1>1, <1>7 DEF OutConnectTimeout, DestroyAndTell
  <2>2. c2.queue = c.queue
    BY <1>1, <2>1, DestroyedFields
  <2> QED BY <1>3, <2>1, <2>2, RedialLate DEF Redial
<1>8. CASE LateRead
  <2>1. c2 = [c EXCEPT !.reading = @ - 1, !.late = "no"]
    BY <1>1, <1>8 DEF LateRead
  <2>2. c2.late = "no"
    BY <1>1, <2>1 DEF Session
  <2>3. ~Dialing(s, c2)
    BY <2>2 DEF Dialing
  <2> QED BY <1>3, <2>3, RedialLate DEF Redial
<1>9. CASE RecvConnect
  <2> DEFINE n == NewSession("HANDSHAKE")
  <2>1. c2 = CacheRead(n)
    BY <1>1, <1>9 DEF RecvConnect
  <2>2. n \in Session /\ n.status = "HANDSHAKE" /\ n.queue = <<>>
    BY WindowAssumption DEF NewSession, Session, Status
  <2> HIDE DEF n
  <2>3. c2.status = "HANDSHAKE"
    BY <2>1, <2>2, CacheReadFacts
  <2>4. ~Dialing(s, c2)
    BY <2>3 DEF Dialing
  <2> QED BY <1>3, <2>4, RedialLate DEF Redial
<1>10. CASE LocalRead(s)
  <2>1. c2 = [c EXCEPT !.reading = @ - 1, !.sentData = @ + 1] /\ c.status = "FORWARD"
    BY <1>1, <1>10 DEF LocalRead
  <2>2. c2.status = "FORWARD"
    BY <1>1, <2>1 DEF Session
  <2>3. ~Dialing(s, c2)
    BY <2>2 DEF Dialing
  <2> QED BY <1>3, <2>3, RedialLate DEF Redial
<1>11. CASE LocalReadError(s)
  <2> DEFINE r == c.reading - 1
             d == [c EXCEPT !.reading = r]
  <2>1. c2 = Destroyed(d) /\ c.status \in {"HANDSHAKE", "FORWARD"} /\ c.reading > 0
    BY <1>1, <1>11 DEF LocalReadError, DestroyAndTell
  <2>2. r \in Nat
    <3>1. c.reading \in Nat
      BY <1>1 DEF Session
    <3> QED BY <2>1, <3>1
  <2> HIDE DEF r
  <2>3. d \in Session /\ d.status = c.status
    BY <1>1, <2>2 DEF Session
  <2> HIDE DEF d
  <2>4. ~Dialing(s, c2)
    BY <1>4, <2>1, <2>3
  <2> QED BY <1>3, <2>4, RedialLate DEF Redial
<1>12. CASE DataSent(s)
  <2> DEFINE k == c.sentData - 1
             d == [c EXCEPT !.sentData = k]
  <2>1. /\ c2 = (IF d.status = "FORWARD" THEN GatedRead(d) ELSE d) /\ c.sentData > 0
        /\ got' = got /\ ending' = ending
    BY <1>1, <1>12 DEF DataSent
  <2>2. k \in Nat
    <3>1. c.sentData \in Nat
      BY <1>1 DEF Session
    <3> QED BY <2>1, <3>1
  <2> HIDE DEF k
  <2>3. d \in Session /\ d.status = c.status /\ d.queue = c.queue /\ d.late = c.late
    BY <1>1, <2>2 DEF Session
  <2> HIDE DEF d
  <2>4. c2.status = c.status /\ c2.queue = c.queue /\ c2.late = c.late
    BY <2>1, <2>3, GatedReadFacts
  <2>5. Dialing(s, c2) => Dialing(s, c)
    BY <2>4 DEF Dialing
  <2> QED BY <1>3, <2>1, <2>4, <2>5, RedialLate DEF Redial
<1>13. CASE WriteDone(s) \/ WriteFailed(s)
  <2> DEFINE d == [c EXCEPT !.writes = Tail(c.writes)]
  <2>1. /\ c.writes # <<>>
        /\ \/ c2 = [d EXCEPT !.late = "no"]
           \/ d.late = "relaying" /\ c2 = [d EXCEPT !.waiting = TRUE]
           \/ d.status = "FORWARD" /\ c2 = Destroyed(d)
           \/ d.status = "FORWARD" /\ c2 = [d EXCEPT !.asyncWriting = FALSE, !.sentAck = @ + 1]
    BY <1>1, <1>13 DEF WriteDone, WriteFailed, DestroyAndTell
  <2>2. d \in Session
    BY <1>1, <2>1, PopWrite
  <2> HIDE DEF d
  <2>3. d.status = "FORWARD" => ~Dialing(s, Destroyed(d))
    BY <1>4, <2>2
  <2>4. c2.late # "dialing" \/ c2.status = "FORWARD" \/ (d.status = "FORWARD" /\ c2 = Destroyed(d))
    BY <2>1, <2>2 DEF Session
  <2>5. ~Dialing(s, c2)
    BY <2>3, <2>4 DEF Dialing
  <2> QED BY <1>3, <2>5, RedialLate DEF Redial
<1>14. CASE AckSent(s)
  <2> DEFINE k == c.sentAck - 1
             d == [c EXCEPT !.sentAck = k]
  <2>1. /\ c2 = (IF d.status = "FORWARD" THEN CacheRead(d) ELSE d) /\ c.sentAck > 0
        /\ got' = got /\ ending' = ending
    BY <1>1, <1>14 DEF AckSent
  <2>2. k \in Nat
    <3>1. c.sentAck \in Nat
      BY <1>1 DEF Session
    <3> QED BY <2>1, <3>1
  <2> HIDE DEF k
  <2>3. d \in Session /\ d.status = c.status /\ d.queue = c.queue /\ d.late = c.late
    BY <1>1, <2>2 DEF Session
  <2> HIDE DEF d
  <2>4. CASE d.status = "FORWARD"
    <3>1. c2.status = "FORWARD"
      BY <2>1, <2>3, <2>4, CacheReadFacts
    <3>2. ~Dialing(s, c2)
      BY <3>1 DEF Dialing
    <3> QED BY <1>3, <3>2, RedialLate DEF Redial
  <2>5. CASE d.status # "FORWARD"
    <3>1. c2 = d
      BY <2>1, <2>5
    <3>2. Dialing(s, c2) => Dialing(s, c)
      BY <2>3, <3>1 DEF Dialing
    <3> QED BY <1>3, <2>1, <2>3, <3>1, <3>2, RedialLate DEF Redial
  <2> QED BY <2>4, <2>5
<1> QED BY <1>5, <1>6, <1>7, <1>8, <1>9, <1>10, <1>11, <1>12, <1>13, <1>14

\* Frames for the server session, and the end of its pipeline.
LEMMA FrameLate ==
  ASSUME FlowInv, TypeOK', NEW s \in Side, s = "server",
         RecvData(s) \/ RecvAckCmd(s) \/ RecvClose(s) \/ PipeDestroy(s)
  PROVE  LateOf'
<1> DEFINE c == ses[s]
           c2 == ses'[s]
<1>1. /\ c \in Session /\ TypeOK /\ DOMAIN ses = Side /\ DOMAIN ending = Side
      /\ made["client"] \in Nat
  BY BothFlows, Ends, Arrays DEF TypeOK, Side
<1>2. c.listed <=> c.status \notin {"NONE", "DESTROY"}
  BY BothFlows DEF Flow, Rx
<1>3. made' = made /\ got' = got /\ made'["client"] >= made["client"]
  <2>1. made' = made /\ got' = got
    BY DEF RecvData, RecvAckCmd, RecvClose, PipeDestroy, Parse
  <2> QED BY <1>1, <2>1
<1>4. CASE c2 = c /\ ending' = ending
  BY <1>3, <1>4, RedialLate DEF Redial
<1>5. CASE RecvData(s)
  <2> DEFINE x == Head(chan[Peer(s)]).data
             d == PushData(c, x)
  <2>1. ses' = [ses EXCEPT ![s] = IF c.listed THEN d ELSE c] /\ ending' = ending
    BY <1>5 DEF RecvData
  <2>2. x \in Seq(Nat)
    BY <1>1, <1>5, HeadFrame DEF RecvData, Parse
  <2> HIDE DEF x
  <2>3. d.status = c.status \/ d.status = "QUERIED"
    BY <1>1, <2>2, PushDataFacts
  <2> HIDE DEF d
  <2>4. c.listed => c2 = d
    BY <1>1, <2>1
  <2>5. ~c.listed => c2 = c
    BY <1>1, <2>1
  <2>6. c.listed => ~Dialing(s, c2)
    BY <1>2, <2>3, <2>4 DEF Dialing
  <2>7. CASE c.listed
    BY <1>3, <2>6, <2>7, RedialLate DEF Redial
  <2> QED BY <1>4, <2>1, <2>5, <2>7
<1>6. CASE RecvAckCmd(s)
  <2> DEFINE n == Head(chan[Peer(s)]).ack
             d == RecvAck(c, n)
  <2>1. ses' = [ses EXCEPT ![s] = IF c.listed THEN d ELSE c] /\ ending' = ending
    BY <1>6 DEF RecvAckCmd
  <2>2. n \in Nat
    BY <1>1, <1>6, HeadFrame DEF RecvAckCmd, Parse
  <2> HIDE DEF n
  <2>3. d.status = c.status
    BY <1>1, <2>2, RecvAckFacts
  <2> HIDE DEF d
  <2>4. c.listed => c2 = d
    BY <1>1, <2>1
  <2>5. ~c.listed => c2 = c
    BY <1>1, <2>1
  <2>6. c.listed => ~Dialing(s, c2)
    BY <1>2, <2>3, <2>4 DEF Dialing
  <2>7. CASE c.listed
    BY <1>3, <2>6, <2>7, RedialLate DEF Redial
  <2> QED BY <1>4, <2>1, <2>5, <2>7
<1>7. CASE RecvClose(s)
  <2>1. \/ c2 = c /\ ending' = ending
        \/ c.listed /\ CanBeClosed(c) /\ c2 = Destroyed(c)
        \/ c.listed /\ c2 = [c EXCEPT !.closeFuture = TRUE]
    BY <1>1, <1>7 DEF RecvClose
  <2>2. CASE c.listed /\ CanBeClosed(c) /\ c2 = Destroyed(c)
    <3>1. c2.queue = c.queue /\ (c2.late = "dialing" => c.status = "QUERIED") /\ c.queue = <<>>
      BY <1>1, <2>2, DestroyedFields DEF CanBeClosed
    <3> QED BY <1>3, <3>1, RedialLate DEF Redial, Dialing
  <2>3. CASE c.listed /\ c2 = [c EXCEPT !.closeFuture = TRUE]
    <3>1. c2.status = c.status
      BY <1>1, <2>3 DEF Session
    <3>2. ~Dialing(s, c2)
      BY <1>2, <2>3, <3>1 DEF Dialing
    <3> QED BY <1>3, <3>2, RedialLate DEF Redial
  <2> QED BY <1>4, <2>1, <2>2, <2>3
<1>8. CASE PipeDestroy(s)
  <2> DEFINE d == IF c.listed THEN Destroyed(c) ELSE c
             z == 0
  <2>1. /\ c2 = [d EXCEPT !.sentData = z, !.sentAck = z]
        /\ ending'[s] = IF c.listed THEN "pipe" ELSE ending[s]
    BY <1>1, <1>8 DEF PipeDestroy
  <2>2. d \in Session
    <3>1. Destroyed(c) \in Session
      BY <1>1 DEF Destroyed, Session, Status
    <3> QED BY <1>1, <3>1
  <2>3. /\ c.listed => d.queue = c.queue /\ (d.late = "dialing" => c.status = "QUERIED")
        /\ ~c.listed => d = c
    BY <1>1, DestroyedFields
  <2> HIDE DEF d, z
  <2>4. c2.queue = d.queue /\ c2.late = d.late /\ c2.status = d.status
    BY <2>1, <2>2 DEF Session
  <2>5. CASE c.listed
    <3>1. c2.queue = c.queue /\ (Dialing(s, c2) => c.status = "QUERIED") /\ ending'[s] = "pipe"
      BY <2>1, <2>3, <2>4, <2>5 DEF Dialing
    <3> QED BY <1>3, <3>1, RedialLate DEF Redial
  <2>6. CASE ~c.listed
    <3>1. c2.queue = c.queue /\ (Dialing(s, c2) => Dialing(s, c)) /\ ending'[s] = ending[s]
      BY <2>1, <2>3, <2>4, <2>6 DEF Dialing
    <3> QED BY <1>3, <3>1, RedialLate DEF Redial
  <2> QED BY <2>5, <2>6
<1> QED BY <1>5, <1>6, <1>7, <1>8

\* A callback of one end leaves the session of the other end alone.
LEMMA OtherEnd ==
  ASSUME TypeOK, NEW s \in Side, NEW t \in Side, t # s,
         \/ LocalRead(s) \/ LocalReadError(s) \/ DataSent(s) \/ WriteDone(s) \/ WriteFailed(s)
         \/ AckSent(s) \/ RecvData(s) \/ RecvAckCmd(s) \/ RecvClose(s) \/ PipeDestroy(s)
  PROVE  /\ ses'[t] = ses[t] /\ got'[t] = got[t] /\ ending'[t] = ending[t]
         /\ made'[s] \in {made[s], made[s] + 1}
<1>1. /\ DOMAIN ses = Side /\ DOMAIN got = Side /\ DOMAIN ending = Side /\ DOMAIN made = Side
  BY Arrays
<1> USE DEF DestroyAndTell, Parse
<1>2. CASE LocalRead(s)
  BY <1>1, <1>2 DEF LocalRead
<1>3. CASE LocalReadError(s)
  BY <1>1, <1>3 DEF LocalReadError
<1>4. CASE DataSent(s)
  BY <1>1, <1>4 DEF DataSent
<1>5. CASE WriteFailed(s)
  BY <1>1, <1>5 DEF WriteFailed
<1>6. CASE AckSent(s)
  BY <1>1, <1>6 DEF AckSent
<1>7. CASE RecvData(s)
  BY <1>1, <1>7 DEF RecvData
<1>8. CASE RecvAckCmd(s)
  BY <1>1, <1>8 DEF RecvAckCmd
<1>9. CASE RecvClose(s)
  BY <1>1, <1>9 DEF RecvClose
<1>10. CASE PipeDestroy(s)
  BY <1>1, <1>10 DEF PipeDestroy
<1>11. CASE WriteDone(s)
  BY <1>1, <1>11 DEF WriteDone
<1> QED BY <1>2, <1>3, <1>4, <1>5, <1>6, <1>7, <1>8, <1>9, <1>10, <1>11

\* Every step keeps what is known of a session that dials late.
LEMMA LateStep ==
  ASSUME FlowInv, TypeOK', Next
  PROVE  LateOf'
<1>1. TypeOK /\ "server" \in Side /\ "client" \in Side /\ "server" # "client"
  BY DEF FlowInv, ChainInv, Side
<1>2. made["client"] \in Nat
  BY <1>1 DEF TypeOK
<1>3. CASE RequestRemote
  <2>1. /\ ses'["server"] = ses["server"] /\ got' = got /\ ending' = ending /\ made' = made
    BY <1>1, <1>3, Arrays DEF RequestRemote
  <2>2. made'["client"] >= made["client"]
    BY <1>2, <2>1
  <2> QED BY <2>1, <2>2, ClientLate
<1>4. ASSUME NEW s \in Side, s = "client",
             \/ LocalRead(s) \/ LocalReadError(s) \/ DataSent(s) \/ WriteDone(s) \/ WriteFailed(s)
             \/ AckSent(s) \/ RecvData(s) \/ RecvAckCmd(s) \/ RecvClose(s) \/ PipeDestroy(s)
      PROVE  LateOf'
  <2>1. /\ ses'["server"] = ses["server"] /\ got'["server"] = got["server"]
        /\ ending'["server"] = ending["server"]
        /\ made'["client"] \in {made["client"], made["client"] + 1}
    BY <1>1, <1>4, OtherEnd
  <2>2. made'["client"] >= made["client"]
    BY <1>2, <2>1
  <2> QED BY <2>1, <2>2, ClientLate
<1>5. \A s \in Side : s = "client" \/ s = "server"
  BY DEF Side
<1> QED BY <1>1, <1>3, <1>4, <1>5, ServerLate, FrameLate DEF Next

\* Every step keeps the two directions.
LEMMA FlowStep == FlowInv /\ [Next]_vars => FlowInv'
<1> SUFFICES ASSUME FlowInv, [Next]_vars PROVE FlowInv'
  OBVIOUS
<1>1. ChainInv' /\ TypeOK'
  BY ChainStep DEF FlowInv, ChainInv
<1>2. "server" \in Side
  BY DEF Side
<1>3. CASE UNCHANGED vars
  BY <1>1, <1>3 DEF FlowInv, FlowOf, LateOf, vars
<1>4. ASSUME Next PROVE \A t \in Side : FlowOf(t)'
  <2>1. CASE RequestRemote
    BY <1>1, <2>1, RequestRemoteFlow
  <2>2. CASE OutConnected
    <3>1. CASE ses["server"].status = "QUERIED"
      BY <1>1, <1>2, <2>2, <3>1, OutConnectedFlow
    <3>2. CASE ses["server"].status # "QUERIED"
      <4>1. /\ Dialing("server", ses["server"])
            /\ ses' = [ses EXCEPT !["server"] = After(Connected(ses["server"]), "relaying")]
            /\ UNCHANGED <<chan, pipe, made, got, ending>>
        BY <2>2, <3>2 DEF OutConnected, Dialing, After
      <4> QED BY <1>1, <1>2, <4>1, LateConnectedFlow
    <3> QED BY <3>1, <3>2
  <2>3. CASE OutConnectFailed \/ OutConnectTimeout \/ \E s \in Side : LocalReadError(s)
    BY <1>1, <2>3, EndFlow
  <2>4. CASE RecvConnect
    BY <1>1, <1>2, <2>4, RecvConnectFlow
  <2>5. ASSUME NEW s \in Side,
               \/ LocalRead(s) \/ DataSent(s) \/ WriteDone(s) \/ WriteFailed(s) \/ AckSent(s)
               \/ RecvData(s) \/ RecvAckCmd(s) \/ RecvClose(s) \/ PipeDestroy(s)
        PROVE  \A t \in Side : FlowOf(t)'
    BY <1>1, <2>5, LocalReadFlow, DataSentFlow, WriteDoneFlow, WriteFailedFlow, AckSentFlow,
       RecvDataFlow, RecvAckCmdFlow, RecvCloseFlow, PipeDestroyFlow
  <2>6. CASE LateRead
    BY <1>1, <1>2, <2>6, LateReadFlow
  <2> QED BY <1>4, <2>1, <2>2, <2>3, <2>4, <2>5, <2>6 DEF Next
<1>5. CASE Next
  <2>1. LateOf'
    BY <1>1, <1>5, LateStep
  <2> QED BY <1>1, <1>4, <1>5, <2>1 DEF FlowInv
<1> QED BY <1>3, <1>5

\* FlowInv always holds.
LEMMA FlowAlways == Spec => []FlowInv
BY FlowInit, FlowStep, PTL DEF Spec

\* Each end writes to its local socket exactly the reads of its peer, in the
\* order they were made: for every window, every volume, and every order of
\* sent handlers, ACK frames, postponed CLOSEs and losses of the pipeline.
THEOREM RelayInOrder == Spec => []InOrder
<1>1. FlowInv => InOrder
  <2> SUFFICES ASSUME FlowInv, NEW s \in Side
               PROVE  IsPrefix(got[s], [i \in 1..made[Peer(s)] |-> i])
    BY DEF InOrder
  <2> DEFINE g == got[s]
             m == made[Peer(s)]
             f == [i \in 1..m |-> i]
  <2>1. g \in Seq(Nat) /\ m \in Nat /\ ses[s] \in Session
    BY BothFlows, Ends
  <2>2. Run(g, 0) /\ Len(g) + Held(ses[s]) <= m
    BY BothFlows DEF Flow, Rx
  <2>3. Held(ses[s]) \in Nat /\ Len(g) \in Nat
    BY <2>1, ReachedType
  <2>4. Len(g) <= m
    BY <2>1, <2>2, <2>3
  <2> HIDE DEF g, m
  <2>5. f \in Seq(Nat) /\ Len(f) = m
    BY <2>1
  <2>6. \A i \in 1..Len(g) : g[i] = f[i]
    BY <2>1, <2>2, <2>3, <2>4 DEF Run
  <2>7. IsPrefix(g, f)
    <3> DEFINE a == SubSeq(g, 1, Len(g))
               b == SubSeq(f, 1, Len(g))
    <3> HIDE DEF f
    <3>1. /\ a \in Seq(Nat) /\ Len(a) = Len(g) /\ \A i \in 1..Len(g) : a[i] = g[i]
      BY <2>1, <2>3
    <3>2. /\ b \in Seq(Nat) /\ Len(b) = Len(g) /\ \A i \in 1..Len(g) : b[i] = f[i]
      BY <2>1, <2>3, <2>4, <2>5
    <3> HIDE DEF a, b
    <3>3. a = b
      BY <2>6, <3>1, <3>2, SeqEqual
    <3> QED BY <2>4, <2>5, <3>3 DEF IsPrefix, a, b
  <2> QED BY <2>7 DEF g, m
<1> QED BY <1>1, FlowAlways, PTL

\* A session that ends because its peer closed has first written everything
\* that the peer read: the CLOSE frame is the last of the channel, and
\* m_write_close_future holds it back until the queue and the write are done.
THEOREM CloseWaits == Spec => []CloseLosesNothing
<1>1. FlowInv => CloseLosesNothing
  BY BothFlows DEF CloseLosesNothing, Flow, Closed
<1> QED BY <1>1, FlowAlways, PTL

-----------------------------------------------------------------------------
(* Induction over the numbers, and the sums of the properties.               *)

\* A set of numbers has a least one.
LEMMA LeastNumber ==
  ASSUME NEW T \in SUBSET Nat, T # {}
  PROVE  \E n \in T : \A m \in T : ~(m < n)
<1> DEFINE R == OpToRel(<, Nat)
<1>1. IsWellFoundedOn(R, Nat)
  BY NatLessThanWellFounded
<1>2. \A x, y \in Nat : <<y, x>> \in R <=> y < x
  BY DEF OpToRel
<1> HIDE DEF R
<1>3. \E x \in T : \A y \in T : ~(<<y, x>> \in R)
  BY <1>1, WFMin
<1> QED
  BY <1>2, <1>3

\* A set of numbers with 0 and every successor has them all.
LEMMA AllNumbers ==
  ASSUME NEW S \in SUBSET Nat, 0 \in S, \A n \in S : n + 1 \in S
  PROVE  S = Nat
<1> SUFFICES ASSUME Nat \ S # {} PROVE FALSE
  OBVIOUS
<1>1. PICK n \in Nat \ S : \A m \in Nat \ S : ~(m < n)
  BY LeastNumber
<1>2. n # 0 /\ n - 1 \in Nat /\ n - 1 < n /\ (n - 1) + 1 = n
  BY <1>1
<1>3. n - 1 \in S
  BY <1>1, <1>2
<1> QED
  BY <1>1, <1>2, <1>3

\* f holds the sums of n up to each place, as far as place k.
Sums(f, n, k) == f = [i \in 0..k |-> IF i = 0 THEN 0 ELSE f[i - 1] + n[i]]

\* There is such a function for every place.
LEMMA SumsExist ==
  ASSUME NEW n
  PROVE  \A k \in Nat : \E f : Sums(f, n, k)
<1> DEFINE S == {k \in Nat : \E f : Sums(f, n, k)}
<1>1. 0 \in S
  <2> DEFINE f == [i \in 0..0 |-> 0]
  <2>1. Sums(f, n, 0)
    BY DEF Sums
  <2> QED
    BY <2>1
<1>2. ASSUME NEW k \in S PROVE k + 1 \in S
  <2>1. PICK f : Sums(f, n, k)
    BY <1>2
  <2> DEFINE last == f[k] + n[k + 1]
             g == [i \in 0..k + 1 |-> IF i = k + 1 THEN last ELSE f[i]]
             h == [i \in 0..k + 1 |-> IF i = 0 THEN 0 ELSE g[i - 1] + n[i]]
  <2>2. k \in Nat
    BY <1>2
  <2>3. ASSUME NEW i \in 0..k + 1 PROVE g[i] = h[i]
    <3>1. CASE i = k + 1
      <4>1. i # 0 /\ i - 1 = k /\ k \in 0..k + 1 /\ k # k + 1
        BY <2>2, <3>1
      <4>2. g[i - 1] = f[k] /\ g[i] = last
        BY <3>1, <4>1
      <4>3. h[i] = g[i - 1] + n[i]
        BY <4>1
      <4> HIDE DEF g, h
      <4> QED
        BY <3>1, <4>2, <4>3
    <3>2. CASE i # k + 1
      <4>1. i \in 0..k /\ g[i] = f[i]
        BY <2>2, <2>3, <3>2
      <4>2. f[i] = IF i = 0 THEN 0 ELSE f[i - 1] + n[i]
        BY <2>1, <4>1 DEF Sums
      <4>3. i # 0 => i - 1 \in 0..k + 1 /\ i - 1 # k + 1
        BY <2>2, <4>1
      <4>4. i # 0 => g[i - 1] = f[i - 1]
        BY <4>3
      <4>5. h[i] = IF i = 0 THEN 0 ELSE g[i - 1] + n[i]
        BY <2>3
      <4> HIDE DEF g, h
      <4> QED
        BY <4>1, <4>2, <4>4, <4>5
    <3> QED
      BY <3>1, <3>2
  <2>4. g = h
    BY <2>3
  <2>5. Sums(g, n, k + 1)
    BY <2>4 DEF Sums
  <2> QED
    BY <2>2, <2>5
<1> HIDE DEF S
<1>3. S = Nat
  <2>1. S \in SUBSET Nat
    BY DEF S
  <2> QED
    BY <1>1, <1>2, <2>1, AllNumbers
<1> QED
  BY <1>3 DEF S

\* The sums of a sequence, the last of which is its total.
LEMMA SumsOf ==
  ASSUME NEW n \in Seq(Nat)
  PROVE  \E f : /\ Total(n) = f[Len(n)] /\ f[0] = 0
                /\ \A i \in 1..Len(n) : f[i] = f[i - 1] + n[i]
                /\ \A i \in 0..Len(n) : f[i] \in Nat
<1> DEFINE f == CHOOSE f : Sums(f, n, Len(n))
           l == Len(n)
           S == {k \in Nat : k <= l => f[k] \in Nat}
<1>1. l \in Nat /\ Sums(f, n, l)
  BY SumsExist
<1>2. Total(n) = f[l]
  BY DEF Total, Sums
<1> HIDE DEF f
<1>3. f[0] = 0 /\ \A i \in 1..l : f[i] = f[i - 1] + n[i]
  <2>1. \A i \in 0..l : f[i] = IF i = 0 THEN 0 ELSE f[i - 1] + n[i]
    BY <1>1 DEF Sums
  <2>2. 0 \in 0..l /\ \A i \in 1..l : i \in 0..l /\ i # 0
    BY <1>1
  <2> HIDE DEF l
  <2> QED
    BY <2>1, <2>2
<1>4. \A i \in 1..l : n[i] \in Nat
  OBVIOUS
<1> HIDE DEF l
<1>5. 0 \in S
  BY <1>3
<1>6. ASSUME NEW k \in S PROVE k + 1 \in S
  <2>1. k \in Nat /\ (k <= l => f[k] \in Nat)
    BY <1>6
  <2>2. CASE k + 1 <= l
    <3>1. k + 1 \in 1..l /\ (k + 1) - 1 = k /\ k <= l
      BY <1>1, <2>1, <2>2
    <3>2. f[k + 1] = f[k] + n[k + 1] /\ n[k + 1] \in Nat
      BY <1>3, <1>4, <3>1
    <3> QED
      BY <2>1, <3>1, <3>2
  <2>3. CASE ~(k + 1 <= l)
    BY <2>1, <2>3
  <2> QED
    BY <2>2, <2>3
<1>7. S = Nat
  <2>1. S \in SUBSET Nat
    OBVIOUS
  <2> HIDE DEF S
  <2> QED
    BY <1>5, <1>6, <2>1, AllNumbers
<1>8. \A i \in 0..l : f[i] \in Nat
  <2>1. \A i \in 0..l : i \in S /\ i <= l
    BY <1>1, <1>7
  <2> QED
    BY <2>1
<1> QED
  BY <1>2, <1>3, <1>8 DEF l

\* f sums n over the l places after a, which hold what m holds.
Adds(f, n, a, l) == \A i \in 1..l : f[a + i] = f[a + i - 1] + n[a + i]
Holds(n, a, m, l) == \A i \in 1..l : n[a + i] = m[i] /\ m[i] \in Nat

\* Sums of a part of a sequence, from place a on.
LEMMA SumsShift ==
  ASSUME NEW n, NEW m, NEW f, NEW g, NEW a \in Nat, NEW l \in Nat,
         g[0] = 0, f[a] \in Nat,
         Adds(f, n, a, l), Adds(g, m, 0, l), Holds(n, a, m, l)
  PROVE  f[a + l] = f[a] + g[l] /\ g[l] \in Nat
<1> DEFINE S == {k \in Nat : k <= l => f[a + k] = f[a] + g[k] /\ g[k] \in Nat}
<1>1. 0 \in S
  BY a + 0 = a
<1>2. ASSUME NEW k \in S PROVE k + 1 \in S
  <2>1. k \in Nat /\ (k <= l => f[a + k] = f[a] + g[k] /\ g[k] \in Nat)
    BY <1>2
  <2>2. CASE k + 1 <= l
    <3>1. k + 1 \in 1..l /\ (k + 1) - 1 = k /\ a + (k + 1) - 1 = a + k /\ k <= l
      BY <2>1, <2>2
    <3>2. /\ f[a + (k + 1)] = f[a + (k + 1) - 1] + n[a + (k + 1)]
          /\ g[0 + (k + 1)] = g[0 + (k + 1) - 1] + m[0 + (k + 1)]
          /\ n[a + (k + 1)] = m[k + 1] /\ m[k + 1] \in Nat
      BY <3>1 DEF Adds, Holds
    <3>3. 0 + (k + 1) = k + 1 /\ 0 + (k + 1) - 1 = k
      BY <2>1
    <3> QED
      BY <2>1, <3>1, <3>2, <3>3
  <2>3. CASE ~(k + 1 <= l)
    BY <2>1, <2>3
  <2> QED
    BY <2>2, <2>3
<1>3. S = Nat
  <2>1. S \in SUBSET Nat
    OBVIOUS
  <2> HIDE DEF S
  <2> QED
    BY <1>1, <1>2, <2>1, AllNumbers
<1>4. l \in S
  BY <1>3
<1> QED
  BY <1>4

\* q is a followed by b.
Parts(q, a, b) ==
  /\ Len(q) = Len(a) + Len(b)
  /\ \A i \in 1..Len(a) : q[i] = a[i]
  /\ \A i \in 1..Len(b) : q[Len(a) + i] = b[i]

\* The total of a sequence in two parts.
LEMMA TotalSplit ==
  ASSUME NEW n \in Seq(Nat), NEW a \in Seq(Nat), NEW b \in Seq(Nat), Parts(n, a, b)
  PROVE  /\ Total(n) = Total(a) + Total(b)
         /\ Total(n) \in Nat /\ Total(a) \in Nat /\ Total(b) \in Nat
<1> DEFINE la == Len(a)
           lb == Len(b)
           ln == Len(n)
<1>1. PICK f : /\ Total(n) = f[ln] /\ f[0] = 0
               /\ \A i \in 1..ln : f[i] = f[i - 1] + n[i]
               /\ \A i \in 0..ln : f[i] \in Nat
  BY SumsOf
<1>2. PICK g : /\ Total(a) = g[la] /\ g[0] = 0
               /\ \A i \in 1..la : g[i] = g[i - 1] + a[i]
               /\ \A i \in 0..la : g[i] \in Nat
  BY SumsOf
<1>3. PICK h : /\ Total(b) = h[lb] /\ h[0] = 0
               /\ \A i \in 1..lb : h[i] = h[i - 1] + b[i]
               /\ \A i \in 0..lb : h[i] \in Nat
  BY SumsOf
<1>4. la \in Nat /\ lb \in Nat /\ ln \in Nat /\ ln = la + lb
  BY DEF Parts
<1>5. /\ \A i \in 1..la : n[i] = a[i] /\ a[i] \in Nat
      /\ \A i \in 1..lb : n[la + i] = b[i] /\ b[i] \in Nat
  BY DEF Parts
<1> HIDE DEF la, lb, ln
<1>6. Adds(f, n, 0, la) /\ Holds(n, 0, a, la) /\ Adds(g, a, 0, la)
  <2>1. ASSUME NEW i \in 1..la PROVE 0 + i = i /\ i \in 1..ln
    BY <1>4
  <2> QED
    BY <1>1, <1>2, <1>5, <2>1 DEF Adds, Holds
<1>7. Adds(f, n, la, lb) /\ Holds(n, la, b, lb) /\ Adds(h, b, 0, lb)
  <2>1. ASSUME NEW i \in 1..lb PROVE f[la + i] = f[la + i - 1] + n[la + i]
    <3> DEFINE j == la + i
    <3>1. j \in 1..ln
      BY <1>4
    <3> HIDE DEF j
    <3>2. f[j] = f[j - 1] + n[j]
      BY <1>1, <3>1
    <3>3. j = la + i
      BY DEF j
    <3> QED
      BY <1>4, <3>1, <3>2, <3>3
  <2>2. ASSUME NEW i \in 1..lb PROVE 0 + i = i
    OBVIOUS
  <2> QED
    BY <1>3, <1>5, <2>1, <2>2 DEF Adds, Holds
<1>8. f[la] = g[la]
  <2>1. f[0] \in Nat /\ 0 \in Nat
    BY <1>1
  <2>2. f[0 + la] = f[0] + g[la] /\ g[la] \in Nat
    BY <1>2, <1>4, <1>6, <2>1, SumsShift, Zenon
  <2>3. 0 + la = la
    BY <1>4
  <2> QED
    BY <1>1, <2>2, <2>3
<1>9. f[la + lb] = f[la] + h[lb]
  <2>1. f[la] \in Nat
    <3>1. la \in 0..ln
      BY <1>4
    <3> QED
      BY <1>1, <3>1
  <2>2. la \in Nat /\ lb \in Nat /\ h[0] = 0
    BY <1>3, <1>4
  <2>3. f[la + lb] = f[la] + h[lb] /\ h[lb] \in Nat
    BY <1>7, <2>1, <2>2, SumsShift, Zenon
  <2> QED
    BY <2>3
<1>10. Total(n) \in Nat /\ Total(a) \in Nat /\ Total(b) \in Nat
  <2>1. ln \in 0..ln /\ la \in 0..la /\ lb \in 0..lb
    BY <1>4
  <2> QED
    BY <1>1, <1>2, <1>3, <2>1
<1> QED
  BY <1>1, <1>2, <1>3, <1>4, <1>8, <1>9, <1>10

\* The total of no number and of one.
LEMMA TotalShort ==
  ASSUME NEW n \in Seq(Nat), Len(n) <= 1
  PROVE  /\ Len(n) = 0 => Total(n) = 0
         /\ Len(n) = 1 => Total(n) = n[1]
<1>1. PICK f : /\ Total(n) = f[Len(n)] /\ f[0] = 0
               /\ \A i \in 1..Len(n) : f[i] = f[i - 1] + n[i]
               /\ \A i \in 0..Len(n) : f[i] \in Nat
  BY SumsOf
<1>2. ASSUME Len(n) = 1 PROVE Total(n) = n[1]
  <2>0. \A i \in 1..Len(n) : n[i] \in Nat
    OBVIOUS
  <2>1. 1 \in 1..Len(n) /\ 1 - 1 = 0
    BY <1>2
  <2>3. n[1] \in Nat
    BY <2>0, <2>1
  <2> QED
    BY <1>1, <1>2, <2>1, <2>3
<1> QED
  BY <1>1, <1>2

-----------------------------------------------------------------------------
(* Sums over the members of a sequence.                                      *)

Weigh(q, w) == [i \in 1..Len(q) |-> w[q[i]]]
Weight(q, w) == Total(Weigh(q, w))
Weighed(n, q, w) == Len(n) = Len(q) /\ \A i \in 1..Len(q) : n[i] = w[q[i]]

\* The weights are a sequence of numbers.
LEMMA WeighType ==
  ASSUME NEW S, NEW w \in [S -> Nat], NEW q \in Seq(S)
  PROVE  Weigh(q, w) \in Seq(Nat) /\ Weighed(Weigh(q, w), q, w)
<1>1. Len(q) \in Nat /\ \A i \in 1..Len(q) : q[i] \in S
  OBVIOUS
<1>2. \A i \in 1..Len(q) : w[q[i]] \in Nat
  BY <1>1
<1> QED
  BY <1>1, <1>2 DEF Weigh, Weighed

\* A sequence in two parts.
LEMMA WeightSplit ==
  ASSUME NEW S, NEW w \in [S -> Nat], NEW q \in Seq(S), NEW a \in Seq(S), NEW b \in Seq(S),
         Parts(q, a, b)
  PROVE  /\ Weight(q, w) = Weight(a, w) + Weight(b, w)
         /\ Weight(q, w) \in Nat /\ Weight(a, w) \in Nat /\ Weight(b, w) \in Nat
<1> DEFINE n == Weigh(q, w)
           m == Weigh(a, w)
           k == Weigh(b, w)
<1>1. n \in Seq(Nat) /\ Weighed(n, q, w)
  BY WeighType, Zenon
<1>2. m \in Seq(Nat) /\ Weighed(m, a, w)
  BY WeighType, Zenon
<1>3. k \in Seq(Nat) /\ Weighed(k, b, w)
  BY WeighType, Zenon
<1>4. Weight(q, w) = Total(n) /\ Weight(a, w) = Total(m) /\ Weight(b, w) = Total(k)
  BY DEF Weight
<1> DEFINE la == Len(a)
           lb == Len(b)
           lq == Len(q)
<1>5. la \in Nat /\ lb \in Nat /\ lq = la + lb
  BY DEF Parts
<1>6. (\A i \in 1..la : q[i] = a[i]) /\ \A i \in 1..lb : q[la + i] = b[i]
  BY DEF Parts
<1> HIDE DEF n, m, k, la, lb, lq
<1>7. Parts(n, m, k)
  <2>1. ASSUME NEW i \in 1..la PROVE n[i] = m[i]
    <3>1. i \in 1..lq
      BY <1>5
    <3> QED
      BY <1>1, <1>2, <1>6, <3>1 DEF la, lq, Weighed
  <2>2. ASSUME NEW i \in 1..lb PROVE n[la + i] = k[i]
    <3> DEFINE j == la + i
    <3>1. j \in 1..lq
      BY <1>5
    <3>2. q[j] = b[i]
      BY <1>6
    <3> HIDE DEF j
    <3>3. n[j] = k[i]
      BY <1>1, <1>3, <3>1, <3>2 DEF lb, lq, Weighed
    <3> QED
      BY <3>3 DEF j
  <2>3. Len(n) = lq /\ Len(m) = la /\ Len(k) = lb
    BY <1>1, <1>2, <1>3 DEF la, lb, lq, Weighed
  <2> QED
    BY <1>5, <2>1, <2>2, <2>3 DEF Parts
<1>8. n \in Seq(Nat) /\ m \in Seq(Nat) /\ k \in Seq(Nat)
  BY <1>1, <1>2, <1>3
<1>9. /\ Total(n) = Total(m) + Total(k)
      /\ Total(n) \in Nat /\ Total(m) \in Nat /\ Total(k) \in Nat
  BY <1>7, <1>8, TotalSplit
<1> QED
  BY <1>4, <1>9

\* A sequence of one member, and of none.
LEMMA WeightShort ==
  ASSUME NEW S, NEW w \in [S -> Nat]
  PROVE  /\ Weight(<<>>, w) = 0
         /\ \A x \in S : Weight(<<x>>, w) = w[x]
<1>1. Weight(<<>>, w) = 0
  <2> DEFINE e == <<>>
  <2>1. e \in Seq(S) /\ Len(e) = 0
    OBVIOUS
  <2> HIDE DEF e
  <2> DEFINE n == Weigh(e, w)
  <2>2. n \in Seq(Nat) /\ Len(n) = 0
    BY <2>1, WeighType DEF Weighed
  <2>3. Weight(e, w) = Total(n)
    BY DEF Weight
  <2> HIDE DEF n
  <2>4. Len(n) <= 1
    BY <2>2
  <2> QED
    BY <2>2, <2>3, <2>4, TotalShort DEF e
<1>2. ASSUME NEW x \in S PROVE Weight(<<x>>, w) = w[x]
  <2> DEFINE e == <<x>>
  <2>1. e \in Seq(S) /\ Len(e) = 1 /\ e[1] = x
    OBVIOUS
  <2> HIDE DEF e
  <2> DEFINE n == Weigh(e, w)
  <2>2. n \in Seq(Nat) /\ Len(n) = 1 /\ \A i \in 1..1 : n[i] = w[e[i]]
    BY <2>1, WeighType DEF Weighed
  <2>3. Weight(e, w) = Total(n)
    BY DEF Weight
  <2> HIDE DEF n
  <2>4. Len(n) <= 1 /\ n[1] = w[x]
    BY <2>1, <2>2
  <2>5. Total(n) = n[1]
    BY <2>2, <2>4, TotalShort
  <2> QED
    BY <2>3, <2>4, <2>5 DEF e
<1> QED
  BY <1>1, <1>2

\* One more member, one less, and a prefix.
LEMMA WeightFacts ==
  ASSUME NEW S, NEW w \in [S -> Nat], NEW q \in Seq(S)
  PROVE  /\ Weight(q, w) \in Nat
         /\ \A x \in S : Weight(Append(q, x), w) = Weight(q, w) + w[x]
         /\ q # <<>> => /\ Weight(q, w) = w[Head(q)] + Weight(Tail(q), w)
                        /\ Weight(Tail(q), w) \in Nat
         /\ \A k \in 0..Len(q) : /\ Weight(SubSeq(q, 1, k), w) <= Weight(q, w)
                                 /\ Weight(SubSeq(q, 1, k), w) \in Nat
<1> DEFINE l == Len(q)
<1>0. l \in Nat
  OBVIOUS
<1>1. ASSUME NEW x \in S
      PROVE  Weight(Append(q, x), w) = Weight(q, w) + w[x] /\ Weight(q, w) \in Nat
  <2> DEFINE p == Append(q, x)
             e == <<x>>
  <2>1. p \in Seq(S) /\ Len(p) = l + 1 /\ (\A i \in 1..l : p[i] = q[i]) /\ p[l + 1] = x
    BY AppendProperties
  <2>2. e \in Seq(S) /\ Len(e) = 1 /\ e[1] = x
    OBVIOUS
  <2>3. Weight(e, w) = w[x]
    BY WeightShort
  <2> HIDE DEF p, e
  <2>4. Parts(p, q, e)
    BY <2>1, <2>2 DEF Parts
  <2>5. Weight(p, w) = Weight(q, w) + Weight(e, w) /\ Weight(q, w) \in Nat
    BY <2>1, <2>2, <2>4, WeightSplit, Zenon
  <2> QED
    BY <2>3, <2>5 DEF p
<1>2. ASSUME q # <<>>
      PROVE  Weight(q, w) = w[Head(q)] + Weight(Tail(q), w) /\ Weight(Tail(q), w) \in Nat
  <2> DEFINE h == Head(q)
             e == <<h>>
             t == Tail(q)
  <2>1. h \in S /\ h = q[1]
    BY <1>2
  <2>2. t \in Seq(S) /\ Len(t) = l - 1 /\ \A i \in 1..Len(t) : t[i] = q[1 + i]
    BY <1>2
  <2> HIDE DEF h
  <2>3. e \in Seq(S) /\ Len(e) = 1 /\ e[1] = h
    BY <2>1
  <2>4. Weight(e, w) = w[h]
    BY <2>1, WeightShort
  <2> HIDE DEF t, e
  <2>5. Parts(q, e, t)
    BY <1>0, <2>1, <2>2, <2>3 DEF Parts
  <2>6. Weight(q, w) = Weight(e, w) + Weight(t, w) /\ Weight(t, w) \in Nat
    BY <2>2, <2>3, <2>5, WeightSplit, Zenon
  <2> QED
    BY <2>4, <2>6 DEF h, t
<1>3. ASSUME NEW k \in 0..l
      PROVE  /\ Weight(SubSeq(q, 1, k), w) <= Weight(q, w)
             /\ Weight(SubSeq(q, 1, k), w) \in Nat /\ Weight(q, w) \in Nat
  <2> DEFINE a == SubSeq(q, 1, k)
             b == SubSeq(q, k + 1, l)
  <2>1. /\ a \in Seq(S) /\ Len(a) = k /\ \A i \in 1..k : a[i] = q[i]
    <3>1. \A i \in 1..k : i \in 1..Len(q)
      BY <1>0
    <3> QED
      BY <3>1
  <2>2. /\ b \in Seq(S) /\ Len(b) = l - k /\ \A i \in 1..(l - k) : b[i] = q[k + i]
    <3>1. \A i \in (k + 1)..l : i \in 1..Len(q)
      BY <1>0
    <3>2. k \in Nat /\ l \in Nat /\ k <= l
      BY <1>0
    <3> QED
      BY <3>1, <3>2
  <2> HIDE DEF a, b
  <2>3. Parts(q, a, b)
    BY <1>0, <2>1, <2>2 DEF Parts
  <2>4. /\ Weight(q, w) = Weight(a, w) + Weight(b, w)
        /\ Weight(q, w) \in Nat /\ Weight(a, w) \in Nat /\ Weight(b, w) \in Nat
    BY <2>1, <2>2, <2>3, WeightSplit, Zenon
  <2> DEFINE x == Weight(q, w)
             y == Weight(a, w)
             z == Weight(b, w)
  <2>5. x = y + z /\ x \in Nat /\ y \in Nat /\ z \in Nat
    BY <2>4
  <2> HIDE DEF x, y, z
  <2>6. y <= x
    BY <2>5
  <2> QED
    BY <2>5, <2>6 DEF x, y, a
<1>4. Weight(q, w) \in Nat
  <2>1. 0 \in 0..l
    BY <1>0
  <2> QED
    BY <1>3, <2>1
<1> QED
  BY <1>1, <1>2, <1>3, <1>4

\* The reads and the credit of a channel: one more frame, one less, a prefix.
LEMMA FrameSums ==
  ASSUME NEW q \in Seq(Frame)
  PROVE  /\ Reads(q) \in Nat /\ AckTotal(q) \in Nat
         /\ \A f \in Frame : /\ Reads(Append(q, f)) = Reads(q) + Counted(f)
                             /\ AckTotal(Append(q, f)) = AckTotal(q) + f.ack
         /\ q # <<>> => /\ Reads(q) = Counted(Head(q)) + Reads(Tail(q))
                        /\ AckTotal(q) = Head(q).ack + AckTotal(Tail(q))
         /\ \A n \in 0..Len(q) : /\ Reads(SubSeq(q, 1, n)) <= Reads(q)
                                 /\ AckTotal(SubSeq(q, 1, n)) <= AckTotal(q)
<1> DEFINE r == [f \in Frame |-> Counted(f)]
           a == [f \in Frame |-> f.ack]
<1>1. r \in [Frame -> Nat] /\ a \in [Frame -> Nat]
  BY DEF Counted, Frame
<1>2. ASSUME NEW p \in Seq(Frame)
      PROVE  Reads(p) = Weight(p, r) /\ AckTotal(p) = Weight(p, a)
  <2>1. \A i \in 1..Len(p) : p[i] \in Frame
    OBVIOUS
  <2>2. \A i \in 1..Len(p) : r[p[i]] = Counted(p[i]) /\ a[p[i]] = p[i].ack
    BY <2>1
  <2> HIDE DEF r, a
  <2>3. /\ [i \in 1..Len(p) |-> Counted(p[i])] = Weigh(p, r)
        /\ [i \in 1..Len(p) |-> p[i].ack] = Weigh(p, a)
    BY <2>2 DEF Weigh
  <2> QED BY <2>3, Zenon DEF Reads, AckTotal, Weight
<1>3. \A f \in Frame : r[f] = Counted(f) /\ a[f] = f.ack
  OBVIOUS
<1> HIDE DEF r, a
<1>4. /\ Weight(q, r) \in Nat
      /\ \A x \in Frame : Weight(Append(q, x), r) = Weight(q, r) + r[x]
      /\ q # <<>> => Weight(q, r) = r[Head(q)] + Weight(Tail(q), r)
      /\ \A k \in 0..Len(q) : Weight(SubSeq(q, 1, k), r) <= Weight(q, r)
  BY <1>1, WeightFacts
<1>5. /\ Weight(q, a) \in Nat
      /\ \A x \in Frame : Weight(Append(q, x), a) = Weight(q, a) + a[x]
      /\ q # <<>> => Weight(q, a) = a[Head(q)] + Weight(Tail(q), a)
      /\ \A k \in 0..Len(q) : Weight(SubSeq(q, 1, k), a) <= Weight(q, a)
  BY <1>1, WeightFacts
<1>6. Reads(q) \in Nat /\ AckTotal(q) \in Nat
  BY <1>2, <1>4, <1>5
<1>7. ASSUME NEW f \in Frame
      PROVE  /\ Reads(Append(q, f)) = Reads(q) + Counted(f)
             /\ AckTotal(Append(q, f)) = AckTotal(q) + f.ack
  <2>1. Append(q, f) \in Seq(Frame)
    OBVIOUS
  <2> QED BY <1>2, <1>3, <1>4, <1>5, <2>1
<1>8. ASSUME q # <<>>
      PROVE  /\ Reads(q) = Counted(Head(q)) + Reads(Tail(q))
             /\ AckTotal(q) = Head(q).ack + AckTotal(Tail(q))
  <2>1. Tail(q) \in Seq(Frame) /\ Head(q) \in Frame
    BY <1>8
  <2> QED BY <1>2, <1>3, <1>4, <1>5, <1>8, <2>1
<1>9. ASSUME NEW n \in 0..Len(q)
      PROVE  /\ Reads(SubSeq(q, 1, n)) <= Reads(q)
             /\ AckTotal(SubSeq(q, 1, n)) <= AckTotal(q)
  <2>1. SubSeq(q, 1, n) \in Seq(Frame)
    BY Cut
  <2> QED BY <1>2, <1>4, <1>5, <2>1
<1> QED BY <1>6, <1>7, <1>8, <1>9

\* The credit of the writes under way.
LEMMA WriteSums ==
  ASSUME NEW q \in Seq(Write)
  PROVE  /\ AckTotal(q) \in Nat
         /\ \A w \in Write : AckTotal(Append(q, w)) = AckTotal(q) + w.ack
         /\ q # <<>> => AckTotal(q) = Head(q).ack + AckTotal(Tail(q))
<1> DEFINE a == [w \in Write |-> w.ack]
<1>1. a \in [Write -> Nat]
  BY DEF Write
<1>2. ASSUME NEW p \in Seq(Write)
      PROVE  AckTotal(p) = Weight(p, a)
  <2>1. \A i \in 1..Len(p) : p[i] \in Write
    OBVIOUS
  <2>2. \A i \in 1..Len(p) : a[p[i]] = p[i].ack
    BY <2>1
  <2> HIDE DEF a
  <2>3. [i \in 1..Len(p) |-> p[i].ack] = Weigh(p, a)
    BY <2>2 DEF Weigh
  <2> QED BY <2>3, Zenon DEF AckTotal, Weight
<1>3. \A w \in Write : a[w] = w.ack
  OBVIOUS
<1> HIDE DEF a
<1>4. /\ Weight(q, a) \in Nat
      /\ \A x \in Write : Weight(Append(q, x), a) = Weight(q, a) + a[x]
      /\ q # <<>> => Weight(q, a) = a[Head(q)] + Weight(Tail(q), a)
  BY <1>1, WeightFacts
<1>5. ASSUME NEW w \in Write PROVE AckTotal(Append(q, w)) = AckTotal(q) + w.ack
  <2>1. Append(q, w) \in Seq(Write)
    OBVIOUS
  <2> QED BY <1>2, <1>3, <1>4, <2>1
<1>6. ASSUME q # <<>> PROVE AckTotal(q) = Head(q).ack + AckTotal(Tail(q))
  <2>1. Tail(q) \in Seq(Write) /\ Head(q) \in Write
    BY <1>6
  <2> QED BY <1>2, <1>3, <1>4, <1>6, <2>1
<1> QED BY <1>2, <1>4, <1>5, <1>6

\* The sums of an empty sequence.
LEMMA NoSums == Reads(<<>>) = 0 /\ AckTotal(<<>>) = 0
<1> DEFINE e == <<>>
           z == [i \in 1..Len(e) |-> 0]
<1>1. e \in Seq(Frame) /\ Len(e) = 0 /\ 1..Len(e) = {}
  OBVIOUS
<1>2. [i \in 1..Len(e) |-> Counted(e[i])] = z /\ [i \in 1..Len(e) |-> e[i].ack] = z
  BY <1>1
<1>3. z \in Seq(Nat) /\ Len(z) = 0
  BY <1>1
<1>4. Total(z) = 0
  <2> HIDE DEF z
  <2>1. Len(z) <= 1
    BY <1>3
  <2> QED BY <1>3, <2>1, TotalShort
<1>5. Reads(e) = 0 /\ AckTotal(e) = 0
  BY <1>2, <1>4, Zenon DEF Reads, AckTotal
<1> QED BY <1>5

-----------------------------------------------------------------------------
(* Credit.  The window is shared out, at any time, between the sender, which *)
(* holds what it may still read, the frames on the way, the receiver, and    *)
(* the ACK frames on the way back.                                           *)

\* What the sender holds: its counter, the read it paid for, and the first
\* read, which is free.
Near(c) == c.credit + (IF c.status = "FORWARD" THEN c.reading ELSE 0)
                    + (IF c.firstCall THEN 1 ELSE 0)
\* What the receiver holds.
Far(c) == c.pushAck + AckTotal(c.writes)

Account(s) == Near(ses[s]) + Reads(chan[s]) + Far(ses[Peer(s)]) + AckTotal(chan[Peer(s)])

\* Nothing is invented, and nothing is lost until an end is destroyed.
Whole == \A s \in Side : pipe[s] /\ ses[s].status # "DESTROY"
Balanced(s) == Account(s) <= Window + 1 /\ (Whole => Account(s) = Window + 1)

\* The credit a receiver holds is one for each read it holds.
Matched(c) ==
  /\ Len(c.queue) = c.pushAck
  /\ \A i \in 1..Len(c.writes) : Len(c.writes[i].data) = c.writes[i].ack

\* A session that does not relay yet.
Early(c) ==
  /\ c.status = "NONE" =>
       c.credit = Window /\ c.firstCall /\ c.pushAck = 0 /\ c.writes = <<>>
  /\ c.status \in {"NONE", "HANDSHAKE", "QUERIED"} => ~c.waitAck

\* Only ACK frames carry credit.
PlainFrame(f) == f.cmd # "ACK" => f.ack = 0
Plain(q) == \A k \in 1..Len(q) : PlainFrame(q[k])

CreditInv ==
  \A s \in Side : Balanced(s) /\ Matched(ses[s]) /\ Early(ses[s]) /\ Plain(chan[s])

\* One more frame, one less, a prefix.
LEMMA PlainFacts ==
  ASSUME NEW q \in Seq(Frame), Plain(q)
  PROVE  /\ \A f \in Frame : PlainFrame(f) => Plain(Append(q, f))
         /\ q # <<>> => Plain(Tail(q)) /\ PlainFrame(Head(q))
         /\ \A n \in 0..Len(q) : Plain(SubSeq(q, 1, n))
<1>0. Len(q) \in Nat
  OBVIOUS
<1>1. ASSUME NEW f \in Frame, PlainFrame(f) PROVE Plain(Append(q, f))
  <2> DEFINE p == Append(q, f)
  <2>1. Len(p) = Len(q) + 1 /\ (\A k \in 1..Len(q) : p[k] = q[k]) /\ p[Len(q) + 1] = f
    BY Pushed
  <2> HIDE DEF p
  <2>2. \A k \in 1..Len(p) : k \in 1..Len(q) \/ k = Len(q) + 1
    BY <1>0, <2>1
  <2>3. Plain(p)
    BY <1>1, <2>1, <2>2 DEF Plain
  <2> QED BY <2>3 DEF p
<1>2. ASSUME q # <<>> PROVE Plain(Tail(q)) /\ PlainFrame(Head(q))
  <2> DEFINE p == Tail(q)
  <2>1. Len(p) = Len(q) - 1 /\ (\A k \in 1..(Len(q) - 1) : p[k] = q[k + 1]) /\ Head(q) = q[1]
    BY <1>2, Parsed
  <2>2. 1 \in 1..Len(q)
    BY <1>0, <1>2
  <2> HIDE DEF p
  <2>3. \A k \in 1..Len(p) : k + 1 \in 1..Len(q)
    BY <1>0, <2>1
  <2>4. Plain(p)
    BY <2>1, <2>3 DEF Plain
  <2> QED BY <2>1, <2>2, <2>4 DEF p, Plain
<1>3. ASSUME NEW n \in 0..Len(q) PROVE Plain(SubSeq(q, 1, n))
  <2>1. Len(SubSeq(q, 1, n)) = n /\ \A k \in 1..n : SubSeq(q, 1, n)[k] = q[k]
    BY Cut
  <2>2. \A k \in 1..n : k \in 1..Len(q)
    BY <1>0
  <2> QED BY <2>1, <2>2 DEF Plain
<1> QED BY <1>1, <1>2, <1>3

\* The shares are numbers.
LEMMA ShareTypes ==
  ASSUME NEW c \in Session
  PROVE  Near(c) \in Nat /\ Far(c) \in Nat /\ AckTotal(c.writes) \in Nat /\ c.pushAck \in Nat
<1>1. /\ c.credit \in Nat /\ c.reading \in Nat /\ c.pushAck \in Nat /\ c.writes \in Seq(Write)
  BY DEF Session
<1>2. AckTotal(c.writes) \in Nat
  BY <1>1, WriteSums
<1> QED BY <1>1, <1>2 DEF Near, Far

\* pre_call_ack_func moves credit from the counter to the read.
LEMMA GatedReadShare ==
  ASSUME NEW c \in Session, c.status = "FORWARD"
  PROVE  LET d == GatedRead(c) IN
         /\ Near(d) = Near(c) /\ Far(d) = Far(c) /\ (Matched(c) => Matched(d))
         /\ d.status = "FORWARD"
<1> DEFINE d == GatedRead(c)
<1>0. c.credit \in Nat /\ c.reading \in Nat
  BY DEF Session
<1>1. CASE c.firstCall
  <2>1. /\ d.firstCall = FALSE /\ d.credit = c.credit /\ d.reading = c.reading + 1
        /\ d.status = c.status /\ d.queue = c.queue /\ d.pushAck = c.pushAck /\ d.writes = c.writes
    BY <1>1 DEF GatedRead, Session
  <2> HIDE DEF d
  <2> QED BY <1>0, <1>1, <2>1 DEF Near, Far, Matched, d
<1>2. CASE ~c.firstCall /\ c.credit = 0
  <2>1. /\ d.firstCall = c.firstCall /\ d.credit = c.credit /\ d.reading = c.reading
        /\ d.status = c.status /\ d.queue = c.queue /\ d.pushAck = c.pushAck /\ d.writes = c.writes
    BY <1>2 DEF GatedRead, Session
  <2> HIDE DEF d
  <2> QED BY <1>0, <1>2, <2>1 DEF Near, Far, Matched, d
<1>3. CASE ~c.firstCall /\ c.credit # 0
  <2>1. /\ d.firstCall = c.firstCall /\ d.credit = c.credit - 1 /\ d.reading = c.reading + 1
        /\ d.status = c.status /\ d.queue = c.queue /\ d.pushAck = c.pushAck /\ d.writes = c.writes
    BY <1>3 DEF GatedRead, Session
  <2> HIDE DEF d
  <2> QED BY <1>0, <1>3, <2>1 DEF Near, Far, Matched, d
<1> QED BY <1>1, <1>2, <1>3

\* Two sessions with the same shares.
Alike(c, d) ==
  /\ d.status = c.status /\ d.credit = c.credit /\ d.reading = c.reading
  /\ d.firstCall = c.firstCall

\* A write that is started or taken away.
LEMMA MoreWrites ==
  ASSUME NEW c \in Session, NEW w \in Write, Matched(c), Len(w.data) = w.ack,
         NEW d, d.writes = Append(c.writes, w), Len(d.queue) = d.pushAck
  PROVE  /\ Matched(d) /\ AckTotal(d.writes) = AckTotal(c.writes) + w.ack
<1> DEFINE p == c.writes
           q == Append(p, w)
<1>1. p \in Seq(Write)
  BY DEF Session
<1>2. AckTotal(q) = AckTotal(p) + w.ack
  BY <1>1, WriteSums
<1>3. Len(p) \in Nat /\ Len(q) = Len(p) + 1 /\ (\A i \in 1..Len(p) : q[i] = p[i])
      /\ q[Len(p) + 1] = w
  BY <1>1, AppendProperties
<1>4. \A i \in 1..Len(p) : Len(p[i].data) = p[i].ack
  BY DEF Matched
<1> HIDE DEF p, q
<1>5. \A i \in 1..Len(q) : i \in 1..Len(p) \/ i = Len(p) + 1
  BY <1>3
<1>6. \A i \in 1..Len(q) : Len(q[i].data) = q[i].ack
  BY <1>3, <1>4, <1>5
<1>7. d.writes = q /\ c.writes = p
  BY DEF p, q
<1> QED BY <1>2, <1>6, <1>7 DEF Matched

\* ReadDataCache::async_read moves the credit of the queue to a write.
LEMMA CacheReadShare ==
  ASSUME NEW c \in Session, c.status = "FORWARD" \/ c.queue = <<>>, Matched(c)
  PROVE  LET d == CacheRead(c) IN
         /\ Far(d) = Far(c) /\ Matched(d) /\ Alike(c, d) /\ d.waitAck = c.waitAck
<1>0. c.queue \in Seq(Nat) /\ c.pushAck \in Nat /\ c.writes \in Seq(Write)
  BY DEF Session
<1>1. CASE c.queue = <<>>
  <2> DEFINE d == [c EXCEPT !.waiting = TRUE]
  <2>1. CacheRead(c) = d
    BY <1>1 DEF CacheRead
  <2>2. /\ d.queue = c.queue /\ d.pushAck = c.pushAck /\ d.writes = c.writes
        /\ d.waitAck = c.waitAck /\ Alike(c, d)
    BY DEF Session, Alike
  <2> HIDE DEF d
  <2> QED BY <2>1, <2>2 DEF Far, Matched
<1>2. CASE c.queue # <<>>
  <2> DEFINE w == [data |-> c.queue, ack |-> c.pushAck]
             ws == Append(c.writes, w)
             d == [c EXCEPT !.asyncWriting = TRUE, !.writes = ws,
                            !.queue = <<>>, !.pushAck = 0]
  <2>1. CacheRead(c) = d
    BY <1>2 DEF CacheRead, ReadHandler, StartWrite, Session
  <2>2. w \in Write /\ w.ack = c.pushAck /\ Len(w.data) = w.ack
    BY <1>0 DEF Write, Matched
  <2> HIDE DEF w
  <2>3. /\ d.queue = <<>> /\ d.pushAck = 0 /\ d.writes = ws
        /\ d.waitAck = c.waitAck /\ Alike(c, d)
    BY DEF Session, Alike
  <2>4. Len(d.queue) = d.pushAck
    BY <2>3
  <2>5. d.writes = Append(c.writes, w)
    BY <2>3
  <2> HIDE DEF d, ws
  <2>6. Matched(d) /\ AckTotal(d.writes) = AckTotal(c.writes) + w.ack
    BY <2>2, <2>4, <2>5, MoreWrites
  <2>7. AckTotal(c.writes) \in Nat
    BY <1>0, WriteSums
  <2>8. Far(d) = Far(c)
    BY <1>0, <2>2, <2>3, <2>6, <2>7 DEF Far
  <2> QED BY <2>1, <2>3, <2>6, <2>8
<1> QED BY <1>1, <1>2

\* ReadDataCache::push_data takes the credit of a read; the request, which
\* comes first, has none.
LEMMA PushDataShare ==
  ASSUME NEW c \in Session, NEW x \in Seq(Nat), Len(x) = 1, Matched(c),
         c.waiting => c.status \in {"FORWARD", "HANDSHAKE"}
  PROVE  LET d == PushData(c, x) IN
         /\ Matched(d) /\ Near(d) = Near(c) /\ d.waitAck = c.waitAck
         /\ Far(d) = Far(c) + IF c.waiting /\ c.status = "HANDSHAKE" THEN 0 ELSE 1
         /\ d.status = c.status \/ (c.status = "HANDSHAKE" /\ d.status = "QUERIED")
<1>0. c.queue \in Seq(Nat) /\ c.pushAck \in Nat /\ c.writes \in Seq(Write)
      /\ AckTotal(c.writes) \in Nat
  BY ShareTypes DEF Session
<1>1. CASE c.waiting /\ c.status = "HANDSHAKE"
  <2> DEFINE d == [c EXCEPT !.waiting = FALSE, !.status = "QUERIED"]
  <2>1. PushData(c, x) = d
    BY <1>1 DEF PushData, ReadHandler, Session
  <2>2. /\ d.queue = c.queue /\ d.pushAck = c.pushAck /\ d.writes = c.writes
        /\ d.waitAck = c.waitAck /\ d.status = "QUERIED" /\ d.credit = c.credit
        /\ d.firstCall = c.firstCall
    BY DEF Session
  <2> HIDE DEF d
  <2>3. Near(d) = Near(c) /\ Far(d) = Far(c) /\ Matched(d)
    BY <1>1, <2>2 DEF Near, Far, Matched
  <2>4. Far(c) \in Nat
    BY ShareTypes
  <2> QED BY <1>1, <2>1, <2>2, <2>3, <2>4
<1>2. CASE c.waiting /\ c.status = "FORWARD"
  <2> DEFINE w == [data |-> x, ack |-> 1]
             ws == Append(c.writes, w)
             d == [c EXCEPT !.waiting = FALSE, !.asyncWriting = TRUE, !.writes = ws]
  <2>1. PushData(c, x) = d
    BY <1>2 DEF PushData, ReadHandler, StartWrite, Session
  <2>2. w \in Write /\ w.ack = 1 /\ Len(w.data) = w.ack
    BY DEF Write
  <2> HIDE DEF w
  <2>3. /\ d.queue = c.queue /\ d.pushAck = c.pushAck /\ d.writes = ws
        /\ d.waitAck = c.waitAck /\ Alike(c, d)
    BY DEF Session, Alike
  <2>4. Len(d.queue) = d.pushAck
    BY <2>3 DEF Matched
  <2>5. d.writes = Append(c.writes, w)
    BY <2>3
  <2> HIDE DEF d, ws
  <2>6. Matched(d) /\ AckTotal(d.writes) = AckTotal(c.writes) + w.ack
    BY <2>2, <2>4, <2>5, MoreWrites
  <2>7. Far(d) = Far(c) + 1
    <3> DEFINE u == AckTotal(c.writes)
               k == c.pushAck
    <3>1. u \in Nat /\ k \in Nat
      BY <1>0
    <3>2. AckTotal(d.writes) = u + 1 /\ d.pushAck = k
      BY <2>2, <2>3, <2>6
    <3>3. Far(d) = k + (u + 1) /\ Far(c) = k + u
      BY <3>2 DEF Far
    <3> HIDE DEF u, k
    <3> QED BY <3>1, <3>3
  <2>8. Near(d) = Near(c) /\ d.status = c.status
    BY <2>3 DEF Near, Alike
  <2> QED BY <1>2, <2>1, <2>3, <2>6, <2>7, <2>8
<1>3. CASE ~c.waiting
  <2> DEFINE q == c.queue \o x
             n == c.pushAck + 1
             d == [c EXCEPT !.pushAck = n, !.queue = q]
  <2>1. PushData(c, x) = d
    BY <1>3 DEF PushData
  <2>2. Len(q) = Len(c.queue) + 1 /\ n = c.pushAck + 1
    <3>1. Len(q) = Len(c.queue) + Len(x)
      BY <1>0, ConcatProperties
    <3> QED BY <3>1
  <2> HIDE DEF q, n
  <2>3. /\ d.queue = q /\ d.pushAck = n /\ d.writes = c.writes
        /\ d.waitAck = c.waitAck /\ Alike(c, d)
    BY DEF Session, Alike
  <2> HIDE DEF d
  <2>4. Matched(d)
    BY <2>2, <2>3 DEF Matched
  <2>5. Far(d) = Far(c) + 1
    BY <1>0, <2>2, <2>3 DEF Far
  <2>6. Near(d) = Near(c) /\ d.status = c.status
    BY <2>3 DEF Near, Alike
  <2> QED BY <1>3, <2>1, <2>3, <2>4, <2>5, <2>6
<1> QED BY <1>1, <1>2, <1>3

\* recv_ack_cmd takes the credit of the ACK frame.
LEMMA RecvAckShare ==
  ASSUME NEW c \in Session, NEW n \in Nat, c.waitAck => c.status = "FORWARD"
  PROVE  LET d == RecvAck(c, n) IN
         /\ Near(d) = Near(c) + n /\ Far(d) = Far(c) /\ (Matched(c) => Matched(d))
         /\ ~c.waitAck => ~d.waitAck
<1> DEFINE k == c.credit + n
           e == [c EXCEPT !.credit = k]
<1>0. k \in Nat /\ c.credit \in Nat /\ k = c.credit + n /\ c.reading \in Nat
  BY DEF Session
<1>1. RecvAck(c, n) = IF e.waitAck THEN GatedRead(e) ELSE e
  BY DEF RecvAck
<1> HIDE DEF k
<1>2. e \in Session
  BY <1>0 DEF Session
<1>3. /\ e.credit = k /\ e.status = c.status /\ e.reading = c.reading /\ e.waitAck = c.waitAck
      /\ e.firstCall = c.firstCall /\ e.queue = c.queue /\ e.pushAck = c.pushAck
      /\ e.writes = c.writes
  BY DEF Session
<1> HIDE DEF e
<1>4. Near(e) = Near(c) + n
  BY <1>0, <1>3 DEF Near
<1>5. Far(e) = Far(c) /\ (Matched(c) => Matched(e))
  BY <1>3 DEF Far, Matched
<1>6. e.waitAck => /\ Near(GatedRead(e)) = Near(e) /\ Far(GatedRead(e)) = Far(e)
                   /\ Matched(e) => Matched(GatedRead(e))
  BY <1>2, <1>3, GatedReadShare
<1> QED BY <1>1, <1>3, <1>4, <1>5, <1>6

\* destroy() may only give up the read under way.
LEMMA DestroyedShare ==
  ASSUME NEW c \in Session
  PROVE  LET d == Destroyed(c) IN
         /\ Near(d) <= Near(c) /\ Near(d) \in Nat /\ Far(d) = Far(c)
         /\ (Matched(c) => Matched(d)) /\ Early(d) /\ d.status = "DESTROY"
<1> DEFINE d == Destroyed(c)
<1>1. /\ d.status = "DESTROY" /\ d.credit = c.credit /\ d.firstCall = c.firstCall
      /\ d.queue = c.queue /\ d.pushAck = c.pushAck /\ d.writes = c.writes
  BY DEF Destroyed, Session
<1>2. c.credit \in Nat /\ c.reading \in Nat
  BY DEF Session
<1> HIDE DEF d
<1> QED BY <1>1, <1>2 DEF Near, Far, Matched, Early, d

\* A completed write is taken away, and with it its credit.
LEMMA PopShare ==
  ASSUME NEW c \in Session, c.writes # <<>>, Matched(c)
  PROVE  LET d == [c EXCEPT !.writes = Tail(c.writes)] IN
         /\ Near(d) = Near(c) /\ Far(c) = Far(d) + Head(c.writes).ack /\ Matched(d)
         /\ Head(c.writes).ack \in Nat /\ Far(d) \in Nat
<1> DEFINE p == c.writes
           t == Tail(p)
           d == [c EXCEPT !.writes = t]
<1>1. p \in Seq(Write) /\ c.pushAck \in Nat /\ p # <<>>
  BY DEF Session
<1>2. t \in Seq(Write) /\ Len(t) = Len(p) - 1 /\ (\A i \in 1..Len(t) : t[i] = p[i + 1])
      /\ Len(p) \in Nat /\ Head(p) \in Write
  BY <1>1
<1>3. AckTotal(p) = Head(p).ack + AckTotal(t) /\ AckTotal(t) \in Nat /\ Head(p).ack \in Nat
  BY <1>1, <1>2, WriteSums DEF Write
<1>4. \A i \in 1..Len(p) : Len(p[i].data) = p[i].ack
  BY DEF Matched
<1> HIDE DEF t
<1>5. /\ d.writes = t /\ d.queue = c.queue /\ d.pushAck = c.pushAck /\ Alike(c, d)
  BY DEF Session, Alike
<1> HIDE DEF d, p
<1>6. \A i \in 1..Len(t) : Len(t[i].data) = t[i].ack
  <2>1. \A i \in 1..Len(t) : i + 1 \in 1..Len(p)
    BY <1>2
  <2> QED BY <1>2, <1>4, <2>1
<1>7. Matched(d)
  BY <1>5, <1>6 DEF Matched
<1>8. Far(c) = Far(d) + Head(p).ack /\ Far(d) \in Nat
  BY <1>1, <1>3, <1>5 DEF Far, p
<1>9. Near(d) = Near(c)
  BY <1>5 DEF Near, Alike
<1> QED BY <1>3, <1>7, <1>8, <1>9 DEF d, p, t

-----------------------------------------------------------------------------
(* The two accounts of a step: an end s is given the session d, and the      *)
(* channels change.                                                          *)

\* What end s holds of the account of its own direction, with its channel q
\* and the channel a towards it; and of the other direction.
Own(c, q, a) == Near(c) + Reads(q) + AckTotal(a)
Other(c, q, a) == Far(c) + AckTotal(q) + Reads(a)

\* A step of end s keeps the accounts when what s holds of each does not grow,
\* and does not shrink either while both ends and both pipelines are alive.
LEMMA Settled ==
  ASSUME TypeOK, TypeOK', CreditInv, NEW s \in Side, NEW d \in Session, NEW o, o = Peer(s),
         ses' = [ses EXCEPT ![s] = d], Matched(d), Early(d),
         Plain(chan'[s]), Plain(chan'[o]),
         Own(d, chan'[s], chan'[o]) <= Own(ses[s], chan[s], chan[o]),
         Other(d, chan'[s], chan'[o]) <= Other(ses[s], chan[s], chan[o]),
         Whole' => /\ Whole
                   /\ Own(d, chan'[s], chan'[o]) = Own(ses[s], chan[s], chan[o])
                   /\ Other(d, chan'[s], chan'[o]) = Other(ses[s], chan[s], chan[o])
  PROVE  CreditInv'
<1>1. /\ o \in Side /\ o # s /\ Peer(o) = s /\ \A t \in Side : t = s \/ t = o
      /\ ses[s] \in Session /\ ses[o] \in Session
      /\ chan[s] \in Seq(Frame) /\ chan[o] \in Seq(Frame)
  BY Ends
<1>2. chan'[s] \in Seq(Frame) /\ chan'[o] \in Seq(Frame)
  BY <1>1 DEF TypeOK
<1>3. ses'[s] = d /\ ses'[o] = ses[o]
  BY <1>1 DEF TypeOK
<1> DEFINE c == ses[s]
           e == ses[o]
           q == chan[s]
           a == chan[o]
           q2 == chan'[s]
           a2 == chan'[o]
<1>4. /\ Near(c) \in Nat /\ Far(c) \in Nat /\ Near(e) \in Nat /\ Far(e) \in Nat
      /\ Near(d) \in Nat /\ Far(d) \in Nat
  BY <1>1, ShareTypes
<1>5. /\ Reads(q) \in Nat /\ AckTotal(q) \in Nat /\ Reads(a) \in Nat /\ AckTotal(a) \in Nat
      /\ Reads(q2) \in Nat /\ AckTotal(q2) \in Nat /\ Reads(a2) \in Nat /\ AckTotal(a2) \in Nat
  BY <1>1, <1>2, FrameSums
<1>6. /\ Account(s) = Near(c) + Reads(q) + Far(e) + AckTotal(a)
      /\ Account(o) = Near(e) + Reads(a) + Far(c) + AckTotal(q)
      /\ Account(s)' = Near(d) + Reads(q2) + Far(e) + AckTotal(a2)
      /\ Account(o)' = Near(e) + Reads(a2) + Far(d) + AckTotal(q2)
  BY <1>1, <1>3 DEF Account, Near, Far
<1>7. /\ Own(d, q2, a2) = Near(d) + Reads(q2) + AckTotal(a2)
      /\ Own(c, q, a) = Near(c) + Reads(q) + AckTotal(a)
      /\ Other(d, q2, a2) = Far(d) + AckTotal(q2) + Reads(a2)
      /\ Other(c, q, a) = Far(c) + AckTotal(q) + Reads(a)
  BY DEF Own, Other
<1>8. /\ Own(d, q2, a2) <= Own(c, q, a) /\ Other(d, q2, a2) <= Other(c, q, a)
      /\ Whole' => Whole /\ Own(d, q2, a2) = Own(c, q, a) /\ Other(d, q2, a2) = Other(c, q, a)
  BY Zenon
<1>9. /\ Account(s) <= Window + 1 /\ (Whole => Account(s) = Window + 1)
      /\ Account(o) <= Window + 1 /\ (Whole => Account(o) = Window + 1)
      /\ Matched(e) /\ Early(e)
  BY <1>1 DEF CreditInv, Balanced
<1> HIDE DEF c, e, q, a, q2, a2
<1>10. /\ Account(s)' <= Account(s) /\ (Whole' => Account(s)' = Account(s))
       /\ Account(s) \in Nat /\ Account(s)' \in Nat
  BY <1>4, <1>5, <1>6, <1>7, <1>8
<1>11. /\ Account(o)' <= Account(o) /\ (Whole' => Account(o)' = Account(o))
       /\ Account(o) \in Nat /\ Account(o)' \in Nat
  BY <1>4, <1>5, <1>6, <1>7, <1>8
<1>12. Balanced(s)' /\ Balanced(o)'
  <2>1. Window + 1 \in Nat
    BY WindowAssumption
  <2>2. Whole' => Whole
    BY <1>8
  <2> QED BY <1>9, <1>10, <1>11, <2>1, <2>2 DEF Balanced
<1>13. Matched(ses[s])' /\ Matched(ses[o])' /\ Early(ses[s])' /\ Early(ses[o])'
  BY <1>3, <1>9 DEF Matched, Early, e
<1>14. Plain(chan[s])' /\ Plain(chan[o])'
  BY DEF Plain
<1> QED BY <1>1, <1>12, <1>13, <1>14 DEF CreditInv

\* No session comes back from destroy(), so an end that is alive was.
LEMMA StillWhole ==
  ASSUME TypeOK, TypeOK', NEW s \in Side, NEW d \in Session, ses' = [ses EXCEPT ![s] = d],
         pipe' = pipe, d.status # "DESTROY" => ses[s].status # "DESTROY"
  PROVE  Whole' => Whole /\ d.status # "DESTROY"
<1>1. ses'[s] = d /\ \A t \in Side : t # s => ses'[t] = ses[t]
  BY DEF TypeOK
<1> SUFFICES ASSUME Whole' PROVE Whole /\ d.status # "DESTROY"
  OBVIOUS
<1>2. \A t \in Side : pipe[t] /\ ses'[t].status # "DESTROY"
  BY DEF Whole
<1> QED BY <1>1, <1>2 DEF Whole

\* A step that sends and receives nothing.
LEMMA SettledStill ==
  ASSUME TypeOK, TypeOK', CreditInv, NEW s \in Side, NEW d \in Session,
         ses' = [ses EXCEPT ![s] = d], pipe' = pipe, chan' = chan, Matched(d), Early(d),
         Near(d) <= Near(ses[s]), Far(d) <= Far(ses[s]),
         d.status # "DESTROY" => /\ ses[s].status # "DESTROY"
                                 /\ Near(d) = Near(ses[s]) /\ Far(d) = Far(ses[s])
  PROVE  CreditInv'
<1> DEFINE o == Peer(s)
           c == ses[s]
           q == chan[s]
           a == chan[o]
<1>1. o \in Side /\ c \in Session /\ q \in Seq(Frame) /\ a \in Seq(Frame)
  BY Ends
<1>2. /\ Near(c) \in Nat /\ Far(c) \in Nat /\ Near(d) \in Nat /\ Far(d) \in Nat
      /\ Reads(q) \in Nat /\ AckTotal(q) \in Nat /\ Reads(a) \in Nat /\ AckTotal(a) \in Nat
  BY <1>1, ShareTypes, FrameSums
<1>3. Whole' => Whole /\ d.status # "DESTROY"
  BY StillWhole
<1>4. Near(d) <= Near(c) /\ Far(d) <= Far(c)
      /\ (d.status # "DESTROY" => Near(d) = Near(c) /\ Far(d) = Far(c))
  OBVIOUS
<1> HIDE DEF c, q, a
<1>5. Own(d, q, a) <= Own(c, q, a) /\ Other(d, q, a) <= Other(c, q, a)
  BY <1>2, <1>4 DEF Own, Other
<1>6. Whole' => Whole /\ Own(d, q, a) = Own(c, q, a) /\ Other(d, q, a) = Other(c, q, a)
  BY <1>3, <1>4 DEF Own, Other
<1>7. c = ses[s] /\ q = chan[s] /\ a = chan[o] /\ chan'[s] = q /\ chan'[o] = a /\ o = Peer(s)
  BY DEF c, q, a
<1>8. Plain(chan'[s]) /\ Plain(chan'[o])
  BY <1>1 DEF CreditInv
<1> HIDE DEF o
<1> QED BY <1>5, <1>6, <1>7, <1>8, Settled

\* A step that sends the frame f.
LEMMA SettledPush ==
  ASSUME TypeOK, TypeOK', CreditInv, NEW s \in Side, NEW d \in Session, NEW f \in Frame,
         ses' = [ses EXCEPT ![s] = d], pipe' = pipe, Push(s, f), PlainFrame(f), Matched(d), Early(d),
         Near(d) + Counted(f) <= Near(ses[s]), Far(d) + f.ack <= Far(ses[s]),
         d.status # "DESTROY" => /\ ses[s].status # "DESTROY"
                                 /\ Near(d) + Counted(f) = Near(ses[s])
                                 /\ Far(d) + f.ack = Far(ses[s])
  PROVE  CreditInv'
<1> DEFINE o == Peer(s)
           c == ses[s]
           q == chan[s]
           a == chan[o]
           q2 == Append(q, f)
           x == Counted(f)
           y == f.ack
<1>1. o \in Side /\ o # s /\ c \in Session /\ q \in Seq(Frame) /\ a \in Seq(Frame)
  BY Ends
<1>2. /\ Near(c) \in Nat /\ Far(c) \in Nat /\ Near(d) \in Nat /\ Far(d) \in Nat
      /\ Reads(q) \in Nat /\ AckTotal(q) \in Nat /\ Reads(a) \in Nat /\ AckTotal(a) \in Nat
  BY <1>1, ShareTypes, FrameSums
<1>3. Reads(q2) = Reads(q) + x /\ AckTotal(q2) = AckTotal(q) + y
  BY <1>1, FrameSums
<1>4. Whole' => Whole /\ d.status # "DESTROY"
  BY StillWhole
<1>5. /\ Near(d) + x <= Near(c) /\ Far(d) + y <= Far(c)
      /\ (d.status # "DESTROY" => Near(d) + x = Near(c) /\ Far(d) + y = Far(c))
      /\ x \in Nat /\ y \in Nat
  BY DEF Counted, Frame
<1>6. chan'[s] = q2 /\ chan'[o] = a
  BY <1>1 DEF Push, TypeOK
<1>10. Plain(q2) /\ Plain(a)
  BY <1>1, PlainFacts DEF CreditInv
<1>7. c = ses[s] /\ q = chan[s] /\ a = chan[o] /\ o = Peer(s)
  OBVIOUS
<1> HIDE DEF c, q, a, q2, x, y, o
<1>8. Own(d, q2, a) <= Own(c, q, a) /\ Other(d, q2, a) <= Other(c, q, a)
  BY <1>2, <1>3, <1>5 DEF Own, Other
<1>9. Whole' => Whole /\ Own(d, q2, a) = Own(c, q, a) /\ Other(d, q2, a) = Other(c, q, a)
  BY <1>2, <1>3, <1>4, <1>5 DEF Own, Other
<1> QED BY <1>6, <1>7, <1>8, <1>9, <1>10, Settled

\* A step that takes the first frame of its peer.
LEMMA SettledParse ==
  ASSUME TypeOK, TypeOK', CreditInv, NEW s \in Side, NEW d \in Session, NEW h \in Frame,
         chan[Peer(s)] # <<>>, h = Head(chan[Peer(s)]),
         chan' = [chan EXCEPT ![Peer(s)] = Tail(chan[Peer(s)])],
         ses' = [ses EXCEPT ![s] = d], pipe' = pipe, Matched(d), Early(d),
         Near(d) <= Near(ses[s]) + h.ack, Far(d) <= Far(ses[s]) + Counted(h),
         d.status # "DESTROY" => /\ ses[s].status # "DESTROY"
                                 /\ Near(d) = Near(ses[s]) + h.ack
                                 /\ Far(d) = Far(ses[s]) + Counted(h)
  PROVE  CreditInv'
<1> DEFINE o == Peer(s)
           c == ses[s]
           q == chan[s]
           a == chan[o]
           a2 == Tail(a)
           x == Counted(h)
           y == h.ack
<1>1. o \in Side /\ o # s /\ c \in Session /\ q \in Seq(Frame) /\ a \in Seq(Frame)
  BY Ends
<1>2. /\ Near(c) \in Nat /\ Far(c) \in Nat /\ Near(d) \in Nat /\ Far(d) \in Nat
      /\ Reads(q) \in Nat /\ AckTotal(q) \in Nat
  BY <1>1, ShareTypes, FrameSums
<1>3. Reads(a) = x + Reads(a2) /\ AckTotal(a) = y + AckTotal(a2)
      /\ Reads(a2) \in Nat /\ AckTotal(a2) \in Nat
  <2>1. a2 \in Seq(Frame)
    BY <1>1
  <2> QED BY <1>1, <2>1, FrameSums
<1>4. Whole' => Whole /\ d.status # "DESTROY"
  BY StillWhole
<1>5. /\ Near(d) <= Near(c) + y /\ Far(d) <= Far(c) + x
      /\ (d.status # "DESTROY" => Near(d) = Near(c) + y /\ Far(d) = Far(c) + x)
      /\ x \in Nat /\ y \in Nat
  BY DEF Counted, Frame
<1>6. chan'[s] = q /\ chan'[o] = a2
  BY <1>1 DEF TypeOK
<1>10. Plain(q) /\ Plain(a2)
  BY <1>1, PlainFacts DEF CreditInv
<1>7. c = ses[s] /\ q = chan[s] /\ a = chan[o] /\ o = Peer(s)
  OBVIOUS
<1> HIDE DEF c, q, a, a2, x, y, o
<1>8. Own(d, q, a2) <= Own(c, q, a) /\ Other(d, q, a2) <= Other(c, q, a)
  BY <1>2, <1>3, <1>5 DEF Own, Other
<1>9. Whole' => Whole /\ Own(d, q, a2) = Own(c, q, a) /\ Other(d, q, a2) = Other(c, q, a)
  BY <1>2, <1>3, <1>4, <1>5 DEF Own, Other
<1> QED BY <1>6, <1>7, <1>8, <1>9, <1>10, Settled

-----------------------------------------------------------------------------
(* The steps.                                                                *)

\* What holds of an end.
LEMMA EndFacts ==
  ASSUME FlowInv, CreditInv, NEW s \in Side
  PROVE  /\ TypeOK /\ ses[s] \in Session /\ Chains(s, ses[s]) /\ Matched(ses[s]) /\ Early(ses[s])
         /\ Rx(s, ses[s], got[s], made[Peer(s)])
         /\ chan[Peer(s)] \in Seq(Frame) /\ Plain(chan[Peer(s)]) /\ Peer(s) \in Side
         /\ SenderToken(ses[s]) \in Nat /\ ReceiverToken(ses[s]) \in Nat
<1>1. TypeOK /\ Peer(s) \in Side /\ ses[s] \in Session /\ chan[Peer(s)] \in Seq(Frame)
  BY BothFlows, Ends
<1>2. Chains(s, ses[s]) /\ Rx(s, ses[s], got[s], made[Peer(s)])
  BY BothFlows DEF Flow
<1> QED BY <1>1, <1>2, TokenType DEF CreditInv

\* The frames that are not ACKs.
LEMMA FrameWeights ==
  /\ Close \in Frame /\ Counted(Close) = 0 /\ Close.ack = 0 /\ PlainFrame(Close)
  /\ Data(<<Req>>) \in Frame /\ Counted(Data(<<Req>>)) = 0 /\ Data(<<Req>>).ack = 0
  /\ PlainFrame(Data(<<Req>>))
  /\ \A n \in Nat : /\ Data(<<n + 1>>) \in Frame /\ Counted(Data(<<n + 1>>)) = 1
                    /\ Data(<<n + 1>>).ack = 0 /\ PlainFrame(Data(<<n + 1>>))
  /\ \A n \in Nat : /\ Ack(n) \in Frame /\ Counted(Ack(n)) = 0 /\ Ack(n).ack = n
                    /\ PlainFrame(Ack(n))
<1>1. \A n \in Nat : <<n + 1>> \in Seq(Nat) /\ <<n + 1>> # <<Req>>
  BY DEF Req
<1>2. <<Req>> \in Seq(Nat)
  BY DEF Req
<1> QED BY <1>1, <1>2, FrameTypes DEF Close, Data, Ack, FrameOf, Counted, PlainFrame

\* Two sessions that differ in nothing the accounts depend on.
SameShare(c, d) ==
  /\ Alike(c, d) /\ d.waitAck = c.waitAck
  /\ d.pushAck = c.pushAck /\ d.queue = c.queue /\ d.writes = c.writes

\* They have the same shares.
LEMMA SameShares ==
  ASSUME NEW c, NEW d, SameShare(c, d)
  PROVE  /\ Near(d) = Near(c) /\ Far(d) = Far(c) /\ d.status = c.status
         /\ (Matched(c) => Matched(d)) /\ (Early(c) => Early(d))
BY DEF SameShare, Alike, Near, Far, Matched, Early

\* A session that is destroyed holds no read it could use.
LEMMA AfterShare ==
  ASSUME NEW c \in Session, NEW l
  PROVE  /\ Near(After(c, l)) <= Near(c) /\ Far(After(c, l)) = Far(c)
         /\ (Matched(c) => Matched(After(c, l))) /\ Early(After(c, l))
         /\ After(c, l).status = "DESTROY"
<1> DEFINE d == After(c, l)
<1>1. /\ d.status = "DESTROY" /\ d.credit = c.credit /\ d.firstCall = c.firstCall
      /\ d.queue = c.queue /\ d.pushAck = c.pushAck /\ d.writes = c.writes
  BY DEF After, Session
<1>2. c.credit \in Nat /\ c.reading \in Nat
  BY DEF Session
<1> HIDE DEF d
<1> QED BY <1>1, <1>2 DEF Near, Far, Matched, Early, d

\* destroy() of a session, the peer being told: OutConnectFailed, and errors
\* of the local socket.
LEMMA TellCredit ==
  ASSUME TypeOK, CreditInv, TypeOK', NEW s \in Side, NEW e \in Session, Matched(e),
         Near(e) <= Near(ses[s]), Far(e) <= Far(ses[s]),
         DestroyAndTell(s, e), pipe' = pipe
  PROVE  CreditInv'
<1> DEFINE d == Destroyed(e)
           c == ses[s]
<1>1. ses' = [ses EXCEPT ![s] = d] /\ Push(s, Close)
  BY DEF DestroyAndTell
<1>2. Near(d) <= Near(e) /\ Near(d) \in Nat /\ Far(d) = Far(e) /\ Matched(d) /\ Early(d)
      /\ d.status = "DESTROY"
  BY DestroyedShare
<1>3. c \in Session
  BY DEF TypeOK
<1>4. Near(c) \in Nat /\ Far(c) \in Nat /\ Near(e) \in Nat /\ Far(e) \in Nat
  BY <1>3, ShareTypes
<1>5. d \in Session
  BY <1>1 DEF TypeOK
<1>6. Close \in Frame /\ Counted(Close) = 0 /\ Close.ack = 0 /\ PlainFrame(Close)
  BY FrameWeights
<1>7. Near(d) + Counted(Close) <= Near(c) /\ Far(d) + Close.ack <= Far(c)
  <2> HIDE DEF c, d
  <2>1. Near(d) <= Near(c) /\ Far(d) <= Far(c)
    BY <1>2, <1>4 DEF c
  <2> QED BY <1>2, <1>4, <1>6, <2>1
<1> HIDE DEF d
<1> QED BY <1>1, <1>2, <1>5, <1>6, <1>7, SettledPush

\* request_remote: the read of the SOCKS5 exchange was never paid for, and
\* the trojan request is not a read.
LEMMA RequestRemoteCredit ==
  ASSUME FlowInv, CreditInv, TypeOK', RequestRemote
  PROVE  CreditInv'
<1> DEFINE c == ses["client"]
           r == c.reading - 1
           e == [c EXCEPT !.status = "FORWARD", !.reading = r]
           f == CacheRead(e)
           k == f.sentData + 1
           g == [f EXCEPT !.sentData = k]
<1>0. "client" \in Side
  BY DEF Side
<1>1. TypeOK /\ c \in Session /\ Chains("client", c) /\ Matched(c) /\ SenderToken(c) \in Nat
  BY <1>0, EndFacts
<1>2. /\ c.status = "HANDSHAKE" /\ c.reading > 0 /\ ses' = [ses EXCEPT !["client"] = g]
      /\ Push("client", Data(<<Req>>)) /\ pipe' = pipe
  BY DEF RequestRemote
<1>3. c.reading \in Nat /\ c.sentData \in Nat /\ c.credit \in Nat
  BY <1>1 DEF Session
<1>4. c.reading = 1
  <2>1. SenderToken(c) <= 1
    BY <1>1 DEF Chains
  <2> HIDE DEF c
  <2> QED BY <1>2, <1>3, <2>1 DEF SenderToken
<1>5. r = 0 /\ r \in Nat
  BY <1>4
<1> HIDE DEF r
<1>6. e \in Session
  <2> HIDE DEF c
  <2> QED BY <1>1, <1>5 DEF Session, Status
<1>7. /\ e.status = "FORWARD" /\ e.reading = 0 /\ e.credit = c.credit /\ e.firstCall = c.firstCall
      /\ e.queue = c.queue /\ e.pushAck = c.pushAck /\ e.writes = c.writes
  BY <1>1, <1>5 DEF Session
<1> HIDE DEF e
<1>8. Near(e) = Near(c) /\ Far(e) = Far(c) /\ Matched(e)
  <2> HIDE DEF c
  <2> QED BY <1>1, <1>2, <1>3, <1>7 DEF Near, Far, Matched
<1>9. Far(f) = Far(e) /\ Matched(f) /\ Alike(e, f)
  BY <1>6, <1>7, <1>8, CacheReadShare
<1>10. f \in Session
  BY <1>6, <1>7, CacheReadFacts
<1> HIDE DEF f, k
<1>11. SameShare(f, g)
  BY <1>10 DEF Session, SameShare, Alike
<1>12. g \in Session
  BY <1>0, <1>1, <1>2 DEF TypeOK
<1> HIDE DEF g
<1>13. Near(g) = Near(c) /\ Far(g) = Far(c) /\ Matched(g) /\ g.status = "FORWARD"
  <2>1. Near(f) = Near(e) /\ f.status = "FORWARD"
    BY <1>7, <1>9 DEF Alike, Near
  <2> QED BY <1>8, <1>9, <1>11, <2>1, SameShares
<1>14. Early(g)
  BY <1>13 DEF Early
<1>15. /\ Near(g) + Counted(Data(<<Req>>)) = Near(c) /\ Far(g) + Data(<<Req>>).ack = Far(c)
       /\ Near(c) \in Nat /\ Far(c) \in Nat
       /\ Data(<<Req>>) \in Frame /\ PlainFrame(Data(<<Req>>))
  BY <1>1, <1>13, FrameWeights, ShareTypes
<1> DEFINE fr == Data(<<Req>>)
<1>16. /\ Near(g) + Counted(fr) <= Near(c) /\ Far(g) + fr.ack <= Far(c)
       /\ Near(g) + Counted(fr) = Near(c) /\ Far(g) + fr.ack = Far(c)
       /\ fr \in Frame /\ PlainFrame(fr) /\ Push("client", fr)
  BY <1>2, <1>15
<1> HIDE DEF fr
<1> QED BY <1>0, <1>1, <1>2, <1>12, <1>13, <1>14, <1>16, SettledPush

\* connect_out_socket: the first read is free, and the queue becomes a write.
LEMMA OutConnectedCredit ==
  ASSUME FlowInv, CreditInv, TypeOK', OutConnected
  PROVE  CreditInv'
<1> DEFINE c == ses["server"]
           e == [c EXCEPT !.status = "FORWARD"]
           f == GatedRead(e)
           g == CacheRead(f)
           h == After(g, "relaying")
<1>0. "server" \in Side
  BY DEF Side
<1>1. TypeOK /\ c \in Session /\ Chains("server", c) /\ Matched(c)
  BY <1>0, EndFacts
<1>2. /\ \/ c.status = "QUERIED" /\ ses' = [ses EXCEPT !["server"] = g]
         \/ Dialing("server", c) /\ ses' = [ses EXCEPT !["server"] = h]
      /\ chan' = chan /\ pipe' = pipe
  BY DEF OutConnected, Connected, Dialing, After
<1>15. c.status \in {"QUERIED", "DESTROY"}
  BY <1>2 DEF Dialing
<1>3. c.reading \in Nat /\ c.sentData \in Nat /\ c.credit \in Nat
  BY <1>1 DEF Session
<1>4. c.reading = 0
  <2>1. SenderToken(c) = 0
    BY <1>1, <1>2 DEF Chains
  <2> HIDE DEF c
  <2> QED BY <1>3, <2>1 DEF SenderToken
<1>5. e \in Session
  <2> HIDE DEF c
  <2> QED BY <1>1 DEF Session, Status
<1>6. /\ e.status = "FORWARD" /\ e.reading = 0 /\ e.credit = c.credit /\ e.firstCall = c.firstCall
      /\ e.queue = c.queue /\ e.pushAck = c.pushAck /\ e.writes = c.writes
  BY <1>1, <1>4 DEF Session
<1> HIDE DEF e
<1>7. Near(e) = Near(c) /\ Far(e) = Far(c) /\ Matched(e)
  <2> HIDE DEF c
  <2> QED BY <1>1, <1>3, <1>6, <1>15 DEF Near, Far, Matched
<1>8. f \in Session /\ Near(f) = Near(e) /\ Far(f) = Far(e) /\ Matched(f) /\ f.status = "FORWARD"
  BY <1>5, <1>6, <1>7, GatedReadShare, GatedReadFacts
<1> HIDE DEF f
<1>9. Far(g) = Far(f) /\ Matched(g) /\ Alike(f, g)
  BY <1>8, CacheReadShare
<1>10. g \in Session
  BY <1>8, CacheReadFacts
<1> HIDE DEF g
<1>11. Near(g) = Near(f) /\ g.status = "FORWARD"
  BY <1>8, <1>9 DEF Alike, Near
<1>12. Early(g)
  BY <1>11 DEF Early
<1>13. Near(c) \in Nat /\ Far(c) \in Nat
  BY <1>1, ShareTypes
<1>14. Near(g) = Near(c) /\ Far(g) = Far(c) /\ Near(g) <= Near(c) /\ Far(g) <= Far(c)
  BY <1>7, <1>8, <1>9, <1>11, <1>13
<1>16. CASE c.status = "QUERIED" /\ ses' = [ses EXCEPT !["server"] = g]
  BY <1>0, <1>1, <1>2, <1>9, <1>10, <1>12, <1>14, <1>16, SettledStill
<1>17. CASE ses' = [ses EXCEPT !["server"] = h]
  <2>1. /\ Near(h) <= Near(g) /\ Far(h) = Far(g) /\ Matched(h) /\ Early(h)
        /\ h.status = "DESTROY"
    BY <1>9, <1>10, AfterShare
  <2>2. h \in Session
    BY <1>0, <1>1, <1>17 DEF TypeOK
  <2> HIDE DEF h
  <2>3. Near(h) <= Near(c) /\ Far(h) <= Far(c)
    BY <1>13, <1>14, <2>1
  <2> QED BY <1>0, <1>1, <1>2, <1>17, <2>1, <2>2, <2>3, SettledStill
<1> QED BY <1>2, <1>16, <1>17

\* The read under way becomes a DATA frame.
LEMMA LocalReadCredit ==
  ASSUME FlowInv, CreditInv, TypeOK', NEW s \in Side, LocalRead(s)
  PROVE  CreditInv'
<1> DEFINE c == ses[s]
           r == c.reading - 1
           k == c.sentData + 1
           d == [c EXCEPT !.reading = r, !.sentData = k]
           fr == Data(<<made[s] + 1>>)
<1>1. TypeOK /\ c \in Session /\ Matched(c) /\ made[s] \in Nat
  BY EndFacts DEF TypeOK
<1>2. /\ c.status = "FORWARD" /\ c.reading > 0 /\ ses' = [ses EXCEPT ![s] = d]
      /\ Push(s, fr) /\ pipe' = pipe
  BY DEF LocalRead
<1>3. c.reading \in Nat /\ c.credit \in Nat /\ r \in Nat /\ c.reading = r + 1
  BY <1>1, <1>2 DEF Session
<1>4. d \in Session
  BY <1>1, <1>2 DEF TypeOK
<1> HIDE DEF r, k
<1>5. /\ d.status = c.status /\ d.reading = r /\ d.credit = c.credit /\ d.firstCall = c.firstCall
      /\ d.queue = c.queue /\ d.pushAck = c.pushAck /\ d.writes = c.writes
  BY <1>1 DEF Session
<1> HIDE DEF d
<1>6. Near(d) + 1 = Near(c) /\ Far(d) = Far(c) /\ Matched(d) /\ Early(d)
  <2> HIDE DEF c
  <2>1. Near(d) + 1 = Near(c)
    BY <1>2, <1>3, <1>5 DEF Near
  <2>2. Far(d) = Far(c) /\ Matched(d)
    BY <1>1, <1>5 DEF Far, Matched
  <2>3. Early(d)
    BY <1>2, <1>5 DEF Early
  <2> QED BY <2>1, <2>2, <2>3
<1>7. fr \in Frame /\ Counted(fr) = 1 /\ fr.ack = 0 /\ PlainFrame(fr)
  BY <1>1, FrameWeights
<1>8. Near(c) \in Nat /\ Far(c) \in Nat
  BY <1>1, ShareTypes
<1> HIDE DEF fr
<1>9. /\ Near(d) + Counted(fr) = Near(c) /\ Far(d) + fr.ack = Far(c)
      /\ Near(d) + Counted(fr) <= Near(c) /\ Far(d) + fr.ack <= Far(c)
  BY <1>6, <1>7, <1>8
<1> QED BY <1>1, <1>2, <1>4, <1>6, <1>7, <1>9, SettledPush

\* The read under way ends with an error.
LEMMA LocalReadErrorCredit ==
  ASSUME FlowInv, CreditInv, TypeOK', NEW s \in Side, LocalReadError(s)
  PROVE  CreditInv'
<1> DEFINE c == ses[s]
           r == c.reading - 1
           e == [c EXCEPT !.reading = r]
<1>1. TypeOK /\ c \in Session /\ Matched(c)
  BY EndFacts
<1>2. c.reading > 0 /\ DestroyAndTell(s, e) /\ pipe' = pipe
  BY DEF LocalReadError
<1>3. c.reading \in Nat /\ c.credit \in Nat /\ r \in Nat /\ r <= c.reading
  BY <1>1, <1>2 DEF Session
<1> HIDE DEF r
<1>4. e \in Session
  BY <1>1, <1>3 DEF Session
<1>5. /\ e.status = c.status /\ e.reading = r /\ e.credit = c.credit /\ e.firstCall = c.firstCall
      /\ e.queue = c.queue /\ e.pushAck = c.pushAck /\ e.writes = c.writes
  BY <1>1 DEF Session
<1>6. Near(c) \in Nat /\ Far(c) \in Nat
  BY <1>1, ShareTypes
<1> HIDE DEF e
<1>7. Near(e) <= Near(c) /\ Far(e) <= Far(c) /\ Matched(e)
  <2> HIDE DEF c
  <2>1. Far(e) = Far(c) /\ Matched(e)
    BY <1>1, <1>5 DEF Far, Matched
  <2>2. Near(e) <= Near(c)
    BY <1>3, <1>5 DEF Near
  <2> QED BY <1>6, <2>1, <2>2
<1> QED BY <1>1, <1>2, <1>4, <1>7, TellCredit

\* The target cannot be reached.
LEMMA OutConnectFailedCredit ==
  ASSUME FlowInv, CreditInv, TypeOK', OutConnectFailed \/ OutConnectTimeout
  PROVE  CreditInv'
<1> DEFINE c == ses["server"]
           e == [c EXCEPT !.status = "HANDSHAKE"]
           h == [c EXCEPT !.late = "no"]
<1>1. "server" \in Side /\ TypeOK /\ c \in Session /\ Matched(c)
  BY EndFacts DEF Side
<1>2. /\ \/ DestroyAndTell("server", c)
         \/ c.status = "QUERIED" /\ DestroyAndTell("server", e)
         \/ c.status = "DESTROY" /\ ses' = [ses EXCEPT !["server"] = h] /\ chan' = chan
      /\ pipe' = pipe
  BY DEF OutConnectFailed, OutConnectTimeout
<1>3. Near(c) \in Nat /\ Far(c) \in Nat
  BY <1>1, ShareTypes
<1>4. Near(c) <= Near(ses["server"]) /\ Far(c) <= Far(ses["server"])
  BY <1>3
<1>5. CASE DestroyAndTell("server", c)
  <2> HIDE DEF c
  <2> QED BY <1>1, <1>2, <1>4, <1>5, TellCredit
<1>6. CASE c.status = "QUERIED" /\ DestroyAndTell("server", e)
  <2>1. e \in Session
    BY <1>1 DEF Session, Status
  <2>2. /\ e.status = "HANDSHAKE" /\ e.credit = c.credit /\ e.firstCall = c.firstCall
        /\ e.queue = c.queue /\ e.pushAck = c.pushAck /\ e.writes = c.writes
    BY <1>1 DEF Session
  <2> HIDE DEF e
  <2>3. Near(e) = Near(c) /\ Far(e) = Far(c) /\ Matched(e)
    BY <1>1, <1>6, <2>2 DEF Near, Far, Matched
  <2>4. Near(e) <= Near(ses["server"]) /\ Far(e) <= Far(ses["server"])
    BY <1>3, <2>3
  <2> QED BY <1>1, <1>2, <1>6, <2>1, <2>3, <2>4, TellCredit
<1>7. CASE c.status = "DESTROY" /\ ses' = [ses EXCEPT !["server"] = h] /\ chan' = chan
  <2>1. h \in Session
    BY <1>1, <1>7 DEF TypeOK
  <2>2. SameShare(c, h)
    BY <1>1 DEF SameShare, Alike, Session
  <2> HIDE DEF h
  <2>3. Near(h) = Near(c) /\ Far(h) = Far(c) /\ h.status = c.status /\ Matched(h)
    BY <1>1, <2>2, SameShares
  <2>4. Near(h) <= Near(c) /\ Far(h) <= Far(c) /\ h.status = "DESTROY"
    BY <1>3, <1>7, <2>3
  <2>5. Early(h)
    BY <2>4 DEF Early
  <2> QED BY <1>1, <1>2, <1>7, <2>1, <2>3, <2>4, <2>5, SettledStill
<1> QED BY <1>2, <1>5, <1>6, <1>7

\* What a destroyed session reads costs nothing any more.
LEMMA LateReadCredit ==
  ASSUME FlowInv, CreditInv, TypeOK', LateRead
  PROVE  CreditInv'
<1> DEFINE c == ses["server"]
           r == c.reading - 1
           h == [c EXCEPT !.reading = r, !.late = "no"]
<1>1. "server" \in Side /\ TypeOK /\ c \in Session /\ Matched(c)
  BY EndFacts DEF Side
<1>2. /\ c.status = "DESTROY" /\ ses' = [ses EXCEPT !["server"] = h] /\ chan' = chan
      /\ pipe' = pipe
  BY DEF LateRead
<1>3. Near(c) \in Nat /\ Far(c) \in Nat
  BY <1>1, ShareTypes
<1>4. h \in Session
  BY <1>1, <1>2 DEF TypeOK
<1>5. /\ h.status = "DESTROY" /\ h.credit = c.credit /\ h.firstCall = c.firstCall
      /\ h.queue = c.queue /\ h.pushAck = c.pushAck /\ h.writes = c.writes
  <2> HIDE DEF r
  <2> QED BY <1>1, <1>2 DEF Session
<1> HIDE DEF h
<1>6. Near(h) = Near(c) /\ Far(h) = Far(c) /\ Matched(h) /\ Early(h)
  BY <1>1, <1>2, <1>5 DEF Near, Far, Matched, Early
<1>7. Near(h) <= Near(c) /\ Far(h) <= Far(c)
  BY <1>3, <1>6
<1> QED BY <1>1, <1>2, <1>4, <1>5, <1>6, <1>7, SettledStill

\* The sent handler of a DATA frame pays for the next read.
LEMMA DataSentCredit ==
  ASSUME FlowInv, CreditInv, TypeOK', NEW s \in Side, DataSent(s)
  PROVE  CreditInv'
<1> DEFINE c == ses[s]
           k == c.sentData - 1
           e == [c EXCEPT !.sentData = k]
           d == IF e.status = "FORWARD" THEN GatedRead(e) ELSE e
<1>1. TypeOK /\ c \in Session /\ Matched(c) /\ Early(c)
  BY EndFacts
<1>2. /\ c.sentData > 0 /\ ses' = [ses EXCEPT ![s] = d] /\ chan' = chan /\ pipe' = pipe
  BY DEF DataSent
<1>3. k \in Nat
  BY <1>1, <1>2 DEF Session
<1>4. d \in Session
  BY <1>1, <1>2 DEF TypeOK
<1> HIDE DEF k
<1>5. e \in Session /\ SameShare(c, e)
  BY <1>1, <1>3 DEF Session, SameShare, Alike
<1>6. d = IF e.status = "FORWARD" THEN GatedRead(e) ELSE e
  OBVIOUS
<1> HIDE DEF d, e
<1>7. Near(e) = Near(c) /\ Far(e) = Far(c) /\ Matched(e) /\ Early(e) /\ e.status = c.status
  BY <1>1, <1>5, SameShares
<1>8. CASE e.status = "FORWARD"
  <2>1. Near(d) = Near(e) /\ Far(d) = Far(e) /\ Matched(d) /\ d.status = "FORWARD"
    BY <1>5, <1>6, <1>7, <1>8, GatedReadShare
  <2>2. Early(d)
    BY <2>1 DEF Early
  <2>3. Near(c) \in Nat /\ Far(c) \in Nat
    BY <1>1, ShareTypes
  <2>4. /\ Near(d) = Near(c) /\ Far(d) = Far(c) /\ Near(d) <= Near(c) /\ Far(d) <= Far(c)
        /\ c.status # "DESTROY"
    BY <1>7, <1>8, <2>1, <2>3
  <2> QED BY <1>1, <1>2, <1>4, <2>1, <2>2, <2>4, SettledStill
<1>9. CASE e.status # "FORWARD"
  <2>1. Near(c) \in Nat /\ Far(c) \in Nat
    BY <1>1, ShareTypes
  <2>2. /\ Near(d) = Near(c) /\ Far(d) = Far(c) /\ Near(d) <= Near(c) /\ Far(d) <= Far(c)
        /\ d.status = c.status /\ Matched(d) /\ Early(d)
    BY <1>6, <1>7, <1>9, <2>1
  <2> QED BY <1>1, <1>2, <1>4, <2>2, SettledStill
<1> QED BY <1>8, <1>9

\* The sent handler of an ACK frame starts the next write.
LEMMA AckSentCredit ==
  ASSUME FlowInv, CreditInv, TypeOK', NEW s \in Side, AckSent(s)
  PROVE  CreditInv'
<1> DEFINE c == ses[s]
           k == c.sentAck - 1
           e == [c EXCEPT !.sentAck = k]
           d == IF e.status = "FORWARD" THEN CacheRead(e) ELSE e
<1>1. TypeOK /\ c \in Session /\ Matched(c) /\ Early(c)
  BY EndFacts
<1>2. /\ c.sentAck > 0 /\ ses' = [ses EXCEPT ![s] = d] /\ chan' = chan /\ pipe' = pipe
  BY DEF AckSent
<1>3. k \in Nat
  BY <1>1, <1>2 DEF Session
<1>4. d \in Session
  BY <1>1, <1>2 DEF TypeOK
<1> HIDE DEF k
<1>5. e \in Session /\ SameShare(c, e)
  BY <1>1, <1>3 DEF Session, SameShare, Alike
<1>6. d = IF e.status = "FORWARD" THEN CacheRead(e) ELSE e
  OBVIOUS
<1> HIDE DEF d, e
<1>7. Near(e) = Near(c) /\ Far(e) = Far(c) /\ Matched(e) /\ Early(e) /\ e.status = c.status
  BY <1>1, <1>5, SameShares
<1>8. CASE e.status = "FORWARD"
  <2>1. Far(d) = Far(e) /\ Matched(d) /\ Alike(e, d)
    BY <1>5, <1>6, <1>7, <1>8, CacheReadShare
  <2>2. Near(d) = Near(e) /\ d.status = "FORWARD"
    BY <1>8, <2>1 DEF Alike, Near
  <2>3. Early(d)
    BY <2>2 DEF Early
  <2>4. Near(c) \in Nat /\ Far(c) \in Nat
    BY <1>1, ShareTypes
  <2>5. /\ Near(d) = Near(c) /\ Far(d) = Far(c) /\ Near(d) <= Near(c) /\ Far(d) <= Far(c)
        /\ c.status # "DESTROY"
    BY <1>7, <1>8, <2>1, <2>2, <2>4
  <2> QED BY <1>1, <1>2, <1>4, <2>1, <2>3, <2>5, SettledStill
<1>9. CASE e.status # "FORWARD"
  <2>1. Near(c) \in Nat /\ Far(c) \in Nat
    BY <1>1, ShareTypes
  <2>2. /\ Near(d) = Near(c) /\ Far(d) = Far(c) /\ Near(d) <= Near(c) /\ Far(d) <= Far(c)
        /\ d.status = c.status /\ Matched(d) /\ Early(d)
    BY <1>6, <1>7, <1>9, <2>1
  <2> QED BY <1>1, <1>2, <1>4, <2>2, SettledStill
<1> QED BY <1>8, <1>9

\* The credit of a completed write goes into an ACK frame, or is given up
\* with a postponed CLOSE.
LEMMA WriteDoneCredit ==
  ASSUME FlowInv, CreditInv, TypeOK', NEW s \in Side, WriteDone(s)
  PROVE  CreditInv'
<1> DEFINE c == ses[s]
           e == [c EXCEPT !.writes = Tail(c.writes)]
           n == Head(c.writes).ack
           k == e.sentAck + 1
           g == [e EXCEPT !.asyncWriting = FALSE, !.sentAck = k]
           h1 == [e EXCEPT !.late = "no"]
           h2 == [e EXCEPT !.waiting = TRUE]
<1>1. TypeOK /\ c \in Session /\ Matched(c) /\ Early(c)
  BY EndFacts
<1>2. c.writes # <<>> /\ pipe' = pipe
  BY DEF WriteDone
<1>3. \/ /\ e.status # "FORWARD" /\ chan' = chan
         /\ ses' = [ses EXCEPT ![s] = h1] \/ ses' = [ses EXCEPT ![s] = h2]
      \/ e.status = "FORWARD" /\ ses' = [ses EXCEPT ![s] = Destroyed(e)] /\ Push(s, Close)
      \/ e.status = "FORWARD" /\ ses' = [ses EXCEPT ![s] = g] /\ Push(s, Ack(n))
  BY DEF WriteDone
<1>4. e \in Session /\ e.status = c.status
  BY <1>1, <1>2, PopWrite
<1>5. Near(e) = Near(c) /\ Far(c) = Far(e) + n /\ Matched(e) /\ n \in Nat /\ Far(e) \in Nat
  BY <1>1, <1>2, PopShare
<1>6. Near(c) \in Nat /\ Far(c) \in Nat
  BY <1>1, ShareTypes
<1>7. c.status \in {"FORWARD", "DESTROY"}
  BY <1>2, WriterStatus
<1> HIDE DEF e, n
<1>8. CASE /\ e.status # "FORWARD" /\ chan' = chan
           /\ ses' = [ses EXCEPT ![s] = h1] \/ ses' = [ses EXCEPT ![s] = h2]
  <2>1. e.status = "DESTROY"
    BY <1>4, <1>7, <1>8
  <2>2. Early(e)
    BY <2>1 DEF Early
  <2>3. Near(e) <= Near(c) /\ Far(e) <= Far(c)
    BY <1>5, <1>6
  <2>4. SameShare(e, h1) /\ SameShare(e, h2)
    BY <1>4 DEF SameShare, Alike, Session
  <2> HIDE DEF h1, h2
  <2>5. PICK h : SameShare(e, h) /\ ses' = [ses EXCEPT ![s] = h]
    BY <1>8, <2>4
  <2>6. h \in Session
    BY <1>1, <2>5 DEF TypeOK
  <2>7. Near(h) = Near(e) /\ Far(h) = Far(e) /\ h.status = "DESTROY" /\ Matched(h) /\ Early(h)
    BY <1>5, <2>1, <2>2, <2>5, SameShares
  <2>8. Near(h) <= Near(c) /\ Far(h) <= Far(c)
    BY <2>3, <2>7
  <2> QED BY <1>1, <1>2, <1>8, <2>5, <2>6, <2>7, <2>8, SettledStill
<1>9. CASE e.status = "FORWARD" /\ ses' = [ses EXCEPT ![s] = Destroyed(e)] /\ Push(s, Close)
  <2> DEFINE d == Destroyed(e)
  <2>1. Near(d) <= Near(e) /\ Near(d) \in Nat /\ Far(d) = Far(e) /\ Matched(d) /\ Early(d)
        /\ d.status = "DESTROY"
    BY <1>4, <1>5, DestroyedShare
  <2>2. d \in Session
    BY <1>1, <1>9 DEF TypeOK
  <2>3. Close \in Frame /\ Counted(Close) = 0 /\ Close.ack = 0 /\ PlainFrame(Close)
    BY FrameWeights
  <2> HIDE DEF d
  <2>4. Near(d) + Counted(Close) <= Near(c) /\ Far(d) + Close.ack <= Far(c)
    BY <1>5, <1>6, <2>1, <2>3
  <2>5. ses' = [ses EXCEPT ![s] = d]
    BY <1>9 DEF d
  <2> QED BY <1>1, <1>2, <1>9, <2>1, <2>2, <2>3, <2>4, <2>5, SettledPush
<1>10. CASE e.status = "FORWARD" /\ ses' = [ses EXCEPT ![s] = g] /\ Push(s, Ack(n))
  <2> DEFINE fr == Ack(n)
  <2>1. fr \in Frame /\ Counted(fr) = 0 /\ fr.ack = n /\ PlainFrame(fr) /\ Push(s, fr)
    BY <1>5, <1>10, FrameWeights
  <2>2. g \in Session
    BY <1>1, <1>10 DEF TypeOK
  <2> HIDE DEF fr, k
  <2>3. SameShare(e, g)
    BY <1>4 DEF SameShare, Alike, Session
  <2> HIDE DEF g
  <2>4. Near(g) = Near(e) /\ Far(g) = Far(e) /\ Matched(g) /\ g.status = "FORWARD"
    BY <1>5, <1>10, <2>3, SameShares
  <2>5. Early(g)
    BY <2>4 DEF Early
  <2>6. /\ Near(g) + Counted(fr) = Near(c) /\ Far(g) + fr.ack = Far(c)
        /\ Near(g) + Counted(fr) <= Near(c) /\ Far(g) + fr.ack <= Far(c)
    BY <1>5, <1>6, <2>1, <2>4
  <2>7. ses' = [ses EXCEPT ![s] = g] /\ c.status # "DESTROY"
    BY <1>4, <1>10
  <2> QED BY <1>1, <1>2, <2>1, <2>2, <2>4, <2>5, <2>6, <2>7, SettledPush
<1> QED BY <1>3, <1>8, <1>9, <1>10

\* The credit of a write that fails is given up with the session.
LEMMA WriteFailedCredit ==
  ASSUME FlowInv, CreditInv, TypeOK', NEW s \in Side, WriteFailed(s)
  PROVE  CreditInv'
<1> DEFINE c == ses[s]
           e == [c EXCEPT !.writes = Tail(c.writes)]
           n == Head(c.writes).ack
           h == [e EXCEPT !.late = "no"]
<1>1. TypeOK /\ c \in Session /\ Matched(c)
  BY EndFacts
<1>2. c.writes # <<>> /\ pipe' = pipe
  BY DEF WriteFailed
<1>3. \/ DestroyAndTell(s, e)
      \/ e.status = "DESTROY" /\ ses' = [ses EXCEPT ![s] = h] /\ chan' = chan
  BY DEF WriteFailed
<1>4. e \in Session
  BY <1>1, <1>2, PopWrite
<1>5. Near(e) = Near(c) /\ Far(c) = Far(e) + n /\ Matched(e) /\ n \in Nat /\ Far(e) \in Nat
  BY <1>1, <1>2, PopShare
<1>6. Near(c) \in Nat /\ Far(c) \in Nat
  BY <1>1, ShareTypes
<1> HIDE DEF e, n
<1>7. Near(e) <= Near(c) /\ Far(e) <= Far(c)
  BY <1>5, <1>6
<1>8. CASE DestroyAndTell(s, e)
  BY <1>1, <1>2, <1>4, <1>5, <1>7, <1>8, TellCredit
<1>9. CASE e.status = "DESTROY" /\ ses' = [ses EXCEPT ![s] = h] /\ chan' = chan
  <2>1. h \in Session
    BY <1>1, <1>9 DEF TypeOK
  <2>2. SameShare(e, h) /\ Early(e)
    BY <1>4, <1>9 DEF SameShare, Alike, Session, Early
  <2> HIDE DEF h
  <2>3. Near(h) = Near(e) /\ Far(h) = Far(e) /\ h.status = "DESTROY" /\ Matched(h) /\ Early(h)
    BY <1>5, <1>9, <2>2, SameShares
  <2>4. Near(h) <= Near(c) /\ Far(h) <= Far(c)
    BY <1>7, <2>3
  <2> QED BY <1>1, <1>2, <1>9, <2>1, <2>3, <2>4, SettledStill
<1> QED BY <1>3, <1>8, <1>9

\* The frame that is parsed; only CONNECT comes before there is a session.
LEMMA ParseFacts ==
  ASSUME FlowInv, CreditInv, NEW s \in Side, NEW cmd, Parse(s, cmd)
  PROVE  LET q == chan[Peer(s)] IN
         /\ q # <<>> /\ Head(q) \in Frame /\ Head(q).cmd = cmd /\ PlainFrame(Head(q))
         /\ chan' = [chan EXCEPT ![Peer(s)] = Tail(q)] /\ pipe' = pipe
         /\ cmd # "CONNECT" /\ ~ses[s].listed => ses[s].status = "DESTROY"
<1> DEFINE o == Peer(s)
           q == chan[o]
           c == ses[s]
<1>1. /\ TypeOK /\ q \in Seq(Frame) /\ Plain(q) /\ o \in Side
      /\ Rx(s, c, got[s], made[o])
  BY EndFacts
<1>2. q # <<>> /\ Head(q).cmd = cmd /\ pipe[s] /\ pipe' = pipe
      /\ chan' = [chan EXCEPT ![o] = Tail(q)]
  BY DEF Parse
<1>3. Head(q) \in Frame /\ Head(q) = q[1]
  BY <1>1, <1>2
<1>4. PlainFrame(Head(q))
  BY <1>1, <1>2, PlainFacts
<1>5. Flow(s, c, ses[o].status, q, made[o], got[s], ending[s], pipe[s], pipe[o])
  BY BothFlows
<1> HIDE DEF c, q, o
<1>6. ASSUME cmd # "CONNECT", ~c.listed PROVE c.status = "DESTROY"
  <2>1. c.status \in {"NONE", "DESTROY"}
    BY <1>1, <1>6 DEF Rx
  <2>2. c.status # "NONE"
    BY <1>2, <1>3, <1>5, <1>6 DEF Flow, Towards, Lead
  <2> QED BY <2>1, <2>2
<1> QED BY <1>2, <1>3, <1>4, <1>6 DEF c, q, o

\* A frame for a session that is destroyed.
LEMMA DroppedCredit ==
  ASSUME TypeOK, CreditInv, TypeOK', NEW s \in Side, NEW h \in Frame,
         chan[Peer(s)] # <<>>, h = Head(chan[Peer(s)]),
         chan' = [chan EXCEPT ![Peer(s)] = Tail(chan[Peer(s)])],
         pipe' = pipe, ses' = [ses EXCEPT ![s] = ses[s]], ses[s].status = "DESTROY"
  PROVE  CreditInv'
<1> DEFINE d == ses[s]
<1>1. d \in Session /\ Matched(d) /\ Early(d)
  BY DEF CreditInv, TypeOK
<1>2. Near(d) \in Nat /\ Far(d) \in Nat /\ h.ack \in Nat /\ Counted(h) \in Nat
  BY <1>1, ShareTypes DEF Frame, Counted
<1>3. Near(d) <= Near(ses[s]) + h.ack /\ Far(d) <= Far(ses[s]) + Counted(h)
      /\ ses' = [ses EXCEPT ![s] = d] /\ d.status = "DESTROY"
  BY <1>2
<1> HIDE DEF d
<1> QED BY <1>1, <1>3, SettledParse

\* The new ServerSession starts with the credit its place was counted with.
LEMMA RecvConnectCredit ==
  ASSUME FlowInv, CreditInv, TypeOK', RecvConnect
  PROVE  CreditInv'
<1> DEFINE s == "server"
           c == ses[s]
           q == chan[Peer(s)]
           h == Head(q)
           n == NewSession("HANDSHAKE")
           d == CacheRead(n)
<1>0. s \in Side
  BY DEF Side
<1>1. /\ TypeOK /\ c \in Session /\ Early(c)
  BY <1>0, EndFacts
<1>2. /\ q # <<>> /\ h \in Frame /\ h.cmd = "CONNECT" /\ PlainFrame(h) /\ pipe' = pipe
      /\ chan' = [chan EXCEPT ![Peer(s)] = Tail(q)]
  BY <1>0, ParseFacts DEF RecvConnect
<1>3. ses' = [ses EXCEPT ![s] = d] /\ pipe[s]
  BY DEF RecvConnect, Parse
<1>4. c.status = "NONE"
  <2> DEFINE o == Peer(s)
  <2>1. Flow(s, c, ses[o].status, chan[o], made[o], got[s], ending[s], pipe[s], pipe[o])
    BY <1>0, BothFlows
  <2>2. q \in Seq(Frame) /\ 1 \in DOMAIN q /\ h = q[1]
    <3>1. q \in Seq(Frame)
      BY <1>0, EndFacts
    <3> QED BY <1>2, <3>1
  <2>3. Opened(s, c.status, q)
    BY <1>3, <2>1 DEF Flow
  <2> HIDE DEF q, h, c, s
  <2> QED BY <1>2, <2>2, <2>3 DEF Opened
<1>5. h.ack = 0 /\ Counted(h) = 0
  BY <1>2 DEF PlainFrame, Counted
<1>6. d \in Session
  BY <1>0, <1>1, <1>3 DEF TypeOK
<1>7. /\ d.status = "HANDSHAKE" /\ d.credit = Window /\ d.firstCall /\ d.queue = <<>>
      /\ d.pushAck = 0 /\ d.writes = <<>> /\ ~d.waitAck
  BY DEF CacheRead, NewSession
<1> HIDE DEF d, h, q, c
<1>8. /\ c.credit = Window /\ c.firstCall /\ c.pushAck = 0 /\ c.writes = <<>>
  BY <1>1, <1>4 DEF Early
<1>9. Near(d) = Near(c) /\ Far(d) = Far(c)
  BY <1>4, <1>7, <1>8 DEF Near, Far
<1>10. Matched(d) /\ Early(d)
  <2>1. Len(<<>>) = 0 /\ 1..Len(<<>>) = {}
    OBVIOUS
  <2> QED BY <1>7, <2>1 DEF Matched, Early
<1>11. Near(c) \in Nat /\ Far(c) \in Nat
  BY <1>1, ShareTypes
<1>12. /\ Near(d) <= Near(c) + h.ack /\ Far(d) <= Far(c) + Counted(h)
       /\ Near(d) = Near(c) + h.ack /\ Far(d) = Far(c) + Counted(h)
       /\ c.status # "DESTROY"
  BY <1>4, <1>5, <1>9, <1>11
<1> HIDE DEF s
<1> QED BY <1>0, <1>1, <1>2, <1>3, <1>6, <1>10, <1>12, SettledParse DEF c, h, q

\* A read moves from its frame to the queue or to a write; the request is
\* told from the reads by what has been received before it.
LEMMA RecvDataCredit ==
  ASSUME FlowInv, CreditInv, TypeOK', NEW s \in Side, RecvData(s)
  PROVE  CreditInv'
<1> DEFINE o == Peer(s)
           c == ses[s]
           q == chan[o]
           h == Head(q)
           d == PushData(c, h.data)
<1>1. /\ TypeOK /\ c \in Session /\ Early(c) /\ Matched(c) /\ Chains(s, c) /\ q \in Seq(Frame)
      /\ Rx(s, c, got[s], made[o]) /\ got[s] \in Seq(Nat) /\ made[o] \in Nat
  BY EndFacts, Ends
<1>2. /\ q # <<>> /\ h \in Frame /\ h.cmd = "DATA" /\ PlainFrame(h) /\ pipe' = pipe
      /\ chan' = [chan EXCEPT ![o] = Tail(q)]
      /\ ~c.listed => c.status = "DESTROY"
  BY ParseFacts DEF RecvData
<1>3. ses' = [ses EXCEPT ![s] = IF c.listed THEN d ELSE c] /\ pipe[s]
  BY <1>1 DEF RecvData, Parse, TypeOK
<1>4. Flow(s, c, ses[o].status, q, made[o], got[s], ending[s], pipe[s], pipe[o])
  BY BothFlows
<1>5. CASE ~c.listed
  BY <1>1, <1>2, <1>3, <1>5, DroppedCredit
<1>6. CASE c.listed
  <2> DEFINE R == Reached(s, c, got[s])
  <2>1. d \in Session /\ ses' = [ses EXCEPT ![s] = d]
    BY <1>1, <1>3, <1>6 DEF TypeOK
  <2>2. h.data \in Seq(Nat) /\ h.ack = 0
    BY <1>2 DEF Frame, PlainFrame
  <2> HIDE DEF d, h, q, c, o
  <2>3. c.status \notin {"NONE", "DESTROY"} /\ c.status \in Status
    BY <1>1, <1>6 DEF Rx, Session
  <2>4. Towards(s, c, ses[o].status, q, made[o], got[s], pipe[o])
    BY <1>3, <1>4, <2>3 DEF Flow
  <2>5. h.data = <<R + 1>>
    <3>1. R \in Int /\ Line(R, q, made[o]) /\ IsData(h)
      BY <1>1, <1>2, <2>4, ReachedType DEF Towards, IsData
    <3> HIDE DEF R
    <3> QED BY <1>1, <1>2, <3>1, LineParseData DEF h
  <2>6. R \in Int /\ (R = -1 <=> Fresh(s, c))
    <3>1. ~Fresh(s, c) => R \in Nat
      BY <1>1, ReachedType
    <3>2. Fresh(s, c) => R = -1
      BY DEF Reached
    <3> HIDE DEF R
    <3> QED BY <3>1, <3>2
  <2> HIDE DEF R
  <2>7. Len(h.data) = 1 /\ Counted(h) = IF Fresh(s, c) THEN 0 ELSE 1
    <3>1. (<<R + 1>> = <<Req>>) <=> R = -1
      BY <2>6 DEF Req
    <3>2. Len(<<R + 1>>) = 1
      OBVIOUS
    <3> QED BY <1>2, <2>5, <2>6, <3>1, <3>2 DEF Counted
  <2>8. Fresh(s, c) => c.waiting /\ c.status = "HANDSHAKE"
    BY <1>1, <2>3 DEF Fresh, Rx
  <2>9. ~Fresh(s, c) /\ c.waiting => c.status = "FORWARD"
    <3>1. s = "client" \/ s = "server"
      BY DEF Side
    <3>2. c.waiting => ReceiverToken(c) > 0
      <4>1. Len(c.writes) \in Nat /\ c.sentAck \in Nat
        BY <1>1 DEF Session
      <4> QED BY <4>1 DEF ReceiverToken
    <3>3. c.waiting => c.status # "QUERIED" /\ ~(s = "client" /\ c.status = "HANDSHAKE")
      BY <1>1, <3>2 DEF Chains
    <3> QED BY <2>3, <3>1, <3>3 DEF Fresh, Status
  <2>10. c.waiting => c.status \in {"FORWARD", "HANDSHAKE"}
    BY <2>8, <2>9
  <2>11. /\ Matched(d) /\ Near(d) = Near(c) /\ d.waitAck = c.waitAck
         /\ Far(d) = Far(c) + IF c.waiting /\ c.status = "HANDSHAKE" THEN 0 ELSE 1
         /\ d.status = c.status \/ (c.status = "HANDSHAKE" /\ d.status = "QUERIED")
    BY <1>1, <2>2, <2>7, <2>10, PushDataShare DEF d
  <2>12. Far(d) = Far(c) + Counted(h)
    BY <2>7, <2>8, <2>9, <2>11
  <2>13. Early(d)
    BY <1>1, <2>3, <2>11 DEF Early
  <2>14. Near(c) \in Nat /\ Far(c) \in Nat /\ Counted(h) \in Nat
    BY <1>1, ShareTypes DEF Counted
  <2>15. /\ Near(d) <= Near(c) + h.ack /\ Far(d) <= Far(c) + Counted(h)
         /\ Near(d) = Near(c) + h.ack /\ Far(d) = Far(c) + Counted(h)
    BY <2>2, <2>11, <2>12, <2>14
  <2> QED BY <1>1, <1>2, <2>1, <2>3, <2>11, <2>13, <2>15, SettledParse DEF c, h, q, o
<1> QED BY <1>5, <1>6

\* The credit of an ACK frame comes back to the counter, or goes straight
\* into the read that waited for it.
LEMMA RecvAckCmdCredit ==
  ASSUME FlowInv, CreditInv, TypeOK', NEW s \in Side, RecvAckCmd(s)
  PROVE  CreditInv'
<1> DEFINE o == Peer(s)
           c == ses[s]
           q == chan[o]
           h == Head(q)
           n == h.ack
           d == RecvAck(c, n)
<1>1. /\ TypeOK /\ c \in Session /\ Early(c) /\ Matched(c)
      /\ Rx(s, c, got[s], made[o])
  BY EndFacts
<1>2. /\ q # <<>> /\ h \in Frame /\ h.cmd = "ACK" /\ pipe' = pipe
      /\ chan' = [chan EXCEPT ![o] = Tail(q)]
      /\ ~c.listed => c.status = "DESTROY"
  BY ParseFacts DEF RecvAckCmd
<1>3. ses' = [ses EXCEPT ![s] = IF c.listed THEN d ELSE c]
  BY <1>1 DEF RecvAckCmd, TypeOK
<1>5. CASE ~c.listed
  BY <1>1, <1>2, <1>3, <1>5, DroppedCredit
<1>6. CASE c.listed
  <2>1. d \in Session /\ ses' = [ses EXCEPT ![s] = d]
    BY <1>1, <1>3, <1>6 DEF TypeOK
  <2>2. n \in Nat /\ Counted(h) = 0
    BY <1>2 DEF Frame, Counted
  <2> HIDE DEF n, h, q, c, o
  <2>3. c.status \notin {"NONE", "DESTROY"} /\ c.status \in Status
    BY <1>1, <1>6 DEF Rx, Session
  <2>4. c.waitAck => c.status = "FORWARD"
    BY <1>1, <2>3 DEF Early, Status
  <2>5. /\ Near(d) = Near(c) + n /\ Far(d) = Far(c) /\ Matched(d) /\ (~c.waitAck => ~d.waitAck)
    BY <1>1, <2>2, <2>4, RecvAckShare
  <2>6. d.status = c.status
    BY <1>1, <2>2, RecvAckFacts
  <2> HIDE DEF d
  <2>7. Early(d)
    BY <1>1, <2>3, <2>5, <2>6 DEF Early
  <2>8. Near(c) \in Nat /\ Far(c) \in Nat
    BY <1>1, ShareTypes
  <2>9. n = h.ack
    BY DEF n
  <2>10. /\ Near(d) <= Near(c) + h.ack /\ Far(d) <= Far(c) + Counted(h)
         /\ Near(d) = Near(c) + h.ack /\ Far(d) = Far(c) + Counted(h)
    BY <2>2, <2>5, <2>8, <2>9
  <2> QED BY <1>1, <1>2, <2>1, <2>3, <2>5, <2>6, <2>7, <2>10, SettledParse DEF c, h, q, o
<1> QED BY <1>5, <1>6

\* A CLOSE carries no credit.
LEMMA RecvCloseCredit ==
  ASSUME FlowInv, CreditInv, TypeOK', NEW s \in Side, RecvClose(s)
  PROVE  CreditInv'
<1> DEFINE o == Peer(s)
           c == ses[s]
           q == chan[o]
           h == Head(q)
           e == [c EXCEPT !.closeFuture = TRUE]
<1>1. /\ TypeOK /\ c \in Session /\ Early(c) /\ Matched(c)
  BY EndFacts
<1>2. /\ q # <<>> /\ h \in Frame /\ h.cmd = "CLOSE" /\ PlainFrame(h) /\ pipe' = pipe
      /\ chan' = [chan EXCEPT ![o] = Tail(q)]
      /\ ~c.listed => c.status = "DESTROY"
  BY ParseFacts DEF RecvClose
<1>3. \/ ~c.listed /\ ses' = [ses EXCEPT ![s] = c]
      \/ ses' = [ses EXCEPT ![s] = Destroyed(c)]
      \/ ses' = [ses EXCEPT ![s] = e]
  BY <1>1 DEF RecvClose, TypeOK
<1>4. h.ack = 0 /\ Counted(h) = 0
  BY <1>2 DEF PlainFrame, Counted
<1>5. Near(c) \in Nat /\ Far(c) \in Nat
  BY <1>1, ShareTypes
<1>6. CASE ~c.listed /\ ses' = [ses EXCEPT ![s] = c]
  BY <1>1, <1>2, <1>6, DroppedCredit
<1>7. CASE ses' = [ses EXCEPT ![s] = Destroyed(c)]
  <2> DEFINE d == Destroyed(c)
  <2>1. Near(d) <= Near(c) /\ Near(d) \in Nat /\ Far(d) = Far(c) /\ Matched(d) /\ Early(d)
        /\ d.status = "DESTROY"
    BY <1>1, DestroyedShare
  <2>2. d \in Session /\ ses' = [ses EXCEPT ![s] = d]
    BY <1>1, <1>7 DEF TypeOK
  <2> HIDE DEF d, c, h, q, o
  <2>3. Near(d) <= Near(c) + h.ack /\ Far(d) <= Far(c) + Counted(h)
    BY <1>4, <1>5, <2>1
  <2> QED BY <1>1, <1>2, <2>1, <2>2, <2>3, SettledParse DEF c, h, q, o
<1>8. CASE ses' = [ses EXCEPT ![s] = e]
  <2>1. e \in Session
    BY <1>1, <1>8 DEF TypeOK
  <2>2. SameShare(c, e)
    BY <1>1 DEF SameShare, Alike, Session
  <2> HIDE DEF e, c, h, q, o
  <2>3. Near(e) = Near(c) /\ Far(e) = Far(c) /\ Matched(e) /\ Early(e) /\ e.status = c.status
    BY <1>1, <2>2, SameShares
  <2>4. /\ Near(e) <= Near(c) + h.ack /\ Far(e) <= Far(c) + Counted(h)
        /\ Near(e) = Near(c) + h.ack /\ Far(e) = Far(c) + Counted(h)
    BY <1>4, <1>5, <2>3
  <2> QED BY <1>1, <1>2, <1>8, <2>1, <2>3, <2>4, SettledParse DEF c, h, q, o
<1> QED BY <1>3, <1>6, <1>7, <1>8

\* destroy() of the pipeline: no account is whole any more, and what is lost
\* of the channels only lowers them.
LEMMA PipeDestroyCredit ==
  ASSUME FlowInv, CreditInv, TypeOK', NEW s \in Side, PipeDestroy(s)
  PROVE  CreditInv'
<1> DEFINE o == Peer(s)
           c == ses[s]
           q == chan[s]
           a == chan[o]
           e == IF c.listed THEN Destroyed(c) ELSE c
           d == [e EXCEPT !.sentData = 0, !.sentAck = 0]
<1>1. /\ TypeOK /\ c \in Session /\ Early(c) /\ Matched(c) /\ o \in Side /\ o # s
      /\ q \in Seq(Frame) /\ a \in Seq(Frame) /\ Plain(q)
  BY EndFacts, Ends DEF CreditInv
<1>2. PICK n \in 0..Len(q) : chan' = [chan EXCEPT ![s] = SubSeq(q, 1, n), ![o] = <<>>]
  BY <1>1 DEF PipeDestroy, TypeOK
<1> DEFINE q2 == SubSeq(q, 1, n)
<1>3. chan'[s] = q2 /\ chan'[o] = <<>>
  BY <1>1, <1>2 DEF TypeOK
<1>4. /\ Reads(q2) <= Reads(q) /\ AckTotal(q2) <= AckTotal(q) /\ Plain(q2)
      /\ Reads(q) \in Nat /\ AckTotal(q) \in Nat /\ Reads(a) \in Nat /\ AckTotal(a) \in Nat
  BY <1>1, FrameSums, PlainFacts
<1>5. Reads(q2) \in Nat /\ AckTotal(q2) \in Nat
  <2>1. q2 \in Seq(Frame)
    BY <1>1, Cut
  <2> QED BY <2>1, FrameSums
<1>6. Reads(<<>>) = 0 /\ AckTotal(<<>>) = 0 /\ Plain(<<>>)
  <2>1. Plain(<<>>)
    BY DEF Plain
  <2> QED BY <2>1, NoSums
<1>7. ses' = [ses EXCEPT ![s] = d] /\ pipe' = [pipe EXCEPT ![s] = FALSE]
  BY <1>1 DEF PipeDestroy, TypeOK
<1>8. d \in Session
  BY <1>1, <1>7 DEF TypeOK
<1>9. /\ e \in Session /\ Near(e) <= Near(c) /\ Near(e) \in Nat /\ Far(e) = Far(c)
      /\ Matched(e) /\ Early(e) /\ Near(c) \in Nat /\ Far(c) \in Nat
  <2>1. Near(c) \in Nat /\ Far(c) \in Nat
    BY <1>1, ShareTypes
  <2>2. CASE c.listed
    <3>1. Destroyed(c) \in Session
      BY <1>1 DEF Destroyed, Session, Status
    <3> QED BY <1>1, <2>1, <2>2, <3>1, DestroyedShare
  <2>3. CASE ~c.listed
    <3> HIDE DEF c
    <3> QED BY <1>1, <2>1, <2>3
  <2> QED BY <2>2, <2>3
<1> HIDE DEF e
<1>10. SameShare(e, d)
  BY <1>9 DEF SameShare, Alike, Session
<1> HIDE DEF d
<1>11. Near(d) <= Near(c) /\ Near(d) \in Nat /\ Far(d) = Far(c) /\ Matched(d) /\ Early(d)
  BY <1>9, <1>10, SameShares
<1>12. ~Whole'
  <2>1. pipe'[s] = FALSE
    BY <1>1, <1>7 DEF TypeOK
  <2> QED BY <2>1 DEF Whole
<1>13. c = ses[s] /\ q = chan[s] /\ a = chan[o] /\ o = Peer(s)
  OBVIOUS
<1> HIDE DEF c, q, a, q2, o
<1>14. Own(d, q2, <<>>) <= Own(c, q, a) /\ Other(d, q2, <<>>) <= Other(c, q, a)
  BY <1>4, <1>5, <1>6, <1>9, <1>11 DEF Own, Other
<1> QED BY <1>1, <1>3, <1>4, <1>6, <1>7, <1>8, <1>11, <1>12, <1>13, <1>14, Settled

\* At the start each end holds a whole window and its free first read.
LEMMA CreditInit == Init => CreditInv
<1> SUFFICES ASSUME Init PROVE CreditInv
  OBVIOUS
<1> DEFINE c == ses["client"]
           d == ses["server"]
<1>1. /\ "client" \in Side /\ "server" \in Side /\ \A s \in Side : s = "client" \/ s = "server"
      /\ Peer("client") = "server" /\ Peer("server") = "client"
  BY DEF Side, Peer
<1>2. /\ c.status = "HANDSHAKE" /\ c.credit = Window /\ c.firstCall /\ c.pushAck = 0
      /\ c.queue = <<>> /\ c.writes = <<>> /\ ~c.waitAck
      /\ d.status = "NONE" /\ d.credit = Window /\ d.firstCall /\ d.pushAck = 0
      /\ d.queue = <<>> /\ d.writes = <<>> /\ ~d.waitAck
  BY <1>1 DEF Init, NewSession
<1>3. chan["client"] = Append(<<>>, Connect) /\ chan["server"] = <<>>
  <2>1. <<Connect>> = Append(<<>>, Connect)
    OBVIOUS
  <2> QED BY <1>1, <2>1 DEF Init
<1>4. Connect \in Frame /\ Counted(Connect) = 0 /\ Connect.ack = 0 /\ PlainFrame(Connect)
  BY FrameTypes DEF Connect, FrameOf, Counted, PlainFrame
<1>5. <<>> \in Seq(Frame) /\ Plain(<<>>) /\ Reads(<<>>) = 0 /\ AckTotal(<<>>) = 0
  BY NoSums DEF Plain
<1> HIDE DEF c, d
<1>6. Plain(chan["client"]) /\ Plain(chan["server"])
  BY <1>3, <1>4, <1>5, PlainFacts
<1>7. Reads(chan["client"]) = 0 /\ AckTotal(chan["client"]) = 0
  <2> DEFINE nil == <<>>
  <2>1. nil \in Seq(Frame) /\ Reads(nil) = 0 /\ AckTotal(nil) = 0
        /\ chan["client"] = Append(nil, Connect)
    BY <1>3, <1>5
  <2> HIDE DEF nil
  <2>2. /\ Reads(Append(nil, Connect)) = Reads(nil) + Counted(Connect)
        /\ AckTotal(Append(nil, Connect)) = AckTotal(nil) + Connect.ack
    BY <1>4, <2>1, FrameSums, Zenon
  <2>3. Reads(nil) + Counted(Connect) = 0 /\ AckTotal(nil) + Connect.ack = 0
    BY <1>4, <2>1
  <2> QED BY <2>1, <2>2, <2>3, Zenon
<1>8. Reads(chan["server"]) = 0 /\ AckTotal(chan["server"]) = 0
  BY <1>3, <1>5
<1>9. Near(c) = Window + 1 /\ Near(d) = Window + 1 /\ Far(c) = 0 /\ Far(d) = 0
  BY <1>2, <1>5, WindowAssumption DEF Near, Far
<1>10. Account("client") = Window + 1 /\ Account("server") = Window + 1
  BY <1>1, <1>7, <1>8, <1>9, WindowAssumption DEF Account, c, d
<1>11. Balanced("client") /\ Balanced("server")
  BY <1>10, WindowAssumption DEF Balanced
<1>12. Matched(c) /\ Matched(d) /\ Early(c) /\ Early(d)
  <2>1. Len(<<>>) = 0 /\ 1..Len(<<>>) = {}
    OBVIOUS
  <2> QED BY <1>2, <2>1 DEF Matched, Early
<1> QED BY <1>1, <1>6, <1>11, <1>12 DEF CreditInv, c, d

\* Every step keeps the accounts.
LEMMA CreditStep == FlowInv /\ CreditInv /\ [Next]_vars => CreditInv'
<1> SUFFICES ASSUME FlowInv, CreditInv, [Next]_vars PROVE CreditInv'
  OBVIOUS
<1>1. TypeOK'
  BY ChainStep DEF FlowInv, ChainInv
<1>2. CASE UNCHANGED vars
  BY <1>2 DEF vars, CreditInv, Balanced, Whole, Account, Near, Far, Matched, Early, Plain
<1>3. CASE \/ RequestRemote \/ OutConnected \/ OutConnectFailed \/ OutConnectTimeout
          \/ RecvConnect \/ LateRead
  BY <1>1, <1>3, RequestRemoteCredit, OutConnectedCredit, OutConnectFailedCredit,
     RecvConnectCredit, LateReadCredit
<1>4. ASSUME NEW s \in Side,
             \/ LocalRead(s) \/ LocalReadError(s) \/ DataSent(s) \/ WriteDone(s)
             \/ WriteFailed(s) \/ AckSent(s)
             \/ RecvData(s) \/ RecvAckCmd(s) \/ RecvClose(s) \/ PipeDestroy(s)
      PROVE  CreditInv'
  BY <1>1, <1>4, LocalReadCredit, LocalReadErrorCredit, DataSentCredit, WriteDoneCredit,
     WriteFailedCredit, AckSentCredit, RecvDataCredit, RecvAckCmdCredit, RecvCloseCredit,
     PipeDestroyCredit
<1> QED BY <1>2, <1>3, <1>4 DEF Next

\* The accounts always hold.
LEMMA CreditAlways == Spec => [](FlowInv /\ CreditInv)
BY FlowInit, FlowStep, CreditInit, CreditStep, PTL DEF Spec

\* The flow control of PipelineComponent neither loses credit nor invents it:
\* for every window and every order of reads, merged pushes, completed writes
\* and ACK frames, what the sender may still read and what its peer has not
\* acknowledged add up to the window and the free first read, until an end
\* is destroyed.
THEOREM CreditConserved == Spec => []CreditConservation
<1>1. FlowInv /\ CreditInv => CreditConservation
  <2> SUFFICES ASSUME FlowInv, CreditInv, NEW s \in Side, Relaying(s)
               PROVE  ses[s].credit + ses[s].reading + Outstanding(s)
                        = Window + IF ses[s].firstCall THEN 0 ELSE 1
    BY DEF CreditConservation
  <2> DEFINE o == Peer(s)
             c == ses[s]
             e == ses[o]
             q == chan[s]
             a == chan[o]
  <2>1. o \in Side /\ (\A t \in Side : t = s \/ t = o) /\ c \in Session /\ e \in Session
        /\ q \in Seq(Frame) /\ a \in Seq(Frame)
    BY EndFacts, Ends
  <2>2. c.status = "FORWARD" /\ Whole
    BY <2>1 DEF Relaying, Whole
  <2>3. Account(s) = Window + 1
    BY <2>2 DEF CreditInv, Balanced
  <2>4. Account(s) = Near(c) + Reads(q) + Far(e) + AckTotal(a)
    BY DEF Account
  <2>5. Outstanding(s) = Reads(q) + e.pushAck + AckTotal(e.writes) + AckTotal(a)
    BY DEF Outstanding
  <2>6. Reads(q) \in Nat /\ AckTotal(a) \in Nat /\ e.pushAck \in Nat /\ AckTotal(e.writes) \in Nat
    BY <2>1, FrameSums, ShareTypes
  <2>7. c.credit \in Nat /\ c.reading \in Nat
    BY <2>1 DEF Session
  <2> HIDE DEF c, e, q, a
  <2>8. Near(c) = c.credit + c.reading + (IF c.firstCall THEN 1 ELSE 0)
    BY <2>2 DEF Near
  <2>9. Far(e) = e.pushAck + AckTotal(e.writes)
    BY DEF Far
  <2>10. c.credit + c.reading + Outstanding(s) = Window + IF c.firstCall THEN 0 ELSE 1
    BY <2>3, <2>4, <2>5, <2>6, <2>7, <2>8, <2>9, WindowAssumption
  <2> QED BY <2>10 DEF c
<1> QED BY <1>1, CreditAlways, PTL

\* No end ever holds, in its ReadDataCache, in a write under way or in frames
\* still to be parsed, more than pipeline_ack_window + 1 reads of its peer,
\* whatever its local socket does, closed and broken sessions included.
THEOREM BacklogBounded == Spec => []BoundedBacklog
<1>1. FlowInv /\ CreditInv => BoundedBacklog
  <2> SUFFICES ASSUME FlowInv, CreditInv, NEW s \in Side
               PROVE  LET w == ses[s].writes IN
                      Len(ses[s].queue) + Reads(chan[Peer(s)])
                        + Total([i \in 1..Len(w) |-> Len(w[i].data)]) <= Window + 1
    BY DEF BoundedBacklog
  <2> DEFINE o == Peer(s)
             c == ses[s]
             w == c.writes
             e == ses[o]
             q == chan[s]
             a == chan[o]
  <2>1. o \in Side /\ Peer(o) = s /\ c \in Session /\ e \in Session
        /\ q \in Seq(Frame) /\ a \in Seq(Frame)
    BY EndFacts, Ends
  <2>2. Account(o) <= Window + 1 /\ Matched(c)
    BY <2>1 DEF CreditInv, Balanced
  <2>3. Account(o) = Near(e) + Reads(a) + Far(c) + AckTotal(q)
    BY <2>1 DEF Account
  <2>4. Near(e) \in Nat /\ Reads(a) \in Nat /\ AckTotal(q) \in Nat
        /\ c.pushAck \in Nat /\ AckTotal(w) \in Nat
    BY <2>1, FrameSums, ShareTypes
  <2>5. Len(c.queue) = c.pushAck /\ \A i \in 1..Len(w) : Len(w[i].data) = w[i].ack
    BY <2>2 DEF Matched
  <2>6. [i \in 1..Len(w) |-> Len(w[i].data)] = [i \in 1..Len(w) |-> w[i].ack]
    <3> HIDE DEF w
    <3> QED BY <2>5
  <2>7. Total([i \in 1..Len(w) |-> Len(w[i].data)]) = AckTotal(w)
    BY <2>6, Zenon DEF AckTotal
  <2>8. Far(c) = c.pushAck + AckTotal(w)
    BY DEF Far
  <2> HIDE DEF c, w, e, q, a
  <2>9. Len(c.queue) + Reads(a) + AckTotal(w) <= Window + 1
    BY <2>2, <2>3, <2>4, <2>5, <2>8, WindowAssumption
  <2>10. Len(c.queue) + Reads(a) + Total([i \in 1..Len(w) |-> Len(w[i].data)]) <= Window + 1
    BY <2>7, <2>9
  <2> QED BY <2>10 DEF c, w, a
<1> QED BY <1>1, CreditAlways, PTL
=============================================================================
