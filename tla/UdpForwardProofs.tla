-------------------------- MODULE UdpForwardProofs --------------------------
(***************************************************************************)
(* Proofs about UdpForward for any endpoints, with or without pipelines,   *)
(* for every number of sessions, packets and replies: a UDPForwardSession  *)
(* never has two writes under way, never keeps packets that nothing will   *)
(* send, hands on the packets it took in order, and gives its endpoint the *)
(* replies in order.  The arguments are about one session at a time: Fit,  *)
(* UpStream and DownStream.                                                *)
(***************************************************************************)
EXTENDS UdpForward, SequenceTheorems, WellFoundedInduction, TLAPS

\* What holds of one session.  A session that is being started or connected,
\* even one that was destroyed meanwhile and will be started all the same,
\* has no write under way and only one of the two callbacks pending.
Fit(c) ==
  /\ c.writes <= 1
  /\ c.status \in {"unborn", "CONNECT", "FORWARD"} => c.writes = 0
  /\ c.status = "FORWARD" => c.buf = <<>>
  /\ c.status = "FORWARDING" => c.writes = 1
  /\ c.status = "CONNECT" => c.starting \/ c.connecting
  /\ c.starting \/ c.connecting => c.status \in {"CONNECT", "DESTROY"} /\ c.writes = 0
  /\ ~(c.starting /\ c.connecting)

\* The inductive invariant, with the types it rests on.
ForwardInv ==
  /\ config \in [pipeline : BOOLEAN, nat : BOOLEAN]
  /\ packets \in Nat
  /\ ses \in [Num -> Session]
  /\ down \in [Num -> Seq(Nat)]
  /\ replied \in [Num -> Nat]
  /\ \A n \in Num : Fit(ses[n])

-----------------------------------------------------------------------------
(* The functions on a session.                                               *)

\* The values an update takes from a session.
LEMMA Fields ==
  ASSUME NEW c \in Session
  PROVE  /\ c.status \in Status /\ c.writes \in Nat /\ c.buf \in Seq(Nat)
         /\ c.first \in Nat /\ c.rest \in Seq(Nat)
BY DEF Session

\* A write may be started when none is under way and no callback is pending.
LEMMA FlushFits ==
  ASSUME NEW c \in Session, c.writes = 0, ~c.starting, ~c.connecting
  PROVE  Flush(c) \in Session /\ Fit(Flush(c))
<1> DEFINE w == c.writes + 1
           b == <<>>
<1>1. "FORWARDING" \in Status /\ w = 1 /\ w \in Nat /\ b \in Seq(Nat)
  BY DEF Status
<1>2. Flush(c) = [c EXCEPT !.status = "FORWARDING", !.writes = w, !.buf = b]
  BY DEF Flush
<1> HIDE DEF w, b
<1>3. /\ Flush(c) \in Session /\ Flush(c).status = "FORWARDING" /\ Flush(c).writes = w
      /\ ~Flush(c).starting /\ ~Flush(c).connecting
  BY <1>1, <1>2 DEF Session
<1> QED
  BY <1>1, <1>3 DEF Fit

\* in_recv keeps a session fit, in every status.
LEMMA InRecvFits ==
  ASSUME NEW c \in Session, Fit(c), NEW p \in Nat
  PROVE  InRecv(c, p) \in Session /\ Fit(InRecv(c, p))
<1> DEFINE b == Append(c.buf, p)
           d == [c EXCEPT !.buf = Append(@, p)]
<1>0. b \in Seq(Nat) /\ d = [c EXCEPT !.buf = b]
  BY Fields
<1> HIDE DEF b, d
<1>1. /\ d \in Session /\ d.status = c.status /\ d.writes = c.writes
      /\ d.starting = c.starting /\ d.connecting = c.connecting
  BY <1>0 DEF Session
<1>2. CASE c.status = "DESTROY"
  BY <1>2 DEF InRecv
<1>3. CASE c.status = "FORWARD"
  <2>1. InRecv(c, p) = Flush(d)
    BY <1>3 DEF InRecv, d
  <2>2. d.writes = 0 /\ ~d.starting /\ ~d.connecting
    BY <1>1, <1>3 DEF Fit, Session
  <2> QED
    BY <1>1, <2>1, <2>2, FlushFits
<1>4. CASE c.status \notin {"DESTROY", "FORWARD"}
  <2>1. InRecv(c, p) = d
    BY <1>4 DEF InRecv, d
  <2>2. Fit(d)
    BY <1>1, <1>4 DEF Fit
  <2> QED
    BY <1>1, <2>1, <2>2
<1> QED
  BY <1>2, <1>3, <1>4

\* The end of the only write of a session: out_sent sends what was collected
\* or leaves nothing behind.
LEMMA OutSentFits ==
  ASSUME NEW c \in Session, Fit(c), c.writes > 0
  PROVE  LET d == [c EXCEPT !.writes = @ - 1]
         IN  OutSent(d) \in Session /\ Fit(OutSent(d))
<1> DEFINE w == c.writes - 1
           d == [c EXCEPT !.writes = w]
<1>1. c.writes = 1 /\ ~c.starting /\ ~c.connecting /\ w = 0 /\ w \in Nat
  BY Fields DEF Fit
<1>0. d = [c EXCEPT !.writes = @ - 1]
  OBVIOUS
<1> SUFFICES OutSent(d) \in Session /\ Fit(OutSent(d))
  BY <1>0
<1> HIDE DEF w, d
<1>2. /\ d \in Session /\ d.writes = 0 /\ d.status = c.status /\ d.buf = c.buf
      /\ ~d.starting /\ ~d.connecting
  BY <1>1 DEF d, Session
<1>3. CASE d.status # "FORWARDING"
  <2>1. OutSent(d) = d
    BY <1>3 DEF OutSent
  <2>2. d.status \notin {"unborn", "CONNECT", "FORWARD"}
    BY <1>1, <1>2 DEF Fit
  <2>3. Fit(d)
    BY <1>2, <1>3, <2>2 DEF Fit
  <2> QED
    BY <1>2, <2>1, <2>3
<1>4. CASE d.status = "FORWARDING" /\ d.buf = <<>>
  <2> DEFINE e == [d EXCEPT !.status = "FORWARD"]
  <2>1. OutSent(d) = e
    BY <1>4 DEF OutSent
  <2>2. /\ e \in Session /\ e.status = "FORWARD" /\ e.writes = 0 /\ e.buf = <<>>
        /\ ~e.starting /\ ~e.connecting
    BY <1>2, <1>4 DEF Session, Status
  <2> QED
    BY <2>1, <2>2 DEF Fit
<1>5. CASE d.status = "FORWARDING" /\ d.buf # <<>>
  BY <1>2, <1>5, FlushFits DEF OutSent
<1> QED
  BY <1>3, <1>4, <1>5

\* Ending a session, whatever ends with it.
LEMMA DestroyedFits ==
  ASSUME NEW c \in Session, Fit(c)
  PROVE  /\ Destroyed(c) \in Session /\ Fit(Destroyed(c))
         /\ [Destroyed(c) EXCEPT !.starting = FALSE] \in Session
         /\ Fit([Destroyed(c) EXCEPT !.starting = FALSE])
         /\ [Destroyed(c) EXCEPT !.connecting = FALSE] \in Session
         /\ Fit([Destroyed(c) EXCEPT !.connecting = FALSE])
         /\ [Destroyed(c) EXCEPT !.reading = FALSE] \in Session
         /\ Fit([Destroyed(c) EXCEPT !.reading = FALSE])
<1> DEFINE d == Destroyed(c)
<1>1. /\ d \in Session /\ d.status = "DESTROY" /\ d.writes = c.writes
      /\ d.starting = c.starting /\ d.connecting = c.connecting
  BY DEF Destroyed, Session, Status
<1>2. Fit(d)
  BY <1>1 DEF Fit
<1>3. ASSUME NEW e \in Session, e.status = "DESTROY", e.writes = c.writes,
             e.starting => c.starting, e.connecting => c.connecting
      PROVE  Fit(e)
  BY <1>3 DEF Fit
<1> HIDE DEF d
<1>4. [d EXCEPT !.starting = FALSE] \in Session /\ Fit([d EXCEPT !.starting = FALSE])
  <2> DEFINE e == [d EXCEPT !.starting = FALSE]
  <2>1. /\ e \in Session /\ e.status = "DESTROY" /\ e.writes = c.writes
        /\ e.starting = FALSE /\ e.connecting = c.connecting
    BY <1>1 DEF Session
  <2> QED
    BY <1>3, <2>1
<1>5. [d EXCEPT !.connecting = FALSE] \in Session /\ Fit([d EXCEPT !.connecting = FALSE])
  <2> DEFINE e == [d EXCEPT !.connecting = FALSE]
  <2>1. /\ e \in Session /\ e.status = "DESTROY" /\ e.writes = c.writes
        /\ e.starting = c.starting /\ e.connecting = FALSE
    BY <1>1 DEF Session
  <2> QED
    BY <1>3, <2>1
<1>6. [d EXCEPT !.reading = FALSE] \in Session /\ Fit([d EXCEPT !.reading = FALSE])
  <2> DEFINE e == [d EXCEPT !.reading = FALSE]
  <2>1. /\ e \in Session /\ e.status = "DESTROY" /\ e.writes = c.writes
        /\ e.starting = c.starting /\ e.connecting = c.connecting
    BY <1>1 DEF Session
  <2> QED
    BY <1>3, <2>1
<1> QED
  BY <1>1, <1>2, <1>4, <1>5, <1>6 DEF d

\* start_udp up to its callback: a session that is CONNECT still, or that was
\* destroyed, and has no write under way.
LEMMA PrepareFits ==
  ASSUME NEW c \in Session, c.status \in {"CONNECT", "DESTROY"}, c.writes = 0, ~c.connecting
  PROVE  LET d == Prepare(c)
         IN  /\ d \in Session /\ d.status = c.status /\ d.writes = 0
             /\ ~d.starting /\ ~d.connecting
<1> DEFINE b == [c EXCEPT !.starting = FALSE, !.buf = <<Req>>]
<1>0. <<Req>> \in Seq(Nat)
  BY DEF Req
<1>1. /\ b \in Session /\ b.status = c.status /\ b.writes = 0
      /\ ~b.starting /\ ~b.connecting /\ c.first \in Nat
  <2> DEFINE q == <<Req>>
  <2>1. b = [c EXCEPT !.starting = FALSE, !.buf = q] /\ q \in Seq(Nat)
    BY <1>0
  <2> HIDE DEF q
  <2> QED
    BY <2>1 DEF Session
<1> HIDE DEF b
<1>2. Prepare(c) = InRecv(b, c.first)
  BY DEF Prepare, b
<1>3. CASE c.status = "DESTROY"
  BY <1>1, <1>2, <1>3 DEF InRecv
<1>4. CASE c.status = "CONNECT"
  <2> DEFINE d == [b EXCEPT !.buf = Append(@, c.first)]
  <2>1. InRecv(b, c.first) = d
    BY <1>1, <1>4 DEF InRecv
  <2>2. /\ d \in Session /\ d.status = b.status /\ d.writes = b.writes
        /\ d.starting = b.starting /\ d.connecting = b.connecting
    <3> DEFINE q == Append(b.buf, c.first)
    <3>1. q \in Seq(Nat) /\ d = [b EXCEPT !.buf = q]
      BY <1>1, Fields
    <3> HIDE DEF q, d
    <3> QED
      BY <1>1, <3>1 DEF Session
  <2> QED
    BY <1>1, <1>2, <2>1, <2>2
<1> QED
  BY <1>3, <1>4

\* The callback of start_udp, for a session without a write.
LEMMA BeginFits ==
  ASSUME NEW c \in Session, c.writes = 0, ~c.starting
  PROVE  Begin(c) \in Session /\ Fit(Begin(c))
<1> DEFINE w == c.writes + 1
           b == <<>>
           f == [c EXCEPT !.status = "FORWARDING", !.writes = w, !.buf = b]
<1>1. "FORWARDING" \in Status /\ w = 1 /\ w \in Nat /\ b \in Seq(Nat)
  BY DEF Status
<1>2. Begin(c) = [f EXCEPT !.connecting = FALSE, !.reading = TRUE]
  BY DEF Begin, Flush
<1> HIDE DEF w, b
<1>3. /\ f \in Session /\ f.status = "FORWARDING" /\ f.writes = w /\ f.starting = c.starting
  BY <1>1 DEF Session
<1> HIDE DEF f
<1>4. /\ Begin(c) \in Session /\ Begin(c).status = "FORWARDING" /\ Begin(c).writes = 1
      /\ ~Begin(c).starting /\ ~Begin(c).connecting
  BY <1>1, <1>2, <1>3 DEF Session
<1> QED
  BY <1>4 DEF Fit

\* What is left of a buffer is a sequence of pieces.
LEMMA RestType ==
  ASSUME NEW b \in Seq(Nat)
  PROVE  Rest(b) \in Seq(Nat)
<1>1. Len(b) \in Nat /\ Whole(b) \in Nat
  BY DEF Whole
<1>2. \A i \in 2 * Whole(b) + 1 .. Len(b) : b[i] \in Nat
  BY <1>1
<1> QED
  BY <1>1, <1>2, SubSeqProperties DEF Rest

-----------------------------------------------------------------------------
(* The steps.                                                                *)

\* A step that only gives session n the fit record d.
LEMMA OneSession ==
  ASSUME ForwardInv, NEW n, NEW d, n \in Num => d \in Session /\ Fit(d),
         ses' = [ses EXCEPT ![n] = d], config' = config,
         packets' \in Nat, down' \in [Num -> Seq(Nat)], replied' \in [Num -> Nat]
  PROVE  ForwardInv'
<1>1. ses' \in [Num -> Session]
  BY DEF ForwardInv
<1>2. \A m \in Num : Fit(ses'[m])
  <2> SUFFICES ASSUME NEW m \in Num PROVE Fit(ses'[m])
    OBVIOUS
  <2>1. CASE m = n
    BY <2>1 DEF ForwardInv
  <2>2. CASE m # n
    BY <2>2 DEF ForwardInv
  <2> QED
    BY <2>1, <2>2
<1> QED
  BY <1>1, <1>2 DEF ForwardInv

\* The constructor.
LEMMA NewSessionType ==
  ASSUME NEW e \in Endpoints, NEW p \in Nat, UsePipeline \in BOOLEAN
  PROVE  LET c == NewSession(e, p)
         IN  /\ c \in Session /\ c.status = "CONNECT" /\ c.writes = 0
             /\ c.starting = UsePipeline /\ ~c.connecting
<1> DEFINE b == <<>>
           c == NewSession(e, p)
<1>1. /\ b \in Seq(Nat)
      /\ c = [endpoint |-> e, status |-> "CONNECT", first |-> p,
              starting |-> UsePipeline, connecting |-> FALSE, writes |-> 0,
              reading |-> FALSE, buf |-> b, rest |-> b, held |-> TRUE]
  BY DEF NewSession
<1> SUFFICES /\ c \in Session /\ c.status = "CONNECT" /\ c.writes = 0
             /\ c.starting = UsePipeline /\ ~c.connecting
  OBVIOUS
<1> HIDE DEF b, c
<1> QED
  BY <1>1 DEF Session, Status

\* udp_async_read: a packet for a session, or a new session.
LEMMA PacketStep ==
  ASSUME ForwardInv, NEW e \in Endpoints, Packet(e)
  PROVE  ForwardInv'
<1> DEFINE p == packets + 1
<1>1. /\ UsePipeline \in BOOLEAN /\ config' = config
      /\ p \in Nat /\ packets' \in Nat /\ down' = down /\ replied' = replied
      /\ down' \in [Num -> Seq(Nat)] /\ replied' \in [Num -> Nat]
  BY DEF Packet, ForwardInv, replies, UsePipeline
<1>2. (\E n : Process(n, p)) \/ (\E n \in Num : Create(n, e, p))
  BY DEF Packet
<1> HIDE DEF p
<1>3. CASE \E n : Process(n, p)
  <2>1. PICK n : Process(n, p)
    BY <1>3
  <2>2. n \in Num => InRecv(ses[n], p) \in Session /\ Fit(InRecv(ses[n], p))
    BY <1>1, InRecvFits DEF ForwardInv
  <2>3. ses' = [ses EXCEPT ![n] = InRecv(ses[n], p)]
    BY <2>1 DEF Process, Set
  <2> QED
    BY <1>1, <2>2, <2>3, OneSession
<1>4. CASE \E n \in Num : Create(n, e, p)
  <2>1. PICK n \in Num : Create(n, e, p)
    BY <1>4
  <2> DEFINE c == NewSession(e, p)
  <2>2. /\ c \in Session /\ c.status = "CONNECT" /\ c.writes = 0
        /\ c.starting = UsePipeline /\ ~c.connecting
    BY <1>1, NewSessionType
  <2> HIDE DEF c
  <2>3. CASE UsePipeline
    <3>1. ses' = [ses EXCEPT ![n] = c]
      BY <2>1, <2>3 DEF Create, Set, c
    <3>2. Fit(c)
      BY <2>2, <2>3 DEF Fit
    <3> QED
      BY <1>1, <2>2, <3>1, <3>2, OneSession
  <2>4. CASE ~UsePipeline
    <3> DEFINE d == Prepare(c)
               f == [d EXCEPT !.connecting = TRUE]
    <3>1. ses' = [ses EXCEPT ![n] = f]
      BY <2>1, <2>4 DEF Create, Set, c
    <3>2. d \in Session /\ d.status = "CONNECT" /\ d.writes = 0 /\ ~d.starting
      BY <2>2, PrepareFits
    <3> HIDE DEF d
    <3>3. f \in Session /\ f.status = "CONNECT" /\ f.writes = 0 /\ ~f.starting /\ f.connecting
      BY <3>2 DEF Session
    <3> HIDE DEF f
    <3>4. Fit(f)
      BY <3>3 DEF Fit
    <3> QED
      BY <1>1, <3>1, <3>3, <3>4, OneSession
  <2> QED
    BY <2>3, <2>4
<1> QED
  BY <1>2, <1>3, <1>4

\* The handler of start_session, with or without the error.
LEMMA StartStep ==
  ASSUME ForwardInv, NEW n \in Num, Started(n) \/ StartFailed(n)
  PROVE  ForwardInv'
<1>1. /\ config' = config /\ packets' \in Nat
      /\ down' \in [Num -> Seq(Nat)] /\ replied' \in [Num -> Nat]
      /\ ses[n] \in Session /\ Fit(ses[n]) /\ ses[n].starting
  BY DEF ForwardInv, Started, StartFailed, replies
<1>2. CASE Started(n)
  <2> DEFINE c == Prepare(ses[n])
  <2>1. ses[n].status \in {"CONNECT", "DESTROY"} /\ ses[n].writes = 0 /\ ~ses[n].connecting
    BY <1>1 DEF Fit
  <2>2. /\ c \in Session /\ c.status = ses[n].status /\ c.writes = 0
        /\ ~c.starting /\ ~c.connecting
    BY <1>1, <2>1, PrepareFits
  <2>3. \/ ses' = [ses EXCEPT ![n] = Begin(c)]
        \/ ses' = [ses EXCEPT ![n] = NotBound(c)]
    BY <1>2 DEF Started, Set, Callback
  <2> HIDE DEF c
  <2>4. NotBound(c) \in Session /\ Fit(NotBound(c))
    <3>1. /\ NotBound(c) \in Session /\ NotBound(c).status = "DESTROY"
          /\ NotBound(c).writes = 0 /\ ~NotBound(c).starting /\ ~NotBound(c).connecting
      BY <2>2 DEF NotBound, Destroyed, Session, Status
    <3> QED
      BY <3>1 DEF Fit
  <2>5. Begin(c) \in Session /\ Fit(Begin(c))
    BY <2>2, BeginFits
  <2> QED
    BY <1>1, <2>3, <2>4, <2>5, OneSession
<1>3. CASE StartFailed(n)
  <2>1. ses' = [ses EXCEPT ![n] = [Destroyed(ses[n]) EXCEPT !.starting = FALSE]]
    BY <1>3 DEF StartFailed, Set
  <2> QED
    BY <1>1, <2>1, DestroyedFits, OneSession
<1> QED
  BY <1>2, <1>3

\* The end of connect_remote_server_ssl.
LEMMA ConnectStep ==
  ASSUME ForwardInv, NEW n \in Num, ConnectDone(n) \/ ConnectFailed(n)
  PROVE  ForwardInv'
<1>1. /\ config' = config /\ packets' \in Nat
      /\ down' \in [Num -> Seq(Nat)] /\ replied' \in [Num -> Nat]
      /\ ses[n] \in Session /\ Fit(ses[n]) /\ ses[n].connecting
  BY DEF ForwardInv, ConnectDone, ConnectFailed, replies
<1>2. ses[n].writes = 0 /\ ~ses[n].starting
  BY <1>1 DEF Fit
<1>3. \/ ses' = [ses EXCEPT ![n] = Begin(ses[n])]
      \/ ses' = [ses EXCEPT ![n] = [Destroyed(ses[n]) EXCEPT !.connecting = FALSE]]
  BY DEF ConnectDone, ConnectFailed, Set, Callback, NotBound
<1>4. Begin(ses[n]) \in Session /\ Fit(Begin(ses[n]))
  BY <1>1, <1>2, BeginFits
<1> QED
  BY <1>1, <1>3, <1>4, DestroyedFits, OneSession

\* The end of a write.
LEMMA WriteStep ==
  ASSUME ForwardInv, NEW n \in Num, WriteDone(n) \/ WriteFailed(n)
  PROVE  ForwardInv'
<1>1. /\ config' = config /\ packets' \in Nat
      /\ down' \in [Num -> Seq(Nat)] /\ replied' \in [Num -> Nat]
      /\ ses[n] \in Session /\ Fit(ses[n]) /\ ses[n].writes > 0
  BY DEF ForwardInv, WriteDone, WriteFailed, replies
<1>2. CASE WriteDone(n)
  <2>1. ses' = [ses EXCEPT ![n] = OutSent([ses[n] EXCEPT !.writes = @ - 1])]
    BY <1>2 DEF WriteDone, Set
  <2> QED
    BY <1>1, <2>1, OutSentFits, OneSession
<1>3. CASE WriteFailed(n)
  <2> DEFINE w == ses[n].writes - 1
             d == Destroyed(ses[n])
             f == [d EXCEPT !.writes = w]
  <2>1. w = 0 /\ w \in Nat /\ ~ses[n].starting /\ ~ses[n].connecting
    BY <1>1, Fields DEF Fit
  <2>2. /\ d \in Session /\ d.status = "DESTROY" /\ d.writes = ses[n].writes
        /\ d.starting = ses[n].starting /\ d.connecting = ses[n].connecting
    BY <1>1 DEF Destroyed, Session, Status
  <2>3. ses' = [ses EXCEPT ![n] = f]
    BY <1>3, <2>2 DEF WriteFailed, Set
  <2> HIDE DEF w, d
  <2>4. /\ f \in Session /\ f.status = "DESTROY" /\ f.writes = 0
        /\ ~f.starting /\ ~f.connecting
    BY <2>1, <2>2 DEF Session
  <2> HIDE DEF f
  <2>5. Fit(f)
    BY <2>4 DEF Fit
  <2> QED
    BY <1>1, <2>3, <2>4, <2>5, OneSession
<1> QED
  BY <1>2, <1>3

\* out_recv: the session keeps its rest, ends, or stops reading.
LEMMA OutRecvStep ==
  ASSUME ForwardInv, NEW n \in Num, OutRecv(n)
  PROVE  ForwardInv'
<1>1. /\ config' = config /\ packets' = packets /\ packets' \in Nat /\ replied' = replied
      /\ replied' \in [Num -> Nat] /\ ses[n] \in Session /\ Fit(ses[n])
      /\ down[n] \in Seq(Nat) /\ ses[n].rest \in Seq(Nat)
  BY Fields DEF ForwardInv, OutRecv
<1>2. PICK k \in 1..Len(down[n]) :
        LET b == ses[n].rest \o SubSeq(down[n], 1, k) IN
        /\ down' = [down EXCEPT ![n] = SubSeq(@, k + 1, Len(@))]
        /\ \/ ses' = [ses EXCEPT ![n] = [ses[n] EXCEPT !.rest = Rest(b)]]
           \/ ses' = [ses EXCEPT ![n] = [Destroyed(ses[n]) EXCEPT !.reading = FALSE]]
           \/ ses' = ses
           \/ ses' = [ses EXCEPT ![n] = [ses[n] EXCEPT !.reading = FALSE]]
  BY DEF OutRecv, Set
<1> DEFINE b == ses[n].rest \o SubSeq(down[n], 1, k)
           t == SubSeq(down[n], k + 1, Len(down[n]))
           r == Rest(b)
<1>3. SubSeq(down[n], 1, k) \in Seq(Nat) /\ t \in Seq(Nat)
  <2>1. \A i \in 1..Len(down[n]) : down[n][i] \in Nat
    BY <1>1
  <2>2. Len(down[n]) \in Nat /\ k \in Int /\ k + 1 \in Int
    BY <1>1
  <2>3. /\ \A i \in 1..k : down[n][i] \in Nat
        /\ \A i \in k + 1 .. Len(down[n]) : down[n][i] \in Nat
    BY <2>1, <2>2
  <2> QED
    BY <2>2, <2>3, SubSeqProperties
<1>4. r \in Seq(Nat)
  <2>1. b \in Seq(Nat)
    BY <1>1, <1>3
  <2> QED
    BY <2>1, RestType
<1>5. down' \in [Num -> Seq(Nat)]
  BY <1>2, <1>3 DEF ForwardInv
<1> HIDE DEF b, t, r
<1>6. /\ [ses[n] EXCEPT !.rest = r] \in Session
      /\ Fit([ses[n] EXCEPT !.rest = r])
  BY <1>1, <1>4 DEF Session, Fit
<1>7. /\ [ses[n] EXCEPT !.reading = FALSE] \in Session
      /\ Fit([ses[n] EXCEPT !.reading = FALSE])
  BY <1>1 DEF Session, Fit
<1>8. CASE ses' = ses
  BY <1>1, <1>5, <1>8 DEF ForwardInv
<1>9. CASE ses' = [ses EXCEPT ![n] = [Destroyed(ses[n]) EXCEPT !.reading = FALSE]]
  BY <1>1, <1>5, <1>9, DestroyedFits, OneSession
<1>10. CASE ses' = [ses EXCEPT ![n] = [ses[n] EXCEPT !.rest = r]]
  BY <1>1, <1>5, <1>6, <1>10, OneSession
<1>11. CASE ses' = [ses EXCEPT ![n] = [ses[n] EXCEPT !.reading = FALSE]]
  BY <1>1, <1>5, <1>7, <1>11, OneSession
<1> QED
  BY <1>2, <1>8, <1>9, <1>10, <1>11 DEF r, b

\* A reply on its way.
LEMMA ReplyStep ==
  ASSUME ForwardInv, NEW n \in Num, Reply(n)
  PROVE  ForwardInv'
<1>1. ses' = ses /\ packets' = packets /\ config' = config
  BY DEF Reply
<1>2. replied[n] \in Nat /\ down[n] \in Seq(Nat)
  BY DEF ForwardInv
<1>3. replied' \in [Num -> Nat]
  BY <1>2 DEF Reply, ForwardInv
<1>4. down' \in [Num -> Seq(Nat)]
  <2> DEFINE q == down[n] \o <<2 * replied[n] + 1, 2 * replied[n] + 2>>
  <2>1. 2 * replied[n] + 1 \in Nat /\ 2 * replied[n] + 2 \in Nat
    BY <1>2
  <2>2. q \in Seq(Nat)
    BY <1>2, <2>1
  <2>3. down' = [down EXCEPT ![n] = q]
    BY DEF Reply
  <2> HIDE DEF q
  <2> QED
    BY <2>2, <2>3 DEF ForwardInv
<1> QED
  BY <1>1, <1>3, <1>4 DEF ForwardInv

\* The end of a read, of a session, and of its object.
LEMMA EndStep ==
  ASSUME ForwardInv, NEW n \in Num, ReadFailed(n) \/ End(n) \/ Release(n)
  PROVE  ForwardInv'
<1>1. /\ config' = config /\ packets' \in Nat
      /\ down' \in [Num -> Seq(Nat)] /\ replied' \in [Num -> Nat]
      /\ ses[n] \in Session /\ Fit(ses[n])
  BY DEF ForwardInv, ReadFailed, End, Release, replies
<1>2. \/ ses' = [ses EXCEPT ![n] = [Destroyed(ses[n]) EXCEPT !.reading = FALSE]]
      \/ ses' = [ses EXCEPT ![n] = Destroyed(ses[n])]
      \/ ses' = [ses EXCEPT ![n] = [ses[n] EXCEPT !.held = FALSE, !.reading = FALSE]]
  BY DEF ReadFailed, End, Release, Set
<1>3. /\ [ses[n] EXCEPT !.held = FALSE, !.reading = FALSE] \in Session
      /\ Fit([ses[n] EXCEPT !.held = FALSE, !.reading = FALSE])
  BY <1>1 DEF Session, Fit
<1> QED
  BY <1>1, <1>2, <1>3, DestroyedFits, OneSession

\* No session exists at first.
LEMMA ForwardInvInit ==
  ASSUME Init
  PROVE  ForwardInv
<1> DEFINE e0 == CHOOSE e \in Endpoints : TRUE
           b == <<>>
<1>1. e0 \in Endpoints /\ b \in Seq(Nat)
  BY EndpointsAssumption
<1>2. 0 \in Nat /\ UsePipeline \in BOOLEAN
  BY DEF Init, UsePipeline
<1>3. Unborn = [NewSession(e0, 0)
                  EXCEPT !.status = "unborn", !.starting = FALSE, !.held = FALSE]
  BY DEF Unborn
<1> HIDE DEF e0, b
<1>4. /\ Unborn \in Session /\ Unborn.status = "unborn" /\ Unborn.writes = 0
      /\ ~Unborn.starting /\ ~Unborn.connecting
  <2> DEFINE c == NewSession(e0, 0)
  <2>1. c \in Session /\ c.writes = 0 /\ ~c.connecting
    BY <1>1, <1>2, NewSessionType
  <2> HIDE DEF c
  <2>2. Unborn = [c EXCEPT !.status = "unborn", !.starting = FALSE, !.held = FALSE]
    BY <1>3 DEF c
  <2> QED
    BY <2>1, <2>2 DEF Session, Status
<1>5. Fit(Unborn)
  BY <1>4 DEF Fit
<1>6. down \in [Num -> Seq(Nat)]
  BY <1>1 DEF Init, b
<1> QED
  BY <1>4, <1>5, <1>6 DEF Init, ForwardInv

\* In every state reachable in any order of callbacks the inductive
\* invariant holds.
THEOREM Forwarding == Spec => []ForwardInv
<1>1. Init => ForwardInv
  BY ForwardInvInit
<1>2. ForwardInv /\ [Next]_vars => ForwardInv'
  <2> SUFFICES ASSUME ForwardInv, [Next]_vars PROVE ForwardInv'
    OBVIOUS
  <2>1. CASE \E e \in Endpoints : Packet(e)
    BY <2>1, PacketStep
  <2>2. CASE NoTarget
    BY <2>2 DEF NoTarget, ForwardInv, replies
  <2>3. CASE ReceiveError
    BY <2>3 DEF ReceiveError, ForwardInv, replies
  <2>4. CASE \E n \in Num : Step(n)
    BY <2>4, StartStep, ConnectStep, WriteStep, OutRecvStep, ReplyStep, EndStep DEF Step
  <2>5. CASE UNCHANGED vars
    BY <2>5 DEF vars, ForwardInv
  <2> QED
    BY <2>1, <2>2, <2>3, <2>4, <2>5 DEF Next
<1> QED
  BY <1>1, <1>2, PTL DEF Spec

\* For any endpoints, with or without a pipeline and NAT, whatever was
\* destroyed while it was starting or connecting: out_async_write is never
\* called during a write, and a session with packets collected has a callback
\* pending that will send them.
THEOREM PacketsNeverStuck == Spec => []NothingStuck
<1>1. ForwardInv => NothingStuck
  BY DEF ForwardInv, Fit, NothingStuck
<1> QED
  BY <1>1, Forwarding, PTL

-----------------------------------------------------------------------------
(* Induction, and the list without its expired pointers.                     *)

\* A set of numbers has a least one.
LEMMA LeastNumber ==
  ASSUME NEW T \in SUBSET Nat, T # {}
  PROVE  \E n \in T : \A m \in T : ~(m < n)
<1> DEFINE R == OpToRel(<, Nat)
<1>1. IsWellFoundedOn(R, Nat)
  BY NatLessThanWellFounded
<1>2. \A x, y \in Nat : <<y, x>> \in R <=> y < x
  BY DEF OpToRel
<1> HIDE DEF R
<1>3. \E x \in T : \A y \in T : ~(<<y, x>> \in R)
  BY <1>1, WFMin
<1> QED
  BY <1>2, <1>3

\* A set of numbers with 0 and every successor has them all.
LEMMA AllNumbers ==
  ASSUME NEW S \in SUBSET Nat, 0 \in S, \A n \in S : n + 1 \in S
  PROVE  S = Nat
<1> SUFFICES ASSUME Nat \ S # {} PROVE FALSE
  OBVIOUS
<1>1. PICK n \in Nat \ S : \A m \in Nat \ S : ~(m < n)
  BY LeastNumber
<1>2. n # 0 /\ n - 1 \in Nat /\ n - 1 < n /\ (n - 1) + 1 = n
  BY <1>1
<1>3. n - 1 \in S
  BY <1>1, <1>2
<1> QED
  BY <1>1, <1>2, <1>3

\* f is the function that clear_weak_ptr_list computes along l up to place n.
Keeps(f, l, n) ==
  f = [i \in 0..n |-> IF i = 0 THEN <<>>
                      ELSE IF ses[l[i]].held THEN Append(f[i - 1], l[i]) ELSE f[i - 1]]

\* There is such a function for every place.
LEMMA KeepsExists ==
  ASSUME NEW l
  PROVE  \A n \in Nat : \E f : Keeps(f, l, n)
<1> DEFINE S == {n \in Nat : \E f : Keeps(f, l, n)}
<1>1. 0 \in S
  <2> DEFINE f == [i \in 0..0 |-> <<>>]
  <2>1. Keeps(f, l, 0)
    BY DEF Keeps
  <2> QED
    BY <2>1
<1>2. ASSUME NEW n \in S PROVE n + 1 \in S
  <2>1. PICK f : Keeps(f, l, n)
    BY <1>2
  <2> DEFINE last == IF ses[l[n + 1]].held THEN Append(f[n], l[n + 1]) ELSE f[n]
             g == [i \in 0..n + 1 |-> IF i = n + 1 THEN last ELSE f[i]]
             h == [i \in 0..n + 1 |-> IF i = 0 THEN <<>>
                      ELSE IF ses[l[i]].held THEN Append(g[i - 1], l[i]) ELSE g[i - 1]]
  <2>2. n \in Nat
    BY <1>2
  <2>3. ASSUME NEW i \in 0..n + 1 PROVE g[i] = h[i]
    <3>1. CASE i = n + 1
      <4>1. i # 0 /\ i - 1 = n /\ n \in 0..n + 1 /\ n # n + 1
        BY <2>2, <3>1
      <4>2. g[i - 1] = f[n] /\ g[i] = last
        BY <3>1, <4>1
      <4> QED
        BY <3>1, <4>1, <4>2
    <3>2. CASE i # n + 1
      <4>1. i \in 0..n /\ g[i] = f[i]
        BY <2>2, <2>3, <3>2
      <4>2. f[i] = IF i = 0 THEN <<>>
                   ELSE IF ses[l[i]].held THEN Append(f[i - 1], l[i]) ELSE f[i - 1]
        BY <2>1, <4>1 DEF Keeps
      <4>3. i # 0 => i - 1 \in 0..n + 1 /\ i - 1 # n + 1
        BY <2>2, <4>1
      <4>4. i # 0 => g[i - 1] = f[i - 1]
        BY <4>3
      <4>5. h[i] = IF i = 0 THEN <<>>
                   ELSE IF ses[l[i]].held THEN Append(g[i - 1], l[i]) ELSE g[i - 1]
        BY <2>3
      <4> HIDE DEF g, h
      <4> QED
        BY <4>1, <4>2, <4>4, <4>5
    <3> QED
      BY <3>1, <3>2
  <2>4. g = h
    BY <2>3
  <2>5. Keeps(g, l, n + 1)
    BY <2>4 DEF Keeps
  <2> QED
    BY <2>2, <2>5
<1> HIDE DEF S
<1>3. S = Nat
  <2>1. S \in SUBSET Nat
    BY DEF S
  <2> QED
    BY <1>1, <1>2, <2>1, AllNumbers
<1> QED
  BY <1>3 DEF S

\* clear_weak_ptr_list leaves only pointers of the list.
LEMMA HeldOfList ==
  ASSUME NEW l \in Seq(Num)
  PROVE  /\ Held(l) \in Seq(Num)
         /\ \A i \in 1..Len(Held(l)) : \E j \in 1..Len(l) : Held(l)[i] = l[j]
<1> DEFINE f == CHOOSE f : Keeps(f, l, Len(l))
           Part(q) == q \in Seq(Num) /\ \A i \in 1..Len(q) : \E j \in 1..Len(l) : q[i] = l[j]
           S == {n \in Nat : n <= Len(l) => Part(f[n])}
<1>1. Len(l) \in Nat /\ Keeps(f, l, Len(l))
  BY KeepsExists
<1>2. Held(l) = f[Len(l)]
  BY DEF Held, Keeps
<1> HIDE DEF f
<1>3. 0 \in S
  <2>1. 0 \in 0..Len(l)
    BY <1>1
  <2>2. \A i \in 0..Len(l) : i = 0 => f[i] = <<>>
    BY <1>1 DEF Keeps
  <2>3. <<>> \in Seq(Num) /\ 1..Len(<<>>) = {}
    OBVIOUS
  <2>4. Part(<<>>)
    BY <2>3
  <2>5. f[0] = <<>>
    BY <2>1, <2>2
  <2>6. Part(f[0])
    BY <2>4, <2>5
  <2> HIDE DEF Part
  <2> QED
    BY <2>6
<1>4. ASSUME NEW n \in S PROVE n + 1 \in S
  <2>0. n \in Nat /\ n + 1 \in Nat /\ (n <= Len(l) => Part(f[n]))
    BY <1>4
  <2> SUFFICES ASSUME n + 1 <= Len(l) PROVE Part(f[n + 1])
    <3> HIDE DEF Part
    <3> QED
      BY <2>0
  <2>1. n \in Nat /\ n <= Len(l) /\ Part(f[n]) /\ n + 1 \in 1..Len(l)
    BY <1>1, <2>0
  <2>2. n + 1 \in 0..Len(l) /\ n + 1 # 0 /\ (n + 1) - 1 = n
    BY <1>1, <2>1
  <2>3. f[n + 1] = IF ses[l[n + 1]].held THEN Append(f[n], l[n + 1]) ELSE f[n]
    BY <1>1, <2>2 DEF Keeps
  <2>4. Part(Append(f[n], l[n + 1]))
    <3> DEFINE q == f[n]
               e == l[n + 1]
    <3>1. q \in Seq(Num) /\ e \in Num
      BY <2>1
    <3> HIDE DEF q, e
    <3>2. /\ Append(q, e) \in Seq(Num) /\ Len(q) \in Nat /\ Len(Append(q, e)) = Len(q) + 1
          /\ \A i \in 1..Len(q) : Append(q, e)[i] = q[i]
          /\ Append(q, e)[Len(q) + 1] = e
      BY <3>1, AppendProperties
    <3>3. \A i \in 1..Len(q) : \E j \in 1..Len(l) : q[i] = l[j]
      BY <2>1 DEF q
    <3>4. ASSUME NEW i \in 1..Len(Append(q, e))
          PROVE  \E j \in 1..Len(l) : Append(q, e)[i] = l[j]
      <4>1. i \in 1..Len(q) \/ i = Len(q) + 1
        BY <3>2
      <4>2. e = l[n + 1]
        BY DEF e
      <4> QED
        BY <2>1, <3>2, <3>3, <4>1, <4>2
    <3> QED
      BY <3>2, <3>4 DEF q, e
  <2> QED
    BY <2>1, <2>3, <2>4
<1> HIDE DEF S, Part
<1>5. S = Nat
  <2>1. S \in SUBSET Nat
    BY DEF S
  <2> QED
    BY <1>3, <1>4, <2>1, AllNumbers
<1>6. Part(f[Len(l)])
  BY <1>1, <1>5 DEF S
<1> QED
  BY <1>2, <1>6 DEF Part

-----------------------------------------------------------------------------
(* The packets of a session: the inductive invariant.                        *)

Live == {"CONNECT", "FORWARD", "FORWARDING"}

\* c with what it took, a, and what it handed on, o: nothing before start_udp;
\* then what was handed on and what is collected are the request and what it
\* took, also for a destroyed session that is still to be connected.
UpStream(c, a, o) ==
  /\ c.status = "unborn" \/ c.starting => a = <<>> /\ o = <<>>
  /\ c.connecting => o = <<>>
  /\ ~c.starting /\ (c.connecting \/ c.status \in Live) => o \o c.buf = <<Req>> \o a
  /\ IsPrefix(o, <<Req>> \o a)

\* Only a session whose start_udp was called is in udp_sessions.
Listed ==
  \A i \in 1..Len(list) : ses[list[i]].status # "unborn" /\ ~ses[list[i]].starting

OrderInv ==
  /\ list \in Seq(Num) /\ Listed
  /\ accepted \in [Num -> Seq(Nat)] /\ out \in [Num -> Seq(Nat)]
  /\ \A n \in Num : UpStream(ses[n], accepted[n], out[n])

\* What is a part at the front is a prefix.
LEMMA FrontIsPrefix ==
  ASSUME NEW o \in Seq(Nat), NEW b \in Seq(Nat), NEW w, w = o \o b
  PROVE  IsPrefix(o, w)
<1>1. w \in Seq(Nat) /\ Len(w) = Len(o) + Len(b) /\ Len(o) \in Nat /\ Len(b) \in Nat
  BY ConcatProperties
<1>2. CASE Len(o) = 0
  <2>1. SubSeq(o, 1, Len(o)) = <<>> /\ SubSeq(w, 1, Len(o)) = <<>>
    BY <1>2, SubSeqEmpty
  <2> QED
    BY <1>1, <2>1 DEF IsPrefix
<1>3. CASE Len(o) # 0
  <2>1. 1 \in 1..Len(o) /\ Len(o) \in 1..Len(o)
    BY <1>1, <1>3
  <2>2. SubSeq(w, 1, Len(o)) = SubSeq(o, 1, Len(o))
    BY <2>1, SubSeqOfConcat1
  <2> QED
    BY <1>1, <2>2 DEF IsPrefix
<1> QED
  BY <1>2, <1>3

\* Concatenation is associative.
LEMMA Regroup ==
  ASSUME NEW s \in Seq(Nat), NEW t \in Seq(Nat), NEW u \in Seq(Nat)
  PROVE  (s \o t) \o u = s \o (t \o u)
  BY ConcatAssociative

\* One more packet at the end.
LEMMA OneMore ==
  ASSUME NEW s \in Seq(Nat), NEW t \in Seq(Nat), NEW p \in Nat
  PROVE  s \o Append(t, p) = Append(s \o t, p)
<1> DEFINE e == <<p>>
<1>1. Append(t, p) = t \o <<p>>
  BY AppendIsConcat, Zenon
<1>2. s \o t \in Seq(Nat) /\ e \in Seq(Nat)
  OBVIOUS
<1>3. Append(s \o t, p) = (s \o t) \o <<p>>
  BY <1>2, AppendIsConcat, Zenon
<1> HIDE DEF e
<1>4. s \o (t \o e) = (s \o t) \o e
  BY <1>2, Regroup, Zenon
<1> QED
  BY <1>1, <1>3, <1>4 DEF e

\* A session whose stream is complete in o and its buffer.
LEMMA UpHolds ==
  ASSUME NEW c \in Session, NEW a \in Seq(Nat), NEW o \in Seq(Nat),
         ~c.starting, c.status # "unborn", c.connecting => o = <<>>,
         o \o c.buf = <<Req>> \o a
  PROVE  UpStream(c, a, o)
<1>0. c.buf \in Seq(Nat)
  BY Fields
<1>1. IsPrefix(o, <<Req>> \o a)
  <2> DEFINE b == c.buf
             w == <<Req>> \o a
  <2>1. b \in Seq(Nat) /\ w = o \o b
    BY <1>0
  <2> HIDE DEF b, w
  <2>2. IsPrefix(o, w)
    BY <2>1, FrontIsPrefix
  <2> QED
    BY <2>2 DEF w
<1> QED
  BY <1>1 DEF UpStream

\* A step of session n that gives it the record d.
LEMMA OneUp ==
  ASSUME ForwardInv, OrderInv, NEW n \in Num, NEW d, NEW a \in Seq(Nat), NEW o \in Seq(Nat),
         ses' = [ses EXCEPT ![n] = d], accepted' = [accepted EXCEPT ![n] = a],
         out' = [out EXCEPT ![n] = o], UpStream(d, a, o),
         list' \in Seq(Num),
         \A i \in 1..Len(list') : list'[i] # n => \E j \in 1..Len(list) : list'[i] = list[j],
         \A i \in 1..Len(list') : list'[i] = n => d.status # "unborn" /\ ~d.starting
  PROVE  OrderInv'
<1>1. accepted' \in [Num -> Seq(Nat)] /\ out' \in [Num -> Seq(Nat)]
  BY DEF OrderInv
<1>2. /\ ses \in [Num -> Session]
      /\ \A m \in Num : m # n => /\ ses'[m] = ses[m]
                                 /\ accepted'[m] = accepted[m] /\ out'[m] = out[m]
      /\ ses'[n] = d /\ accepted'[n] = a /\ out'[n] = o
  BY DEF OrderInv, ForwardInv
<1>3. ASSUME NEW m \in Num PROVE UpStream(ses'[m], accepted'[m], out'[m])
  <2>1. CASE m = n
    BY <1>2, <2>1
  <2>2. CASE m # n
    <3>1. UpStream(ses[m], accepted[m], out[m])
      BY DEF OrderInv
    <3> QED
      BY <1>2, <2>2, <3>1
  <2> QED
    BY <2>1, <2>2
<1>4. ASSUME NEW i \in 1..Len(list')
      PROVE  ses'[list'[i]].status # "unborn" /\ ~ses'[list'[i]].starting
  <2>1. list'[i] \in Num
    BY <1>4
  <2>2. CASE list'[i] = n
    BY <1>2, <1>4, <2>2
  <2>3. CASE list'[i] # n
    <3>1. PICK j \in 1..Len(list) : list'[i] = list[j]
      BY <1>4, <2>3
    <3>2. ses[list[j]].status # "unborn" /\ ~ses[list[j]].starting
      BY <3>1 DEF OrderInv, Listed
    <3> QED
      BY <1>2, <2>1, <2>3, <3>1, <3>2
  <2> QED
    BY <2>2, <2>3
<1> QED
  BY <1>1, <1>3, <1>4 DEF OrderInv, Listed

\* A step that sends nothing and takes nothing: the session may end.
LEMMA KeepUp ==
  ASSUME ForwardInv, OrderInv, NEW n \in Num, NEW d \in Session,
         ses' = [ses EXCEPT ![n] = d], accepted' = accepted, out' = out, list' = list,
         d.status \in {ses[n].status, "DESTROY"}, d.buf = ses[n].buf,
         d.starting => ses[n].starting, d.connecting => ses[n].connecting,
         d.starting # ses[n].starting => d.status = "DESTROY" /\ ~d.connecting
  PROVE  OrderInv'
<1> DEFINE c == ses[n]
           a == accepted[n]
           o == out[n]
<1>1. a \in Seq(Nat) /\ o \in Seq(Nat) /\ UpStream(c, a, o) /\ c \in Session
  BY DEF OrderInv, ForwardInv
<1>2. accepted' = [accepted EXCEPT ![n] = a] /\ out' = [out EXCEPT ![n] = o]
  BY DEF OrderInv
<1>3. UpStream(d, a, o)
  <2>1. d.starting \in BOOLEAN /\ c.starting \in BOOLEAN
    BY <1>1 DEF Session
  <2> QED
    BY <1>1, <2>1 DEF UpStream, Live
<1>4. /\ list' \in Seq(Num)
      /\ \A i \in 1..Len(list') : \E j \in 1..Len(list) : list'[i] = list[j]
  BY DEF OrderInv
<1>5. \A i \in 1..Len(list') : list'[i] = n => d.status # "unborn" /\ ~d.starting
  BY DEF OrderInv, Listed
<1> HIDE DEF a, o
<1> QED
  BY <1>1, <1>2, <1>3, <1>4, <1>5, OneUp

\* What a session hands on with a write, and keeps without one.
LEMMA FlushUp ==
  ASSUME NEW c \in Session, ~c.starting, NEW a \in Seq(Nat), NEW w \in Seq(Nat),
         w = <<Req>> \o a, ~c.connecting
  PROVE  UpStream(Flush(c), a, w)
<1>1. Flush(c).buf = <<>> /\ Flush(c).starting = c.starting
      /\ Flush(c).connecting = c.connecting /\ Flush(c).status = "FORWARDING"
  BY DEF Flush, Session
<1>2. w \o <<>> = w /\ <<>> \in Seq(Nat)
  BY ConcatEmptySeq
<1>3. IsPrefix(w, w)
  BY <1>2, FrontIsPrefix
<1>4. w \o Flush(c).buf = <<Req>> \o a
  BY <1>1, <1>2
<1>5. IsPrefix(w, <<Req>> \o a)
  BY <1>3
<1> QED
  BY <1>1, <1>4, <1>5 DEF UpStream

\* in_recv.
LEMMA ProcessUp ==
  ASSUME ForwardInv, OrderInv, NEW n \in Num, NEW p \in Nat,
         ses[n].status # "unborn", ~ses[n].starting, Process(n, p)
  PROVE  OrderInv'
<1> DEFINE c == ses[n]
           a == accepted[n]
           o == out[n]
           d == InRecv(c, p)
<1>1. /\ a \in Seq(Nat) /\ o \in Seq(Nat) /\ UpStream(c, a, o) /\ c \in Session /\ Fit(c)
      /\ c.buf \in Seq(Nat) /\ list \in Seq(Num) /\ c.writes \in Nat /\ c.status \in Status
  BY Fields DEF OrderInv, ForwardInv
<1>2. d \in Session
  BY <1>1, InRecvFits
<1>3. /\ ses' = [ses EXCEPT ![n] = d]
      /\ accepted' = [accepted EXCEPT ![n] = IF d = c THEN a ELSE Append(a, p)]
      /\ out' = [out EXCEPT ![n] = o \o Sent(c, d, <<p>>)]
      /\ list' = Held(list)
  BY DEF Process, Set
<1>4. /\ list' \in Seq(Num)
      /\ \A i \in 1..Len(list') : \E j \in 1..Len(list) : list'[i] = list[j]
  BY <1>1, <1>3, HeldOfList
<1>9. ASSUME NEW a1 \in Seq(Nat), NEW o1 \in Seq(Nat), NEW d1, ses' = [ses EXCEPT ![n] = d1],
             accepted' = [accepted EXCEPT ![n] = a1], out' = [out EXCEPT ![n] = o1],
             UpStream(d1, a1, o1), d1.status # "unborn", ~d1.starting
      PROVE  OrderInv'
  <2>1. \A i \in 1..Len(list') : list'[i] = n => d1.status # "unborn" /\ ~d1.starting
    BY <1>9
  <2> QED
    BY <1>4, <1>9, <2>1, OneUp
<1> DEFINE e == [c EXCEPT !.buf = Append(@, p)]
<1>5. /\ e \in Session /\ e.status = c.status /\ e.writes = c.writes
      /\ e.starting = c.starting /\ e.connecting = c.connecting
      /\ e.buf = Append(c.buf, p)
  <2> DEFINE q == Append(c.buf, p)
  <2>1. q \in Seq(Nat) /\ e = [c EXCEPT !.buf = q]
    BY <1>1
  <2> HIDE DEF q
  <2>2. /\ e \in Session /\ e.status = c.status /\ e.writes = c.writes
        /\ e.starting = c.starting /\ e.connecting = c.connecting /\ e.buf = q
    BY <1>1, <2>1 DEF Session
  <2> QED
    BY <2>2 DEF q
<1>6. CASE c.status = "DESTROY"
  <2>1. d = c
    BY <1>6 DEF InRecv
  <2>2. Sent(c, d, <<p>>) = <<>>
    BY <1>1, <2>1 DEF Sent
  <2>3. o \o <<>> = o
    BY <1>1, ConcatEmptySeq
  <2>4. accepted' = [accepted EXCEPT ![n] = a] /\ out' = [out EXCEPT ![n] = o]
    BY <1>3, <2>1, <2>2, <2>3
  <2> HIDE DEF a, o, d
  <2> QED
    BY <1>1, <1>3, <1>9, <2>1, <2>4
<1>7. CASE c.status = "FORWARD"
  <2>1. d = Flush(e)
    BY <1>7 DEF InRecv
  <2>2. /\ d.writes = c.writes + 1 /\ d.status = "FORWARDING" /\ d.starting = c.starting
        /\ d.connecting = c.connecting
    BY <1>5, <2>1 DEF Flush, Session
  <2>3. d # c /\ Sent(c, d, <<p>>) = c.buf \o <<p>>
    <3> HIDE DEF d
    <3>1. d.writes > c.writes
      BY <1>1, <2>2
    <3> QED
      BY <1>7, <2>2, <3>1 DEF Sent
  <2>4. ~c.connecting /\ o \o c.buf = <<Req>> \o a
    BY <1>1, <1>7 DEF UpStream, Live, Fit
  <2> DEFINE w == o \o (c.buf \o <<p>>)
             b == Append(a, p)
  <2>5. w \in Seq(Nat) /\ w = <<Req>> \o b /\ b \in Seq(Nat)
    <3> DEFINE q == c.buf
    <3>1. q \in Seq(Nat) /\ o \o q = <<Req>> \o a /\ b \in Seq(Nat)
      BY <1>1, <2>4
    <3>0. o \in Seq(Nat) /\ a \in Seq(Nat)
      BY <1>1
    <3> HIDE DEF q, o, a, c, d, e
    <3> DEFINE r == <<Req>>
    <3>2. q \in Seq(Nat) /\ r \in Seq(Nat) /\ o \o q = r \o a
      BY <3>1 DEF Req
    <3> HIDE DEF r
    <3>3. o \o Append(q, p) = Append(o \o q, p)
      BY <3>0, <3>2, OneMore, Zenon
    <3>4. r \o Append(a, p) = Append(r \o a, p)
      BY <3>0, <3>2, OneMore, Zenon
    <3>5. Append(q, p) = q \o <<p>>
      BY <3>2, AppendIsConcat, Zenon
    <3>6. o \o Append(q, p) \in Seq(Nat)
      BY <3>0, <3>2
    <3> QED
      BY <3>1, <3>2, <3>3, <3>4, <3>5, <3>6 DEF q, r
  <2>6. accepted' = [accepted EXCEPT ![n] = b] /\ out' = [out EXCEPT ![n] = w]
    BY <1>3, <2>3
  <2> HIDE DEF w, b, d, e
  <2>7. UpStream(d, b, w)
    BY <1>5, <2>1, <2>4, <2>5, FlushUp
  <2> QED
    BY <1>3, <1>9, <2>2, <2>5, <2>6, <2>7
<1>8. CASE c.status \notin {"DESTROY", "FORWARD"}
  <2>1. d = e
    BY <1>8 DEF InRecv
  <2>2. d # c
    <3>1. Len(Append(c.buf, p)) = Len(c.buf) + 1 /\ Len(c.buf) \in Nat
      BY <1>1, AppendProperties
    <3> HIDE DEF e, d
    <3> QED
      BY <1>5, <2>1, <3>1
  <2>3. Sent(c, d, <<p>>) = <<>>
    BY <1>1, <1>5, <2>1 DEF Sent
  <2>4. o \o <<>> = o
    BY <1>1, ConcatEmptySeq
  <2>5. c.status \in Live
    BY <1>1, <1>8 DEF Status, Live
  <2>6. o \o c.buf = <<Req>> \o a /\ (c.connecting => o = <<>>)
    BY <1>1, <2>5 DEF UpStream
  <2> DEFINE b == Append(a, p)
  <2>7. b \in Seq(Nat) /\ o \o Append(c.buf, p) = <<Req>> \o b
    <3> DEFINE q == c.buf
    <3>1. q \in Seq(Nat) /\ o \o q = <<Req>> \o a /\ b \in Seq(Nat)
      BY <1>1, <2>6
    <3>0. o \in Seq(Nat) /\ a \in Seq(Nat)
      BY <1>1
    <3> HIDE DEF q, o, a, c, d, e
    <3> DEFINE r == <<Req>>
    <3>2. q \in Seq(Nat) /\ r \in Seq(Nat) /\ o \o q = r \o a
      BY <3>1 DEF Req
    <3> HIDE DEF r
    <3>3. o \o Append(q, p) = Append(o \o q, p)
      BY <3>0, <3>2, OneMore, Zenon
    <3>4. r \o Append(a, p) = Append(r \o a, p)
      BY <3>0, <3>2, OneMore, Zenon
    <3> QED
      BY <3>1, <3>2, <3>3, <3>4 DEF q, r
  <2>8. accepted' = [accepted EXCEPT ![n] = b] /\ out' = [out EXCEPT ![n] = o]
    BY <1>3, <2>2, <2>3, <2>4
  <2> HIDE DEF b, d, e, o
  <2>9. UpStream(d, b, o)
    BY <1>1, <1>5, <2>1, <2>6, <2>7, UpHolds
  <2> QED
    BY <1>1, <1>3, <1>5, <1>9, <2>1, <2>7, <2>8, <2>9
<1> QED
  BY <1>6, <1>7, <1>8

\* What start_udp collects before its callback.
LEMMA PreparedBuf ==
  ASSUME NEW c \in Session, c.status \in {"CONNECT", "DESTROY"}
  PROVE  /\ c.status = "DESTROY" => Prepare(c).buf = <<Req>> \o <<>>
         /\ c.status = "CONNECT" => Prepare(c).buf = <<Req>> \o <<c.first>>
<1> DEFINE q == <<Req>>
           b == [c EXCEPT !.starting = FALSE, !.buf = q]
<1>1. q \in Seq(Nat) /\ c.first \in Nat
  BY Fields DEF Req
<1>2. Prepare(c) = InRecv(b, c.first)
  BY DEF Prepare
<1>3. q \o <<>> = q
  BY <1>1, ConcatEmptySeq
<1>4. Append(q, c.first) = q \o <<c.first>>
  BY <1>1, AppendIsConcat, Zenon
<1> HIDE DEF q
<1>5. b \in Session /\ b.status = c.status /\ b.buf = q
  BY <1>1 DEF Session
<1> HIDE DEF b
<1>6. CASE c.status = "DESTROY"
  BY <1>2, <1>3, <1>5, <1>6 DEF InRecv, q
<1>7. CASE c.status = "CONNECT"
  <2> DEFINE f == Append(q, c.first)
             g == [b EXCEPT !.buf = f]
  <2>1. f \in Seq(Nat)
    BY <1>1
  <2>2. InRecv(b, c.first) = g
    BY <1>5, <1>7 DEF InRecv
  <2> HIDE DEF f
  <2>3. g.buf = f
    BY <1>5 DEF Session
  <2> HIDE DEF g
  <2> QED
    BY <1>2, <1>4, <1>7, <2>2, <2>3 DEF f, q
<1> QED
  BY <1>6, <1>7

\* The callback of start_udp hands on all that was collected.
LEMMA BeginUp ==
  ASSUME NEW c \in Session, ~c.starting, NEW a \in Seq(Nat), NEW w \in Seq(Nat),
         w = <<Req>> \o a
  PROVE  UpStream(Begin(c), a, w)
<1>1. Begin(c).buf = <<>> /\ Begin(c).starting = c.starting
      /\ ~Begin(c).connecting /\ Begin(c).status = "FORWARDING"
  BY DEF Begin, Flush, Session
<1>2. w \o <<>> = w /\ <<>> \in Seq(Nat)
  BY ConcatEmptySeq
<1>3. IsPrefix(w, w)
  BY <1>2, FrontIsPrefix
<1>4. w \o Begin(c).buf = <<Req>> \o a
  BY <1>1, <1>2
<1>5. IsPrefix(w, <<Req>> \o a)
  BY <1>3
<1> QED
  BY <1>1, <1>4, <1>5 DEF UpStream

\* What it hands on.
LEMMA BeginSent ==
  ASSUME NEW c \in Session
  PROVE  Sent(c, Begin(c), <<>>) = c.buf
<1>1. Begin(c).writes = c.writes + 1
  BY DEF Begin, Flush, Session
<1>2. c.writes \in Nat /\ c.buf \in Seq(Nat)
  BY Fields
<1>3. Begin(c).writes > c.writes
  BY <1>1, <1>2
<1>4. c.buf \o <<>> = c.buf
  BY <1>2, ConcatEmptySeq
<1> QED
  BY <1>3, <1>4 DEF Sent

\* A session that is destroyed has a prefix in o.
LEMMA NotBoundUp ==
  ASSUME NEW c \in Session, ~c.starting, NEW a \in Seq(Nat), NEW o \in Seq(Nat),
         IsPrefix(o, <<Req>> \o a)
  PROVE  /\ UpStream(NotBound(c), a, o) /\ Sent(c, NotBound(c), <<>>) = <<>>
         /\ NotBound(c).status = "DESTROY" /\ ~NotBound(c).starting
<1>1. /\ NotBound(c).status = "DESTROY" /\ NotBound(c).writes = c.writes
      /\ ~NotBound(c).starting /\ ~NotBound(c).connecting
  BY DEF NotBound, Destroyed, Session
<1>2. c.writes \in Nat
  BY Fields
<1>3. Sent(c, NotBound(c), <<>>) = <<>>
  BY <1>1, <1>2 DEF Sent
<1> QED
  BY <1>1, <1>3 DEF UpStream, Live

\* The handler of start_session lists the session and starts it, even a
\* destroyed one, which then sends the request alone.
LEMMA StartedUp ==
  ASSUME ForwardInv, OrderInv, NEW n \in Num, Started(n)
  PROVE  OrderInv'
<1> DEFINE s == ses[n]
           c == Prepare(s)
<1>1. /\ s \in Session /\ Fit(s) /\ s.starting /\ s.first \in Nat /\ list \in Seq(Num)
      /\ accepted[n] = <<>> /\ out[n] = <<>>
  BY Fields DEF ForwardInv, OrderInv, Started, UpStream
<1>2. s.status \in {"CONNECT", "DESTROY"} /\ s.writes = 0 /\ ~s.connecting
  BY <1>1 DEF Fit
<1>3. c \in Session /\ ~c.starting
  BY <1>1, <1>2, PrepareFits
<1> DEFINE a == IF s.status = "DESTROY" THEN <<>> ELSE <<s.first>>
           w == c.buf
<1>4. a \in Seq(Nat)
  BY <1>1
<1>5. w \in Seq(Nat) /\ w = <<Req>> \o a
  BY <1>1, <1>2, <1>3, Fields, PreparedBuf
<1>6. accepted' = [accepted EXCEPT ![n] = a]
  <2>1. Append(<<>>, s.first) = <<s.first>>
    BY <1>1
  <2>2. accepted' = [accepted EXCEPT ![n] = IF s.status = "DESTROY" THEN accepted[n]
                                            ELSE Append(accepted[n], s.first)]
    BY DEF Started
  <2> QED
    BY <1>1, <2>1, <2>2
<1>7. /\ list' \in Seq(Num)
      /\ \A i \in 1..Len(list') : list'[i] # n => \E j \in 1..Len(list) : list'[i] = list[j]
  <2>1. list' = Append(list, n)
    BY DEF Started
  <2>2. /\ list' \in Seq(Num) /\ Len(list') = Len(list) + 1 /\ Len(list) \in Nat
        /\ \A i \in 1..Len(list) : list'[i] = list[i]
        /\ list'[Len(list) + 1] = n
    BY <1>1, <2>1, AppendProperties
  <2>3. \A i \in 1..Len(list') : i = Len(list) + 1 \/ i \in 1..Len(list)
    BY <2>2
  <2> QED
    BY <2>2, <2>3
<1>8. PICK d \in {Begin(c), NotBound(c)} :
        ses' = [ses EXCEPT ![n] = d] /\ out' = [out EXCEPT ![n] = out[n] \o Sent(c, d, <<>>)]
  BY DEF Started, Callback, Set, Give
<1> HIDE DEF c, a, s
<1>9. CASE d = Begin(c)
  <2>1. Sent(c, d, <<>>) = w
    BY <1>3, <1>9, BeginSent
  <2> HIDE DEF w
  <2>2. out[n] \o Sent(c, d, <<>>) = w
    BY <1>1, <1>5, <2>1, ConcatEmptySeq
  <2>3. out' = [out EXCEPT ![n] = w]
    BY <1>8, <2>2
  <2>4. UpStream(d, a, w)
    BY <1>3, <1>4, <1>5, <1>9, BeginUp
  <2>5. d.status = "FORWARDING" /\ ~d.starting
    BY <1>3, <1>9 DEF Begin, Flush, Session
  <2>6. \A i \in 1..Len(list') : list'[i] = n => d.status # "unborn" /\ ~d.starting
    BY <2>5
  <2> QED
    BY <1>4, <1>5, <1>6, <1>7, <1>8, <2>3, <2>4, <2>6, OneUp
<1>10. CASE d = NotBound(c)
  <2> DEFINE o == <<>>
  <2>1. o \in Seq(Nat) /\ o \o w = w
    BY <1>5, ConcatEmptySeq
  <2>2. IsPrefix(o, <<Req>> \o a)
    <3> HIDE DEF o, w
    <3> QED
      BY <1>5, <2>1, FrontIsPrefix
  <2>3. UpStream(d, a, o) /\ Sent(c, d, <<>>) = <<>> /\ d.status = "DESTROY" /\ ~d.starting
    BY <1>3, <1>4, <1>10, <2>1, <2>2, NotBoundUp
  <2>4. <<>> \o <<>> = <<>>
    OBVIOUS
  <2>5. out' = [out EXCEPT ![n] = o]
    BY <1>1, <1>8, <2>3, <2>4
  <2>6. \A i \in 1..Len(list') : list'[i] = n => d.status # "unborn" /\ ~d.starting
    BY <2>3
  <2> HIDE DEF o, w
  <2> QED
    BY <1>4, <1>6, <1>7, <1>8, <2>1, <2>3, <2>5, <2>6, OneUp
<1> QED
  BY <1>8, <1>9, <1>10

\* connect_remote_server_ssl has succeeded.
LEMMA ConnectDoneUp ==
  ASSUME ForwardInv, OrderInv, NEW n \in Num, ConnectDone(n)
  PROVE  OrderInv'
<1> DEFINE c == ses[n]
           a == accepted[n]
           o == out[n]
           w == c.buf
<1>1. /\ c \in Session /\ Fit(c) /\ c.connecting /\ w \in Seq(Nat) /\ a \in Seq(Nat)
      /\ o \in Seq(Nat) /\ UpStream(c, a, o) /\ list \in Seq(Num)
  BY Fields DEF ForwardInv, OrderInv, ConnectDone
<1>2. ~c.starting /\ o = <<>> /\ o \o w = <<Req>> \o a /\ IsPrefix(o, <<Req>> \o a)
  BY <1>1 DEF UpStream, Fit
<1>3. o \o w = w
  BY <1>1, <1>2, ConcatEmptySeq
<1>4. /\ accepted' = [accepted EXCEPT ![n] = a] /\ list' = list
      /\ list' \in Seq(Num) /\ \A i \in 1..Len(list') : \E j \in 1..Len(list) : list'[i] = list[j]
  BY <1>1 DEF ConnectDone, OrderInv
<1>5. PICK d \in {Begin(c), NotBound(c)} :
        ses' = [ses EXCEPT ![n] = d] /\ out' = [out EXCEPT ![n] = o \o Sent(c, d, <<>>)]
  BY DEF ConnectDone, Callback, Set, Give
<1>6. CASE d = Begin(c)
  <2>1. Sent(c, d, <<>>) = w
    BY <1>1, <1>6, BeginSent
  <2> HIDE DEF w, c, a, o
  <2>2. out' = [out EXCEPT ![n] = w] /\ w = <<Req>> \o a
    BY <1>2, <1>3, <1>5, <2>1
  <2>3. UpStream(d, a, w)
    BY <1>1, <1>2, <1>6, <2>2, BeginUp
  <2>4. d.status = "FORWARDING" /\ ~d.starting
    BY <1>1, <1>2, <1>6 DEF Begin, Flush, Session
  <2>5. \A i \in 1..Len(list') : list'[i] = n => d.status # "unborn" /\ ~d.starting
    BY <2>4
  <2> QED
    BY <1>1, <1>4, <1>5, <2>2, <2>3, <2>5, OneUp
<1>7. CASE d = NotBound(c)
  <2>1. UpStream(d, a, o) /\ Sent(c, d, <<>>) = <<>> /\ d.status = "DESTROY" /\ ~d.starting
    BY <1>1, <1>2, <1>7, NotBoundUp
  <2>2. o \o <<>> = o
    BY <1>1, ConcatEmptySeq
  <2>3. out' = [out EXCEPT ![n] = o]
    BY <1>5, <2>1, <2>2
  <2>4. \A i \in 1..Len(list') : list'[i] = n => d.status # "unborn" /\ ~d.starting
    BY <2>1
  <2> HIDE DEF w, c, a, o
  <2> QED
    BY <1>1, <1>4, <1>5, <2>1, <2>3, <2>4, OneUp
<1> QED
  BY <1>5, <1>6, <1>7

\* out_sent hands on what was collected during the write.
LEMMA WriteDoneUp ==
  ASSUME ForwardInv, OrderInv, NEW n \in Num, WriteDone(n)
  PROVE  OrderInv'
<1> DEFINE s == ses[n]
           k == s.writes - 1
           c == [s EXCEPT !.writes = k]
           a == accepted[n]
           o == out[n]
           d == OutSent(c)
<1>1. /\ s \in Session /\ Fit(s) /\ s.writes > 0 /\ s.writes \in Nat /\ s.buf \in Seq(Nat)
      /\ a \in Seq(Nat) /\ o \in Seq(Nat) /\ UpStream(s, a, o)
  BY Fields DEF ForwardInv, OrderInv, WriteDone
<1>2. k \in Nat /\ ~s.starting /\ ~s.connecting
  BY <1>1 DEF Fit
<1>3. /\ ses' = [ses EXCEPT ![n] = d] /\ accepted' = accepted /\ list' = list
      /\ out' = [out EXCEPT ![n] = o \o Sent(c, d, <<>>)]
  BY DEF WriteDone, Set, Give
<1> HIDE DEF k
<1>4. /\ c \in Session /\ c.status = s.status /\ c.buf = s.buf /\ c.writes = k
      /\ c.starting = s.starting /\ c.connecting = s.connecting
  BY <1>1, <1>2 DEF Session
<1> HIDE DEF c
<1>5. CASE c.status = "FORWARDING" /\ c.buf # <<>>
  <2>1. d = Flush(c)
    BY <1>5 DEF OutSent
  <2>2. d.writes = k + 1 /\ d.status = "FORWARDING" /\ d.starting = c.starting
    BY <1>4, <2>1 DEF Flush, Session
  <2> HIDE DEF d
  <2>3. d.writes > c.writes
    BY <1>2, <1>4, <2>2
  <2>4. s.buf \o <<>> = s.buf
    BY <1>1, ConcatEmptySeq
  <2>5. Sent(c, d, <<>>) = s.buf
    BY <1>4, <2>3, <2>4 DEF Sent
  <2> DEFINE w == o \o s.buf
  <2>6. w \in Seq(Nat) /\ w = <<Req>> \o a
    <3>1. s.status \in Live
      BY <1>4, <1>5 DEF Live
    <3>2. w = <<Req>> \o a
      <4> HIDE DEF a, o, s
      <4> QED
        BY <1>1, <1>2, <3>1, Zenon DEF UpStream, w
    <3>3. w \in Seq(Nat)
      BY <1>1
    <3> QED
      BY <3>2, <3>3
  <2>7. out' = [out EXCEPT ![n] = w] /\ accepted' = [accepted EXCEPT ![n] = a]
    BY <1>3, <2>5 DEF OrderInv
  <2>8. /\ list' \in Seq(Num)
        /\ \A i \in 1..Len(list') : \E j \in 1..Len(list) : list'[i] = list[j]
    BY <1>3 DEF OrderInv
  <2> HIDE DEF w, a, o, s
  <2>9. UpStream(d, a, w)
    BY <1>1, <1>2, <1>4, <2>1, <2>6, FlushUp
  <2>10. \A i \in 1..Len(list') : list'[i] = n => d.status # "unborn" /\ ~d.starting
    BY <1>2, <1>4, <2>2
  <2> QED
    BY <1>1, <1>3, <2>6, <2>7, <2>8, <2>9, <2>10, OneUp
<1>6. CASE ~(c.status = "FORWARDING" /\ c.buf # <<>>)
  <2>1. /\ d \in Session /\ d.writes = k /\ d.buf = s.buf /\ d.starting = s.starting
        /\ d.connecting = s.connecting
        /\ d.status = IF s.status = "FORWARDING" THEN "FORWARD" ELSE s.status
    <3>1. CASE c.status # "FORWARDING"
      <4>1. d = c
        BY <3>1 DEF OutSent
      <4> HIDE DEF d
      <4> QED
        BY <1>4, <3>1, <4>1
    <3>2. CASE c.status = "FORWARDING"
      <4>1. d = [c EXCEPT !.status = "FORWARD"]
        BY <1>6, <3>2 DEF OutSent
      <4> HIDE DEF d
      <4> QED
        BY <1>4, <3>2, <4>1 DEF Session, Status
    <3> QED
      BY <3>1, <3>2
  <2> HIDE DEF d
  <2>2. Sent(c, d, <<>>) = <<>>
    BY <1>2, <1>4, <2>1 DEF Sent
  <2>3. o \o <<>> = o
    BY <1>1, ConcatEmptySeq
  <2>4. out' = [out EXCEPT ![n] = o] /\ accepted' = [accepted EXCEPT ![n] = a]
    BY <1>3, <2>2, <2>3 DEF OrderInv
  <2>5. UpStream(d, a, o)
    BY <1>1, <1>2, <2>1 DEF UpStream, Live
  <2>6. /\ list' \in Seq(Num)
        /\ \A i \in 1..Len(list') : \E j \in 1..Len(list) : list'[i] = list[j]
    BY <1>3 DEF OrderInv
  <2>7. \A i \in 1..Len(list') : list'[i] = n => d.status # "unborn" /\ ~d.starting
    BY <1>2, <1>3, <2>1 DEF OrderInv, Listed
  <2> HIDE DEF a, o, s
  <2> QED
    BY <1>1, <1>3, <2>4, <2>5, <2>6, <2>7, OneUp
<1> QED
  BY <1>5, <1>6

\* A new session.
LEMMA CreateUp ==
  ASSUME ForwardInv, OrderInv, NEW e \in Endpoints, NEW p \in Nat, NEW n \in Num,
         UsePipeline \in BOOLEAN, Create(n, e, p)
  PROVE  OrderInv'
<1> DEFINE c == NewSession(e, p)
           z == <<>>
<1>1. /\ c \in Session /\ c.status = "CONNECT" /\ c.writes = 0 /\ c.first = p
      /\ c.starting = UsePipeline /\ ~c.connecting
  <2>1. c.first = p
    BY DEF NewSession
  <2> QED
    BY <2>1, NewSessionType
<1>2. /\ ses[n].status = "unborn" /\ accepted[n] = z /\ out[n] = z /\ list \in Seq(Num)
      /\ z \in Seq(Nat)
  BY DEF Create, OrderInv, UpStream
<1>3. \A j \in 1..Len(list) : list[j] # n
  BY <1>2 DEF OrderInv, Listed
<1>4. /\ Held(list) \in Seq(Num)
      /\ \A i \in 1..Len(Held(list)) : \E j \in 1..Len(list) : Held(list)[i] = list[j]
  BY <1>2, HeldOfList
<1>5. z \o z = z /\ \A q \in Seq(Nat) : z \o q = q
  BY <1>2, ConcatEmptySeq
<1>6. out' = [out EXCEPT ![n] = z]
  BY <1>2 DEF Create, OrderInv
<1>7. CASE UsePipeline
  <2>1. ses' = [ses EXCEPT ![n] = c] /\ accepted' = accepted /\ list' = Held(list)
    BY <1>7 DEF Create, Set
  <2>2. accepted' = [accepted EXCEPT ![n] = z]
    BY <1>2, <2>1 DEF OrderInv
  <2>3. IsPrefix(z, <<Req>> \o z)
    <3> DEFINE q == <<Req>>
               w == q \o z
    <3>1. q \in Seq(Nat)
      BY DEF Req
    <3>2. w \in Seq(Nat) /\ w = z \o w
      BY <1>2, <1>5, <3>1
    <3> HIDE DEF w, z, q
    <3>3. IsPrefix(z, w)
      BY <1>2, <3>2, FrontIsPrefix
    <3> QED
      BY <3>3 DEF w, q
  <2>4. UpStream(c, z, z)
    <3> HIDE DEF c
    <3> QED
      BY <1>1, <1>7, <2>3 DEF UpStream
  <2>5. \A i \in 1..Len(list') : list'[i] # n /\ \E j \in 1..Len(list) : list'[i] = list[j]
    BY <1>3, <1>4, <2>1
  <2> HIDE DEF c, z
  <2> QED
    BY <1>2, <1>4, <1>6, <2>1, <2>2, <2>4, <2>5, OneUp
<1>8. CASE ~UsePipeline
  <2> DEFINE b == Prepare(c)
             d == [b EXCEPT !.connecting = TRUE]
             a == <<p>>
             h == Held(list)
  <2>1. ses' = [ses EXCEPT ![n] = d] /\ accepted' = [accepted EXCEPT ![n] = a]
        /\ list' = Append(h, n)
    BY <1>8 DEF Create, Set
  <2>2. b \in Session /\ b.status = "CONNECT" /\ b.writes = 0 /\ ~b.starting
    BY <1>1, PrepareFits
  <2>3. b.buf = <<Req>> \o a /\ a \in Seq(Nat)
    BY <1>1, PreparedBuf
  <2> HIDE DEF b, c
  <2>4. /\ d \in Session /\ d.status = "CONNECT" /\ ~d.starting /\ d.connecting
        /\ d.buf = b.buf
    BY <2>2 DEF Session
  <2> HIDE DEF a, d
  <2>5. z \o d.buf = <<Req>> \o a
    BY <1>5, <2>3, <2>4, Fields
  <2>6. UpStream(d, a, z)
    BY <1>2, <2>3, <2>4, <2>5, UpHolds
  <2>7. /\ list' \in Seq(Num) /\ Len(list') = Len(h) + 1 /\ Len(h) \in Nat
        /\ \A i \in 1..Len(h) : list'[i] = h[i]
        /\ list'[Len(h) + 1] = n
    <3> HIDE DEF h
    <3>1. h \in Seq(Num)
      BY <1>4 DEF h
    <3> QED
      BY <2>1, <3>1, AppendProperties
  <2>8. \A i \in 1..Len(list') : list'[i] # n => \E j \in 1..Len(list) : list'[i] = list[j]
    <3>1. \A i \in 1..Len(list') : i = Len(h) + 1 \/ i \in 1..Len(h)
      BY <2>7
    <3> QED
      BY <1>4, <2>7, <3>1
  <2>9. \A i \in 1..Len(list') : list'[i] = n => d.status # "unborn" /\ ~d.starting
    BY <2>4
  <2> HIDE DEF z
  <2> QED
    BY <1>2, <1>6, <2>1, <2>3, <2>6, <2>7, <2>8, <2>9, OneUp
<1> QED
  BY <1>7, <1>8

\* udp_async_read.
LEMMA PacketUp ==
  ASSUME ForwardInv, OrderInv, NEW e \in Endpoints, Packet(e)
  PROVE  OrderInv'
<1> DEFINE p == packets + 1
           l == Held(list)
<1>1. p \in Nat /\ UsePipeline \in BOOLEAN /\ list \in Seq(Num)
  BY DEF ForwardInv, OrderInv, UsePipeline
<1>2. (\E i \in DOMAIN l : Process(l[i], p)) \/ (\E n \in Num : Create(n, e, p))
  BY DEF Packet
<1> HIDE DEF p
<1>3. CASE \E i \in DOMAIN l : Process(l[i], p)
  <2>1. /\ l \in Seq(Num) /\ DOMAIN l = 1..Len(l)
        /\ \A i \in 1..Len(l) : \E j \in 1..Len(list) : l[i] = list[j]
    BY <1>1, HeldOfList
  <2>2. PICK i \in 1..Len(l) : Process(l[i], p)
    BY <1>3, <2>1
  <2>3. PICK j \in 1..Len(list) : l[i] = list[j]
    BY <2>1
  <2>4. l[i] \in Num /\ ses[l[i]].status # "unborn" /\ ~ses[l[i]].starting
    BY <2>1, <2>3 DEF OrderInv, Listed
  <2> HIDE DEF l
  <2> QED
    BY <1>1, <2>2, <2>4, ProcessUp
<1>4. CASE \E n \in Num : Create(n, e, p)
  BY <1>1, <1>4, CreateUp
<1> QED
  BY <1>2, <1>3, <1>4

\* What ends or fails, and what a read does, sends nothing.
LEMMA QuietUp ==
  ASSUME ForwardInv, OrderInv, NEW n \in Num,
         \/ StartFailed(n) \/ ConnectFailed(n) \/ WriteFailed(n)
         \/ OutRecv(n) \/ ReadFailed(n) \/ End(n) \/ Release(n)
  PROVE  OrderInv'
<1> DEFINE c == ses[n]
           g == Destroyed(c)
<1>1. c \in Session /\ Fit(c) /\ accepted' = accepted /\ out' = out /\ list' = list
  BY DEF ForwardInv, StartFailed, ConnectFailed, WriteFailed, OutRecv, ReadFailed, End, Release
<1>2. /\ g \in Session /\ g.status = "DESTROY" /\ g.buf = c.buf /\ g.starting = c.starting
      /\ g.connecting = c.connecting /\ g.writes = c.writes
  BY <1>1 DEF Destroyed, Session, Status
<1>3. ASSUME NEW d \in Session, ses' = [ses EXCEPT ![n] = d],
             d.status \in {c.status, "DESTROY"}, d.buf = c.buf,
             d.starting => c.starting, d.connecting => c.connecting,
             d.starting # c.starting => d.status = "DESTROY" /\ ~d.connecting
      PROVE  OrderInv'
  BY <1>1, <1>3, KeepUp
<1>4. CASE StartFailed(n)
  <2> DEFINE d == [g EXCEPT !.starting = FALSE]
  <2>1. ses' = [ses EXCEPT ![n] = d] /\ c.starting
    BY <1>4 DEF StartFailed, Set
  <2> HIDE DEF g
  <2>2. /\ d \in Session /\ d.status = "DESTROY" /\ d.buf = c.buf /\ ~d.starting
        /\ d.connecting = c.connecting
    BY <1>2 DEF Session
  <2>3. ~c.connecting
    BY <1>1, <2>1 DEF Fit
  <2> HIDE DEF d
  <2> QED
    BY <1>3, <2>1, <2>2, <2>3
<1>5. CASE ConnectFailed(n)
  <2> DEFINE d == [g EXCEPT !.connecting = FALSE]
  <2>1. ses' = [ses EXCEPT ![n] = d]
    BY <1>5 DEF ConnectFailed, Set
  <2> HIDE DEF g
  <2>2. /\ d \in Session /\ d.status = "DESTROY" /\ d.buf = c.buf /\ ~d.connecting
        /\ d.starting = c.starting
    BY <1>2 DEF Session
  <2> HIDE DEF d
  <2> QED
    BY <1>3, <2>1, <2>2
<1>6. CASE WriteFailed(n)
  <2> DEFINE k == g.writes - 1
             d == [g EXCEPT !.writes = k]
  <2>1. ses' = [ses EXCEPT ![n] = d] /\ c.writes > 0
    BY <1>6 DEF WriteFailed, Set
  <2>2. k \in Nat
    BY <1>1, <1>2, <2>1, Fields
  <2> HIDE DEF g, k
  <2>3. /\ d \in Session /\ d.status = "DESTROY" /\ d.buf = c.buf
        /\ d.connecting = c.connecting /\ d.starting = c.starting
    BY <1>2, <2>2 DEF Session
  <2> HIDE DEF d
  <2> QED
    BY <1>3, <2>1, <2>3
<1>7. CASE ReadFailed(n) \/ End(n) \/ Release(n)
  <2>1. \/ ses' = [ses EXCEPT ![n] = [g EXCEPT !.reading = FALSE]]
        \/ ses' = [ses EXCEPT ![n] = g]
        \/ ses' = [ses EXCEPT ![n] = [c EXCEPT !.held = FALSE, !.reading = FALSE]]
    BY <1>7 DEF ReadFailed, End, Release, Set
  <2> HIDE DEF g
  <2>2. CASE ses' = [ses EXCEPT ![n] = [g EXCEPT !.reading = FALSE]]
    <3> DEFINE d == [g EXCEPT !.reading = FALSE]
    <3>1. /\ d \in Session /\ d.status = "DESTROY" /\ d.buf = c.buf
          /\ d.connecting = c.connecting /\ d.starting = c.starting
      BY <1>2 DEF Session
    <3> HIDE DEF d
    <3> QED
      BY <1>3, <2>2, <3>1 DEF d
  <2>3. CASE ses' = [ses EXCEPT ![n] = g]
    BY <1>2, <1>3, <2>3
  <2>4. CASE ses' = [ses EXCEPT ![n] = [c EXCEPT !.held = FALSE, !.reading = FALSE]]
    <3> DEFINE d == [c EXCEPT !.held = FALSE, !.reading = FALSE]
    <3>1. /\ d \in Session /\ d.status = c.status /\ d.buf = c.buf
          /\ d.connecting = c.connecting /\ d.starting = c.starting
      BY <1>1 DEF Session
    <3> HIDE DEF d
    <3> QED
      BY <1>3, <2>4, <3>1 DEF d
  <2> QED
    BY <2>1, <2>2, <2>3, <2>4
<1>8. CASE OutRecv(n)
  <2>1. PICK k \in 1..Len(down[n]) :
          LET b == c.rest \o SubSeq(down[n], 1, k) IN
          \/ ses' = [ses EXCEPT ![n] = [c EXCEPT !.rest = Rest(b)]]
          \/ ses' = [ses EXCEPT ![n] = [g EXCEPT !.reading = FALSE]]
          \/ ses' = ses
          \/ ses' = [ses EXCEPT ![n] = [c EXCEPT !.reading = FALSE]]
    BY <1>8 DEF OutRecv, Set
  <2>2. ForwardInv'
    BY <1>8, OutRecvStep
  <2>3. ses'[n] \in Session
    BY <2>2 DEF ForwardInv
  <2> HIDE DEF g
  <2>4. /\ ses' = [ses EXCEPT ![n] = ses'[n]]
        /\ ses'[n].status \in {c.status, "DESTROY"} /\ ses'[n].buf = c.buf
        /\ ses'[n].connecting = c.connecting /\ ses'[n].starting = c.starting
    <3> DEFINE b == c.rest \o SubSeq(down[n], 1, k)
               r == Rest(b)
    <3>1. \/ ses' = [ses EXCEPT ![n] = [c EXCEPT !.rest = r]]
          \/ ses' = [ses EXCEPT ![n] = [g EXCEPT !.reading = FALSE]]
          \/ ses' = ses
          \/ ses' = [ses EXCEPT ![n] = [c EXCEPT !.reading = FALSE]]
      BY <2>1
    <3> HIDE DEF r, b
    <3>2. ses \in [Num -> Session]
      BY DEF ForwardInv
    <3> QED
      BY <1>1, <1>2, <3>1, <3>2 DEF Session
  <2> QED
    BY <1>3, <2>3, <2>4
<1> QED
  BY <1>4, <1>5, <1>6, <1>7, <1>8

\* No session has taken or sent anything at first.
LEMMA OrderInvInit ==
  ASSUME Init
  PROVE  OrderInv
<1> DEFINE z == <<>>
<1>1. z \in Seq(Nat) /\ z \in Seq(Num) /\ Len(z) = 0
  OBVIOUS
<1>2. /\ list = z /\ ses = [n \in Num |-> Unborn]
      /\ accepted = [n \in Num |-> z] /\ out = [n \in Num |-> z]
  BY DEF Init
<1>3. IsPrefix(z, <<Req>> \o z)
  <2> DEFINE w == <<Req>> \o z
  <2>1. w \in Seq(Nat) /\ w = z \o w
    BY ConcatEmptySeq DEF Req
  <2> HIDE DEF w, z
  <2> QED
    BY <1>1, <2>1, FrontIsPrefix DEF w
<1>4. Unborn.status = "unborn" /\ ~Unborn.starting /\ ~Unborn.connecting
  BY DEF Unborn, NewSession
<1>5. UpStream(Unborn, z, z)
  <2> HIDE DEF z
  <2> QED
    BY <1>3, <1>4 DEF UpStream, Live, z
<1>6. Listed
  BY <1>1, <1>2 DEF Listed
<1> HIDE DEF z
<1> QED
  BY <1>1, <1>2, <1>5, <1>6 DEF OrderInv

\* The invariant about the packets holds in every reachable state.
LEMMA Ordering == Spec => []OrderInv
<1>1. Init => OrderInv
  BY OrderInvInit
<1>2. ForwardInv /\ OrderInv /\ [Next]_vars => OrderInv'
  <2> SUFFICES ASSUME ForwardInv, OrderInv, [Next]_vars PROVE OrderInv'
    OBVIOUS
  <2>1. CASE \E e \in Endpoints : Packet(e)
    BY <2>1, PacketUp
  <2>2. CASE NoTarget \/ ReceiveError
    BY <2>2 DEF NoTarget, ReceiveError, OrderInv, Listed
  <2>3. CASE \E n \in Num : Step(n)
    <3>1. PICK n \in Num : Step(n)
      BY <2>3
    <3>2. CASE Reply(n)
      BY <3>2 DEF Reply, OrderInv, Listed
    <3> QED
      BY <3>1, <3>2, StartedUp, ConnectDoneUp, WriteDoneUp, QuietUp DEF Step
  <2>4. CASE UNCHANGED vars
    BY <2>4 DEF vars, OrderInv, Listed
  <2> QED
    BY <2>1, <2>2, <2>3, <2>4 DEF Next
<1> QED
  BY <1>1, <1>2, Forwarding, PTL DEF Spec

\* For any number of packets, sessions and endpoints: what a session hands on
\* is the trojan request and the packets in_recv took, in order, none twice and
\* none missing, however many were collected during a write or a connect and
\* even when the session is started after its end.
THEOREM PacketsInOrder == Spec => []UpOrder
<1>1. OrderInv => UpOrder
  BY DEF OrderInv, UpStream, UpOrder, Alive, Live
<1> QED
  BY <1>1, Ordering, PTL

-----------------------------------------------------------------------------
(* The replies to a session: the inductive invariant.                        *)

\* q holds the numbers that follow k.
Run(q, k) == \A i \in 1..Len(q) : q[i] = k + i

\* q holds what became of the replies that follow k.
Fate(q, k) == \A i \in 1..Len(q) : q[i] \in {k + i, Lost}

\* c with the pieces d on their way, the r replies sent and what became of those
\* it took, dl: nothing comes before the session is connected; while it
\* reads, the pieces in udp_data_buf and on their way are those of the replies
\* that follow the taken ones, up to the last.
DownStream(run, c, d, r, dl) ==
  /\ c.status = "unborn" \/ c.starting \/ c.connecting
       => d = <<>> /\ r = 0 /\ dl = <<>> /\ c.rest = <<>> /\ ~c.reading
  /\ Len(dl) <= r /\ Fate(dl, 0)
  /\ run /\ c.reading => /\ Run(c.rest, 2 * Len(dl))
                         /\ Run(d, 2 * Len(dl) + Len(c.rest))
                         /\ 2 * Len(dl) + Len(c.rest) + Len(d) = 2 * r

ReplyInv ==
  /\ delivered \in [Num -> Seq(Nat)]
  /\ \A n \in Num : DownStream(running, ses[n], down[n], replied[n], delivered[n])

\* Runs one after the other.
LEMMA RunOn ==
  ASSUME NEW s \in Seq(Nat), NEW t \in Seq(Nat), NEW k \in Nat,
         Run(s, k), Run(t, k + Len(s))
  PROVE  Run(s \o t, k)
<1>1. /\ Len(s \o t) = Len(s) + Len(t) /\ Len(s) \in Nat /\ Len(t) \in Nat
      /\ \A i \in 1..Len(s) + Len(t) : (s \o t)[i] =
           IF i <= Len(s) THEN s[i] ELSE t[i - Len(s)]
  BY ConcatProperties
<1>2. ASSUME NEW i \in 1..Len(s \o t) PROVE (s \o t)[i] = k + i
  <2>1. i \in 1..Len(s) + Len(t)
    BY <1>1
  <2>2. CASE i <= Len(s)
    <3>1. i \in 1..Len(s)
      BY <1>1, <2>1, <2>2
    <3> QED
      BY <1>1, <2>1, <2>2, <3>1 DEF Run
  <2>3. CASE ~(i <= Len(s))
    <3> DEFINE j == i - Len(s)
    <3>1. j \in 1..Len(t) /\ (k + Len(s)) + j = k + i
      BY <1>1, <2>1, <2>3
    <3>2. t[j] = (k + Len(s)) + j
      BY <3>1 DEF Run
    <3> QED
      BY <1>1, <2>1, <2>3, <3>1, <3>2
  <2> QED
    BY <2>2, <2>3
<1> QED
  BY <1>2 DEF Run

\* What became of replies one after the other.
LEMMA FateOn ==
  ASSUME NEW s \in Seq(Nat), NEW t \in Seq(Nat), Fate(s, 0), Fate(t, Len(s))
  PROVE  Fate(s \o t, 0)
<1>1. /\ Len(s \o t) = Len(s) + Len(t) /\ Len(s) \in Nat /\ Len(t) \in Nat
      /\ \A i \in 1..Len(s) + Len(t) : (s \o t)[i] =
           IF i <= Len(s) THEN s[i] ELSE t[i - Len(s)]
  BY ConcatProperties
<1>2. ASSUME NEW i \in 1..Len(s \o t) PROVE (s \o t)[i] \in {0 + i, Lost}
  <2>1. i \in 1..Len(s) + Len(t)
    BY <1>1
  <2>2. CASE i <= Len(s)
    <3>1. i \in 1..Len(s)
      BY <1>1, <2>1, <2>2
    <3> QED
      BY <1>1, <2>1, <2>2, <3>1 DEF Fate
  <2>3. CASE ~(i <= Len(s))
    <3> DEFINE j == i - Len(s)
    <3>1. j \in 1..Len(t) /\ Len(s) + j = 0 + i
      BY <1>1, <2>1, <2>3
    <3>2. t[j] \in {Len(s) + j, Lost}
      BY <3>1 DEF Fate
    <3> QED
      BY <1>1, <2>1, <2>3, <3>1, <3>2
  <2> QED
    BY <2>2, <2>3
<1> QED
  BY <1>2 DEF Fate

\* A read takes the first j pieces of what is on its way.
LEMMA RunCut ==
  ASSUME NEW d \in Seq(Nat), NEW j \in 1..Len(d), NEW k \in Nat, Run(d, k)
  PROVE  LET h == SubSeq(d, 1, j)
             t == SubSeq(d, j + 1, Len(d))
         IN  /\ h \in Seq(Nat) /\ Len(h) = j /\ Run(h, k)
             /\ t \in Seq(Nat) /\ Len(t) = Len(d) - j /\ Run(t, k + j)
<1> DEFINE h == SubSeq(d, 1, j)
           m == j + 1
           z == Len(d)
           t == SubSeq(d, m, z)
<1>1. z \in Nat /\ j \in Nat /\ j <= z /\ m = j + 1 /\ m \in Int
  OBVIOUS
<1>2. \A i \in 1..z : d[i] \in Nat /\ d[i] = k + i
  BY DEF Run
<1> HIDE DEF m, z
<1>3. h \in Seq(Nat) /\ Len(h) = j /\ \A i \in 1..j : h[i] = d[i]
  <2>1. \A i \in 1..j : d[i] \in Nat
    BY <1>1, <1>2
  <2>2. /\ h \in Seq(Nat) /\ Len(h) = IF 1 <= j THEN j - 1 + 1 ELSE 0
        /\ \A i \in 1..j - 1 + 1 : h[i] = d[1 + i - 1]
    BY <1>1, <2>1, SubSeqProperties
  <2> QED
    BY <1>1, <2>2
<1>4. t \in Seq(Nat) /\ Len(t) = z - j /\ \A i \in 1..z - j : t[i] = d[j + i]
  <2>1. \A i \in m..z : d[i] \in Nat
    BY <1>1, <1>2
  <2>2. /\ t \in Seq(Nat) /\ Len(t) = IF m <= z THEN z - m + 1 ELSE 0
        /\ \A i \in 1..z - m + 1 : t[i] = d[m + i - 1]
    BY <1>1, <2>1, SubSeqProperties
  <2> HIDE DEF t
  <2> QED
    BY <1>1, <2>2
<1> HIDE DEF h, t
<1>5. Run(h, k)
  <2>1. ASSUME NEW i \in 1..Len(h) PROVE h[i] = k + i
    <3>1. i \in 1..j /\ i \in 1..z
      BY <1>1, <1>3
    <3> QED
      BY <1>2, <1>3, <3>1
  <2> QED
    BY <2>1 DEF Run
<1>6. Run(t, k + j)
  <2>1. ASSUME NEW i \in 1..Len(t) PROVE t[i] = (k + j) + i
    <3>1. i \in 1..z - j /\ j + i \in 1..z
      BY <1>1, <1>4
    <3>2. t[i] = d[j + i] /\ d[j + i] = k + (j + i)
      BY <1>2, <1>4, <3>1
    <3> QED
      BY <1>1, <3>1, <3>2
  <2> QED
    BY <2>1 DEF Run
<1> QED
  BY <1>3, <1>4, <1>5, <1>6 DEF h, t, m, z

\* The loop of out_recv: the whole replies are those that follow the g already
\* taken, whichever of them are lost, and what is left begins behind them.
LEMMA LoopTakes ==
  ASSUME NEW b \in Seq(Nat), NEW g \in Nat, Run(b, 2 * g)
  PROVE  /\ Whole(b) \in Nat /\ 2 * Whole(b) <= Len(b)
         /\ \A j \in 0..Whole(b) : \A lost : /\ Given(b, j, lost) \in Seq(Nat)
                                             /\ Len(Given(b, j, lost)) = j
                                             /\ Fate(Given(b, j, lost), g)
         /\ Rest(b) \in Seq(Nat) /\ Len(Rest(b)) = Len(b) - 2 * Whole(b)
         /\ Run(Rest(b), 2 * (g + Whole(b)))
<1> DEFINE m == Whole(b)
           z == Len(b)
<1>1. m \in Nat /\ z \in Nat /\ 2 * m <= z
  BY DEF Whole
<1>2. \A i \in 1..z : b[i] \in Nat /\ b[i] = 2 * g + i
  BY DEF Run
<1> HIDE DEF m, z
<1>3. ASSUME NEW j \in 0..m, NEW lost
      PROVE  /\ Given(b, j, lost) \in Seq(Nat) /\ Len(Given(b, j, lost)) = j
             /\ Fate(Given(b, j, lost), g)
  <2> DEFINE w == [i \in 1..j |-> IF i \in lost THEN 0 ELSE g + i]
  <2>1. ASSUME NEW i \in 1..j PROVE b[2 * i] \div 2 = g + i
    <3>1. 2 * i \in 1..z
      BY <1>1
    <3>2. b[2 * i] = 2 * g + 2 * i
      BY <1>2, <3>1
    <3> QED
      BY <1>1, <3>2
  <2>2. Given(b, j, lost) = w
    BY <2>1 DEF Given, Lost
  <2>3. \A i \in 1..j : w[i] \in Nat /\ w[i] \in {g + i, 0}
    OBVIOUS
  <2>4. w \in Seq(Nat) /\ Len(w) = j
    BY <1>1
  <2> HIDE DEF w
  <2> QED
    BY <2>2, <2>3, <2>4 DEF Fate, Lost
<1>4. /\ Rest(b) \in Seq(Nat) /\ Len(Rest(b)) = z - 2 * m
      /\ \A i \in 1..z - 2 * m : Rest(b)[i] = b[2 * m + i]
  <2> DEFINE f == 2 * m + 1
             t == SubSeq(b, f, z)
  <2>1. f \in Int /\ f = 2 * m + 1
    BY <1>1
  <2>2. Rest(b) = t
    BY DEF Rest, m, z
  <2> HIDE DEF f
  <2>3. \A i \in f..z : b[i] \in Nat
    BY <1>1, <1>2, <2>1
  <2>4. /\ t \in Seq(Nat) /\ Len(t) = IF f <= z THEN z - f + 1 ELSE 0
        /\ \A i \in 1..z - f + 1 : t[i] = b[f + i - 1]
    BY <1>1, <2>1, <2>3, SubSeqProperties
  <2> HIDE DEF t
  <2> QED
    BY <1>1, <2>1, <2>2, <2>4
<1>5. ASSUME NEW i \in 1..Len(Rest(b)) PROVE Rest(b)[i] = 2 * (g + m) + i
  <2>1. i \in 1..z - 2 * m /\ 2 * m + i \in 1..z
    BY <1>1, <1>4
  <2>2. Rest(b)[i] = b[2 * m + i] /\ b[2 * m + i] = 2 * g + (2 * m + i)
    BY <1>2, <1>4, <2>1
  <2> QED
    BY <1>1, <2>1, <2>2
<1>6. Run(Rest(b), 2 * (g + m))
  BY <1>5 DEF Run
<1> QED
  BY <1>1, <1>3, <1>4, <1>6 DEF m, z

\* A step of session n that gives it the record e and changes its replies.
LEMMA OneDown ==
  ASSUME ForwardInv, ReplyInv, NEW n \in Num, NEW e, NEW d, NEW r, NEW dl \in Seq(Nat),
         ses' = [ses EXCEPT ![n] = e], down' = [down EXCEPT ![n] = d],
         replied' = [replied EXCEPT ![n] = r], delivered' = [delivered EXCEPT ![n] = dl],
         running' => running, DownStream(running', e, d, r, dl)
  PROVE  ReplyInv'
<1>1. delivered' \in [Num -> Seq(Nat)]
  BY DEF ReplyInv
<1>2. /\ \A m \in Num : m # n => /\ ses'[m] = ses[m] /\ down'[m] = down[m]
                                 /\ replied'[m] = replied[m] /\ delivered'[m] = delivered[m]
      /\ ses'[n] = e /\ down'[n] = d /\ replied'[n] = r /\ delivered'[n] = dl
  BY DEF ReplyInv, ForwardInv
<1>3. ASSUME NEW m \in Num
      PROVE  DownStream(running', ses'[m], down'[m], replied'[m], delivered'[m])
  <2>1. CASE m = n
    BY <1>2, <2>1
  <2>2. CASE m # n
    <3>1. DownStream(running, ses[m], down[m], replied[m], delivered[m])
      BY DEF ReplyInv
    <3>2. DownStream(running', ses[m], down[m], replied[m], delivered[m])
      BY <3>1 DEF DownStream
    <3> QED
      BY <1>2, <2>2, <3>2
  <2> QED
    BY <2>1, <2>2
<1> QED
  BY <1>1, <1>3 DEF ReplyInv

\* A step that leaves the replies alone; the session may stop reading.
LEMMA KeepDown ==
  ASSUME ForwardInv, ReplyInv, NEW n \in Num, NEW e,
         ses' = [ses EXCEPT ![n] = e], UNCHANGED replies, running' => running,
         e.rest = ses[n].rest, e.reading => ses[n].reading,
         e.status = "unborn" \/ e.starting \/ e.connecting
           => ses[n].status = "unborn" \/ ses[n].starting \/ ses[n].connecting
  PROVE  ReplyInv'
<1> DEFINE d == down[n]
           r == replied[n]
           dl == delivered[n]
<1>1. DownStream(running, ses[n], d, r, dl) /\ dl \in Seq(Nat)
  BY DEF ReplyInv
<1>2. /\ down' = [down EXCEPT ![n] = d] /\ replied' = [replied EXCEPT ![n] = r]
      /\ delivered' = [delivered EXCEPT ![n] = dl]
  BY DEF ReplyInv, ForwardInv, replies
<1> HIDE DEF d, r, dl
<1>3. DownStream(running', e, d, r, dl)
  BY <1>1 DEF DownStream
<1> QED
  BY <1>1, <1>2, <1>3, OneDown

\* The session of a packet is connected; the callback of start_udp opens the
\* stream of replies.
LEMMA BeginDown ==
  ASSUME ForwardInv, ReplyInv, NEW n \in Num, NEW e, NEW d \in {Begin(e), NotBound(e)},
         e \in Session, ~e.starting, e.rest = ses[n].rest, e.reading = ses[n].reading,
         ses[n].starting \/ ses[n].connecting,
         ses' = [ses EXCEPT ![n] = d], UNCHANGED <<replies, running>>
  PROVE  ReplyInv'
<1>1. /\ DownStream(running, ses[n], down[n], replied[n], delivered[n])
      /\ delivered[n] \in Seq(Nat)
  BY DEF ReplyInv
<1> DEFINE z == <<>>
<1>2. /\ down[n] = z /\ replied[n] = 0 /\ delivered[n] = z /\ e.rest = z /\ ~e.reading
  BY <1>1 DEF DownStream
<1>3. z \in Seq(Nat) /\ Len(z) = 0
  OBVIOUS
<1>4. /\ down' = [down EXCEPT ![n] = z] /\ replied' = [replied EXCEPT ![n] = 0]
      /\ delivered' = [delivered EXCEPT ![n] = z]
  BY <1>2 DEF ReplyInv, ForwardInv, replies
<1>5. d.rest = z /\ d.status # "unborn" /\ ~d.starting /\ ~d.connecting
  <2>1. CASE d = Begin(e)
    <3>1. d.rest = e.rest /\ d.status = "FORWARDING" /\ ~d.starting /\ ~d.connecting
      BY <2>1 DEF Begin, Flush, Session
    <3> QED
      BY <1>2, <3>1
  <2>2. CASE d = NotBound(e)
    <3>1. d.rest = e.rest /\ d.status = "DESTROY" /\ ~d.starting /\ ~d.connecting
      BY <2>2 DEF NotBound, Destroyed, Session
    <3> QED
      BY <1>2, <3>1
  <2> QED
    BY <2>1, <2>2
<1> HIDE DEF z
<1>6. Fate(z, 0) /\ Run(z, 2 * Len(z)) /\ Run(z, 2 * Len(z) + Len(z))
  BY <1>3 DEF Run, Fate
<1>7. DownStream(running', d, z, 0, z)
  BY <1>3, <1>5, <1>6 DEF DownStream
<1> QED
  BY <1>3, <1>4, <1>7, OneDown

\* The functions towards the server leave udp_data_buf and the read alone.
LEMMA InRecvRest ==
  ASSUME NEW c \in Session, NEW p \in Nat
  PROVE  LET d == InRecv(c, p)
         IN  /\ d.rest = c.rest /\ d.reading = c.reading /\ d.starting = c.starting
             /\ d.connecting = c.connecting /\ (d.status = "unborn" => c.status = "unborn")
<1> DEFINE q == Append(c.buf, p)
           e == [c EXCEPT !.buf = q]
           d == InRecv(c, p)
<1>1. d = CASE c.status = "DESTROY" -> c
            [] c.status = "FORWARD" -> Flush(e)
            [] OTHER -> e
  BY DEF InRecv
<1>2. d = c \/ d = Flush(e) \/ d = e
  BY <1>1
<1> HIDE DEF q
<1>3. /\ e.rest = c.rest /\ e.reading = c.reading /\ e.starting = c.starting
      /\ e.connecting = c.connecting /\ e.status = c.status
      /\ Flush(e).rest = c.rest /\ Flush(e).reading = c.reading
      /\ Flush(e).starting = c.starting /\ Flush(e).connecting = c.connecting
      /\ Flush(e).status = "FORWARDING"
  BY DEF Session, Flush
<1> HIDE DEF d, e
<1>4. /\ d.rest = c.rest /\ d.reading = c.reading /\ d.starting = c.starting
      /\ d.connecting = c.connecting /\ (d.status = "unborn" => c.status = "unborn")
  BY <1>2, <1>3
<1> QED
  BY <1>4 DEF d

\* The same of out_sent.
LEMMA OutSentRest ==
  ASSUME NEW c \in Session
  PROVE  LET d == OutSent(c)
         IN  /\ d.rest = c.rest /\ d.reading = c.reading /\ d.starting = c.starting
             /\ d.connecting = c.connecting /\ (d.status = "unborn" => c.status = "unborn")
<1> DEFINE e == [c EXCEPT !.status = "FORWARD"]
           d == OutSent(c)
<1>1. d = c \/ d = Flush(c) \/ d = e
  BY DEF OutSent
<1>2. /\ e.rest = c.rest /\ e.reading = c.reading /\ e.starting = c.starting
      /\ e.connecting = c.connecting /\ e.status = "FORWARD"
      /\ Flush(c).rest = c.rest /\ Flush(c).reading = c.reading
      /\ Flush(c).starting = c.starting /\ Flush(c).connecting = c.connecting
      /\ Flush(c).status = "FORWARDING"
  BY DEF Session, Flush
<1> HIDE DEF d, e
<1>3. /\ d.rest = c.rest /\ d.reading = c.reading /\ d.starting = c.starting
      /\ d.connecting = c.connecting /\ (d.status = "unborn" => c.status = "unborn")
  BY <1>1, <1>2
<1> QED
  BY <1>3 DEF d

\* The same of start_udp up to its callback.
LEMMA PrepareRest ==
  ASSUME NEW c \in Session
  PROVE  Prepare(c).rest = c.rest /\ Prepare(c).reading = c.reading
<1> DEFINE q == <<Req>>
           b == [c EXCEPT !.starting = FALSE, !.buf = q]
<1>1. q \in Seq(Nat) /\ c.first \in Nat
  BY Fields DEF Req
<1>2. Prepare(c) = InRecv(b, c.first)
  BY DEF Prepare
<1> HIDE DEF q
<1>3. b \in Session /\ b.rest = c.rest /\ b.reading = c.reading
  BY <1>1 DEF Session
<1> HIDE DEF b
<1> QED
  BY <1>1, <1>2, <1>3, InRecvRest

\* A new session has no reply on its way.
LEMMA CreateDown ==
  ASSUME ForwardInv, ReplyInv, NEW e \in Endpoints, NEW p \in Nat, NEW n \in Num,
         UsePipeline \in BOOLEAN, Create(n, e, p), UNCHANGED <<replies, running>>
  PROVE  ReplyInv'
<1> DEFINE c == NewSession(e, p)
           b == Prepare(c)
           f == [b EXCEPT !.connecting = TRUE]
           z == <<>>
<1>1. c \in Session /\ c.status = "CONNECT" /\ c.writes = 0 /\ ~c.connecting
  BY NewSessionType
<1>2. c.rest = z /\ ~c.reading
  BY DEF NewSession
<1>3. b \in Session /\ b.rest = z /\ ~b.reading
  BY <1>1, <1>2, PrepareFits, PrepareRest
<1>4. ses' = [ses EXCEPT ![n] = c] \/ ses' = [ses EXCEPT ![n] = f]
  BY DEF Create, Set
<1> HIDE DEF b, c
<1>5. f.rest = z /\ ~f.reading
  BY <1>3 DEF Session
<1> HIDE DEF f
<1>6. ses[n].status = "unborn"
  BY DEF Create
<1>7. down[n] = z /\ replied[n] = 0 /\ delivered[n] = z
  BY <1>6 DEF ReplyInv, DownStream
<1>8. /\ down' = [down EXCEPT ![n] = z] /\ replied' = [replied EXCEPT ![n] = 0]
      /\ delivered' = [delivered EXCEPT ![n] = z]
  BY <1>7 DEF ReplyInv, ForwardInv, replies
<1>9. z \in Seq(Nat) /\ Len(z) = 0 /\ Fate(z, 0)
  BY DEF Fate
<1>10. DownStream(running', c, z, 0, z) /\ DownStream(running', f, z, 0, z)
  BY <1>2, <1>5, <1>9 DEF DownStream
<1> HIDE DEF z
<1> QED
  BY <1>4, <1>8, <1>9, <1>10, OneDown

\* udp_async_read.
LEMMA PacketDown ==
  ASSUME ForwardInv, OrderInv, ReplyInv, NEW e \in Endpoints, Packet(e)
  PROVE  ReplyInv'
<1> DEFINE p == packets + 1
           l == Held(list)
<1>1. /\ p \in Nat /\ UsePipeline \in BOOLEAN /\ list \in Seq(Num)
      /\ UNCHANGED <<replies, running>>
  BY DEF ForwardInv, OrderInv, UsePipeline, Packet
<1>2. (\E i \in DOMAIN l : Process(l[i], p)) \/ (\E n \in Num : Create(n, e, p))
  BY DEF Packet
<1> HIDE DEF p
<1>3. CASE \E i \in DOMAIN l : Process(l[i], p)
  <2>1. l \in Seq(Num) /\ DOMAIN l = 1..Len(l)
    BY <1>1, HeldOfList
  <2>2. PICK i \in 1..Len(l) : Process(l[i], p)
    BY <1>3, <2>1
  <2> DEFINE n == l[i]
             d == InRecv(ses[n], p)
  <2>3. n \in Num
    BY <2>1
  <2>4. ses' = [ses EXCEPT ![n] = d] /\ ses[n] \in Session
    BY <2>2, <2>3 DEF Process, Set, ForwardInv
  <2> HIDE DEF l, n
  <2>5. /\ d.rest = ses[n].rest /\ d.reading = ses[n].reading
        /\ d.starting = ses[n].starting /\ d.connecting = ses[n].connecting
        /\ (d.status = "unborn" => ses[n].status = "unborn")
    BY <1>1, <2>4, InRecvRest
  <2> HIDE DEF d
  <2> QED
    BY <1>1, <2>3, <2>4, <2>5, KeepDown
<1>4. CASE \E n \in Num : Create(n, e, p)
  BY <1>1, <1>4, CreateDown
<1> QED
  BY <1>2, <1>3, <1>4

\* The callback of start_udp, with and without a pipeline.
LEMMA OpenDown ==
  ASSUME ForwardInv, ReplyInv, NEW n \in Num, Started(n) \/ ConnectDone(n)
  PROVE  ReplyInv'
<1>1. ses[n] \in Session /\ Fit(ses[n]) /\ UNCHANGED <<replies, running>>
  BY DEF ForwardInv, Started, ConnectDone
<1>2. CASE Started(n)
  <2> DEFINE c == Prepare(ses[n])
  <2>1. ses[n].starting
    BY <1>2 DEF Started
  <2>2. c \in Session /\ ~c.starting /\ c.rest = ses[n].rest /\ c.reading = ses[n].reading
    BY <1>1, <2>1, PrepareFits, PrepareRest DEF Fit
  <2>3. PICK d \in {Begin(c), NotBound(c)} : ses' = [ses EXCEPT ![n] = d]
    BY <1>2 DEF Started, Callback, Set
  <2> HIDE DEF c
  <2> QED
    BY <1>1, <2>1, <2>2, <2>3, BeginDown
<1>3. CASE ConnectDone(n)
  <2> DEFINE c == ses[n]
  <2>1. c.connecting
    BY <1>3 DEF ConnectDone
  <2>2. c \in Session /\ ~c.starting /\ c.rest = ses[n].rest /\ c.reading = ses[n].reading
    BY <1>1, <2>1 DEF Fit
  <2>3. PICK d \in {Begin(c), NotBound(c)} : ses' = [ses EXCEPT ![n] = d]
    BY <1>3 DEF ConnectDone, Callback, Set
  <2>4. ses[n].starting \/ ses[n].connecting
    BY <2>1
  <2> HIDE DEF c
  <2> QED
    BY <1>1, <2>2, <2>3, <2>4, BeginDown
<1> QED
  BY <1>2, <1>3

\* The end of a write, of a start, of a connect, of a read or of the session.
LEMMA EndDown ==
  ASSUME ForwardInv, ReplyInv, NEW n \in Num,
         \/ WriteDone(n) \/ WriteFailed(n) \/ StartFailed(n) \/ ConnectFailed(n)
         \/ ReadFailed(n) \/ End(n) \/ Release(n)
  PROVE  ReplyInv'
<1> DEFINE c == ses[n]
           g == Destroyed(c)
           k == c.writes - 1
           w == [c EXCEPT !.writes = k]
           i == g.writes - 1
<1>1. c \in Session /\ Fit(c) /\ UNCHANGED <<replies, running>>
  BY DEF ForwardInv, WriteDone, WriteFailed, StartFailed, ConnectFailed, ReadFailed, End, Release
<1>2. /\ g \in Session /\ g.status = "DESTROY" /\ g.rest = c.rest /\ g.reading = c.reading
      /\ g.starting = c.starting /\ g.connecting = c.connecting /\ g.writes = c.writes
  BY <1>1 DEF Destroyed, Session, Status
<1>3. CASE WriteDone(n)
  <2> DEFINE d == OutSent(w)
  <2>1. ses' = [ses EXCEPT ![n] = d] /\ c.writes > 0
    BY <1>3 DEF WriteDone, Set
  <2>2. k \in Nat
    BY <1>1, <2>1, Fields
  <2> HIDE DEF k
  <2>3. /\ w \in Session /\ w.rest = c.rest /\ w.reading = c.reading /\ w.status = c.status
        /\ w.starting = c.starting /\ w.connecting = c.connecting
    BY <1>1, <2>2 DEF Session
  <2> HIDE DEF w
  <2>4. /\ d.rest = w.rest /\ d.reading = w.reading /\ d.starting = w.starting
        /\ d.connecting = w.connecting /\ (d.status = "unborn" => w.status = "unborn")
    BY <2>3, OutSentRest
  <2> HIDE DEF d
  <2> QED
    BY <1>1, <2>1, <2>3, <2>4, KeepDown
<1>4. CASE ~WriteDone(n)
  <2> DEFINE e1 == [g EXCEPT !.starting = FALSE]
             e2 == [g EXCEPT !.connecting = FALSE]
             e3 == [g EXCEPT !.reading = FALSE]
             e4 == [g EXCEPT !.writes = i]
             e5 == [c EXCEPT !.held = FALSE, !.reading = FALSE]
  <2>1. PICK d \in {e1, e2, e3, e4, e5, g} : ses' = [ses EXCEPT ![n] = d]
    BY <1>4 DEF WriteFailed, StartFailed, ConnectFailed, ReadFailed, End, Release, Set
  <2> HIDE DEF i, g
  <2>2. /\ d.rest = c.rest /\ (d.reading => c.reading) /\ (d.starting => c.starting)
        /\ (d.connecting => c.connecting) /\ d.status \in {"DESTROY", c.status}
    <3>1. CASE d = e1
      BY <1>2, <3>1 DEF Session
    <3>2. CASE d = e2
      BY <1>2, <3>2 DEF Session
    <3>3. CASE d = e3
      BY <1>2, <3>3 DEF Session
    <3>4. CASE d = e4
      BY <1>2, <3>4 DEF Session
    <3>5. CASE d = e5
      BY <1>1, <3>5 DEF Session
    <3>6. CASE d = g
      BY <1>2, <3>6
    <3> HIDE DEF e1, e2, e3, e4, e5
    <3> QED
      BY <2>1, <3>1, <3>2, <3>3, <3>4, <3>5, <3>6
  <2> HIDE DEF e1, e2, e3, e4, e5
  <2> QED
    BY <1>1, <2>1, <2>2, KeepDown
<1> QED
  BY <1>3, <1>4

\* The server sends a reply: to a session that has sent something.
LEMMA ReplyDown ==
  ASSUME ForwardInv, OrderInv, ReplyInv, NEW n \in Num, Reply(n)
  PROVE  ReplyInv'
<1> DEFINE c == ses[n]
           d == down[n]
           r == replied[n]
           dl == delivered[n]
           q == <<2 * r + 1, 2 * r + 2>>
           m == r + 1
           x == d \o q
<1>1. /\ d \in Seq(Nat) /\ r \in Nat /\ dl \in Seq(Nat) /\ c \in Session
      /\ DownStream(running, c, d, r, dl)
      /\ c.rest \in Seq(Nat) /\ Len(dl) \in Nat /\ Len(c.rest) \in Nat /\ Len(d) \in Nat
  BY Fields DEF ForwardInv, ReplyInv
<1>2. ~(c.status = "unborn" \/ c.starting \/ c.connecting)
  BY DEF Reply, OrderInv, UpStream
<1>3. /\ ses' = [ses EXCEPT ![n] = c] /\ down' = [down EXCEPT ![n] = x] /\ running' = running
      /\ replied' = [replied EXCEPT ![n] = m] /\ delivered' = [delivered EXCEPT ![n] = dl]
  BY DEF Reply, ForwardInv, ReplyInv
<1>4. q \in Seq(Nat) /\ Len(q) = 2 /\ q[1] = 2 * r + 1 /\ q[2] = 2 * r + 2
  BY <1>1
<1> HIDE DEF q
<1>5. x \in Seq(Nat) /\ Len(x) = Len(d) + 2
  <2> HIDE DEF d
  <2>1. x \in Seq(Nat) /\ Len(x) = Len(d) + Len(q)
    BY <1>1, <1>4, ConcatProperties
  <2> QED
    BY <1>4, <2>1
<1>6. Run(q, 2 * r)
  <2>1. \A j \in 1..Len(q) : j = 1 \/ j = 2
    BY <1>4
  <2> QED
    BY <1>4, <2>1 DEF Run
<1>7. ASSUME running, c.reading
      PROVE  /\ Run(c.rest, 2 * Len(dl)) /\ Run(x, 2 * Len(dl) + Len(c.rest))
             /\ 2 * Len(dl) + Len(c.rest) + Len(x) = 2 * m
  <2> DEFINE g == Len(dl)
             h == Len(c.rest)
             z == Len(d)
             y == 2 * g + h
  <2>0. Run(c.rest, 2 * g) /\ Run(d, y) /\ y + z = 2 * r
    <3> HIDE DEF c, d, r, dl
    <3> QED
      BY <1>1, <1>7 DEF DownStream
  <2>1. g \in Nat /\ h \in Nat /\ z \in Nat
    BY <1>1
  <2> HIDE DEF c, d, r, dl, g, h, z
  <2>2. Run(c.rest, 2 * g) /\ Run(d, y) /\ y + z = 2 * r /\ y \in Nat
    <3>1. y \in Nat
      BY <2>1
    <3> QED
      BY <2>0, <3>1
  <2>3. y + Len(x) = 2 * m
    <3>1. Len(x) = z + 2 /\ r \in Nat
      BY <1>1, <1>5 DEF z
    <3> HIDE DEF x, y
    <3> QED
      BY <2>1, <2>2, <3>1
  <2>4. Run(x, y)
    <3> HIDE DEF y
    <3>1. Run(q, y + Len(d))
      BY <1>6, <2>2 DEF z
    <3> QED
      BY <1>1, <1>4, <2>2, <3>1, RunOn
  <2> QED
    BY <2>2, <2>3, <2>4 DEF g, h
<1>8. Len(dl) <= r /\ Fate(dl, 0)
  BY <1>1 DEF DownStream
<1>9. Len(dl) <= m
  BY <1>1, <1>8
<1> HIDE DEF x, m, c, d, r, dl
<1>10. DownStream(running', c, x, m, dl)
  BY <1>2, <1>3, <1>7, <1>8, <1>9 DEF DownStream
<1> QED
  BY <1>1, <1>3, <1>10, OneDown

\* out_recv: whatever part of the pieces a read takes, the loop delivers the
\* next replies and keeps the pieces of one that is not whole yet.
LEMMA OutRecvDown ==
  ASSUME ForwardInv, ReplyInv, NEW n \in Num, OutRecv(n)
  PROVE  ReplyInv'
<1> DEFINE c == ses[n]
           d == down[n]
           r == replied[n]
           dl == delivered[n]
           g == Len(dl)
           v == Len(c.rest)
           z == Len(d)
           y == 2 * g + v
<1>1. /\ d \in Seq(Nat) /\ r \in Nat /\ dl \in Seq(Nat) /\ c \in Session /\ Fit(c)
      /\ running /\ c.reading /\ DownStream(running, c, d, r, dl)
      /\ c.rest \in Seq(Nat) /\ g \in Nat /\ v \in Nat /\ z \in Nat
      /\ replied' = replied
  <2>1. running /\ c.reading /\ replied' = replied
    BY DEF OutRecv
  <2>2. /\ d \in Seq(Nat) /\ r \in Nat /\ dl \in Seq(Nat) /\ c \in Session /\ Fit(c)
        /\ DownStream(running, c, d, r, dl)
    BY DEF ForwardInv, ReplyInv
  <2>3. c.rest \in Seq(Nat)
    BY <2>2, Fields
  <2>4. g \in Nat /\ v \in Nat /\ z \in Nat
    BY <2>2, <2>3
  <2> HIDE DEF c, d, r, dl, g, v, z
  <2> QED
    BY <2>1, <2>2, <2>3, <2>4
<1>2. /\ Run(c.rest, 2 * g) /\ Run(d, y) /\ y + z = 2 * r /\ y \in Nat
      /\ g <= r /\ Fate(dl, 0)
      /\ ~(c.status = "unborn" \/ c.starting \/ c.connecting)
  <2>1. Run(c.rest, 2 * g) /\ Run(d, y) /\ y + z = 2 * r /\ g <= r /\ Fate(dl, 0)
    <3> HIDE DEF c, d, r, dl
    <3> QED
      BY <1>1 DEF DownStream
  <2> HIDE DEF c, d, r, dl, g, v, z
  <2>2. y \in Nat
    BY <1>1
  <2>3. ~(c.status = "unborn" \/ c.starting \/ c.connecting)
    BY <1>1 DEF DownStream
  <2> QED
    BY <2>1, <2>2, <2>3
<1>3. PICK k \in 1..Len(down[n]) :
        LET b == c.rest \o SubSeq(down[n], 1, k) IN
        /\ down' = [down EXCEPT ![n] = SubSeq(down[n], k + 1, Len(down[n]))]
        /\ \E m \in 0..Whole(b) : \E lost \in SUBSET (1..m) :
             /\ delivered' = [delivered EXCEPT ![n] = dl \o Given(b, m, lost)]
             /\ \/ /\ ses' = [ses EXCEPT ![n] = [c EXCEPT !.rest = Rest(b)]]
                   /\ m = Whole(b) /\ running' = running
                \/ /\ ses' = [ses EXCEPT ![n] = [Destroyed(c) EXCEPT !.reading = FALSE]]
                   /\ running' = running
                \/ running' = FALSE /\ ses' = ses
                \/ /\ ses' = [ses EXCEPT ![n] = [c EXCEPT !.reading = FALSE]]
                   /\ running' = running
  BY DEF OutRecv, Set
<1> DEFINE h == SubSeq(d, 1, k)
           t == SubSeq(d, k + 1, Len(d))
           b == c.rest \o h
           m == Whole(b)
           e == Rest(b)
<1>3a. PICK u \in 0..m : \E lost \in SUBSET (1..u) :
             /\ delivered' = [delivered EXCEPT ![n] = dl \o Given(b, u, lost)]
             /\ \/ /\ ses' = [ses EXCEPT ![n] = [c EXCEPT !.rest = e]]
                   /\ u = m /\ running' = running
                \/ /\ ses' = [ses EXCEPT ![n] = [Destroyed(c) EXCEPT !.reading = FALSE]]
                   /\ running' = running
                \/ running' = FALSE /\ ses' = ses
                \/ /\ ses' = [ses EXCEPT ![n] = [c EXCEPT !.reading = FALSE]]
                   /\ running' = running
  BY <1>3
<1>3b. PICK lost \in SUBSET (1..u) :
             /\ delivered' = [delivered EXCEPT ![n] = dl \o Given(b, u, lost)]
             /\ \/ /\ ses' = [ses EXCEPT ![n] = [c EXCEPT !.rest = e]]
                   /\ u = m /\ running' = running
                \/ /\ ses' = [ses EXCEPT ![n] = [Destroyed(c) EXCEPT !.reading = FALSE]]
                   /\ running' = running
                \/ running' = FALSE /\ ses' = ses
                \/ /\ ses' = [ses EXCEPT ![n] = [c EXCEPT !.reading = FALSE]]
                   /\ running' = running
  BY <1>3a
<1> DEFINE p == Given(b, u, lost)
           f == dl \o p
<1>4. /\ h \in Seq(Nat) /\ Len(h) = k /\ Run(h, y)
      /\ t \in Seq(Nat) /\ Len(t) = z - k /\ Run(t, y + k) /\ k \in Nat
  <2>1. k \in 1..Len(d) /\ k \in Nat
    BY <1>1
  <2> HIDE DEF d, y
  <2> QED
    BY <1>1, <1>2, <2>1, RunCut DEF z
<1>5. down' = [down EXCEPT ![n] = t] /\ replied' = [replied EXCEPT ![n] = r]
  BY <1>1, <1>3 DEF ForwardInv
<1> HIDE DEF h, t
<1>6. b \in Seq(Nat) /\ Len(b) = v + k
  <2> DEFINE q == c.rest
  <2>1. q \in Seq(Nat)
    BY <1>1
  <2> HIDE DEF q
  <2>2. q \o h \in Seq(Nat) /\ Len(q \o h) = Len(q) + k
    BY <1>4, <2>1, ConcatProperties
  <2> QED
    BY <2>2 DEF q
<1>7. Run(b, 2 * g)
  <2> DEFINE q == c.rest
             o == 2 * g
  <2>0. q \in Seq(Nat) /\ Run(q, o) /\ Run(h, o + Len(q))
    BY <1>1, <1>2, <1>4
  <2>3. g \in Nat
    BY <1>1
  <2>4. o \in Nat
    <3> HIDE DEF g
    <3> QED
      BY <2>3
  <2>1. q \in Seq(Nat) /\ o \in Nat /\ Run(q, o) /\ Run(h, o + Len(q))
    BY <2>0, <2>4
  <2> HIDE DEF q, o, g
  <2>2. Run(q \o h, o)
    BY <1>4, <2>1, RunOn
  <2> QED
    BY <2>2 DEF q, o
<1> HIDE DEF b
<1>8. /\ m \in Nat /\ 2 * m <= Len(b) /\ p \in Seq(Nat) /\ Len(p) = u /\ Fate(p, g)
      /\ e \in Seq(Nat) /\ Len(e) = Len(b) - 2 * m /\ Run(e, 2 * (g + m))
  <2>1. g \in Nat
    BY <1>1
  <2>2. u \in 0..Whole(b)
    OBVIOUS
  <2>3. /\ Whole(b) \in Nat /\ 2 * Whole(b) <= Len(b)
        /\ \A j \in 0..Whole(b) : \A l : /\ Given(b, j, l) \in Seq(Nat)
                                         /\ Len(Given(b, j, l)) = j /\ Fate(Given(b, j, l), g)
        /\ Rest(b) \in Seq(Nat) /\ Len(Rest(b)) = Len(b) - 2 * Whole(b)
        /\ Run(Rest(b), 2 * (g + Whole(b)))
    <3> HIDE DEF g
    <3> QED
      BY <1>6, <1>7, <2>1, LoopTakes
  <2> HIDE DEF g
  <2> QED
    BY <2>2, <2>3
<1> HIDE DEF m, p, e
<1>9. f \in Seq(Nat) /\ Len(f) = g + u /\ u \in Nat
  <2>1. u \in Nat
    BY <1>8
  <2>2. dl \in Seq(Nat) /\ p \in Seq(Nat) /\ Len(p) = u
    BY <1>1, <1>8
  <2> HIDE DEF dl
  <2>3. f \in Seq(Nat) /\ Len(f) = Len(dl) + Len(p)
    BY <2>2, ConcatProperties
  <2> QED
    BY <2>1, <2>2, <2>3
<1>10. Fate(f, 0)
  <2>1. Fate(p, Len(dl))
    BY <1>8
  <2> HIDE DEF g
  <2> QED
    BY <1>1, <1>2, <1>8, <2>1, FateOn
<1>11. g + m <= r /\ Len(f) <= r
  <2> HIDE DEF f, g, v, z, r, d, c, dl
  <2>1. 2 * g + v + z = 2 * r /\ k <= z
    BY <1>1, <1>2, <1>4
  <2>2. 2 * m <= v + k
    BY <1>6, <1>8
  <2>3. g + m <= r
    BY <1>1, <1>4, <1>8, <2>1, <2>2
  <2> QED
    BY <1>1, <1>8, <1>9, <2>3
<1>12. delivered' = [delivered EXCEPT ![n] = f]
  BY <1>3b DEF p
<1>13. CASE ses' = [ses EXCEPT ![n] = [c EXCEPT !.rest = e]] /\ u = m /\ running' = running
  <2> DEFINE s == [c EXCEPT !.rest = e]
  <2>1. 2 * Len(f) + Len(e) + Len(t) = 2 * r
    <3> HIDE DEF f, g, v, z, r, d, c, dl
    <3>1. Len(f) = g + m /\ Len(e) = v + k - 2 * m /\ Len(t) = z - k
      <4>1. u = m
        BY <1>13
      <4>2. Len(f) = g + u /\ Len(b) = v + k
        BY <1>6, <1>9
      <4>3. Len(e) = Len(b) - 2 * m
        BY <1>8
      <4>4. Len(t) = z - k
        BY <1>4
      <4>5. g \in Nat /\ m \in Nat /\ v \in Nat /\ k \in Nat /\ z \in Nat
        BY <1>1, <1>4, <1>8
      <4> QED
        BY <4>1, <4>2, <4>3, <4>4, <4>5
    <3>2. 2 * g + v + z = 2 * r
      BY <1>2
    <3>3. g \in Nat /\ m \in Nat /\ v \in Nat /\ k \in Nat /\ z \in Nat /\ r \in Nat
      BY <1>1, <1>4, <1>8
    <3> QED
      BY <3>1, <3>2, <3>3
  <2>2. Run(t, 2 * Len(f) + Len(e)) /\ Run(e, 2 * Len(f))
    <3>1. y + k = 2 * Len(f) + Len(e) /\ 2 * (g + m) = 2 * Len(f)
      <4>1. /\ g \in Nat /\ v \in Nat /\ k \in Nat /\ m \in Nat /\ Len(b) = v + k
            /\ Len(e) = Len(b) - 2 * m /\ Len(f) = g + m
        BY <1>1, <1>4, <1>6, <1>8, <1>9, <1>13
      <4> HIDE DEF f, g, v, c, dl
      <4> QED
        BY <4>1
    <3> HIDE DEF f, g, y
    <3> QED
      BY <1>4, <1>8, <3>1
  <2>3. /\ s.rest = e /\ s.reading = c.reading /\ s.status = c.status
        /\ s.starting = c.starting /\ s.connecting = c.connecting
    BY <1>1 DEF Session
  <2>4. ses' = [ses EXCEPT ![n] = s]
    BY <1>13
  <2> HIDE DEF f, g, y, s
  <2>5. DownStream(running', s, t, r, f)
    BY <1>2, <1>10, <1>11, <2>1, <2>2, <2>3 DEF DownStream
  <2> HIDE DEF r, dl, d, c
  <2> QED
    BY <1>5, <1>9, <1>12, <1>13, <2>4, <2>5, OneDown
<1>14. ASSUME NEW s, ses' = [ses EXCEPT ![n] = s],
              running' => running /\ ~s.reading,
              ~(s.status = "unborn" \/ s.starting \/ s.connecting)
       PROVE  ReplyInv'
  <2> HIDE DEF r, dl, d, f
  <2>1. DownStream(running', s, t, r, f)
    BY <1>10, <1>11, <1>14 DEF DownStream
  <2> QED
    BY <1>5, <1>9, <1>12, <1>14, <2>1, OneDown
<1>15. CASE /\ ses' = [ses EXCEPT ![n] = [Destroyed(c) EXCEPT !.reading = FALSE]]
            /\ running' = running
  <2> DEFINE s == [Destroyed(c) EXCEPT !.reading = FALSE]
  <2>1. ~s.reading /\ s.status = "DESTROY" /\ s.starting = c.starting /\ s.connecting = c.connecting
    BY <1>1 DEF Destroyed, Session
  <2> HIDE DEF s
  <2> QED
    BY <1>2, <1>14, <1>15, <2>1 DEF s
<1>16. CASE running' = FALSE /\ ses' = ses
  <2>1. ses' = [ses EXCEPT ![n] = c]
    BY <1>16 DEF ForwardInv
  <2> HIDE DEF c
  <2> QED
    BY <1>2, <1>14, <1>16, <2>1
<1>17. CASE ses' = [ses EXCEPT ![n] = [c EXCEPT !.reading = FALSE]] /\ running' = running
  <2> DEFINE s == [c EXCEPT !.reading = FALSE]
  <2>1. ~s.reading /\ s.status = c.status /\ s.starting = c.starting /\ s.connecting = c.connecting
    BY <1>1 DEF Session
  <2> HIDE DEF s
  <2> QED
    BY <1>2, <1>14, <1>17, <2>1 DEF s
<1> QED
  BY <1>3b, <1>13, <1>15, <1>16, <1>17

\* No reply exists at first.
LEMMA ReplyInvInit ==
  ASSUME Init
  PROVE  ReplyInv
<1> DEFINE z == <<>>
<1>1. z \in Seq(Nat) /\ Len(z) = 0
  OBVIOUS
<1>2. /\ ses = [n \in Num |-> Unborn] /\ down = [n \in Num |-> z]
      /\ replied = [n \in Num |-> 0] /\ delivered = [n \in Num |-> z]
  BY DEF Init
<1>3. Unborn.rest = z /\ ~Unborn.reading
  BY DEF Unborn, NewSession
<1> HIDE DEF z
<1>4. Fate(z, 0)
  BY <1>1 DEF Fate
<1>5. DownStream(running, Unborn, z, 0, z)
  BY <1>1, <1>3, <1>4 DEF DownStream, z
<1> QED
  BY <1>1, <1>2, <1>5 DEF ReplyInv

\* The invariant about the replies holds in every reachable state.
LEMMA Replying == Spec => []ReplyInv
<1>1. Init => ReplyInv
  BY ReplyInvInit
<1>2. ForwardInv /\ OrderInv /\ ReplyInv /\ [Next]_vars => ReplyInv'
  <2> SUFFICES ASSUME ForwardInv, OrderInv, ReplyInv, [Next]_vars PROVE ReplyInv'
    OBVIOUS
  <2>1. CASE \E e \in Endpoints : Packet(e)
    BY <2>1, PacketDown
  <2>2. CASE NoTarget
    BY <2>2 DEF NoTarget, ReplyInv, replies
  <2>3. CASE ReceiveError
    <3>1. ASSUME NEW n \in Num
          PROVE  DownStream(running', ses[n], down[n], replied[n], delivered[n])
      <4>1. DownStream(running, ses[n], down[n], replied[n], delivered[n]) /\ running' = FALSE
        BY <2>3 DEF ReplyInv, ReceiveError
      <4> QED
        BY <4>1 DEF DownStream
    <3> QED
      BY <2>3, <3>1 DEF ReceiveError, ReplyInv, replies
  <2>4. CASE \E n \in Num : Step(n)
    BY <2>4, OpenDown, EndDown, ReplyDown, OutRecvDown DEF Step
  <2>5. CASE UNCHANGED vars
    BY <2>5 DEF vars, ReplyInv
  <2> QED
    BY <2>1, <2>2, <2>3, <2>4, <2>5 DEF Next
<1> QED
  BY <1>1, <1>2, Forwarding, Ordering, PTL DEF Spec

\* For any number of replies, any places where the reads of the TLS connection
\* cut them and any replies the system refuses to send: the k-th reply a session
\* takes is the k-th one sent, and its endpoint gets it or it is lost.
THEOREM RepliesWhole == Spec => []RepliesInOrder
<1>1. ForwardInv /\ ReplyInv => RepliesInOrder
  <2> SUFFICES ASSUME ForwardInv, ReplyInv, NEW n \in Num
               PROVE  /\ Len(delivered[n]) <= replied[n]
                      /\ \A k \in 1..Len(delivered[n]) : delivered[n][k] \in {k, Lost}
    BY DEF RepliesInOrder
  <2>1. Len(delivered[n]) <= replied[n] /\ Fate(delivered[n], 0)
    BY DEF ReplyInv, DownStream
  <2> QED
    BY <2>1 DEF Fate
<1> QED
  BY <1>1, Forwarding, Replying, PTL
=============================================================================
