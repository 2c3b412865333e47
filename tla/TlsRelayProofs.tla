--------------------------- MODULE TlsRelayProofs ---------------------------
(***************************************************************************)
(* Theorems of TlsRelay, for any amount of data and any length of the      *)
(* password line: who may reach a target, how often what a user used is    *)
(* recorded, which operations are never begun twice, that the two streams  *)
(* arrive whole and in order, and that a session the target closes leaves  *)
(* nothing behind.                                                         *)
(***************************************************************************)
EXTENDS TlsRelay, SequenceTheorems, TLAPS

(* The invariant of the server session s.  A destroyed session may still end *)
(* a resolution, send the datagram and read, or end a dial, which it does    *)
(* once: only that can make it record its usage again.                       *)
Late == {"resolve", "dial", "udp_read", "udp_write"}
SrvFields == {"status", "ops", "clash", "data", "outBuf", "udpBuf", "peer",
              "user", "udpOpen", "recorded", "toTarget", "cause", "late"}
Authentic(s) ==
  (s.peer = "requested" \/ s.status = "UDP_FORWARD") =>
     setup.cred = "listed" \/ (setup.cred = "user" /\ s.user)
Accounted(s) ==
  /\ s.recorded = IF s.user /\ s.status = "DESTROY"
                  THEN IF s.late THEN 2 ELSE 1
                  ELSE 0
  /\ s.late => s.status = "DESTROY" /\ "dial" \notin s.ops
SrvOK(s) ==
  /\ DOMAIN s = SrvFields
  /\ s.status \in {"NONE", "HANDSHAKE", "FORWARD", "UDP_FORWARD", "DESTROY"}
  /\ Authentic(s)
  /\ Accounted(s)
  /\ s.status = "NONE" => s.ops = {}
  /\ s.status = "DESTROY" => s.ops \subseteq Late

(* How the three sessions follow each other: before the client is connected, *)
(* or while it may still connect after destroy, there is no server session   *)
(* and no front, and while the front still waits for the password there is   *)
(* no server session.                                                        *)
Early == {"HANDSHAKE", "REQUEST", "CONNECT", "INVALID"}
CsFields == {"status", "ops", "clash", "data", "udpBuf", "late", "toApp", "cause"}
FrontFields == {"status", "ops", "timer", "socket", "buf"}
Starting(c) == c.status \in Early \/ "dial" \in c.ops
Phases ==
  /\ DOMAIN cs = CsFields /\ DOMAIN front = FrontFields
  /\ Starting(cs) => srv.status = "NONE" /\ front.ops = {}
  /\ "dial" \in cs.ops => cs.status \in {"CONNECT", "DESTROY"}
  /\ front.ops # {} => srv.status = "NONE"

IInv == SrvOK(srv) /\ Phases

-----------------------------------------------------------------------------
(* What the functions on a session do to the fields that matter.             *)

\* Begin and Done leave all but the set of operations as it is.
LEMMA BeginFacts ==
  ASSUME NEW s, NEW op, {"ops", "clash"} \subseteq DOMAIN s
  PROVE  /\ DOMAIN Begin(s, op) = DOMAIN s
         /\ Begin(s, op).ops = s.ops \cup {op}
         /\ \A f \in DOMAIN s : f \notin {"ops", "clash"} => Begin(s, op)[f] = s[f]
  BY DEF Begin

\* The end of an operation removes it and leaves the rest of the record.
LEMMA DoneFacts ==
  ASSUME NEW s, NEW op, "ops" \in DOMAIN s
  PROVE  /\ DOMAIN Done(s, op) = DOMAIN s
         /\ Done(s, op).ops = s.ops \ {op}
         /\ \A f \in DOMAIN s : f # "ops" => Done(s, op)[f] = s[f]
  BY DEF Done

\* t is s but for its operations, its buffers and its history.
Same(s, t) ==
  /\ DOMAIN t = SrvFields
  /\ t.status = s.status /\ t.peer = s.peer
  /\ t.user = s.user /\ t.recorded = s.recorded /\ t.late = s.late

\* Being the same session but for operations and buffers composes.
LEMMA SameTransitive ==
  ASSUME NEW s, NEW t, NEW u, Same(s, t), Same(t, u)
  PROVE  Same(s, u)
  BY DEF Same

\* Beginning an operation leaves the session the same.
LEMMA BeginSame ==
  ASSUME NEW s, NEW op, DOMAIN s = SrvFields
  PROVE  Same(s, Begin(s, op)) /\ Begin(s, op).ops = s.ops \cup {op}
  BY BeginFacts DEF Same, SrvFields

\* Ending an operation leaves the session the same.
LEMMA DoneSame ==
  ASSUME NEW s, NEW op, DOMAIN s = SrvFields
  PROVE  Same(s, Done(s, op)) /\ Done(s, op).ops = s.ops \ {op}
  BY DoneFacts DEF Same, SrvFields

\* Such a session keeps the invariant, and the phases with it.
LEMMA SameSession ==
  ASSUME NEW s, NEW t, SrvOK(s), Same(s, t), s.status # "NONE",
         s.status = "DESTROY" => t.ops \subseteq s.ops \cup {"udp_read", "udp_write"}
  PROVE  SrvOK(t)
  BY DEF SrvOK, Same, Authentic, Accounted, Late

\* Sending a datagram begins at most a read and a write of the UDP socket.
LEMMA SendUdpSame ==
  ASSUME NEW s, DOMAIN s = SrvFields
  PROVE  /\ Same(s, SendUdp(s))
         /\ SendUdp(s).ops \subseteq s.ops \cup {"udp_read", "udp_write"}
<1> DEFINE a == [s EXCEPT !.udpOpen = TRUE]
           b == IF s.udpOpen THEN s ELSE Begin(a, "udp_read")
           c == [b EXCEPT !.toTarget = @ \o SubSeq(s.udpBuf, 1, 2),
                          !.udpBuf = SubSeq(@, 3, Len(@))]
<1>1. Same(s, a) /\ a.ops = s.ops
  BY DEF Same, SrvFields
<1>2. DOMAIN a = SrvFields
  BY <1>1 DEF Same
<1>3. Same(a, Begin(a, "udp_read")) /\ Begin(a, "udp_read").ops = a.ops \cup {"udp_read"}
  BY <1>2, BeginSame
<1>4. Same(s, s)
  BY DEF Same
<1>5. Same(s, b) /\ b.ops \subseteq s.ops \cup {"udp_read"}
  <2> HIDE DEF a
  <2>1. CASE s.udpOpen
    BY <2>1, <1>4
  <2>2. CASE ~s.udpOpen
    BY <2>2, <1>1, <1>3, SameTransitive
  <2> QED BY <2>1, <2>2
<1>6. Same(b, c) /\ c.ops = b.ops
  <2> HIDE DEF b
  <2> QED BY <1>5 DEF Same, SrvFields
<1>7. DOMAIN c = SrvFields
  BY <1>6 DEF Same
<1>8. Same(c, Begin(c, "udp_write")) /\ Begin(c, "udp_write").ops = c.ops \cup {"udp_write"}
  <2> HIDE DEF c
  <2> QED BY <1>7, BeginSame
<1>9. SendUdp(s) = Begin(c, "udp_write")
  BY DEF SendUdp
<1> HIDE DEF b, c
<1> QED BY <1>5, <1>6, <1>8, <1>9, SameTransitive

\* out_udp_sent leaves status, peer, user and record as they are.
LEMMA OutUdpSentSame ==
  ASSUME NEW s, NEW resolve, DOMAIN s = SrvFields
  PROVE  Same(s, OutUdpSent(s, resolve))
  BY BeginSame, SendUdpSame DEF OutUdpSent

\* The first data of a connection: only a known password leads to a target.
LEMMA FirstRecvOK ==
  ASSUME NEW s, NEW data, NEW quota, NEW resolve,
         DOMAIN s = SrvFields, s.status = "HANDSHAKE", s.recorded = 0, ~s.late
  PROVE  SrvOK(FirstRecv(s, data, quota, resolve))
<1> DEFINE t == [s EXCEPT !.user = Auth(quota)]
           known == setup.cred = "listed" \/ t.user
           a == [t EXCEPT !.outBuf = data, !.peer = "fallback"]
           b == [t EXCEPT !.status = "UDP_FORWARD", !.udpBuf = Tail(data)]
           c == [t EXCEPT !.outBuf = Tail(data), !.peer = "requested"]
<1>1. /\ DOMAIN t = SrvFields /\ t.status = "HANDSHAKE" /\ t.recorded = 0
      /\ ~t.late
      /\ t.user <=> (setup.cred = "user" /\ quota)
  BY DEF SrvFields, Auth
<1> HIDE DEF t
<1>2. /\ DOMAIN a = SrvFields /\ a.status = "HANDSHAKE" /\ a.recorded = 0
      /\ a.peer = "fallback" /\ ~a.late
  BY <1>1 DEF SrvFields
<1>3. /\ DOMAIN b = SrvFields /\ b.status = "UDP_FORWARD" /\ b.recorded = 0
      /\ b.user = t.user /\ ~b.late
  BY <1>1 DEF SrvFields
<1>4. /\ DOMAIN c = SrvFields /\ c.status = "HANDSHAKE" /\ c.recorded = 0
      /\ c.user = t.user /\ ~c.late
  BY <1>1 DEF SrvFields
<1> HIDE DEF a, b, c
<1>5. CASE ~known
  <2>1. FirstRecv(s, data, quota, resolve) = Begin(a, "dial")
    BY <1>5 DEF FirstRecv, t, a
  <2>2. SrvOK(Begin(a, "dial"))
    BY <1>2, BeginSame DEF SrvOK, Same, Authentic, Accounted
  <2> QED BY <2>1, <2>2
<1>6. CASE known /\ setup.kind = "udp"
  <2>1. FirstRecv(s, data, quota, resolve) = OutUdpSent(b, resolve)
    BY <1>6 DEF FirstRecv, t, b
  <2>2. setup.cred = "listed" \/ (setup.cred = "user" /\ b.user)
    BY <1>1, <1>3, <1>6
  <2>3. SrvOK(OutUdpSent(b, resolve))
    BY <1>3, <2>2, OutUdpSentSame DEF SrvOK, Same, Authentic, Accounted
  <2> QED BY <2>1, <2>3
<1>7. CASE known /\ setup.kind # "udp"
  <2>1. FirstRecv(s, data, quota, resolve) = Begin(c, "dial")
    BY <1>7 DEF FirstRecv, t, c
  <2>2. setup.cred = "listed" \/ (setup.cred = "user" /\ c.user)
    BY <1>1, <1>4, <1>7
  <2>3. SrvOK(Begin(c, "dial"))
    BY <1>4, <2>2, BeginSame DEF SrvOK, Same, Authentic, Accounted
  <2> QED BY <2>1, <2>3
<1> QED BY <1>5, <1>6, <1>7

\* destroy ends the session, records once and does nothing the second time.
LEMMA DestroyOK ==
  ASSUME NEW s, NEW why, SrvOK(s), s.status # "NONE", ServerDestroy(s, why)
  PROVE  SrvOK(srv') /\ srv'.status = "DESTROY"
<1>1. CASE s.status = "DESTROY"
  BY <1>1 DEF ServerDestroy
<1>2. CASE s.status # "DESTROY"
  <2>1. srv' = ServerDestroyed(s, why)
    BY <1>2 DEF ServerDestroy
  <2>2. /\ DOMAIN srv' = SrvFields /\ srv'.status = "DESTROY"
        /\ srv'.ops \subseteq Late /\ srv'.peer = s.peer /\ srv'.user = s.user
        /\ srv'.recorded = IF s.user THEN s.recorded + 1 ELSE s.recorded
        /\ srv'.late = s.late
    BY <2>1 DEF ServerDestroyed, SrvOK, SrvFields, Late
  <2> QED BY <1>2, <2>2 DEF SrvOK, Authentic, Accounted
<1> QED BY <1>1, <1>2
-----------------------------------------------------------------------------
(* The steps of the client.                                                  *)

\* The invariant holds when the client session has just been accepted.
LEMMA InitOK == Init => IInv
<1> SUFFICES ASSUME Init PROVE IInv
  OBVIOUS
<1>1. DOMAIN srv = SrvFields /\ DOMAIN cs = CsFields /\ DOMAIN front = FrontFields
  BY Zenon DEF Init, SrvFields, CsFields, FrontFields
<1>2. /\ srv.status = "NONE" /\ srv.ops = {} /\ srv.peer = "none"
      /\ srv.recorded = 0 /\ front.ops = {} /\ ~srv.late
  BY DEF Init
<1>3. "dial" \in cs.ops => cs.status = "CONNECT"
  BY DEF Init
<1> QED BY <1>1, <1>2, <1>3 DEF IInv, SrvOK, Authentic, Accounted, Phases, Starting

\* A step that leaves the server and the front alone keeps the invariant if
\* the client does not go back to an early status.
LEMMA ClientStep ==
  ASSUME IInv, UNCHANGED <<setup, srv, front>>, DOMAIN cs' = CsFields,
         Starting(cs') => Starting(cs),
         "dial" \in cs'.ops => cs'.status \in {"CONNECT", "DESTROY"}
  PROVE  IInv'
  BY DEF IInv, SrvOK, Authentic, Accounted, Phases, Starting

\* ClientSession::destroy leaves the server as it is.
LEMMA ClientDestroyOK ==
  ASSUME IInv, NEW c, NEW why, DOMAIN c = CsFields, c.ops \subseteq cs.ops,
         ClientDestroy(c, why), UNCHANGED <<setup, srv, front>>
  PROVE  IInv'
<1>1. DOMAIN cs' = CsFields /\ cs'.status = "DESTROY" /\ cs'.ops \subseteq c.ops
  BY DEF ClientDestroy, CsFields
<1> QED BY <1>1, ClientStep DEF Early, Starting

\* The same record with other operations and data.
LEMMA ClientSame ==
  ASSUME NEW c, NEW op, DOMAIN c = CsFields
  PROVE  /\ DOMAIN Begin(c, op) = CsFields /\ DOMAIN Done(c, op) = CsFields
         /\ Begin(c, op).status = c.status /\ Done(c, op).status = c.status
         /\ Begin(c, op).ops = c.ops \cup {op} /\ Done(c, op).ops = c.ops \ {op}
  BY BeginFacts, DoneFacts DEF CsFields

\* udp_sent of the client does not change its status.
LEMMA UdpSentSame ==
  ASSUME NEW c, DOMAIN c = CsFields
  PROVE  /\ DOMAIN UdpSent(c) = CsFields /\ UdpSent(c).status = c.status
         /\ UdpSent(c).ops \subseteq c.ops \cup {"udp_write", "out_read"}
<1> DEFINE d == [c EXCEPT !.data = SubSeq(c.udpBuf, 1, 2),
                          !.udpBuf = SubSeq(@, 3, Len(@))]
<1>1. DOMAIN d = CsFields /\ d.status = c.status /\ d.ops = c.ops
  BY DEF CsFields
<1> HIDE DEF d
<1>2. UdpSent(c) = Begin(d, "udp_write") \/ UdpSent(c) = Begin(c, "out_read")
  BY DEF UdpSent, d
<1> QED BY <1>1, <1>2, ClientSame

\* The SOCKS5 exchange happens before there is a session at the server.
LEMMA SocksRecvOK == ASSUME IInv, SocksRecv PROVE IInv'
<1> DEFINE c == Done(cs, "in_read")
           d == [c EXCEPT !.status = "INVALID"]
<1>1. DOMAIN cs = CsFields /\ ("dial" \in cs.ops => cs.status \in {"CONNECT", "DESTROY"})
  BY DEF IInv, Phases
<1>2. DOMAIN c = CsFields /\ c.status = cs.status /\ c.ops = cs.ops \ {"in_read"}
  BY <1>1, ClientSame
<1> HIDE DEF c
<1>3. DOMAIN d = CsFields /\ d.status = "INVALID" /\ d.ops = c.ops
  BY <1>2 DEF CsFields
<1> HIDE DEF d
<1>4. cs.status \in {"HANDSHAKE", "REQUEST"} /\ UNCHANGED <<setup, srv, front>>
  BY DEF SocksRecv
<1>5. CASE cs' = Begin(c, "in_write")
  BY <1>1, <1>2, <1>4, <1>5, ClientSame, ClientStep DEF Starting
<1>6. CASE cs' = Begin(d, "in_write")
  BY <1>1, <1>2, <1>3, <1>4, <1>6, ClientSame, ClientStep DEF Early, Starting
<1>7. CASE ClientDestroy(c, "error")
  BY <1>2, <1>4, <1>7, ClientDestroyOK
<1> QED BY <1>5, <1>6, <1>7 DEF SocksRecv, c, d

\* in_sent of the client leaves the server as it is.
LEMMA ClientInSentOK == ASSUME IInv, ClientInSent PROVE IInv'
<1> DEFINE c == [Done(cs, "in_write") EXCEPT !.toApp = @ \o cs.data]
           d == [c EXCEPT !.status = "REQUEST"]
           e == [c EXCEPT !.status = "CONNECT"]
<1>1. DOMAIN cs = CsFields /\ ("dial" \in cs.ops => cs.status \in {"CONNECT", "DESTROY"})
  BY DEF IInv, Phases
<1>2. DOMAIN c = CsFields /\ c.status = cs.status /\ c.ops = cs.ops \ {"in_write"}
  BY <1>1, ClientSame DEF CsFields
<1> HIDE DEF c
<1>3. /\ DOMAIN d = CsFields /\ d.status = "REQUEST" /\ d.ops = c.ops
      /\ DOMAIN e = CsFields /\ e.status = "CONNECT" /\ e.ops = c.ops
  BY <1>2 DEF CsFields
<1> HIDE DEF d, e
<1>4. UNCHANGED <<setup, srv, front>>
  BY DEF ClientInSent
<1>5. CASE cs.status = "HANDSHAKE" /\ cs' = Begin(d, "in_read")
  BY <1>1, <1>2, <1>3, <1>4, <1>5, ClientSame, ClientStep DEF Early, Starting
<1>6. CASE cs.status = "REQUEST" /\ cs' = Begin(e, "dial")
  BY <1>1, <1>2, <1>3, <1>4, <1>6, ClientSame, ClientStep DEF Early, Starting
<1>7. CASE cs.status = "FORWARD" /\ cs' = Begin(c, "out_read")
  BY <1>1, <1>2, <1>4, <1>7, ClientSame, ClientStep DEF Starting
<1>8. CASE ClientDestroy(c, "error")
  BY <1>2, <1>4, <1>8, ClientDestroyOK
<1> QED BY <1>5, <1>6, <1>7, <1>8 DEF ClientInSent, c, d, e

\* The connection is made: the client leaves the early statuses and the
\* server begins, as a session or as a front.
LEMMA ClientDialedOK == ASSUME IInv, ClientDialed PROVE IInv'
<1> DEFINE c == [Done(cs, "dial") EXCEPT
                   !.status = IF setup.kind = "udp" THEN "UDP_FORWARD" ELSE "FORWARD",
                   !.late = cs.status = "DESTROY"]
<1>1. /\ DOMAIN cs = CsFields /\ "dial" \in cs.ops
      /\ srv.status = "NONE" /\ front.ops = {} /\ DOMAIN front = FrontFields
      /\ UNCHANGED setup /\ SrvOK(srv)
  BY DEF IInv, Phases, Starting, ClientDialed
<1>2. /\ DOMAIN c = CsFields /\ c.status \in {"UDP_FORWARD", "FORWARD"}
      /\ c.ops = cs.ops \ {"dial"}
  BY <1>1, ClientSame DEF CsFields
<1>3. cs' = Begin(Begin(c, "out_read"), "out_write")
  BY DEF ClientDialed, RequestRemote
<1> HIDE DEF c
<1>4. /\ DOMAIN cs' = CsFields /\ ~Starting(cs')
      /\ "dial" \notin cs'.ops
  BY <1>2, <1>3, ClientSame DEF Early, Starting
<1>5. CASE setup.front = "ServerSession"
  <2>1. srv' = [srv EXCEPT !.status = "HANDSHAKE", !.ops = {"handshake"}]
        /\ UNCHANGED front
    BY <1>5 DEF ClientDialed, AsyncAccept
  <2>2. /\ DOMAIN srv' = SrvFields /\ srv'.status = "HANDSHAKE"
        /\ srv'.peer = srv.peer /\ srv'.user = srv.user
        /\ srv'.recorded = srv.recorded /\ srv'.late = srv.late
    BY <1>1, <2>1 DEF SrvOK, SrvFields
  <2>3. SrvOK(srv')
    BY <1>1, <2>2 DEF SrvOK, Authentic, Accounted
  <2> QED BY <1>1, <1>4, <2>1, <2>2, <2>3
          DEF IInv, Phases, Starting, SrvOK, Authentic, Accounted
<1>6. CASE setup.front # "ServerSession"
  <2>1. DOMAIN front' = FrontFields /\ UNCHANGED srv
    BY <1>1, <1>6 DEF ClientDialed, AsyncAccept, FrontFields
  <2> QED BY <1>1, <1>4, <2>1 DEF IInv, Phases, Starting, SrvOK, Authentic, Accounted
<1> QED BY <1>5, <1>6

\* A dial that fails ends the session, or nothing when it is destroyed.
LEMMA ClientDialFailedOK == ASSUME IInv, ClientDialFailed PROVE IInv'
<1> DEFINE c == Done(cs, "dial")
<1>1. /\ DOMAIN cs = CsFields /\ UNCHANGED <<setup, srv, front>>
      /\ \/ ClientDestroy(c, "error") \/ cs' = c
  BY DEF IInv, Phases, ClientDialFailed
<1>2. DOMAIN c = CsFields /\ c.status = cs.status /\ c.ops = cs.ops \ {"dial"}
  BY <1>1, ClientSame
<1> HIDE DEF c
<1>3. CASE ClientDestroy(c, "error")
  BY <1>1, <1>2, <1>3, ClientDestroyOK
<1>4. CASE cs' = c
  BY <1>1, <1>2, <1>4, ClientStep DEF Starting
<1> QED BY <1>1, <1>3, <1>4

\* The relaying steps of the client keep its status and begin no connection.
LEMMA ClientRelayOK ==
  ASSUME IInv, ClientInRecv \/ UdpRecv \/ ClientOutSent \/ ClientOutRecv
                 \/ ClientUdpSent \/ ClientEof \/ ClientError
  PROVE  IInv'
<1>1. DOMAIN cs = CsFields /\ ("dial" \in cs.ops => cs.status \in {"CONNECT", "DESTROY"})
  BY DEF IInv, Phases
<1>2. ASSUME NEW op PROVE
        /\ DOMAIN Done(cs, op) = CsFields /\ Done(cs, op).status = cs.status
        /\ Done(cs, op).ops = cs.ops \ {op}
  BY <1>1, ClientSame
<1>3. CASE ClientInRecv
  <2>1. cs' = Begin(Done(cs, "in_read"), "out_write") /\ UNCHANGED <<setup, srv, front>>
    BY <1>3 DEF ClientInRecv
  <2> QED BY <1>1, <1>2, <2>1, ClientSame, ClientStep DEF Starting
<1>4. CASE UdpRecv
  <2>1. UNCHANGED <<setup, srv, front>>
    BY <1>4 DEF UdpRecv
  <2>2. CASE cs' = Begin(Done(cs, "udp_read"), "out_write")
    BY <1>1, <1>2, <2>1, <2>2, ClientSame, ClientStep DEF Starting
  <2>3. CASE cs' = Done(cs, "udp_read")
    BY <1>1, <1>2, <2>1, <2>3, ClientStep DEF Starting
  <2>4. CASE ClientDestroy(Done(cs, "udp_read"), "error")
    BY <1>2, <2>1, <2>4, ClientDestroyOK
  <2> QED BY <1>4, <2>2, <2>3, <2>4 DEF UdpRecv
<1>5. CASE ClientOutSent
  <2>1. /\ UNCHANGED <<setup, srv, front>>
        /\ \/ cs' = Begin(Done(cs, "out_write"), "udp_read")
           \/ cs' = Begin(Done(cs, "out_write"), "in_read")
    BY <1>5 DEF ClientOutSent, OutSent
  <2> QED BY <1>1, <1>2, <2>1, ClientSame, ClientStep DEF Starting
<1>6. CASE ClientOutRecv
  <2> DEFINE c == Done(cs, "out_read")
             u(k) == [c EXCEPT !.udpBuf = @ \o Arrived("down", k)]
             d(k) == [c EXCEPT !.data = Arrived("down", k)]
  <2>1. PICK k \in 1..Len(link["down"]) :
          cs' = UdpSent(u(k)) \/ cs' = Begin(d(k), "in_write")
    BY <1>6 DEF ClientOutRecv
  <2>2. UNCHANGED <<setup, srv, front>>
    BY <1>6 DEF ClientOutRecv
  <2>3. DOMAIN c = CsFields /\ c.status = cs.status /\ c.ops = cs.ops \ {"out_read"}
    BY <1>2
  <2> HIDE DEF c
  <2>4. /\ DOMAIN u(k) = CsFields /\ u(k).status = c.status /\ u(k).ops = c.ops
        /\ DOMAIN d(k) = CsFields /\ d(k).status = c.status /\ d(k).ops = c.ops
    BY <2>3 DEF CsFields
  <2> HIDE DEF u, d
  <2> QED BY <1>1, <2>1, <2>2, <2>3, <2>4, ClientSame, UdpSentSame, ClientStep DEF Starting
<1>7. CASE ClientUdpSent
  <2> DEFINE c == Done(cs, "udp_write")
             u == [c EXCEPT !.toApp = @ \o cs.data]
  <2>1. cs' = UdpSent(u) /\ UNCHANGED <<setup, srv, front>>
    BY <1>7 DEF ClientUdpSent
  <2>2. DOMAIN c = CsFields /\ c.status = cs.status /\ c.ops = cs.ops \ {"udp_write"}
    BY <1>2
  <2> HIDE DEF c
  <2>3. DOMAIN u = CsFields /\ u.status = c.status /\ u.ops = c.ops
    BY <2>2 DEF CsFields
  <2> HIDE DEF u
  <2> QED BY <1>1, <2>1, <2>2, <2>3, UdpSentSame, ClientStep DEF Starting
<1>8. CASE ClientEof \/ ClientError
  BY <1>1, <1>8, ClientDestroyOK DEF ClientEof, ClientError
<1> QED BY <1>3, <1>4, <1>5, <1>6, <1>7, <1>8

-----------------------------------------------------------------------------
(* The steps of the server.                                                  *)

\* A step of a server session that has begun, with the client and the front
\* as they are, or with a front that begins nothing.
LEMMA ServerStep ==
  ASSUME IInv, srv.status # "NONE", UNCHANGED <<setup, cs>>,
         DOMAIN front' = FrontFields, front'.ops \subseteq front.ops,
         SrvOK(srv')
  PROVE  IInv'
  BY DEF IInv, SrvOK, Authentic, Accounted, Phases, Starting

\* A session with an operation under way has begun, and one with any other
\* than those of a late resolution or dial is not destroyed.
LEMMA OpsBegun ==
  ASSUME IInv, NEW op \in srv.ops
  PROVE  srv.status # "NONE" /\ (op \notin Late => srv.status # "DESTROY")
  BY DEF IInv, SrvOK

\* An operation ends and others begin.
LEMMA SameStep ==
  ASSUME IInv, srv.status # "NONE", NEW t, UNCHANGED <<setup, cs, front>>,
         Same(srv, t), srv' = t,
         srv.status = "DESTROY" => t.ops \subseteq srv.ops \cup {"udp_read", "udp_write"}
  PROVE  IInv'
<1>1. SrvOK(srv')
  BY SameSession DEF IInv
<1> QED BY <1>1, ServerStep DEF IInv, Phases

\* destroy, called in the handler of an operation or by the service.
LEMMA EndStep ==
  ASSUME IInv, srv.status # "NONE", NEW s, NEW why, Same(srv, s),
         s.ops \subseteq srv.ops, ServerDestroy(s, why),
         UNCHANGED <<setup, cs, front>>
  PROVE  IInv'
<1>1. SrvOK(s) /\ s.status # "NONE"
  BY SameSession DEF IInv, SrvOK, Same
<1>2. SrvOK(srv')
  BY <1>1, DestroyOK
<1> QED BY <1>2, ServerStep DEF IInv, Phases
\* The front goes on or ends; it does not begin here.
LEMMA FrontStep ==
  ASSUME IInv, UNCHANGED <<setup, cs, srv>>, DOMAIN front' = FrontFields,
         front.ops = {} => front'.ops = {}
  PROVE  IInv'
  BY DEF IInv, SrvOK, Authentic, Accounted, Phases, Starting

\* The end of a TLS handshake begins a read or destroys the session.
LEMMA HandshakeOK == ASSUME IInv, Handshake PROVE IInv'
<1>1. DOMAIN srv = SrvFields /\ DOMAIN front = FrontFields
  BY DEF IInv, SrvOK, Phases
<1>2. CASE "handshake" \in srv.ops /\ UNCHANGED front
             /\ \/ srv' = Begin(Done(srv, "handshake"), "in_read")
                \/ ServerDestroy(Done(srv, "handshake"), "error")
  <2> DEFINE s == Done(srv, "handshake")
  <2>1. /\ srv.status # "NONE" /\ srv.status # "DESTROY"
        /\ UNCHANGED <<setup, cs, front>>
    BY <1>2, OpsBegun DEF Handshake, ServerHandshake, FrontHandshake, Late
  <2>2. Same(srv, s) /\ s.ops \subseteq srv.ops /\ DOMAIN s = SrvFields
    BY <1>1, DoneSame DEF Same
  <2>3. CASE srv' = Begin(s, "in_read")
    <3>1. Same(srv, Begin(s, "in_read"))
      BY <2>2, BeginSame, SameTransitive
    <3> QED BY <2>1, <2>3, <3>1, SameStep
  <2>4. CASE ServerDestroy(s, "error")
    BY <2>1, <2>2, <2>4, EndStep
  <2> QED BY <1>2, <2>3, <2>4
<1>3. CASE "handshake" \in front.ops /\ UNCHANGED srv
             /\ \/ front' = [front EXCEPT !.ops = {"in_read"}]
                \/ front' = [front EXCEPT !.status = "DESTROY", !.ops = {},
                                          !.timer = FALSE]
  <2>1. DOMAIN front' = FrontFields /\ front.ops # {} /\ UNCHANGED <<setup, cs>>
    BY <1>1, <1>3 DEF Handshake, ServerHandshake, FrontHandshake, FrontFields
  <2> QED BY <1>3, <2>1, FrontStep
<1> QED BY <1>2, <1>3 DEF Handshake, ServerHandshake, FrontHandshake

\* The front ends without a session.
LEMMA FrontEndsOK == ASSUME IInv, FrontTimeout \/ FrontEof PROVE IInv'
<1>1. /\ front' = [front EXCEPT !.status = "DESTROY", !.ops = {}, !.timer = FALSE]
      /\ UNCHANGED <<setup, cs, srv>>
  BY DEF FrontTimeout, FrontEof
<1>2. DOMAIN front' = FrontFields /\ front'.ops = {}
  BY <1>1 DEF IInv, Phases, FrontFields
<1> QED BY <1>1, <1>2, FrontStep

\* The hand-over: there was no server session, and its user is found now.
LEMMA FrontRecvOK == ASSUME IInv, FrontRecv PROVE IInv'
<1>1. /\ DOMAIN srv = SrvFields /\ DOMAIN front = FrontFields
      /\ "in_read" \in front.ops /\ srv.status = "NONE" /\ srv.recorded = 0
      /\ ~srv.late /\ ~Starting(cs) /\ UNCHANGED <<setup, cs>>
  BY DEF IInv, Phases, SrvOK, Accounted, FrontRecv
<1> DEFINE x == [srv EXCEPT !.status = "HANDSHAKE"]
<1>2. DOMAIN x = SrvFields /\ x.status = "HANDSHAKE" /\ x.recorded = 0 /\ ~x.late
  BY <1>1 DEF SrvFields
<1>3. PICK k \in 1..Len(link["up"]), quota \in BOOLEAN, resolve \in BOOLEAN :
        LET data == front.buf \o Arrived("up", k) IN
        \/ front' = [front EXCEPT !.buf = data] /\ UNCHANGED srv
        \/ front' = HandOver(front) /\ srv' = FirstRecv(x, data, quota, resolve)
  BY DEF FrontRecv
<1> HIDE DEF x
<1> DEFINE data == front.buf \o Arrived("up", k)
<1>4. CASE front' = [front EXCEPT !.buf = data] /\ UNCHANGED srv
  <2>1. DOMAIN front' = FrontFields /\ front'.ops = front.ops
    BY <1>1, <1>4 DEF FrontFields
  <2> QED BY <1>1, <1>4, <2>1, FrontStep
<1>5. CASE front' = HandOver(front) /\ srv' = FirstRecv(x, data, quota, resolve)
  <2>1. DOMAIN front' = FrontFields /\ front'.ops = {}
    BY <1>1, <1>5 DEF HandOver, FrontFields
  <2>2. SrvOK(srv')
    BY <1>2, <1>5, FirstRecvOK
  <2>3. DOMAIN cs = CsFields /\ ("dial" \in cs.ops => cs.status \in {"CONNECT", "DESTROY"})
    BY DEF IInv, Phases
  <2> QED BY <1>1, <2>1, <2>2, <2>3 DEF IInv, Phases, Starting, SrvOK, Authentic, Accounted
<1> QED BY <1>3, <1>4, <1>5

\* Reaching the target or the fallback does not change who was let in.
LEMMA ServerDialedOK == ASSUME IInv, ServerDialed PROVE IInv'
<1> DEFINE r == Done(srv, "dial")
           f == [r EXCEPT !.status = "FORWARD"]
           s == Begin(f, "out_read")
           d == [s EXCEPT !.data = srv.outBuf, !.outBuf = <<>>]
<1>1. /\ SrvOK(srv) /\ DOMAIN srv = SrvFields
      /\ srv.status # "NONE" /\ srv.status # "DESTROY"
      /\ UNCHANGED <<setup, cs, front>>
  BY OpsBegun DEF IInv, SrvOK, ServerDialed
<1>2. srv' = Begin(d, "out_write") \/ srv' = Begin(s, "in_read")
  BY DEF ServerDialed
<1>3. Same(srv, r) /\ DOMAIN r = SrvFields
  BY <1>1, DoneSame DEF Same
<1> HIDE DEF r
<1>4. /\ DOMAIN f = SrvFields /\ f.status = "FORWARD" /\ f.peer = srv.peer
      /\ f.user = srv.user /\ f.recorded = srv.recorded /\ f.late = srv.late
  BY <1>3 DEF Same, SrvFields
<1> HIDE DEF f
<1>5. Same(f, s) /\ DOMAIN s = SrvFields
  BY <1>4, BeginSame DEF Same
<1> HIDE DEF s
<1>6. Same(s, d) /\ DOMAIN d = SrvFields
  BY <1>5 DEF Same, SrvFields
<1> HIDE DEF d
<1>7. Same(f, srv')
  BY <1>2, <1>5, <1>6, BeginSame, SameTransitive
<1>8. SrvOK(srv')
  BY <1>1, <1>4, <1>7 DEF SrvOK, Authentic, Accounted, Same
<1> QED BY <1>1, <1>8, ServerStep DEF IInv, Phases

\* The dial that ends after destroy records once more; nothing is left that
\* could do it again.
LEMMA ServerDialedLateOK == ASSUME IInv, ServerDialedLate PROVE IInv'
<1> DEFINE r == Done(srv, "dial")
           f == [r EXCEPT !.late = TRUE]
<1>1. /\ SrvOK(srv) /\ DOMAIN srv = SrvFields /\ srv.status = "DESTROY" /\ ~srv.late
      /\ UNCHANGED <<setup, cs, front>> /\ srv' = ServerDestroyed(f, srv.cause)
  BY DEF IInv, SrvOK, Accounted, ServerDialedLate
<1>2. Same(srv, r) /\ r.ops = srv.ops \ {"dial"}
  BY <1>1, DoneSame
<1> HIDE DEF r
<1>3. /\ DOMAIN f = SrvFields /\ f.status = "DESTROY" /\ f.peer = srv.peer
      /\ f.user = srv.user /\ f.recorded = srv.recorded /\ f.late
      /\ f.ops = srv.ops \ {"dial"}
  BY <1>1, <1>2 DEF Same, SrvFields
<1> HIDE DEF f
<1>4. /\ DOMAIN srv' = SrvFields /\ srv'.status = "DESTROY" /\ srv'.peer = f.peer
      /\ srv'.user = f.user /\ srv'.late = f.late /\ srv'.ops \subseteq f.ops
      /\ srv'.recorded = IF f.user THEN f.recorded + 1 ELSE f.recorded
  BY <1>1, <1>3 DEF ServerDestroyed, SrvFields
<1>5. SrvOK(srv')
  BY <1>1, <1>3, <1>4 DEF SrvOK, Authentic, Accounted
<1> QED BY <1>1, <1>5, ServerStep DEF IInv, Phases

\* A dial that fails ends the session, or nothing when it is destroyed; so
\* does the read of the UDP socket in a destroyed one.
LEMMA ServerFailedOK ==
  ASSUME IInv, ServerDialFailed \/ UdpReadEnds PROVE IInv'
<1>1. /\ SrvOK(srv) /\ DOMAIN srv = SrvFields /\ srv.status # "NONE"
      /\ UNCHANGED <<setup, cs, front>>
  BY OpsBegun DEF IInv, SrvOK, ServerDialFailed, UdpReadEnds
<1>2. ASSUME NEW op
      PROVE  Same(srv, Done(srv, op)) /\ Done(srv, op).ops \subseteq srv.ops
  BY <1>1, DoneSame
<1>3. CASE ServerDialFailed
  BY <1>1, <1>2, <1>3, EndStep DEF ServerDialFailed
<1>4. CASE UdpReadEnds
  BY <1>1, <1>2, <1>4, SameStep DEF UdpReadEnds
<1> QED BY <1>3, <1>4

\* in_recv authenticates the first data and only relays the rest.
LEMMA ServerInRecvOK == ASSUME IInv, ServerInRecv PROVE IInv'
<1> DEFINE s == Done(srv, "in_read")
<1>1. /\ SrvOK(srv) /\ DOMAIN srv = SrvFields
      /\ srv.status \in {"HANDSHAKE", "FORWARD", "UDP_FORWARD"}
      /\ UNCHANGED <<setup, cs, front>>
  BY OpsBegun DEF IInv, SrvOK, ServerInRecv, Late
<1>2. Same(srv, s) /\ DOMAIN s = SrvFields
  BY <1>1, DoneSame DEF Same
<1>3. PICK k \in 1..Len(link["up"]), quota \in BOOLEAN, resolve \in BOOLEAN :
        \/ srv.status = "HANDSHAKE" /\ srv' = FirstRecv(s, Arrived("up", k), quota, resolve)
        \/ srv.status = "FORWARD"
             /\ srv' = Begin([s EXCEPT !.data = Arrived("up", k)], "out_write")
        \/ srv.status = "UDP_FORWARD"
             /\ srv' = OutUdpSent([s EXCEPT !.udpBuf = @ \o Arrived("up", k)], resolve)
  BY <1>1 DEF ServerInRecv
<1> HIDE DEF s
<1>4. CASE srv.status = "HANDSHAKE" /\ srv' = FirstRecv(s, Arrived("up", k), quota, resolve)
  <2>1. s.status = "HANDSHAKE" /\ s.recorded = 0 /\ ~s.late
    BY <1>1, <1>2, <1>4 DEF Same, SrvOK, Accounted
  <2>2. SrvOK(srv')
    BY <1>2, <1>4, <2>1, FirstRecvOK
  <2> QED BY <1>1, <2>2, ServerStep DEF IInv, Phases
<1>5. CASE srv.status = "FORWARD"
             /\ srv' = Begin([s EXCEPT !.data = Arrived("up", k)], "out_write")
  <2> DEFINE d == [s EXCEPT !.data = Arrived("up", k)]
  <2>1. Same(s, d) /\ DOMAIN d = SrvFields
    BY <1>2 DEF Same, SrvFields
  <2> HIDE DEF d
  <2>2. Same(srv, Begin(d, "out_write"))
    BY <1>2, <2>1, BeginSame, SameTransitive
  <2> QED BY <1>1, <1>5, <2>2, SameStep DEF d
<1>6. CASE srv.status = "UDP_FORWARD"
             /\ srv' = OutUdpSent([s EXCEPT !.udpBuf = @ \o Arrived("up", k)], resolve)
  <2> DEFINE d == [s EXCEPT !.udpBuf = @ \o Arrived("up", k)]
  <2>1. Same(s, d) /\ DOMAIN d = SrvFields
    BY <1>2 DEF Same, SrvFields
  <2> HIDE DEF d
  <2>2. Same(srv, OutUdpSent(d, resolve))
    BY <1>2, <2>1, OutUdpSentSame, SameTransitive
  <2> QED BY <1>1, <1>6, <2>2, SameStep DEF d
<1> QED BY <1>3, <1>4, <1>5, <1>6

\* The resolution that ends after destroy sends the datagram and reads, which
\* is all that it may.
LEMMA ResolvedOK == ASSUME IInv, Resolved PROVE IInv'
<1> DEFINE s == Done(srv, "resolve")
<1>1. /\ SrvOK(srv) /\ DOMAIN srv = SrvFields /\ srv.status # "NONE"
      /\ UNCHANGED <<setup, cs, front>>
  BY OpsBegun DEF IInv, SrvOK, Resolved
<1>2. Same(srv, s) /\ DOMAIN s = SrvFields /\ s.ops \subseteq srv.ops
  BY <1>1, DoneSame DEF Same
<1>3. CASE srv' = SendUdp(s)
  <2>1. /\ Same(srv, SendUdp(s))
        /\ SendUdp(s).ops \subseteq srv.ops \cup {"udp_read", "udp_write"}
    BY <1>2, SendUdpSame, SameTransitive
  <2> QED BY <1>1, <1>3, <2>1, SameStep
<1>4. CASE ServerDestroy(s, "error")
  BY <1>1, <1>2, <1>4, EndStep
<1> QED BY <1>3, <1>4 DEF Resolved

\* Completed writes to the target and to the client go on with a read.
LEMMA ServerSentOK ==
  ASSUME IInv, ServerOutSent \/ ServerInSent PROVE IInv'
<1>1. SrvOK(srv) /\ DOMAIN srv = SrvFields /\ UNCHANGED <<setup, cs, front>>
  BY DEF IInv, SrvOK, ServerOutSent, ServerInSent
<1>2. srv.status # "NONE" /\ srv.status # "DESTROY"
  BY OpsBegun DEF ServerOutSent, ServerInSent, Late
<1>3. CASE ServerOutSent
  <2> DEFINE s == Done(srv, "out_write")
             d == [s EXCEPT !.toTarget = @ \o srv.data]
  <2>1. srv' = Begin(d, "in_read")
    BY <1>3 DEF ServerOutSent
  <2>2. Same(srv, s) /\ DOMAIN s = SrvFields
    BY <1>1, DoneSame DEF Same
  <2> HIDE DEF s
  <2>3. Same(s, d) /\ DOMAIN d = SrvFields
    BY <2>2 DEF Same, SrvFields
  <2> HIDE DEF d
  <2>4. Same(srv, Begin(d, "in_read"))
    BY <2>2, <2>3, BeginSame, SameTransitive
  <2> QED BY <1>1, <1>2, <2>1, <2>4, SameStep
<1>4. CASE ServerInSent
  <2> DEFINE s == Done(srv, "in_write")
  <2>1. srv' = Begin(s, "udp_read") \/ srv' = Begin(s, "out_read")
    BY <1>4 DEF ServerInSent
  <2>2. Same(srv, s) /\ DOMAIN s = SrvFields
    BY <1>1, DoneSame DEF Same
  <2> HIDE DEF s
  <2>3. Same(srv, Begin(s, "udp_read")) /\ Same(srv, Begin(s, "out_read"))
    BY <2>2, BeginSame, SameTransitive
  <2> QED BY <1>1, <1>2, <2>1, <2>3, SameStep
<1> QED BY <1>3, <1>4

\* The completion of a datagram may come after destroy and changes nothing then.
LEMMA ServerUdpSentOK == ASSUME IInv, ServerUdpSent PROVE IInv'
<1> DEFINE s == Done(srv, "udp_write")
<1>1. /\ SrvOK(srv) /\ DOMAIN srv = SrvFields /\ srv.status # "NONE"
      /\ UNCHANGED <<setup, cs, front>>
  BY OpsBegun DEF IInv, SrvOK, ServerUdpSent
<1>2. Same(srv, s) /\ DOMAIN s = SrvFields /\ s.ops \subseteq srv.ops
  BY <1>1, DoneSame DEF Same
<1>3. PICK resolve \in BOOLEAN :
        IF srv.status = "UDP_FORWARD" THEN srv' = OutUdpSent(s, resolve) ELSE srv' = s
  BY DEF ServerUdpSent
<1> HIDE DEF s
<1>4. CASE srv.status = "UDP_FORWARD"
  <2>1. Same(srv, OutUdpSent(s, resolve)) /\ srv' = OutUdpSent(s, resolve)
    BY <1>2, <1>3, <1>4, OutUdpSentSame, SameTransitive
  <2> QED BY <1>1, <1>4, <2>1, SameStep
<1>5. CASE srv.status # "UDP_FORWARD"
  BY <1>1, <1>2, <1>3, <1>5, SameStep DEF SrvOK
<1> QED BY <1>4, <1>5

\* Data of the target is relayed by a session that is not destroyed.
LEMMA ServerOutRecvOK == ASSUME IInv, ServerOutRecv PROVE IInv'
<1>1. SrvOK(srv) /\ DOMAIN srv = SrvFields /\ UNCHANGED <<setup, cs, front>>
  BY DEF IInv, SrvOK, ServerOutRecv
<1>2. PICK op \in srv.ops : srv' = Begin(Done(srv, op), "in_write") /\ srv.status # "DESTROY"
  BY DEF ServerOutRecv, OutRecv
<1> DEFINE s == Done(srv, op)
<1>3. Same(srv, s) /\ DOMAIN s = SrvFields
  BY <1>1, DoneSame DEF Same
<1> HIDE DEF s
<1>4. Same(srv, Begin(s, "in_write"))
  BY <1>3, BeginSame, SameTransitive
<1> QED BY <1>1, <1>2, <1>4, OpsBegun, SameStep DEF s

\* A session that ends records the usage of its user.
LEMMA ServerEndsOK == ASSUME IInv, ServerEof \/ ServerError PROVE IInv'
<1>1. Same(srv, srv) /\ UNCHANGED <<setup, cs, front>>
  BY DEF IInv, SrvOK, Same, ServerEof, ServerError
<1>2. srv.status # "NONE"
  BY OpsBegun DEF ServerEof, ServerError
<1>3. PICK why \in {"eof", "error"} : ServerDestroy(srv, why)
  BY DEF ServerEof, ServerError
<1> QED BY <1>1, <1>2, <1>3, EndStep

-----------------------------------------------------------------------------
(* The theorems.                                                             *)

\* The invariant is about the sessions alone.
LEMMA Stutter == ASSUME IInv, UNCHANGED <<setup, cs, srv, front>> PROVE IInv'
  BY DEF IInv, SrvOK, Authentic, Accounted, Phases, Starting

\* Every step of the two programs keeps the invariant.
LEMMA Step == IInv /\ [Next]_vars => IInv'
<1> SUFFICES ASSUME IInv, [Next]_vars PROVE IInv'
  OBVIOUS
<1>1. CASE UNCHANGED vars
  BY <1>1, Stutter DEF vars
<1>2. CASE Closes
  BY <1>2, Stutter DEF Closes
<1>3. CASE SocksRecv \/ ClientInSent \/ ClientDialed \/ ClientDialFailed
  BY <1>3, SocksRecvOK, ClientInSentOK, ClientDialedOK, ClientDialFailedOK
<1>4. CASE ClientInRecv \/ UdpRecv \/ ClientOutSent \/ ClientOutRecv
             \/ ClientUdpSent \/ ClientEof \/ ClientError
  BY <1>4, ClientRelayOK
<1>5. CASE Handshake \/ FrontRecv \/ FrontTimeout \/ FrontEof \/ ServerDialed
             \/ ServerDialedLate \/ ServerDialFailed \/ UdpReadEnds
  BY <1>5, HandshakeOK, FrontRecvOK, FrontEndsOK, ServerDialedOK,
     ServerDialedLateOK, ServerFailedOK
<1>6. CASE ServerInRecv \/ Resolved \/ ServerOutSent \/ ServerUdpSent
             \/ ServerOutRecv \/ ServerInSent \/ ServerEof \/ ServerError
  BY <1>6, ServerInRecvOK, ResolvedOK, ServerSentOK, ServerUdpSentOK,
     ServerOutRecvOK, ServerEndsOK
<1> QED BY <1>1, <1>2, <1>3, <1>4, <1>5, <1>6 DEF Next

\* Only a request with a known password, or the password of a user with quota
\* left, makes ServerSession::in_recv connect to what it names or forward its
\* datagrams, whichever session accepted the connection.
THEOREM TargetsNeedPassword == Spec => []OnlyAuthenticated
<1>1. IInv => OnlyAuthenticated
  BY DEF IInv, SrvOK, Authentic, OnlyAuthenticated
<1> QED BY <1>1, InitOK, Step, PTL DEF Spec

\* ServerSession::destroy records what a user used, and records it once, also
\* when several of its handlers call it and when a resolution ends after it; a
\* connection that is made after it is the only thing that records it again,
\* and does so one time more.
THEOREM UsageRecorded == Spec => []Recorded
<1>1. IInv => Recorded
  BY DEF IInv, SrvOK, Accounted, Recorded
<1> QED BY <1>1, InitOK, Step, PTL DEF Spec

-----------------------------------------------------------------------------
(* No operation is begun twice.  The operations of a session are two chains, *)
(* one for each direction of the data: an operation of a chain begins in the *)
(* handler of the one before it, so that a chain never has two under way.    *)

OneOf(S) == \A a, b \in S : a = b

\* The chains of the client: from the application to the server, and back.
\* Before the request has been sent there is one chain only.
ClientUp == {"in_read", "udp_read", "out_write", "dial"}
ClientDown == {"out_read", "in_write", "udp_write"}
ClientSolo(c) ==
  /\ ~c.clash
  /\ OneOf(c.ops \cap ClientUp) /\ OneOf(c.ops \cap ClientDown)
  /\ Starting(c) => OneOf(c.ops)

\* The chains of the server.  The second one begins when the target has been
\* reached, or when the first datagram opens the UDP socket, which a late
\* resolution does once more after destroy, whether the read that destroy
\* aborted has ended or not.
ServerUp == {"handshake", "in_read", "dial", "out_write", "resolve", "udp_write"}
ServerDown == {"out_read", "in_write", "udp_read"}
ServerSolo(s) ==
  /\ s.clash => s.status = "DESTROY"
  /\ s.clash \/ s.status = "UDP_FORWARD" \/ "resolve" \in s.ops => setup.kind = "udp"
  /\ OneOf(s.ops \cap ServerUp) /\ OneOf(s.ops \cap ServerDown)
  /\ s.status = "HANDSHAKE" => s.ops \cap ServerDown = {}
  /\ "dial" \in s.ops => s.status \in {"HANDSHAKE", "DESTROY"}
  /\ "resolve" \in s.ops => s.status \in {"UDP_FORWARD", "DESTROY"}
  /\ s.status = "UDP_FORWARD" /\ ~s.udpOpen => s.ops \cap ServerDown = {}
  /\ s.status = "DESTROY" => s.ops \subseteq Late

Solo == ClientSolo(cs) /\ ServerSolo(srv)

\* An operation that is not under way begins without a clash.
LEMMA BeginClash ==
  ASSUME NEW s, NEW op, {"ops", "clash"} \subseteq DOMAIN s, ~s.clash, op \notin s.ops
  PROVE  ~Begin(s, op).clash
  BY DEF Begin

\* The next operation of a chain of the client, or of its only chain.
LEMMA ClientNextOp ==
  ASSUME NEW c, NEW d, NEW a, NEW b, ClientSolo(c), a \in c.ops,
         DOMAIN d = CsFields, ~d.clash, d.ops = c.ops \ {a},
         {a, b} \subseteq ClientUp \/ {a, b} \subseteq ClientDown \/ c.status \in Early,
         d.status \in Early => c.status \in Early, b = "dial" => c.status \in Early
  PROVE  ClientSolo(Begin(d, b))
<1> DEFINE e == Begin(d, b)
<1>1. e.ops = d.ops \cup {b} /\ e.status = d.status
  BY ClientSame
<1>2. ~(b \in d.ops) => ~e.clash
  BY BeginClash DEF CsFields
<1> HIDE DEF e
<1>3. b \notin d.ops
  BY DEF ClientSolo, OneOf, Starting
<1>4. OneOf(e.ops \cap ClientUp) /\ OneOf(e.ops \cap ClientDown)
  <2>1. CASE {a, b} \subseteq ClientUp
    <3>1. b \notin ClientDown
      BY <2>1 DEF ClientUp, ClientDown
    <3> QED
      BY <1>1, <2>1, <3>1 DEF ClientSolo, OneOf
  <2>2. CASE {a, b} \subseteq ClientDown
    <3>1. b \notin ClientUp
      BY <2>2 DEF ClientUp, ClientDown
    <3> QED
      BY <1>1, <2>2, <3>1 DEF ClientSolo, OneOf
  <2>3. CASE c.status \in Early
    BY <1>1, <2>3 DEF ClientSolo, OneOf, Starting
  <2> QED
    BY <2>1, <2>2, <2>3
<1>5. Starting(e) => OneOf(e.ops)
  BY <1>1 DEF ClientSolo, OneOf, Starting
<1>6. ClientSolo(e)
  BY <1>2, <1>3, <1>4, <1>5 DEF ClientSolo
<1> QED
  BY <1>6 DEF e

\* ClientSession::destroy leaves nothing under way but a dial.
LEMMA ClientDestroySolo ==
  ASSUME NEW c, NEW why, DOMAIN c = CsFields, ~c.clash, ClientDestroy(c, why)
  PROVE  ClientSolo(cs')
<1>1. cs'.ops \subseteq {"dial"} /\ cs'.status = "DESTROY" /\ ~cs'.clash
  BY DEF ClientDestroy, CsFields
<1> QED
  BY <1>1 DEF ClientSolo, OneOf, Early

\* What a handler of the client finds when its operation has ended.
LEMMA ClientEnded ==
  ASSUME NEW c, NEW a, DOMAIN c = CsFields, ~c.clash
  PROVE  /\ DOMAIN Done(c, a) = CsFields /\ Done(c, a).status = c.status
         /\ Done(c, a).ops = c.ops \ {a} /\ ~Done(c, a).clash
  BY DoneFacts DEF CsFields

\* udp_sent goes on with the next datagram or with a read, of the same chain.
LEMMA UdpSentSolo ==
  ASSUME NEW c, NEW d, NEW a, ClientSolo(c), a \in c.ops, a \in ClientDown,
         DOMAIN d = CsFields, ~d.clash, d.ops = c.ops \ {a}, d.status = c.status
  PROVE  ClientSolo(UdpSent(d))
<1> DEFINE e == [d EXCEPT !.data = SubSeq(d.udpBuf, 1, 2), !.udpBuf = SubSeq(@, 3, Len(@))]
<1>1. DOMAIN e = CsFields /\ e.status = d.status /\ e.ops = d.ops /\ ~e.clash
  BY DEF CsFields
<1> HIDE DEF e
<1>2. UdpSent(d) = Begin(e, "udp_write") \/ UdpSent(d) = Begin(d, "out_read")
  BY DEF UdpSent, e
<1>3. {a, "udp_write"} \subseteq ClientDown /\ {a, "out_read"} \subseteq ClientDown
  BY DEF ClientDown
<1>4. ClientSolo(Begin(e, "udp_write"))
  BY <1>1, <1>3, ClientNextOp
<1>5. ClientSolo(Begin(d, "out_read"))
  BY <1>3, ClientNextOp
<1> QED
  BY <1>2, <1>4, <1>5

\* The steps of the client.
LEMMA ClientSoloStep ==
  ASSUME IInv, ClientSolo(cs),
         \/ SocksRecv \/ ClientInSent \/ ClientDialed \/ ClientDialFailed
         \/ ClientInRecv \/ UdpRecv
         \/ ClientOutSent \/ ClientOutRecv \/ ClientUdpSent \/ ClientEof \/ ClientError
  PROVE  ClientSolo(cs')
<1>1. DOMAIN cs = CsFields /\ ~cs.clash
  BY DEF IInv, Phases, ClientSolo
<1>2. ASSUME NEW a
      PROVE  /\ DOMAIN Done(cs, a) = CsFields /\ Done(cs, a).status = cs.status
             /\ Done(cs, a).ops = cs.ops \ {a} /\ ~Done(cs, a).clash
  BY <1>1, ClientEnded
<1>3. CASE SocksRecv
  <2> DEFINE c == Done(cs, "in_read")
             d == [c EXCEPT !.status = "INVALID"]
  <2>1. DOMAIN c = CsFields /\ c.status = cs.status /\ c.ops = cs.ops \ {"in_read"} /\ ~c.clash
    BY <1>2
  <2>2. /\ "in_read" \in cs.ops /\ cs.status \in Early
        /\ cs' = Begin(c, "in_write") \/ cs' = Begin(d, "in_write") \/ ClientDestroy(c, "error")
    BY <1>3 DEF SocksRecv, Early
  <2> HIDE DEF c
  <2>3. DOMAIN d = CsFields /\ d.ops = c.ops /\ ~d.clash
    BY <2>1 DEF CsFields
  <2> HIDE DEF d
  <2>4. ClientSolo(Begin(c, "in_write")) /\ ClientSolo(Begin(d, "in_write"))
    BY <2>1, <2>2, <2>3, ClientNextOp
  <2> QED
    BY <2>1, <2>2, <2>4, ClientDestroySolo
<1>4. CASE ClientInSent
  <2> DEFINE b == Done(cs, "in_write")
             c == [b EXCEPT !.toApp = @ \o cs.data]
             d == [c EXCEPT !.status = "REQUEST"]
             e == [c EXCEPT !.status = "CONNECT"]
  <2>1. DOMAIN b = CsFields /\ b.status = cs.status /\ b.ops = cs.ops \ {"in_write"} /\ ~b.clash
    BY <1>2
  <2>2. /\ "in_write" \in cs.ops
        /\ \/ cs.status = "HANDSHAKE" /\ cs' = Begin(d, "in_read")
           \/ cs.status = "REQUEST" /\ cs' = Begin(e, "dial")
           \/ cs.status = "FORWARD" /\ cs' = Begin(c, "out_read")
           \/ ClientDestroy(c, "error")
    BY <1>4 DEF ClientInSent
  <2> HIDE DEF b
  <2>3. DOMAIN c = CsFields /\ c.status = cs.status /\ c.ops = cs.ops \ {"in_write"} /\ ~c.clash
    BY <2>1 DEF CsFields
  <2> HIDE DEF c
  <2>4. /\ DOMAIN d = CsFields /\ d.ops = c.ops /\ ~d.clash
        /\ DOMAIN e = CsFields /\ e.ops = c.ops /\ ~e.clash
    BY <2>3 DEF CsFields
  <2> HIDE DEF d, e
  <2>5. CASE cs.status = "HANDSHAKE" /\ cs' = Begin(d, "in_read")
    BY <2>2, <2>3, <2>4, <2>5, ClientNextOp DEF Early
  <2>6. CASE cs.status = "REQUEST" /\ cs' = Begin(e, "dial")
    BY <2>2, <2>3, <2>4, <2>6, ClientNextOp DEF Early
  <2>7. CASE cs.status = "FORWARD" /\ cs' = Begin(c, "out_read")
    <3>1. {"in_write", "out_read"} \subseteq ClientDown
      BY DEF ClientDown
    <3> QED
      BY <2>2, <2>3, <2>7, <3>1, ClientNextOp
  <2>8. CASE ClientDestroy(c, "error")
    BY <2>3, <2>8, ClientDestroySolo
  <2> QED
    BY <2>2, <2>5, <2>6, <2>7, <2>8
<1>5. CASE ClientDialed
  <2> DEFINE b == Done(cs, "dial")
             c == [b EXCEPT !.status = IF setup.kind = "udp" THEN "UDP_FORWARD" ELSE "FORWARD",
                            !.late = cs.status = "DESTROY"]
             d == Begin(c, "out_read")
  <2>1. DOMAIN b = CsFields /\ b.ops = cs.ops \ {"dial"} /\ ~b.clash
    BY <1>2
  <2>2. "dial" \in cs.ops /\ cs' = Begin(d, "out_write") /\ Starting(cs)
    BY <1>5 DEF ClientDialed, RequestRemote, Starting
  <2> HIDE DEF b
  <2>3. DOMAIN c = CsFields /\ c.ops = b.ops /\ ~c.clash /\ c.status \in {"UDP_FORWARD", "FORWARD"}
    BY <2>1 DEF CsFields
  <2>4. c.ops = {}
    BY <2>1, <2>2, <2>3 DEF ClientSolo, OneOf
  <2> HIDE DEF c
  <2>5. DOMAIN d = CsFields /\ d.ops = {"out_read"} /\ ~d.clash /\ d.status = c.status
    BY <2>3, <2>4, ClientSame, BeginClash DEF CsFields
  <2> HIDE DEF d
  <2>6. cs'.ops = {"out_read", "out_write"} /\ ~cs'.clash /\ cs'.status = c.status
    BY <2>2, <2>5, ClientSame, BeginClash DEF CsFields
  <2> QED
    BY <2>3, <2>6 DEF ClientSolo, OneOf, ClientUp, ClientDown, Early, Starting
<1>6. CASE ClientInRecv
  <2>1. "in_read" \in cs.ops /\ cs' = Begin(Done(cs, "in_read"), "out_write")
    BY <1>6 DEF ClientInRecv
  <2>2. {"in_read", "out_write"} \subseteq ClientUp
    BY DEF ClientUp
  <2> QED
    BY <1>2, <2>1, <2>2, ClientNextOp
<1>7. CASE UdpRecv
  <2> DEFINE c == Done(cs, "udp_read")
  <2>1. DOMAIN c = CsFields /\ c.status = cs.status /\ c.ops = cs.ops \ {"udp_read"} /\ ~c.clash
    BY <1>2
  <2>2. /\ "udp_read" \in cs.ops
        /\ cs' = Begin(c, "out_write") \/ cs' = c \/ ClientDestroy(c, "error")
    BY <1>7 DEF UdpRecv
  <2> HIDE DEF c
  <2>3. {"udp_read", "out_write"} \subseteq ClientUp
    BY DEF ClientUp
  <2>4. ClientSolo(Begin(c, "out_write"))
    BY <2>1, <2>2, <2>3, ClientNextOp
  <2>5. ClientSolo(c)
    BY <2>1 DEF ClientSolo, OneOf, Starting
  <2> QED
    BY <2>1, <2>2, <2>4, <2>5, ClientDestroySolo
<1>8. CASE ClientOutSent
  <2> DEFINE c == Done(cs, "out_write")
  <2>1. DOMAIN c = CsFields /\ c.status = cs.status /\ c.ops = cs.ops \ {"out_write"} /\ ~c.clash
    BY <1>2
  <2>2. "out_write" \in cs.ops /\ (cs' = Begin(c, "udp_read") \/ cs' = Begin(c, "in_read"))
    BY <1>8 DEF ClientOutSent, OutSent
  <2> HIDE DEF c
  <2>3. {"out_write", "udp_read"} \subseteq ClientUp /\ {"out_write", "in_read"} \subseteq ClientUp
    BY DEF ClientUp
  <2>4. ClientSolo(Begin(c, "udp_read")) /\ ClientSolo(Begin(c, "in_read"))
    BY <2>1, <2>2, <2>3, ClientNextOp
  <2> QED
    BY <2>2, <2>4
<1>9. CASE ClientOutRecv
  <2> DEFINE c == Done(cs, "out_read")
             u(k) == [c EXCEPT !.udpBuf = @ \o Arrived("down", k)]
             d(k) == [c EXCEPT !.data = Arrived("down", k)]
  <2>1. PICK k \in 1..Len(link["down"]) : cs' = UdpSent(u(k)) \/ cs' = Begin(d(k), "in_write")
    BY <1>9 DEF ClientOutRecv
  <2>2. "out_read" \in cs.ops
    BY <1>9 DEF ClientOutRecv
  <2>3. DOMAIN c = CsFields /\ c.status = cs.status /\ c.ops = cs.ops \ {"out_read"} /\ ~c.clash
    BY <1>2
  <2> HIDE DEF c
  <2>4. /\ DOMAIN u(k) = CsFields /\ u(k).status = c.status /\ u(k).ops = c.ops /\ ~u(k).clash
        /\ DOMAIN d(k) = CsFields /\ d(k).status = c.status /\ d(k).ops = c.ops /\ ~d(k).clash
    BY <2>3 DEF CsFields
  <2> HIDE DEF u, d
  <2>5. "out_read" \in ClientDown /\ {"out_read", "in_write"} \subseteq ClientDown
    BY DEF ClientDown
  <2>6. ClientSolo(UdpSent(u(k)))
    BY <2>2, <2>3, <2>4, <2>5, UdpSentSolo
  <2>7. ClientSolo(Begin(d(k), "in_write"))
    BY <2>2, <2>3, <2>4, <2>5, ClientNextOp
  <2> QED
    BY <2>1, <2>6, <2>7
<1>10. CASE ClientUdpSent
  <2> DEFINE c == Done(cs, "udp_write")
             u == [c EXCEPT !.toApp = @ \o cs.data]
  <2>1. "udp_write" \in cs.ops /\ cs' = UdpSent(u)
    BY <1>10 DEF ClientUdpSent
  <2>2. DOMAIN c = CsFields /\ c.status = cs.status /\ c.ops = cs.ops \ {"udp_write"} /\ ~c.clash
    BY <1>2
  <2> HIDE DEF c
  <2>3. DOMAIN u = CsFields /\ u.status = c.status /\ u.ops = c.ops /\ ~u.clash
    BY <2>2 DEF CsFields
  <2> HIDE DEF u
  <2>4. "udp_write" \in ClientDown
    BY DEF ClientDown
  <2> QED
    BY <2>1, <2>2, <2>3, <2>4, UdpSentSolo
<1>11. CASE ClientEof \/ ClientError
  <2>1. PICK why \in {"error", "eof"} : ClientDestroy(cs, why)
    BY <1>11 DEF ClientEof, ClientError
  <2> QED
    BY <1>1, <2>1, ClientDestroySolo
<1>12. CASE ClientDialFailed
  <2> DEFINE c == Done(cs, "dial")
  <2>1. DOMAIN c = CsFields /\ c.status = cs.status /\ c.ops = cs.ops \ {"dial"} /\ ~c.clash
    BY <1>2
  <2>2. ClientDestroy(c, "error") \/ cs' = c
    BY <1>12 DEF ClientDialFailed
  <2> HIDE DEF c
  <2>3. ClientSolo(c)
    BY <2>1 DEF ClientSolo, OneOf, Starting
  <2> QED
    BY <2>1, <2>2, <2>3, ClientDestroySolo
<1> QED
  BY <1>3, <1>4, <1>5, <1>6, <1>7, <1>8, <1>9, <1>10, <1>11, <1>12

\* A handler of the server that has nothing of its first chain under way.
Free(s) == DOMAIN s = SrvFields /\ ServerSolo(s) /\ s.ops \cap ServerUp = {}

\* t is s but for its buffers, its user and its target.
Kin(s, t) ==
  /\ DOMAIN t = SrvFields /\ t.ops = s.ops /\ t.status = s.status
  /\ t.clash <=> s.clash
  /\ t.udpOpen <=> s.udpOpen

\* The chains depend on no buffer.
LEMMA KinSolo ==
  ASSUME NEW s, NEW t, Kin(s, t)
  PROVE  (ServerSolo(s) => ServerSolo(t)) /\ (Free(s) => Free(t))
<1>1. ServerSolo(s) => ServerSolo(t)
  BY DEF Kin, ServerSolo
<1> QED
  BY <1>1 DEF Kin, Free

\* What a handler of the server finds when its operation has ended.
LEMMA ServerEnded ==
  ASSUME NEW s, NEW a, DOMAIN s = SrvFields, ServerSolo(s)
  PROVE  /\ DOMAIN Done(s, a) = SrvFields /\ Done(s, a).status = s.status
         /\ Done(s, a).ops = s.ops \ {a} /\ ServerSolo(Done(s, a))
         /\ Done(s, a).udpOpen <=> s.udpOpen
<1> DEFINE t == Done(s, a)
<1>1. /\ DOMAIN t = SrvFields /\ t.status = s.status /\ t.ops = s.ops \ {a}
      /\ t.clash = s.clash /\ t.udpOpen = s.udpOpen
  BY DoneFacts DEF SrvFields
<1> HIDE DEF t
<1>2. ServerSolo(t)
  BY <1>1 DEF ServerSolo, OneOf
<1> QED
  BY <1>1, <1>2 DEF t

\* When it was one of the first chain, nothing of that chain is left.
LEMMA ServerFree ==
  ASSUME NEW s, NEW a, DOMAIN s = SrvFields, ServerSolo(s), a \in s.ops, a \in ServerUp
  PROVE  Free(Done(s, a)) /\ Done(s, a).status = s.status /\ Done(s, a).ops = s.ops \ {a}
<1>1. /\ DOMAIN Done(s, a) = SrvFields /\ Done(s, a).status = s.status
      /\ Done(s, a).ops = s.ops \ {a} /\ ServerSolo(Done(s, a))
  BY ServerEnded
<1>2. (s.ops \ {a}) \cap ServerUp = {}
  BY DEF ServerSolo, OneOf
<1> QED
  BY <1>1, <1>2 DEF Free

\* What Begin leaves of a server session.
LEMMA BeginServer ==
  ASSUME NEW s, NEW b, DOMAIN s = SrvFields
  PROVE  /\ DOMAIN Begin(s, b) = SrvFields /\ Begin(s, b).status = s.status
         /\ Begin(s, b).ops = s.ops \cup {b}
         /\ ~s.clash /\ b \notin s.ops => ~Begin(s, b).clash
         /\ Begin(s, b).udpOpen <=> s.udpOpen
<1>1. {"ops", "clash"} \subseteq DOMAIN s /\ "udpOpen" \in DOMAIN s /\ "status" \in DOMAIN s
  BY DEF SrvFields
<1>2. ~s.clash /\ b \notin s.ops => ~Begin(s, b).clash
  BY <1>1, BeginClash
<1>3. /\ DOMAIN Begin(s, b) = SrvFields /\ Begin(s, b).status = s.status
      /\ Begin(s, b).ops = s.ops \cup {b}
      /\ Begin(s, b).udpOpen = s.udpOpen
  BY <1>1, BeginFacts
<1> QED
  BY <1>2, <1>3

\* The next operation of the first chain.
LEMMA BeginUp ==
  ASSUME NEW s, NEW b, Free(s), b \in ServerUp,
         b = "dial" => s.status = "HANDSHAKE",
         b = "resolve" => s.status = "UDP_FORWARD",
         s.status = "DESTROY" => b = "udp_write" /\ setup.kind = "udp"
  PROVE  ServerSolo(Begin(s, b))
<1> DEFINE t == Begin(s, b)
<1>1. DOMAIN s = SrvFields /\ b \notin s.ops /\ b \notin ServerDown
  BY DEF Free, ServerSolo, ServerUp, ServerDown
<1>2. /\ t.status = s.status /\ t.ops = s.ops \cup {b}
      /\ ~s.clash => ~t.clash
      /\ t.udpOpen <=> s.udpOpen
  BY <1>1, BeginServer
<1> HIDE DEF t
<1>3. OneOf(t.ops \cap ServerUp)
  BY <1>2 DEF Free, OneOf
<1>4. t.ops \cap ServerDown = s.ops \cap ServerDown
  BY <1>1, <1>2
<1>5. ServerSolo(t)
  BY <1>2, <1>3, <1>4 DEF Free, ServerSolo, Late
<1> QED
  BY <1>5 DEF t

\* The next operation of the second chain.
LEMMA NextDown ==
  ASSUME NEW s, NEW a, NEW b, DOMAIN s = SrvFields, ServerSolo(s), a \in s.ops,
         a \in ServerDown, b \in ServerDown, s.status # "DESTROY"
  PROVE  ServerSolo(Begin(Done(s, a), b))
<1> DEFINE d == Done(s, a)
           t == Begin(d, b)
<1>1. /\ DOMAIN d = SrvFields /\ d.status = s.status /\ d.ops = s.ops \ {a}
      /\ ServerSolo(d) /\ (d.udpOpen <=> s.udpOpen)
  BY ServerEnded
<1>2. d.ops \cap ServerDown = {} /\ ~d.clash
  BY <1>1 DEF ServerSolo, OneOf
<1> HIDE DEF d
<1>3. /\ t.status = d.status /\ t.ops = d.ops \cup {b} /\ ~t.clash
      /\ t.udpOpen <=> d.udpOpen
  BY <1>1, <1>2, BeginServer
<1> HIDE DEF t
<1>4. b \notin ServerUp /\ b # "dial" /\ b # "resolve"
  BY DEF ServerUp, ServerDown
<1>5. t.ops \cap ServerUp = d.ops \cap ServerUp
  BY <1>3, <1>4
<1>6. OneOf(t.ops \cap ServerDown)
  BY <1>2, <1>3 DEF OneOf
<1>7. s.ops \cap ServerDown # {}
  OBVIOUS
<1>8. ServerSolo(t)
  BY <1>1, <1>3, <1>4, <1>5, <1>6, <1>7 DEF ServerSolo
<1> QED
  BY <1>8 DEF t, d

\* The datagram that opens the UDP socket begins to read it; in a session that
\* is not destroyed nothing of the second chain is under way then.
LEMMA SendUdpSolo ==
  ASSUME NEW s, Free(s), s.status \in {"UDP_FORWARD", "DESTROY"}, setup.kind = "udp"
  PROVE  ServerSolo(SendUdp(s))
<1> DEFINE a == [s EXCEPT !.udpOpen = TRUE]
           o == Begin(a, "udp_read")
           b == IF s.udpOpen THEN s ELSE o
           c == [b EXCEPT !.toTarget = @ \o SubSeq(s.udpBuf, 1, 2),
                          !.udpBuf = SubSeq(@, 3, Len(@))]
<1>1. DOMAIN s = SrvFields /\ ServerSolo(s) /\ s.ops \cap ServerUp = {}
  BY DEF Free
<1>2. /\ DOMAIN a = SrvFields /\ a.ops = s.ops /\ a.status = s.status
      /\ a.clash = s.clash /\ a.udpOpen
  BY <1>1 DEF SrvFields
<1>3. SendUdp(s) = Begin(c, "udp_write")
  BY DEF SendUdp
<1> HIDE DEF a
<1>4. ASSUME ~s.udpOpen
      PROVE  Free(o) /\ o.status = s.status
  <2>1. /\ s.ops \cap ServerDown \subseteq {"udp_read"}
        /\ s.status # "DESTROY" => s.ops \cap ServerDown = {} /\ ~s.clash
        /\ s.status = "DESTROY" => s.ops \subseteq Late
    BY <1>1, <1>4 DEF ServerSolo, Late, ServerDown
  <2>2. "udp_read" \in ServerDown /\ "udp_read" \notin ServerUp /\ "dial" \in ServerUp
          /\ "resolve" \in ServerUp
    BY DEF ServerDown, ServerUp
  <2>3. s.status # "DESTROY" => "udp_read" \notin a.ops
    BY <1>2, <2>1, <2>2
  <2>4. /\ DOMAIN o = SrvFields /\ o.status = s.status /\ o.ops = s.ops \cup {"udp_read"}
        /\ s.status # "DESTROY" => ~o.clash
        /\ o.udpOpen
    BY <1>2, <2>1, <2>3, BeginServer
  <2> HIDE DEF o
  <2>5. o.ops \cap ServerUp = {}
    BY <1>1, <2>2, <2>4
  <2>6. OneOf(o.ops \cap ServerUp) /\ OneOf(o.ops \cap ServerDown)
    BY <2>1, <2>4, <2>5 DEF OneOf
  <2>7. "dial" \notin o.ops /\ "resolve" \notin o.ops
    BY <2>2, <2>5
  <2>8. o.status = "DESTROY" => o.ops \subseteq Late
    BY <2>1, <2>4 DEF Late
  <2> QED
    BY <2>4, <2>5, <2>6, <2>7, <2>8 DEF Free, ServerSolo
<1> HIDE DEF o
<1>5. Free(b) /\ b.status = s.status
  BY <1>4
<1> HIDE DEF b
<1>6. Kin(b, c)
  BY <1>5 DEF Free, Kin, SrvFields
<1> HIDE DEF c
<1>7. Free(c)
  BY <1>5, <1>6, KinSolo
<1>8. "udp_write" \in ServerUp /\ c.status = s.status
  BY <1>5, <1>6 DEF ServerUp, Kin
<1> QED
  BY <1>3, <1>7, <1>8, BeginUp

\* out_udp_sent goes on with one operation of the first chain.
LEMMA OutUdpSentSolo ==
  ASSUME NEW s, NEW resolve, Free(s), s.status = "UDP_FORWARD"
  PROVE  ServerSolo(OutUdpSent(s, resolve))
<1>1. "in_read" \in ServerUp /\ "resolve" \in ServerUp /\ setup.kind = "udp"
  BY DEF ServerUp, Free, ServerSolo
<1>2. /\ ServerSolo(Begin(s, "in_read")) /\ ServerSolo(Begin(s, "resolve"))
      /\ ServerSolo(SendUdp(s))
  BY <1>1, BeginUp, SendUdpSolo
<1> QED
  BY <1>2 DEF OutUdpSent

\* The first data leads to a connection or to the first datagram.
LEMMA FirstRecvSolo ==
  ASSUME NEW s, NEW data, NEW quota, NEW resolve, Free(s), s.status = "HANDSHAKE"
  PROVE  ServerSolo(FirstRecv(s, data, quota, resolve))
<1> DEFINE t == [s EXCEPT !.user = Auth(quota)]
           a == [t EXCEPT !.outBuf = data, !.peer = "fallback"]
           b == [t EXCEPT !.status = "UDP_FORWARD", !.udpBuf = Tail(data)]
           c == [t EXCEPT !.outBuf = Tail(data), !.peer = "requested"]
<1>1. DOMAIN s = SrvFields
  BY DEF Free
<1>2. \/ FirstRecv(s, data, quota, resolve) = Begin(a, "dial")
      \/ setup.kind = "udp" /\ FirstRecv(s, data, quota, resolve) = OutUdpSent(b, resolve)
      \/ FirstRecv(s, data, quota, resolve) = Begin(c, "dial")
  BY DEF FirstRecv
<1>3. Kin(s, t)
  BY <1>1 DEF Kin, SrvFields
<1> HIDE DEF t
<1>4. Free(t) /\ t.status = "HANDSHAKE" /\ DOMAIN t = SrvFields
  BY <1>3, KinSolo DEF Kin
<1>5. Kin(t, a) /\ Kin(t, c)
  BY <1>4 DEF Kin, SrvFields
<1>6. /\ DOMAIN b = SrvFields /\ b.ops = t.ops /\ b.status = "UDP_FORWARD"
      /\ b.clash = t.clash
  BY <1>4 DEF SrvFields
<1> HIDE DEF a, b, c
<1>7. ASSUME setup.kind = "udp" PROVE Free(b)
  <2>1. "dial" \in ServerUp /\ setup.kind = "udp"
    BY <1>7 DEF ServerUp
  <2> QED
    BY <1>4, <1>6, <2>1 DEF Free, ServerSolo
<1>8. Free(a) /\ a.status = "HANDSHAKE" /\ Free(c) /\ c.status = "HANDSHAKE"
  BY <1>4, <1>5, KinSolo DEF Kin
<1>9. "dial" \in ServerUp
  BY DEF ServerUp
<1>10. ServerSolo(Begin(a, "dial")) /\ ServerSolo(Begin(c, "dial"))
  BY <1>8, <1>9, BeginUp
<1>11. setup.kind = "udp" => ServerSolo(OutUdpSent(b, resolve))
  BY <1>6, <1>7, OutUdpSentSolo
<1> QED
  BY <1>2, <1>10, <1>11

\* destroy leaves at most a dial or a resolution, and a read to be aborted.
LEMMA ServerDestroySolo ==
  ASSUME NEW s, NEW why, DOMAIN s = SrvFields, ServerSolo(s), ServerDestroy(s, why)
  PROVE  ServerSolo(srv')
<1>1. CASE s.status = "DESTROY"
  BY <1>1 DEF ServerDestroy
<1>2. CASE s.status # "DESTROY"
  <2>1. srv' = ServerDestroyed(s, why)
    BY <1>2 DEF ServerDestroy
  <2>2. /\ srv'.status = "DESTROY" /\ srv'.ops = s.ops \cap {"resolve", "dial", "udp_read"}
        /\ srv'.clash = s.clash
    BY <2>1 DEF ServerDestroyed, SrvFields
  <2>3. srv'.ops \subseteq Late /\ srv'.ops \subseteq s.ops
    BY <2>2 DEF Late
  <2>4. OneOf(srv'.ops \cap ServerUp) /\ OneOf(srv'.ops \cap ServerDown)
    BY <2>3 DEF ServerSolo, OneOf
  <2> QED
    BY <2>2, <2>3, <2>4 DEF ServerSolo
<1> QED
  BY <1>1, <1>2

\* The session begins, or the front ends and hands its data over.
LEMMA ServerBeginsSolo ==
  ASSUME IInv, ServerSolo(srv), ClientDialed \/ Handshake \/ FrontRecv \/ ServerDialed
  PROVE  ServerSolo(srv')
<1>1. DOMAIN srv = SrvFields /\ SrvOK(srv) /\ (srv.status # "DESTROY" => ~srv.clash)
  BY DEF IInv, SrvOK, ServerSolo
<1>2. {"handshake", "dial", "in_read", "out_write"} \subseteq ServerUp
  BY DEF ServerUp
<1>3. CASE ClientDialed
  <2>1. UNCHANGED srv \/ srv' = [srv EXCEPT !.status = "HANDSHAKE", !.ops = {"handshake"}]
    BY <1>3 DEF ClientDialed, AsyncAccept
  <2>3. ~srv.clash
    BY <1>1, <1>3 DEF ClientDialed, IInv, Phases, Starting
  <2>2. CASE srv' = [srv EXCEPT !.status = "HANDSHAKE", !.ops = {"handshake"}]
    <3>1. srv'.status = "HANDSHAKE" /\ srv'.ops = {"handshake"} /\ ~srv'.clash
      BY <1>1, <2>2, <2>3 DEF SrvFields
    <3>2. "handshake" \notin ServerDown
      BY DEF ServerDown
    <3> QED
      BY <3>1, <3>2 DEF ServerSolo, OneOf
  <2> QED
    BY <2>1, <2>2
<1>4. CASE Handshake
  <2>1. CASE "handshake" \in srv.ops /\ srv' = Begin(Done(srv, "handshake"), "in_read")
    <3>1. Free(Done(srv, "handshake")) /\ Done(srv, "handshake").status # "DESTROY"
      BY <1>1, <1>2, <2>1, ServerFree, OpsBegun DEF Late
    <3> QED
      BY <1>2, <2>1, <3>1, BeginUp
  <2>2. CASE ServerDestroy(Done(srv, "handshake"), "error")
    BY <1>1, <2>2, ServerEnded, ServerDestroySolo
  <2> QED
    BY <1>4, <2>1, <2>2 DEF Handshake, ServerHandshake, FrontHandshake
<1>5. CASE FrontRecv
  <2> DEFINE x == [srv EXCEPT !.status = "HANDSHAKE"]
  <2>1. srv.ops = {} /\ srv.status # "DESTROY"
    BY <1>5 DEF FrontRecv, IInv, Phases, SrvOK
  <2>2. DOMAIN x = SrvFields /\ x.status = "HANDSHAKE" /\ x.ops = {} /\ ~x.clash
    BY <1>1, <2>1 DEF SrvFields
  <2>3. PICK k \in 1..Len(link["up"]), quota \in BOOLEAN, resolve \in BOOLEAN :
          \/ UNCHANGED srv
          \/ srv' = FirstRecv(x, front.buf \o Arrived("up", k), quota, resolve)
    BY <1>5 DEF FrontRecv
  <2> HIDE DEF x
  <2>4. Free(x)
    BY <2>2 DEF Free, ServerSolo, OneOf
  <2>5. ServerSolo(FirstRecv(x, front.buf \o Arrived("up", k), quota, resolve))
    BY <2>2, <2>4, FirstRecvSolo
  <2> QED
    BY <2>3, <2>5
<1>6. CASE ServerDialed
  <2> DEFINE r == Done(srv, "dial")
             f == [r EXCEPT !.status = "FORWARD"]
             s == Begin(f, "out_read")
             d == [s EXCEPT !.data = srv.outBuf, !.outBuf = <<>>]
  <2>1. /\ "dial" \in srv.ops /\ srv.status # "DESTROY"
        /\ srv' = Begin(d, "out_write") \/ srv' = Begin(s, "in_read")
    BY <1>6 DEF ServerDialed
  <2>2. Free(r) /\ r.status = "HANDSHAKE"
    BY <1>1, <1>2, <2>1, ServerFree DEF ServerSolo
  <2> HIDE DEF r
  <2>3. /\ DOMAIN r = SrvFields /\ r.ops \cap ServerUp = {} /\ r.ops \cap ServerDown = {}
        /\ ~r.clash
    BY <2>2 DEF Free, ServerSolo
  <2>4. DOMAIN f = SrvFields /\ f.status = "FORWARD" /\ f.ops = r.ops /\ ~f.clash
    BY <2>3 DEF SrvFields
  <2> HIDE DEF f
  <2>5. "out_read" \in ServerDown /\ "out_read" \notin ServerUp
    BY DEF ServerDown, ServerUp
  <2>6. "out_read" \notin f.ops
    BY <2>3, <2>4, <2>5
  <2>7. /\ DOMAIN s = SrvFields /\ s.status = "FORWARD" /\ s.ops = f.ops \cup {"out_read"}
        /\ ~s.clash
    BY <2>4, <2>6, BeginServer
  <2> HIDE DEF s
  <2>8. s.ops \cap ServerUp = {} /\ OneOf(s.ops \cap ServerDown)
    BY <2>3, <2>4, <2>5, <2>7 DEF OneOf
  <2>9. "dial" \notin s.ops /\ "resolve" \notin s.ops
    BY <2>8 DEF ServerUp
  <2>10. Free(s)
    BY <2>7, <2>8, <2>9 DEF Free, ServerSolo, OneOf
  <2>11. Kin(s, d)
    BY <2>7 DEF Kin, SrvFields
  <2> HIDE DEF d
  <2>12. Free(d) /\ d.status = "FORWARD"
    BY <2>7, <2>10, <2>11, KinSolo DEF Kin
  <2> QED
    BY <1>2, <2>1, <2>7, <2>10, <2>12, BeginUp
<1> QED
  BY <1>3, <1>4, <1>5, <1>6

\* The session relays, or ends.
LEMMA ServerRelaysSolo ==
  ASSUME IInv, ServerSolo(srv),
         \/ ServerInRecv \/ Resolved \/ ServerOutSent \/ ServerUdpSent
         \/ ServerOutRecv \/ ServerInSent \/ ServerEof \/ ServerError
         \/ ServerDialedLate \/ ServerDialFailed \/ UdpReadEnds
  PROVE  ServerSolo(srv')
<1>1. DOMAIN srv = SrvFields
  BY DEF IInv, SrvOK
<1>2. /\ {"in_read", "resolve", "out_write", "udp_write"} \subseteq ServerUp
      /\ {"out_read", "udp_read", "in_write"} \subseteq ServerDown
  BY DEF ServerUp, ServerDown
<1>3. CASE ServerInRecv
  <2> DEFINE s == Done(srv, "in_read")
             o(k) == [s EXCEPT !.data = Arrived("up", k)]
             u(k) == [s EXCEPT !.udpBuf = @ \o Arrived("up", k)]
  <2>1. "in_read" \in srv.ops /\ srv.status \in {"HANDSHAKE", "FORWARD", "UDP_FORWARD"}
    BY <1>3, OpsBegun DEF ServerInRecv, IInv, SrvOK, Late
  <2>2. Free(s) /\ s.status = srv.status
    BY <1>1, <1>2, <2>1, ServerFree
  <2>3. PICK k \in 1..Len(link["up"]), quota \in BOOLEAN, resolve \in BOOLEAN :
          \/ srv.status = "HANDSHAKE" /\ srv' = FirstRecv(s, Arrived("up", k), quota, resolve)
          \/ srv' = Begin(o(k), "out_write")
          \/ srv.status = "UDP_FORWARD" /\ srv' = OutUdpSent(u(k), resolve)
    BY <1>3, <2>1 DEF ServerInRecv
  <2> HIDE DEF s
  <2>4. Kin(s, o(k)) /\ Kin(s, u(k))
    BY <2>2 DEF Free, Kin, SrvFields
  <2> HIDE DEF o, u
  <2>5. /\ Free(o(k)) /\ Free(u(k)) /\ u(k).status = srv.status
        /\ o(k).status = srv.status
    BY <2>2, <2>4, KinSolo DEF Kin
  <2>6. ServerSolo(Begin(o(k), "out_write"))
    BY <1>2, <2>1, <2>5, BeginUp
  <2>7. srv.status = "HANDSHAKE" => ServerSolo(FirstRecv(s, Arrived("up", k), quota, resolve))
    BY <2>2, FirstRecvSolo
  <2>8. srv.status = "UDP_FORWARD" => ServerSolo(OutUdpSent(u(k), resolve))
    BY <2>5, OutUdpSentSolo
  <2> QED
    BY <2>3, <2>6, <2>7, <2>8
<1>4. CASE Resolved
  <2> DEFINE s == Done(srv, "resolve")
  <2>1. "resolve" \in srv.ops /\ (srv' = SendUdp(s) \/ ServerDestroy(s, "error"))
    BY <1>4 DEF Resolved
  <2>2. Free(s) /\ s.status \in {"UDP_FORWARD", "DESTROY"} /\ setup.kind = "udp"
    BY <1>1, <1>2, <2>1, ServerFree DEF ServerSolo
  <2> HIDE DEF s
  <2> QED
    BY <2>1, <2>2, SendUdpSolo, ServerDestroySolo DEF Free
<1>5. CASE ServerOutSent
  <2> DEFINE s == Done(srv, "out_write")
             d == [s EXCEPT !.toTarget = @ \o srv.data]
  <2>1. "out_write" \in srv.ops /\ srv' = Begin(d, "in_read")
    BY <1>5 DEF ServerOutSent
  <2>2. Free(s) /\ s.status # "DESTROY"
    BY <1>1, <1>2, <2>1, ServerFree, OpsBegun DEF Late
  <2> HIDE DEF s
  <2>3. Kin(s, d)
    BY <2>2 DEF Free, Kin, SrvFields
  <2> HIDE DEF d
  <2>4. Free(d) /\ d.status # "DESTROY"
    BY <2>2, <2>3, KinSolo DEF Kin
  <2> QED
    BY <1>2, <2>1, <2>4, BeginUp
<1>6. CASE ServerUdpSent
  <2> DEFINE s == Done(srv, "udp_write")
  <2>1. "udp_write" \in srv.ops
    BY <1>6 DEF ServerUdpSent
  <2>2. PICK resolve \in BOOLEAN :
          (srv.status = "UDP_FORWARD" /\ srv' = OutUdpSent(s, resolve)) \/ srv' = s
    BY <1>6 DEF ServerUdpSent
  <2>3. Free(s) /\ s.status = srv.status
    BY <1>1, <1>2, <2>1, ServerFree
  <2> HIDE DEF s
  <2> QED
    BY <2>2, <2>3, OutUdpSentSolo DEF Free
<1>7. CASE ServerOutRecv
  <2>1. PICK op \in {"out_read", "udp_read"} \cap srv.ops :
          srv' = Begin(Done(srv, op), "in_write") /\ srv.status # "DESTROY"
    BY <1>7 DEF ServerOutRecv, OutRecv
  <2> QED
    BY <1>1, <1>2, <2>1, NextDown
<1>8. CASE ServerInSent
  <2>1. PICK op \in {"udp_read", "out_read"} : srv' = Begin(Done(srv, "in_write"), op)
    BY <1>8 DEF ServerInSent
  <2>2. "in_write" \in srv.ops /\ srv.status # "DESTROY"
    BY <1>8, OpsBegun DEF ServerInSent, Late
  <2> QED
    BY <1>1, <1>2, <2>1, <2>2, NextDown
<1>9. CASE ServerEof \/ ServerError
  <2>1. PICK why \in {"eof", "error"} : ServerDestroy(srv, why)
    BY <1>9 DEF ServerEof, ServerError
  <2> QED
    BY <1>1, <2>1, ServerDestroySolo
<1>10. CASE ServerDialedLate
  <2> DEFINE r == Done(srv, "dial")
             f == [r EXCEPT !.late = TRUE]
  <2>1. "dial" \in srv.ops /\ srv.status = "DESTROY" /\ srv' = ServerDestroyed(f, srv.cause)
    BY <1>10 DEF ServerDialedLate
  <2>2. DOMAIN r = SrvFields /\ ServerSolo(r) /\ r.status = "DESTROY"
    BY <1>1, <2>1, ServerEnded
  <2> HIDE DEF r
  <2>3. DOMAIN f = SrvFields /\ f.ops = r.ops /\ f.clash = r.clash
    BY <2>2 DEF SrvFields
  <2> HIDE DEF f
  <2>4. /\ srv'.status = "DESTROY" /\ srv'.ops = r.ops \cap {"resolve", "dial", "udp_read"}
        /\ srv'.clash = r.clash
    BY <2>1, <2>3 DEF ServerDestroyed, SrvFields
  <2>5. srv'.ops \subseteq Late /\ srv'.ops \subseteq r.ops
    BY <2>4 DEF Late
  <2>6. OneOf(srv'.ops \cap ServerUp) /\ OneOf(srv'.ops \cap ServerDown)
    BY <2>2, <2>5 DEF ServerSolo, OneOf
  <2> QED
    BY <2>2, <2>4, <2>5, <2>6 DEF ServerSolo
<1>11. CASE ServerDialFailed
  BY <1>1, <1>11, ServerEnded, ServerDestroySolo DEF ServerDialFailed
<1>12. CASE UdpReadEnds
  BY <1>1, <1>12, ServerEnded DEF UdpReadEnds
<1> QED
  BY <1>3, <1>4, <1>5, <1>6, <1>7, <1>8, <1>9, <1>10, <1>11, <1>12

\* At the start at most one operation of the client is under way.
LEMMA InitSolo == Init => Solo
<1> SUFFICES ASSUME Init PROVE Solo
  OBVIOUS
<1>1. ~cs.clash /\ (cs.ops = {"dial"} \/ cs.ops = {"in_read"})
  BY DEF Init
<1>2. ~srv.clash /\ srv.ops = {} /\ srv.status = "NONE"
  BY DEF Init
<1> QED
  BY <1>1, <1>2 DEF Solo, ClientSolo, ServerSolo, OneOf, Starting

\* Who talks to whom never changes.
LEMMA NextSetup == ASSUME [Next]_vars PROVE UNCHANGED setup
<1>1. CASE \/ SocksRecv \/ ClientInSent \/ ClientDialed \/ ClientDialFailed
           \/ ClientInRecv \/ UdpRecv \/ ClientOutSent \/ ClientOutRecv
           \/ ClientUdpSent \/ ClientEof \/ ClientError
  BY <1>1 DEF SocksRecv, ClientInSent, ClientDialed, ClientDialFailed, ClientInRecv,
     UdpRecv, ClientOutSent, ClientOutRecv, ClientUdpSent, ClientEof, ClientError
<1>2. CASE \/ Handshake \/ FrontRecv \/ FrontTimeout \/ FrontEof \/ ServerDialed
           \/ ServerDialedLate \/ ServerDialFailed \/ UdpReadEnds \/ ServerInRecv
           \/ Resolved \/ ServerOutSent \/ ServerUdpSent \/ ServerOutRecv
           \/ ServerInSent \/ ServerEof \/ ServerError \/ Closes \/ UNCHANGED vars
  BY <1>2 DEF Handshake, FrontRecv, FrontTimeout, FrontEof, ServerDialed,
     ServerDialedLate, ServerDialFailed, UdpReadEnds, ServerInRecv, Resolved,
     ServerOutSent, ServerUdpSent, ServerOutRecv, ServerInSent, ServerEof,
     ServerError, Closes, vars
<1> QED
  BY <1>1, <1>2 DEF Next

\* Every step of the two programs keeps the chains.
LEMMA SoloStep == IInv /\ Solo /\ [Next]_vars => Solo'
<1> SUFFICES ASSUME IInv, Solo, [Next]_vars PROVE Solo'
  OBVIOUS
<1>0. UNCHANGED setup
  BY NextSetup
<1> SUFFICES ClientSolo(cs') /\ ServerSolo(srv')
  BY <1>0 DEF Solo, ServerSolo
<1> USE DEF Solo
<1>1. CASE UNCHANGED <<cs, srv>>
  BY <1>1
<1>2. CASE SocksRecv \/ ClientInSent \/ ClientInRecv \/ UdpRecv \/ ClientOutSent
             \/ ClientOutRecv \/ ClientUdpSent \/ ClientEof \/ ClientError
             \/ ClientDialFailed
  <2>1. UNCHANGED srv
    BY <1>2 DEF SocksRecv, ClientInSent, ClientInRecv, UdpRecv, ClientOutSent,
                ClientOutRecv, ClientUdpSent, ClientEof, ClientError, ClientDialFailed
  <2> QED
    BY <1>2, <2>1, ClientSoloStep
<1>3. CASE ClientDialed
  BY <1>3, ClientSoloStep, ServerBeginsSolo
<1>4. CASE Handshake \/ FrontRecv \/ ServerDialed
  <2>1. UNCHANGED cs
    BY <1>4 DEF Handshake, FrontRecv, ServerDialed
  <2> QED
    BY <1>4, <2>1, ServerBeginsSolo
<1>5. CASE ServerInRecv \/ Resolved \/ ServerOutSent \/ ServerUdpSent
             \/ ServerOutRecv \/ ServerInSent \/ ServerEof \/ ServerError
             \/ ServerDialedLate \/ ServerDialFailed \/ UdpReadEnds
  <2>1. UNCHANGED cs
    BY <1>5 DEF ServerInRecv, Resolved, ServerOutSent, ServerUdpSent,
                ServerOutRecv, ServerInSent, ServerEof, ServerError,
                ServerDialedLate, ServerDialFailed, UdpReadEnds
  <2> QED
    BY <1>5, <2>1, ServerRelaysSolo
<1>6. CASE FrontTimeout \/ FrontEof \/ Closes \/ UNCHANGED vars
  BY <1>1, <1>6 DEF FrontTimeout, FrontEof, Closes, vars
<1> QED
  BY <1>2, <1>3, <1>4, <1>5, <1>6 DEF Next

\* No read or write of a session is begun while the same one is under way: not
\* when datagrams are taken out of one read one by one, nor when the socket is
\* handed over, nor when the client connects after destroy.  The one exception
\* is that of NoClash, a destroyed server session that relayed datagrams, where
\* a resolution that ends late opens the UDP socket again.
THEOREM NoOperationTwice == Spec => []NoClash
<1>1. Init => IInv /\ Solo
  BY InitOK, InitSolo
<1>2. IInv /\ Solo /\ [Next]_vars => (IInv /\ Solo)'
  BY Step, SoloStep
<1>3. Solo => NoClash
  BY DEF Solo, ClientSolo, ServerSolo, NoClash
<1> QED
  BY <1>1, <1>2, <1>3, PTL DEF Spec

-----------------------------------------------------------------------------
(* The streams.  A unit is a number, and the parts of a stream, wherever     *)
(* they are, are runs of consecutive numbers that follow on each other.      *)

\* The units from a on.
Run(s, a) == s \in Seq(Nat) /\ \A i \in 1..Len(s) : s[i] = a + i - 1

\* No units, one unit, a datagram.
LEMMA RunShort ==
  ASSUME NEW a \in Nat
  PROVE  /\ Run(<<>>, a) /\ Len(<<>>) = 0 /\ Run(<<a>>, a) /\ Len(<<a>>) = 1
         /\ Run(Packet(a + 1), 2 * a + 1) /\ Len(Packet(a + 1)) = 2
<1>1. Run(<<>>, a) /\ Len(<<>>) = 0
  BY DEF Run
<1>2. Run(<<a>>, a) /\ Len(<<a>>) = 1
  BY DEF Run
<1>3. Packet(a + 1) = <<2 * a + 1, 2 * a + 2>>
  BY DEF Packet
<1>4. Run(<<2 * a + 1, 2 * a + 2>>, 2 * a + 1) /\ Len(<<2 * a + 1, 2 * a + 2>>) = 2
  BY DEF Run
<1> QED BY <1>1, <1>2, <1>3, <1>4

\* No units are a run from anywhere.
LEMMA RunNone == \A a \in Nat : Run(<<>>, a)
  BY RunShort

\* A run that follows on another continues it.
LEMMA RunCat ==
  ASSUME NEW a \in Nat, NEW s, NEW t, Run(s, a), Run(t, a + Len(s))
  PROVE  Run(s \o t, a) /\ Len(s \o t) = Len(s) + Len(t)
<1> DEFINE u == s \o t
<1>1. s \in Seq(Nat) /\ t \in Seq(Nat)
  BY DEF Run
<1>2. /\ u \in Seq(Nat) /\ Len(s) \in Nat /\ Len(t) \in Nat /\ Len(u) = Len(s) + Len(t)
      /\ \A i \in 1..Len(u) : u[i] = IF i <= Len(s) THEN s[i] ELSE t[i - Len(s)]
  BY <1>1, ConcatProperties
<1> HIDE DEF u
<1>3. ASSUME NEW i \in 1..Len(u) PROVE u[i] = a + i - 1
  <2>1. CASE i <= Len(s)
    <3>1. i \in 1..Len(s) /\ u[i] = s[i]
      BY <1>2, <2>1
    <3> QED BY <3>1 DEF Run
  <2>2. CASE ~(i <= Len(s))
    <3>1. i - Len(s) \in 1..Len(t) /\ u[i] = t[i - Len(s)]
      BY <1>2, <2>2
    <3>2. t[i - Len(s)] = (a + Len(s)) + (i - Len(s)) - 1
      BY <3>1 DEF Run
    <3> QED BY <1>2, <3>1, <3>2
  <2> QED BY <2>1, <2>2
<1>4. Run(u, a)
  BY <1>2, <1>3 DEF Run
<1> QED BY <1>2, <1>4 DEF u

\* A read takes the first k units of a run and leaves the others.
LEMMA RunCut ==
  ASSUME NEW a \in Nat, NEW s, Run(s, a), NEW k \in 0..Len(s)
  PROVE  /\ Run(SubSeq(s, 1, k), a) /\ Len(SubSeq(s, 1, k)) = k
         /\ Run(SubSeq(s, k + 1, Len(s)), a + k)
         /\ Len(SubSeq(s, k + 1, Len(s))) = Len(s) - k
<1>1. s \in Seq(Nat) /\ Len(s) \in Nat /\ k \in Nat /\ k <= Len(s)
      /\ \A i \in 1..Len(s) : s[i] \in Nat /\ s[i] = a + i - 1
  BY DEF Run
<1> DEFINE p == SubSeq(s, 1, k)
           r == SubSeq(s, k + 1, Len(s))
<1>2. p = [i \in 1..k |-> s[i]] /\ r = [i \in 1..(Len(s) - k) |-> s[i + k]]
  BY <1>1
<1>3. Run(p, a) /\ Len(p) = k
  <2>1. p \in Seq(Nat) /\ Len(p) = k
    BY <1>1, <1>2
  <2> QED BY <1>1, <1>2, <2>1 DEF Run
<1>4. Run(r, a + k) /\ Len(r) = Len(s) - k
  <2>1. Len(s) - k \in Nat /\ \A i \in 1..(Len(s) - k) : i + k \in 1..Len(s)
    BY <1>1
  <2>2. r \in Seq(Nat) /\ Len(r) = Len(s) - k
    BY <1>1, <1>2, <2>1
  <2>3. \A i \in 1..(Len(s) - k) : r[i] = (a + k) + i - 1
    BY <1>1, <1>2, <2>1
  <2> QED BY <2>2, <2>3 DEF Run
<1> QED BY <1>3, <1>4

\* Without its first unit.
LEMMA RunTail ==
  ASSUME NEW a \in Nat, NEW s, Run(s, a), s # <<>>
  PROVE  Run(Tail(s), a + 1) /\ Len(Tail(s)) = Len(s) - 1
<1>1. s \in Seq(Nat) /\ Len(s) \in Nat /\ Len(s) >= 1
  BY DEF Run
<1>2. Tail(s) = SubSeq(s, 2, Len(s))
  BY <1>1
<1>3. 1 \in 0..Len(s) /\ 1 + 1 = 2
  BY <1>1
<1>4. Run(SubSeq(s, 1 + 1, Len(s)), a + 1) /\ Len(SubSeq(s, 1 + 1, Len(s))) = Len(s) - 1
  BY <1>3, RunCut
<1> QED BY <1>2, <1>3, <1>4

\* Of two runs that begin alike the shorter one is a prefix.
LEMMA RunPrefix ==
  ASSUME NEW a \in Nat, NEW s, NEW t, Run(s, a), Run(t, a), Len(s) <= Len(t)
  PROVE  IsPrefix(s, t)
<1>1. s \in Seq(Nat) /\ t \in Seq(Nat) /\ Len(s) \in Nat /\ Len(t) \in Nat
  BY DEF Run
<1>2. \A i \in 1..Len(s) : s[i] = t[i]
  <2>1. \A i \in 1..Len(s) : i \in 1..Len(t)
    BY <1>1
  <2> QED BY <2>1 DEF Run
<1> QED BY <1>1, <1>2 DEF IsPrefix

\* The operations a server session may have under way, and where they lead.
ServerOps(s) ==
  /\ s.status \in {"NONE", "HANDSHAKE", "FORWARD", "UDP_FORWARD", "DESTROY"}
  /\ s.status = "NONE" => s.ops = {}
  /\ s.status = "HANDSHAKE" => s.ops \subseteq {"handshake", "in_read", "dial"}
  /\ s.status = "FORWARD" => s.ops \subseteq {"in_read", "out_write", "out_read", "in_write"}
  /\ s.status = "UDP_FORWARD" =>
       /\ setup.kind = "udp" /\ s.peer = "none"
       /\ s.ops \subseteq {"in_read", "resolve", "udp_write", "udp_read", "in_write"}
  /\ s.status = "DESTROY" => s.ops \subseteq Late
  /\ s.status = "FORWARD" \/ "dial" \in s.ops => setup.kind = "tcp" \/ s.peer = "fallback"
  /\ s.status # "DESTROY" => s.cause = ""

\* What a server session has of the stream to the target: the fallback gets
\* the request too, what is being written or waits for the connection follows
\* on what was written, and what udp_data_buf holds follows on that.
Base(s) == IF s.peer = "fallback" THEN 0 ELSE 1
UpBusy(s) == IF "out_write" \in s.ops THEN Len(s.data)
             ELSE IF "dial" \in s.ops THEN Len(s.outBuf) ELSE 0
UpNext(s) == Base(s) + Len(s.toTarget)
Reached(s) == UpNext(s) + UpBusy(s) + Len(s.udpBuf)
Idle(s) == s.status = "NONE" \/ (s.status = "HANDSHAKE" /\ "dial" \notin s.ops)
UpOrder(s) ==
  /\ Run(s.toTarget, Base(s)) /\ Run(s.udpBuf, UpNext(s) + UpBusy(s))
  /\ "out_write" \in s.ops => Run(s.data, UpNext(s))
  /\ "dial" \in s.ops => Run(s.outBuf, UpNext(s))
  /\ "resolve" \in s.ops => Whole(s.udpBuf)
  /\ Idle(s) => s.toTarget = <<>> /\ s.udpBuf = <<>> /\ s.peer = "none"
  /\ s.status = "FORWARD" \/ "dial" \in s.ops => s.udpBuf = <<>>

\* t has the same data as s.
Alike(s, t) ==
  /\ DOMAIN t = SrvFields
  /\ t.toTarget = s.toTarget /\ t.udpBuf = s.udpBuf /\ t.data = s.data
  /\ t.outBuf = s.outBuf /\ t.peer = s.peer /\ t.status = s.status /\ t.cause = s.cause

\* Beginning an operation does not touch the data.
LEMMA BeginAlike ==
  ASSUME NEW s, NEW op, DOMAIN s = SrvFields
  PROVE  Alike(s, Begin(s, op)) /\ Begin(s, op).ops = s.ops \cup {op}
  BY BeginFacts DEF Alike, SrvFields

\* Nor does the end of an operation.
LEMMA DoneAlike ==
  ASSUME NEW s, NEW op, DOMAIN s = SrvFields
  PROVE  Alike(s, Done(s, op)) /\ Done(s, op).ops = s.ops \ {op}
  BY DoneFacts DEF Alike, SrvFields

\* The lengths are numbers.
LEMMA UpNumbers ==
  ASSUME NEW s, UpOrder(s)
  PROVE  /\ Base(s) \in Nat /\ UpNext(s) \in Nat /\ UpBusy(s) \in Nat /\ Reached(s) \in Nat
         /\ Len(s.toTarget) \in Nat /\ Len(s.udpBuf) \in Nat
         /\ s.toTarget \in Seq(Nat) /\ s.udpBuf \in Seq(Nat)
<1>1. Base(s) \in Nat
  BY DEF Base
<1>2. s.toTarget \in Seq(Nat) /\ s.udpBuf \in Seq(Nat)
  BY DEF UpOrder, Run
<1>3. Len(s.toTarget) \in Nat /\ Len(s.udpBuf) \in Nat
  BY <1>2
<1>4. UpBusy(s) \in Nat
  <2>1. "out_write" \in s.ops => Len(s.data) \in Nat
    BY DEF UpOrder, Run
  <2>2. "dial" \in s.ops => Len(s.outBuf) \in Nat
    BY DEF UpOrder, Run
  <2> QED BY <2>1, <2>2 DEF UpBusy
<1>5. UpNext(s) \in Nat
  BY <1>1, <1>3 DEF UpNext
<1> QED BY <1>1, <1>2, <1>3, <1>4, <1>5 DEF Reached

\* A change of operations that moves no data.
LEMMA AlikeUp ==
  ASSUME NEW s, NEW t, Alike(s, t), UpOrder(s),
         "out_write" \in t.ops <=> "out_write" \in s.ops,
         "dial" \in t.ops <=> "dial" \in s.ops,
         "resolve" \in t.ops => "resolve" \in s.ops \/ Whole(s.udpBuf)
  PROVE  UpOrder(t) /\ Reached(t) = Reached(s) /\ (Idle(t) <=> Idle(s))
<1>1. Base(t) = Base(s) /\ UpBusy(t) = UpBusy(s) /\ UpNext(t) = UpNext(s)
  BY DEF Alike, Base, UpBusy, UpNext
<1>2. (Idle(t) <=> Idle(s)) /\ Reached(t) = Reached(s)
  BY <1>1 DEF Alike, Idle, Reached
<1>3. UpOrder(t)
  BY <1>1, <1>2 DEF Alike, UpOrder
<1> QED BY <1>2, <1>3

\* A datagram moves from udp_data_buf to the target.
LEMMA SendUdpFields ==
  ASSUME NEW s, DOMAIN s = SrvFields
  PROVE  LET t == SendUdp(s) IN
         /\ DOMAIN t = SrvFields
         /\ t.toTarget = s.toTarget \o SubSeq(s.udpBuf, 1, 2)
         /\ t.udpBuf = SubSeq(s.udpBuf, 3, Len(s.udpBuf))
         /\ t.data = s.data /\ t.outBuf = s.outBuf /\ t.peer = s.peer
         /\ t.status = s.status /\ t.cause = s.cause
         /\ s.ops \subseteq t.ops /\ t.ops \subseteq s.ops \cup {"udp_read", "udp_write"}
<1> DEFINE a == [s EXCEPT !.udpOpen = TRUE]
           o == Begin(a, "udp_read")
           b == IF s.udpOpen THEN s ELSE o
           c == [b EXCEPT !.toTarget = @ \o SubSeq(s.udpBuf, 1, 2),
                          !.udpBuf = SubSeq(@, 3, Len(@))]
           t == Begin(c, "udp_write")
<1>1. Alike(s, a) /\ a.ops = s.ops
  BY DEF Alike, SrvFields
<1>2. SendUdp(s) = t
  BY DEF SendUdp
<1> HIDE DEF a
<1>3. Alike(a, o) /\ o.ops = a.ops \cup {"udp_read"}
  BY <1>1, BeginAlike DEF Alike
<1> HIDE DEF o
<1>4. /\ Alike(s, b) /\ s.ops \subseteq b.ops /\ b.ops \subseteq s.ops \cup {"udp_read"}
  <2>1. Alike(s, s) /\ Alike(s, o)
    BY <1>1, <1>3 DEF Alike
  <2> QED BY <1>1, <1>3, <2>1
<1> HIDE DEF b
<1>5. /\ DOMAIN c = SrvFields /\ c.ops = b.ops
      /\ c.toTarget = s.toTarget \o SubSeq(s.udpBuf, 1, 2)
      /\ c.udpBuf = SubSeq(s.udpBuf, 3, Len(s.udpBuf))
      /\ c.data = s.data /\ c.outBuf = s.outBuf /\ c.peer = s.peer
      /\ c.status = s.status /\ c.cause = s.cause
  BY <1>4 DEF Alike, SrvFields
<1> HIDE DEF c
<1>6. Alike(c, t) /\ t.ops = c.ops \cup {"udp_write"}
  BY <1>5, BeginAlike
<1> HIDE DEF t
<1>7. /\ DOMAIN t = SrvFields
      /\ t.toTarget = s.toTarget \o SubSeq(s.udpBuf, 1, 2)
      /\ t.udpBuf = SubSeq(s.udpBuf, 3, Len(s.udpBuf))
      /\ t.data = s.data /\ t.outBuf = s.outBuf /\ t.peer = s.peer
      /\ t.status = s.status /\ t.cause = s.cause
  BY <1>5, <1>6 DEF Alike
<1>8. s.ops \subseteq t.ops /\ t.ops \subseteq s.ops \cup {"udp_read", "udp_write"}
  BY <1>4, <1>5, <1>6
<1> QED BY <1>2, <1>7, <1>8

\* Nothing of the first chain is under way: nothing is being written.
LEMMA FreeOps ==
  ASSUME NEW s, Free(s)
  PROVE  /\ "out_write" \notin s.ops /\ "dial" \notin s.ops /\ "resolve" \notin s.ops
         /\ "in_read" \notin s.ops /\ "handshake" \notin s.ops /\ "udp_write" \notin s.ops
         /\ UpBusy(s) = 0 /\ DOMAIN s = SrvFields
<1>1. \A o \in ServerUp : o \notin s.ops
  BY DEF Free
<1>2. {"handshake", "in_read", "dial", "out_write", "resolve", "udp_write"} \subseteq ServerUp
  BY DEF ServerUp
<1> QED BY <1>1, <1>2 DEF UpBusy, Free

\* The datagram is the next one of the stream.
LEMMA SendUdpUp ==
  ASSUME NEW s, Free(s), UpOrder(s), Whole(s.udpBuf), s.status \in {"UDP_FORWARD", "DESTROY"}
  PROVE  UpOrder(SendUdp(s)) /\ Reached(SendUdp(s)) = Reached(s)
<1> DEFINE t == SendUdp(s)
           w == SubSeq(s.udpBuf, 1, 2)
           r == SubSeq(s.udpBuf, 3, Len(s.udpBuf))
           x == UpNext(s)
<1>1. /\ t.toTarget = s.toTarget \o w /\ t.udpBuf = r /\ t.peer = s.peer
      /\ t.status = s.status /\ t.ops \subseteq s.ops \cup {"udp_read", "udp_write"}
  BY FreeOps, SendUdpFields
<1> HIDE DEF t, w, r
<1>2. "out_write" \notin t.ops /\ "dial" \notin t.ops /\ "resolve" \notin t.ops
  BY <1>1, FreeOps
<1>3. UpBusy(t) = 0 /\ UpBusy(s) = 0 /\ Base(t) = Base(s) /\ ~Idle(t)
  BY <1>1, <1>2, FreeOps DEF UpBusy, Base, Idle
<1>4. /\ Base(s) \in Nat /\ x \in Nat /\ x = Base(s) + Len(s.toTarget)
      /\ Len(s.toTarget) \in Nat /\ Len(s.udpBuf) \in Nat
  BY UpNumbers DEF UpNext
<1>5. Run(s.toTarget, Base(s)) /\ Run(s.udpBuf, x)
  <2>1. x + UpBusy(s) = x
    BY <1>3, <1>4
  <2> QED BY <2>1 DEF UpOrder
<1>6. 2 \in 0..Len(s.udpBuf) /\ 2 + 1 = 3
  BY <1>4 DEF Whole
<1> HIDE DEF x
<1>7. Run(w, x) /\ Len(w) = 2 /\ Run(r, x + 2) /\ Len(r) = Len(s.udpBuf) - 2
  BY <1>4, <1>5, <1>6, RunCut DEF w, r
<1>8. Run(t.toTarget, Base(s)) /\ Len(t.toTarget) = Len(s.toTarget) + 2
  <2>1. Run(w, Base(s) + Len(s.toTarget))
    BY <1>4, <1>7
  <2>2. Run(s.toTarget \o w, Base(s)) /\ Len(s.toTarget \o w) = Len(s.toTarget) + Len(w)
    BY <1>4, <1>5, <2>1, RunCat
  <2> QED BY <1>1, <1>7, <2>2
<1>9. UpNext(t) = x + 2
  BY <1>3, <1>4, <1>8 DEF UpNext
<1>10. UpNext(t) + UpBusy(t) = x + 2
  BY <1>3, <1>4, <1>9
<1>11. UpOrder(t)
  BY <1>1, <1>2, <1>3, <1>7, <1>8, <1>10 DEF UpOrder
<1>12. Reached(t) = Reached(s)
  <2>1. Reached(t) = (x + 2) + (Len(s.udpBuf) - 2)
    BY <1>1, <1>7, <1>10 DEF Reached
  <2>2. Reached(s) = x + Len(s.udpBuf)
    BY <1>3, <1>4 DEF Reached, x
  <2>3. (x + 2) + (Len(s.udpBuf) - 2) = x + Len(s.udpBuf)
    BY <1>4
  <2> QED BY <2>1, <2>2, <2>3, Zenon
<1> QED BY <1>11, <1>12 DEF t

\* out_udp_sent
LEMMA OutUdpSentUp ==
  ASSUME NEW s, NEW resolve, Free(s), UpOrder(s), s.status = "UDP_FORWARD"
  PROVE  UpOrder(OutUdpSent(s, resolve)) /\ Reached(OutUdpSent(s, resolve)) = Reached(s)
         /\ OutUdpSent(s, resolve).status = "UDP_FORWARD"
<1>1. DOMAIN s = SrvFields
  BY FreeOps
<1>2. CASE ~Whole(s.udpBuf)
  <2> DEFINE t == Begin(s, "in_read")
  <2>1. OutUdpSent(s, resolve) = t
    BY <1>2 DEF OutUdpSent
  <2>2. Alike(s, t) /\ t.ops = s.ops \cup {"in_read"}
    BY <1>1, BeginAlike
  <2> HIDE DEF t
  <2>3. UpOrder(t) /\ Reached(t) = Reached(s)
    BY <2>2, AlikeUp
  <2> QED BY <2>1, <2>2, <2>3 DEF Alike
<1>3. CASE Whole(s.udpBuf) /\ resolve
  <2> DEFINE t == Begin(s, "resolve")
  <2>1. OutUdpSent(s, resolve) = t
    BY <1>3 DEF OutUdpSent
  <2>2. Alike(s, t) /\ t.ops = s.ops \cup {"resolve"}
    BY <1>1, BeginAlike
  <2> HIDE DEF t
  <2>3. UpOrder(t) /\ Reached(t) = Reached(s)
    BY <1>3, <2>2, AlikeUp
  <2> QED BY <2>1, <2>2, <2>3 DEF Alike
<1>4. CASE Whole(s.udpBuf) /\ ~resolve
  <2>1. OutUdpSent(s, resolve) = SendUdp(s)
    BY <1>4 DEF OutUdpSent
  <2>2. UpOrder(SendUdp(s)) /\ Reached(SendUdp(s)) = Reached(s)
    BY <1>4, SendUdpUp
  <2>3. SendUdp(s).status = s.status
    BY <1>1, SendUdpFields
  <2> QED BY <2>1, <2>2, <2>3
<1> QED BY <1>2, <1>3, <1>4

\* The session waits for its connection, with the data it will send first.
LEMMA DialUp ==
  ASSUME NEW s, NEW buf, NEW x, Free(s), s.status = "HANDSHAKE", s.toTarget = <<>>,
         s.udpBuf = <<>>, s.outBuf = buf, x = Base(s), Run(buf, x)
  PROVE  LET t == Begin(s, "dial") IN
         UpOrder(t) /\ Reached(t) = x + Len(buf) /\ ~Idle(t)
<1> DEFINE t == Begin(s, "dial")
<1>1. Alike(s, t) /\ t.ops = s.ops \cup {"dial"}
  BY FreeOps, BeginAlike
<1>2. "out_write" \notin t.ops /\ "dial" \in t.ops /\ "resolve" \notin t.ops
  BY <1>1, FreeOps
<1> HIDE DEF t
<1>3. /\ t.toTarget = <<>> /\ t.udpBuf = <<>> /\ t.outBuf = buf /\ Base(t) = x
      /\ t.status = "HANDSHAKE" /\ x \in Nat
  BY <1>1 DEF Alike, Base
<1>4. Len(buf) \in Nat
  BY DEF Run
<1>5. UpBusy(t) = Len(buf) /\ UpNext(t) = x /\ ~Idle(t)
  BY <1>2, <1>3 DEF UpBusy, UpNext, Idle
<1>6. Run(<<>>, x) /\ Run(<<>>, x + Len(buf))
  <2>1. x + Len(buf) \in Nat
    BY <1>3, <1>4
  <2> QED BY <1>3, <2>1, RunNone, Zenon
<1>7. UpOrder(t)
  BY <1>2, <1>3, <1>5, <1>6 DEF UpOrder
<1>8. Reached(t) = x + Len(buf)
  BY <1>3, <1>4, <1>5 DEF Reached
<1> QED BY <1>5, <1>7, <1>8 DEF t

\* in_recv in HANDSHAKE: the first data begins with the request.
LEMMA FirstRecvUp ==
  ASSUME NEW s, NEW data, NEW quota, NEW resolve, Free(s), UpOrder(s),
         s.status = "HANDSHAKE", Run(data, 0), data # <<>>
  PROVE  LET t == FirstRecv(s, data, quota, resolve) IN
         UpOrder(t) /\ Reached(t) = Len(data) /\ ~Idle(t)
<1> DEFINE t == [s EXCEPT !.user = Auth(quota)]
           a == [t EXCEPT !.outBuf = data, !.peer = "fallback"]
           b == [t EXCEPT !.status = "UDP_FORWARD", !.udpBuf = Tail(data)]
           c == [t EXCEPT !.outBuf = Tail(data), !.peer = "requested"]
<1>1. DOMAIN s = SrvFields /\ "dial" \notin s.ops
  BY FreeOps
<1>2. s.toTarget = <<>> /\ s.udpBuf = <<>> /\ s.peer = "none"
  BY <1>1 DEF UpOrder, Idle
<1>3. \/ FirstRecv(s, data, quota, resolve) = Begin(a, "dial")
      \/ setup.kind = "udp" /\ FirstRecv(s, data, quota, resolve) = OutUdpSent(b, resolve)
      \/ FirstRecv(s, data, quota, resolve) = Begin(c, "dial")
  BY DEF FirstRecv
<1>4. Kin(s, t) /\ t.toTarget = <<>> /\ t.udpBuf = <<>> /\ t.peer = "none"
  BY <1>1, <1>2 DEF Kin, SrvFields
<1> HIDE DEF t
<1>5. Free(t) /\ t.status = "HANDSHAKE" /\ DOMAIN t = SrvFields
  BY <1>4, KinSolo DEF Kin
<1>6. /\ Kin(t, a) /\ a.toTarget = <<>> /\ a.udpBuf = <<>> /\ a.outBuf = data
      /\ a.peer = "fallback"
  BY <1>4, <1>5 DEF Kin, SrvFields
<1>7. /\ Kin(t, c) /\ c.toTarget = <<>> /\ c.udpBuf = <<>> /\ c.outBuf = Tail(data)
      /\ c.peer = "requested"
  BY <1>4, <1>5 DEF Kin, SrvFields
<1>8. /\ DOMAIN b = SrvFields /\ b.ops = t.ops /\ b.status = "UDP_FORWARD"
      /\ b.clash = t.clash /\ b.toTarget = <<>> /\ b.udpBuf = Tail(data) /\ b.peer = "none"
  BY <1>4, <1>5 DEF SrvFields
<1> HIDE DEF a, b, c
<1>9. Free(a) /\ a.status = "HANDSHAKE" /\ Free(c) /\ c.status = "HANDSHAKE"
  BY <1>5, <1>6, <1>7, KinSolo DEF Kin
<1>10. ASSUME setup.kind = "udp" PROVE Free(b)
  <2>1. "dial" \in ServerUp /\ setup.kind = "udp"
    BY <1>10 DEF ServerUp
  <2> QED
    BY <1>5, <1>8, <2>1 DEF Free, ServerSolo
<1>11. Base(a) = 0 /\ Base(b) = 1 /\ Base(c) = 1
  BY <1>6, <1>7, <1>8 DEF Base
<1>12. data \in Seq(Nat) /\ Len(data) \in Nat
  BY DEF Run
<1>13. Run(Tail(data), 1) /\ Len(Tail(data)) = Len(data) - 1
  <2>1. Run(Tail(data), 0 + 1) /\ Len(Tail(data)) = Len(data) - 1
    BY RunTail
  <2> QED BY <2>1
<1>14. CASE FirstRecv(s, data, quota, resolve) = Begin(a, "dial")
  <2>1. /\ UpOrder(Begin(a, "dial")) /\ Reached(Begin(a, "dial")) = 0 + Len(data)
        /\ ~Idle(Begin(a, "dial"))
    BY <1>6, <1>9, <1>11, DialUp
  <2>2. 0 + Len(data) = Len(data)
    BY <1>12
  <2> QED BY <1>14, <2>1, <2>2
<1>15. CASE FirstRecv(s, data, quota, resolve) = Begin(c, "dial")
  <2>1. /\ UpOrder(Begin(c, "dial")) /\ Reached(Begin(c, "dial")) = 1 + Len(Tail(data))
        /\ ~Idle(Begin(c, "dial"))
    BY <1>7, <1>9, <1>11, <1>13, DialUp
  <2>2. 1 + Len(Tail(data)) = Len(data)
    BY <1>12, <1>13
  <2> QED BY <1>15, <2>1, <2>2
<1>16. CASE setup.kind = "udp" /\ FirstRecv(s, data, quota, resolve) = OutUdpSent(b, resolve)
  <2>0. Free(b)
    BY <1>10, <1>16
  <2>1. UpBusy(b) = 0 /\ "out_write" \notin b.ops /\ "dial" \notin b.ops /\ "resolve" \notin b.ops
    BY <2>0, FreeOps
  <2>2. UpNext(b) = 1 /\ UpNext(b) + UpBusy(b) = 1
    BY <1>8, <1>11, <2>1 DEF UpNext
  <2>3. Run(<<>>, 1)
    BY RunNone
  <2>4. UpOrder(b)
    BY <1>8, <1>11, <1>13, <2>1, <2>2, <2>3 DEF UpOrder, Idle
  <2>5. Reached(b) = Len(data)
    BY <1>8, <1>12, <1>13, <2>2 DEF Reached
  <2> DEFINE u == OutUdpSent(b, resolve)
  <2>6. UpOrder(u) /\ Reached(u) = Reached(b) /\ u.status = "UDP_FORWARD"
    BY <1>8, <2>0, <2>4, OutUdpSentUp
  <2> HIDE DEF u
  <2>7. ~Idle(u)
    BY <2>6 DEF Idle
  <2> QED BY <1>16, <2>5, <2>6, <2>7 DEF u
<1> QED BY <1>3, <1>14, <1>15, <1>16

\* connect_out_socket has reached the target.
LEMMA DialedUp ==
  ASSUME IInv, ServerSolo(srv), UpOrder(srv), ServerDialed
  PROVE  UpOrder(srv') /\ Reached(srv') = Reached(srv) /\ ~Idle(srv')
<1> DEFINE r == Done(srv, "dial")
           f == [r EXCEPT !.status = "FORWARD"]
           s == Begin(f, "out_read")
           d == [s EXCEPT !.data = srv.outBuf, !.outBuf = <<>>]
           x == UpNext(srv)
<1>1. "dial" \in srv.ops /\ srv' = IF srv.outBuf # <<>> THEN Begin(d, "out_write")
                                                        ELSE Begin(s, "in_read")
  BY DEF ServerDialed
<1>2. DOMAIN srv = SrvFields /\ "dial" \in ServerUp
  BY DEF IInv, SrvOK, ServerUp
<1>3. Free(r)
  BY <1>1, <1>2, ServerFree
<1>4. Alike(srv, r)
  BY <1>2, DoneAlike
<1>5. "out_write" \notin r.ops /\ "dial" \notin r.ops /\ "resolve" \notin r.ops
  BY <1>3, FreeOps
<1>6. "out_write" \notin srv.ops
  <2>1. r.ops = srv.ops \ {"dial"}
    BY <1>2, DoneAlike
  <2> QED BY <1>5, <2>1
<1> HIDE DEF r
<1>7. /\ DOMAIN f = SrvFields /\ f.ops = r.ops /\ f.status = "FORWARD"
      /\ f.toTarget = srv.toTarget /\ f.udpBuf = srv.udpBuf /\ f.outBuf = srv.outBuf
      /\ f.peer = srv.peer
  BY <1>4 DEF Alike, SrvFields
<1> HIDE DEF f
<1>8. Alike(f, s) /\ s.ops = f.ops \cup {"out_read"}
  BY <1>7, BeginAlike
<1> HIDE DEF s
<1>9. /\ DOMAIN d = SrvFields /\ d.ops = s.ops /\ d.status = "FORWARD"
      /\ d.toTarget = srv.toTarget /\ d.udpBuf = srv.udpBuf /\ d.data = srv.outBuf
      /\ d.peer = srv.peer
  BY <1>7, <1>8 DEF Alike, SrvFields
<1> HIDE DEF d
<1>10. /\ Run(srv.toTarget, Base(srv)) /\ Run(srv.outBuf, x) /\ srv.udpBuf = <<>>
       /\ x \in Nat /\ Len(srv.toTarget) \in Nat
  BY <1>1, UpNumbers DEF UpOrder
<1>11. Len(srv.outBuf) \in Nat /\ UpBusy(srv) = Len(srv.outBuf)
  BY <1>1, <1>6, <1>10 DEF Run, UpBusy
<1>12. Reached(srv) = x + Len(srv.outBuf)
  BY <1>10, <1>11 DEF Reached
<1> HIDE DEF x
<1>13. Run(<<>>, x) /\ Run(<<>>, x + Len(srv.outBuf)) /\ x + 0 = x
  <2>1. x + Len(srv.outBuf) \in Nat /\ x + 0 = x
    BY <1>10, <1>11
  <2> QED BY <1>10, <2>1, RunNone, Zenon
<1>14. CASE srv.outBuf # <<>>
  <2> DEFINE t == Begin(d, "out_write")
  <2>1. srv' = t
    BY <1>1, <1>14
  <2>2. Alike(d, t) /\ t.ops = d.ops \cup {"out_write"}
    BY <1>9, BeginAlike
  <2> HIDE DEF t
  <2>3. "out_write" \in t.ops /\ "dial" \notin t.ops /\ "resolve" \notin t.ops
    BY <1>5, <1>7, <1>8, <1>9, <2>2
  <2>4. /\ t.toTarget = srv.toTarget /\ t.udpBuf = <<>> /\ t.data = srv.outBuf
        /\ t.peer = srv.peer /\ t.status = "FORWARD"
    BY <1>9, <1>10, <2>2 DEF Alike
  <2>5. Base(t) = Base(srv) /\ UpNext(t) = x /\ UpBusy(t) = Len(srv.outBuf) /\ ~Idle(t)
    BY <2>3, <2>4 DEF Base, UpNext, UpBusy, x, Idle
  <2>6. UpOrder(t)
    BY <1>10, <1>13, <2>3, <2>4, <2>5 DEF UpOrder
  <2>7. Reached(t) = x + Len(srv.outBuf)
    BY <1>10, <1>11, <2>4, <2>5 DEF Reached
  <2> QED BY <1>12, <2>1, <2>5, <2>6, <2>7
<1>15. CASE srv.outBuf = <<>>
  <2> DEFINE t == Begin(s, "in_read")
  <2>1. srv' = t
    BY <1>1, <1>15
  <2>2. Alike(s, t) /\ t.ops = s.ops \cup {"in_read"}
    BY <1>8, BeginAlike DEF Alike
  <2> HIDE DEF t
  <2>3. "out_write" \notin t.ops /\ "dial" \notin t.ops /\ "resolve" \notin t.ops
    BY <1>5, <1>7, <1>8, <2>2
  <2>4. /\ t.toTarget = srv.toTarget /\ t.udpBuf = <<>> /\ t.peer = srv.peer
        /\ t.status = "FORWARD"
    BY <1>7, <1>8, <1>10, <2>2 DEF Alike
  <2>5. Base(t) = Base(srv) /\ UpNext(t) = x /\ UpBusy(t) = 0 /\ ~Idle(t)
    BY <2>3, <2>4 DEF Base, UpNext, UpBusy, x, Idle
  <2>6. UpOrder(t)
    BY <1>10, <1>13, <2>3, <2>4, <2>5 DEF UpOrder
  <2>7. Reached(t) = x /\ Len(srv.outBuf) = 0
    BY <1>10, <1>15, <2>4, <2>5 DEF Reached
  <2> QED BY <1>10, <1>12, <2>1, <2>5, <2>6, <2>7
<1> QED BY <1>14, <1>15

\* ServerSession::out_sent
LEMMA OutSentUp ==
  ASSUME IInv, ServerSolo(srv), UpOrder(srv), srv.status = "FORWARD", ServerOutSent
  PROVE  UpOrder(srv') /\ Reached(srv') = Reached(srv) /\ ~Idle(srv')
         /\ srv'.status = "FORWARD"
<1> DEFINE r == Done(srv, "out_write")
           d == [r EXCEPT !.toTarget = @ \o srv.data]
           t == Begin(d, "in_read")
           x == UpNext(srv)
<1>1. "out_write" \in srv.ops /\ srv' = t
  BY DEF ServerOutSent
<1>2. DOMAIN srv = SrvFields /\ "out_write" \in ServerUp
  BY DEF IInv, SrvOK, ServerUp
<1>3. Free(r)
  BY <1>1, <1>2, ServerFree
<1>4. Alike(srv, r)
  BY <1>2, DoneAlike
<1>5. "out_write" \notin r.ops /\ "dial" \notin r.ops /\ "resolve" \notin r.ops
  BY <1>3, FreeOps
<1> HIDE DEF r
<1>6. /\ DOMAIN d = SrvFields /\ d.ops = r.ops /\ d.status = "FORWARD"
      /\ d.toTarget = srv.toTarget \o srv.data /\ d.udpBuf = srv.udpBuf
      /\ d.peer = srv.peer
  BY <1>4 DEF Alike, SrvFields
<1> HIDE DEF d
<1>7. Alike(d, t) /\ t.ops = d.ops \cup {"in_read"}
  BY <1>6, BeginAlike
<1> HIDE DEF t
<1>8. "out_write" \notin t.ops /\ "dial" \notin t.ops /\ "resolve" \notin t.ops
  BY <1>5, <1>6, <1>7
<1>9. /\ Run(srv.toTarget, Base(srv)) /\ Run(srv.data, x) /\ srv.udpBuf = <<>>
      /\ x \in Nat /\ Len(srv.toTarget) \in Nat /\ Base(srv) \in Nat
      /\ x = Base(srv) + Len(srv.toTarget)
  BY <1>1, UpNumbers DEF UpOrder, UpNext
<1>10. Len(srv.data) \in Nat /\ UpBusy(srv) = Len(srv.data)
  BY <1>1, <1>9 DEF Run, UpBusy
<1>11. Reached(srv) = x + Len(srv.data)
  BY <1>9, <1>10 DEF Reached
<1> HIDE DEF x
<1>12. /\ t.toTarget = srv.toTarget \o srv.data /\ t.udpBuf = <<>>
       /\ t.peer = srv.peer /\ t.status = "FORWARD"
  BY <1>6, <1>7, <1>9 DEF Alike
<1>13. /\ Run(srv.toTarget \o srv.data, Base(srv))
       /\ Len(srv.toTarget \o srv.data) = Len(srv.toTarget) + Len(srv.data)
  BY <1>9, RunCat
<1>14. Base(t) = Base(srv) /\ UpBusy(t) = 0 /\ ~Idle(t)
  BY <1>8, <1>12 DEF Base, UpBusy, Idle
<1>15. UpNext(t) = x + Len(srv.data) /\ UpNext(t) + UpBusy(t) \in Nat
  <2>1. UpNext(t) = Base(srv) + (Len(srv.toTarget) + Len(srv.data))
    BY <1>12, <1>13, <1>14 DEF UpNext
  <2>2. \A a, b, c \in Nat : a + (b + c) = (a + b) + c /\ (a + b) + c \in Nat
                              /\ ((a + b) + c) + 0 = (a + b) + c
    OBVIOUS
  <2>3. Base(srv) \in Nat /\ Len(srv.toTarget) \in Nat /\ Len(srv.data) \in Nat
    BY <1>9, <1>10
  <2>4. /\ Base(srv) + (Len(srv.toTarget) + Len(srv.data)) = x + Len(srv.data)
        /\ x + Len(srv.data) \in Nat /\ (x + Len(srv.data)) + 0 = x + Len(srv.data)
    BY <1>9, <2>2, <2>3, Zenon
  <2> QED BY <1>14, <2>1, <2>4, Zenon
<1>16. Run(<<>>, UpNext(t) + UpBusy(t))
  BY <1>15, RunNone, Zenon
<1>17. UpOrder(t)
  BY <1>8, <1>12, <1>13, <1>14, <1>16 DEF UpOrder
<1>18. Reached(t) = x + Len(srv.data)
  BY <1>9, <1>10, <1>12, <1>14, <1>15 DEF Reached
<1> QED BY <1>1, <1>11, <1>12, <1>14, <1>17, <1>18

\* in_recv in FORWARD: what was read is written to the target.
LEMMA InRecvUp ==
  ASSUME NEW s, NEW w, Free(s), UpOrder(s), s.status = "FORWARD", Run(w, Reached(s))
  PROVE  LET t == Begin([s EXCEPT !.data = w], "out_write") IN
         UpOrder(t) /\ Reached(t) = Reached(s) + Len(w) /\ ~Idle(t)
<1> DEFINE d == [s EXCEPT !.data = w]
           t == Begin(d, "out_write")
           x == UpNext(s)
<1>1. "out_write" \notin s.ops /\ "dial" \notin s.ops /\ "resolve" \notin s.ops
      /\ UpBusy(s) = 0 /\ DOMAIN s = SrvFields
  BY FreeOps
<1>2. /\ DOMAIN d = SrvFields /\ d.ops = s.ops /\ d.status = "FORWARD" /\ d.data = w
      /\ d.toTarget = s.toTarget /\ d.udpBuf = s.udpBuf /\ d.peer = s.peer
  BY <1>1 DEF SrvFields
<1> HIDE DEF d
<1>3. Alike(d, t) /\ t.ops = d.ops \cup {"out_write"}
  BY <1>2, BeginAlike
<1> HIDE DEF t
<1>4. "out_write" \in t.ops /\ "dial" \notin t.ops /\ "resolve" \notin t.ops
  BY <1>1, <1>2, <1>3
<1>5. /\ Run(s.toTarget, Base(s)) /\ s.udpBuf = <<>> /\ x \in Nat
      /\ Len(s.toTarget) \in Nat /\ Len(w) \in Nat
  BY UpNumbers DEF UpOrder, Run
<1>6. Reached(s) = x
  BY <1>1, <1>5 DEF Reached
<1>7. /\ t.toTarget = s.toTarget /\ t.udpBuf = <<>> /\ t.data = w
      /\ t.peer = s.peer /\ t.status = "FORWARD"
  BY <1>2, <1>3, <1>5 DEF Alike
<1>8. Base(t) = Base(s) /\ UpNext(t) = x /\ UpBusy(t) = Len(w) /\ ~Idle(t)
  BY <1>4, <1>7 DEF Base, UpNext, UpBusy, Idle
<1> HIDE DEF x
<1>9. Run(<<>>, x + Len(w))
  <2>1. x + Len(w) \in Nat
    BY <1>5
  <2> QED BY <2>1, RunNone, Zenon
<1>10. UpOrder(t)
  BY <1>4, <1>5, <1>6, <1>7, <1>8, <1>9 DEF UpOrder
<1>11. Reached(t) = x + Len(w)
  BY <1>5, <1>7, <1>8 DEF Reached
<1> QED BY <1>6, <1>8, <1>10, <1>11 DEF t, d

\* in_recv in UDP_FORWARD: what was read is added to udp_data_buf.
LEMMA MoreUdp ==
  ASSUME NEW s, NEW w, Free(s), UpOrder(s), s.status = "UDP_FORWARD", Run(w, Reached(s))
  PROVE  LET t == [s EXCEPT !.udpBuf = @ \o w] IN
         /\ UpOrder(t) /\ Reached(t) = Reached(s) + Len(w) /\ Free(t)
         /\ t.status = "UDP_FORWARD"
<1> DEFINE t == [s EXCEPT !.udpBuf = @ \o w]
           x == UpNext(s)
<1>1. "out_write" \notin s.ops /\ "dial" \notin s.ops /\ "resolve" \notin s.ops
      /\ UpBusy(s) = 0 /\ DOMAIN s = SrvFields
  BY FreeOps
<1>2. /\ Kin(s, t) /\ t.ops = s.ops /\ t.status = "UDP_FORWARD"
      /\ t.toTarget = s.toTarget /\ t.udpBuf = s.udpBuf \o w /\ t.peer = s.peer
  BY <1>1 DEF SrvFields, Kin
<1> HIDE DEF t
<1>3. /\ Run(s.toTarget, Base(s)) /\ x \in Nat /\ Len(s.toTarget) \in Nat
      /\ Len(s.udpBuf) \in Nat /\ Len(w) \in Nat
  <2>1. Run(s.toTarget, Base(s))
    BY DEF UpOrder
  <2>2. Len(w) \in Nat
    BY DEF Run
  <2> QED BY <2>1, <2>2, UpNumbers
<1>4. x + UpBusy(s) = x /\ Reached(s) = x + Len(s.udpBuf)
  BY <1>1, <1>3 DEF Reached
<1>5. Run(s.udpBuf, x)
  BY <1>4 DEF UpOrder
<1>6. Run(s.udpBuf \o w, x) /\ Len(s.udpBuf \o w) = Len(s.udpBuf) + Len(w)
  <2>1. Run(w, x + Len(s.udpBuf))
    BY <1>4
  <2> HIDE DEF x
  <2> QED BY <1>3, <1>5, <2>1, RunCat
<1>7. Base(t) = Base(s) /\ UpNext(t) = x /\ UpBusy(t) = 0 /\ ~Idle(t)
  BY <1>1, <1>2 DEF Base, UpNext, UpBusy, Idle
<1> HIDE DEF x
<1>8. UpNext(t) + UpBusy(t) = x
  BY <1>3, <1>7
<1>9. UpOrder(t)
  BY <1>1, <1>2, <1>3, <1>6, <1>7, <1>8 DEF UpOrder
<1>10. Reached(t) = x + (Len(s.udpBuf) + Len(w))
  BY <1>2, <1>6, <1>8 DEF Reached
<1>11. x + (Len(s.udpBuf) + Len(w)) = (x + Len(s.udpBuf)) + Len(w)
  BY <1>3
<1>12. Free(t)
  BY <1>2, KinSolo
<1> QED BY <1>2, <1>4, <1>9, <1>10, <1>11, <1>12 DEF t

\* destroy drops what was being written; a resolution still has its datagram
\* and a dial what it was to write.
LEMMA DestroyedUp ==
  ASSUME NEW s, NEW why, DOMAIN s = SrvFields, ServerOps(s), UpOrder(s)
  PROVE  LET t == ServerDestroyed(s, why) IN
         UpOrder(t) /\ Reached(t) <= Reached(s) /\ t.status = "DESTROY"
<1> DEFINE t == ServerDestroyed(s, why)
<1>1. /\ t.status = "DESTROY" /\ t.ops = s.ops \cap {"resolve", "dial", "udp_read"}
      /\ t.peer = s.peer
      /\ t.toTarget = s.toTarget /\ t.udpBuf = s.udpBuf /\ t.outBuf = s.outBuf
  BY DEF ServerDestroyed, SrvFields
<1> HIDE DEF t
<1>2. /\ "out_write" \notin t.ops /\ ("dial" \in t.ops <=> "dial" \in s.ops)
      /\ "resolve" \in t.ops => "resolve" \in s.ops
  BY <1>1
<1>3. UpNext(t) = UpNext(s) /\ Base(t) = Base(s) /\ ~Idle(t)
  BY <1>1, <1>2 DEF UpNext, Base, Idle
<1>4. /\ UpNext(s) \in Nat /\ UpBusy(s) \in Nat /\ Len(s.udpBuf) \in Nat
  BY UpNumbers
<1>9. CASE "dial" \in s.ops
  <2>1. "out_write" \notin s.ops
    BY <1>9 DEF ServerOps, Late
  <2>2. UpBusy(t) = UpBusy(s)
    BY <1>1, <1>2, <1>9, <2>1 DEF UpBusy
  <2>3. UpOrder(t)
    BY <1>1, <1>2, <1>3, <2>2 DEF UpOrder
  <2>4. Reached(t) = Reached(s) /\ Reached(s) \in Nat
    BY <1>1, <1>3, <2>2, UpNumbers DEF Reached
  <2>5. Reached(t) <= Reached(s)
    BY <2>4
  <2> QED BY <1>1, <2>3, <2>5 DEF t
<1> SUFFICES ASSUME "dial" \notin s.ops
             PROVE  UpOrder(t) /\ Reached(t) <= Reached(s) /\ t.status = "DESTROY"
  BY <1>9 DEF t
<1>10. UpBusy(t) = 0
  BY <1>2 DEF UpBusy
<1>5. UpNext(t) + UpBusy(t) = UpNext(s)
  BY <1>3, <1>4, <1>10
<1>6. Run(s.udpBuf, UpNext(s))
  <2>1. CASE "out_write" \in s.ops
    <3>1. s.udpBuf = <<>>
      BY <2>1 DEF UpOrder, ServerOps, Late
    <3>2. Run(<<>>, UpNext(s))
      BY <1>4, RunNone, Zenon
    <3> QED BY <3>1, <3>2
  <2>2. CASE "out_write" \notin s.ops
    <3>1. UpBusy(s) = 0
      BY <2>2 DEF UpBusy
    <3>2. UpNext(s) + UpBusy(s) = UpNext(s)
      BY <1>4, <3>1
    <3> QED BY <3>2 DEF UpOrder
  <2> QED BY <2>1, <2>2
<1>7. UpOrder(t)
  BY <1>1, <1>2, <1>3, <1>5, <1>6 DEF UpOrder
<1>8. Reached(t) <= Reached(s)
  BY <1>1, <1>4, <1>5 DEF Reached
<1> QED BY <1>1, <1>7, <1>8 DEF t

\* A dial that ends after destroy, or with it, drops what it was to write.
LEMMA DialEndsUp ==
  ASSUME NEW s, NEW t, UpOrder(s), "dial" \in s.ops, "out_write" \notin s.ops,
         t.status = "DESTROY", t.toTarget = s.toTarget, t.udpBuf = s.udpBuf,
         t.peer = s.peer, t.ops \subseteq s.ops \ {"dial"}
  PROVE  UpOrder(t) /\ Reached(t) <= Reached(s)
<1>1. /\ UpNext(s) \in Nat /\ UpBusy(s) \in Nat /\ s.udpBuf = <<>> /\ Len(<<>>) = 0
      /\ Len(s.udpBuf) \in Nat
  BY UpNumbers DEF UpOrder
<1>2. /\ UpNext(t) = UpNext(s) /\ Base(t) = Base(s) /\ ~Idle(t) /\ UpBusy(t) = 0
      /\ "out_write" \notin t.ops /\ "dial" \notin t.ops
      /\ "resolve" \in t.ops => "resolve" \in s.ops
  BY DEF UpNext, Base, Idle, UpBusy
<1>3. Run(<<>>, UpNext(s)) /\ UpNext(t) + UpBusy(t) = UpNext(s)
  <2>1. Run(<<>>, UpNext(s))
    BY <1>1, RunNone, Zenon
  <2> QED BY <1>1, <1>2, <2>1
<1>4. UpOrder(t)
  BY <1>1, <1>2, <1>3 DEF UpOrder
<1>5. Reached(t) <= Reached(s)
  BY <1>1, <1>2, <1>3 DEF Reached
<1> QED BY <1>4, <1>5

\* The whole stream to the target: s is the server session, b the buffer of
\* the front, l what is on the way, st the phase of the client, n the last
\* unit the application has sent.  Until an end is destroyed nothing is
\* missing between what the server has read and that unit.
Place(s, b) == IF Idle(s) THEN Len(b) ELSE Reached(s)
Joins(x, l, st, n) ==
  /\ Run(l, x) /\ x + Len(l) <= n + 1
  /\ st \notin Early \cup {"DESTROY"} => x + Len(l) = n + 1
UpLine(s, b, l, st, n) ==
  /\ UpOrder(s) /\ Run(b, 0) /\ n \in Nat /\ Reached(s) <= n + 1
  /\ s.status # "NONE" => b = <<>>
  /\ s.status # "DESTROY" => Joins(Place(s, b), l, st, n)
  /\ st \in Early => n = 0 /\ l = <<>> /\ b = <<>>

\* The lengths are numbers.
LEMMA PlaceNat ==
  ASSUME NEW s, NEW b, UpOrder(s), Run(b, 0)
  PROVE  Place(s, b) \in Nat /\ Len(b) \in Nat
<1>1. Len(b) \in Nat
  BY DEF Run
<1> QED BY <1>1, UpNumbers DEF Place

\* Data moves inside the server session.
LEMMA UpMoves ==
  ASSUME NEW s, NEW t, NEW b, NEW l, NEW st, NEW n, UpLine(s, b, l, st, n), UpOrder(t),
         Reached(t) = Reached(s), Idle(t) <=> Idle(s),
         t.status = "DESTROY" <=> s.status = "DESTROY",
         t.status = "NONE" <=> s.status = "NONE"
  PROVE  UpLine(t, b, l, st, n)
<1>1. Place(t, b) = Place(s, b)
  BY DEF Place
<1> QED BY <1>1 DEF UpLine

\* The server session is destroyed.
LEMMA UpEnds ==
  ASSUME NEW s, NEW t, NEW b, NEW l, NEW st, NEW n, UpLine(s, b, l, st, n), UpOrder(t),
         Reached(t) <= Reached(s), t.status = "DESTROY", s.status # "NONE"
  PROVE  UpLine(t, b, l, st, n)
<1>1. Reached(t) \in Nat /\ Reached(s) \in Nat /\ n \in Nat /\ Reached(s) <= n + 1
  BY UpNumbers DEF UpLine
<1>2. Reached(t) <= n + 1
  BY <1>1
<1> QED BY <1>2 DEF UpLine

\* The server session reads the first k units.
LEMMA UpReads ==
  ASSUME NEW s, NEW t, NEW b, NEW l, NEW st, NEW n, UpLine(s, b, l, st, n),
         s.status # "DESTROY", NEW k \in 1..Len(l), UpOrder(t), ~Idle(t), t.status # "NONE",
         Reached(t) = Place(s, b) + k
  PROVE  UpLine(t, <<>>, SubSeq(l, k + 1, Len(l)), st, n)
<1> DEFINE x == Place(s, b)
           r == SubSeq(l, k + 1, Len(l))
<1>1. x \in Nat /\ n \in Nat
  BY PlaceNat DEF UpLine
<1>2. Joins(x, l, st, n)
  BY DEF UpLine
<1> HIDE DEF x
<1>3. Run(l, x) /\ Len(l) \in Nat
  BY <1>2 DEF Joins, Run
<1>4. k \in 0..Len(l) /\ k \in Nat
  BY <1>3
<1>5. Run(r, x + k) /\ Len(r) = Len(l) - k
  BY <1>1, <1>3, <1>4, RunCut
<1> HIDE DEF r
<1>6. (x + k) + Len(r) = x + Len(l) /\ x + k <= x + Len(l) /\ x + k \in Nat
  BY <1>1, <1>3, <1>4, <1>5
<1>7. Joins(x + k, r, st, n)
  BY <1>2, <1>5, <1>6 DEF Joins
<1>8. Place(t, <<>>) = x + k /\ Reached(t) = x + k
  BY DEF Place, x
<1>9. x + k <= n + 1
  <2>1. x + Len(l) <= n + 1
    BY <1>2 DEF Joins
  <2> QED BY <1>1, <1>3, <1>4, <2>1
<1>10. st \notin Early
  <2>1. st \in Early => Len(l) = 0
    BY DEF UpLine
  <2> QED BY <1>3, <2>1
<1>11. Run(<<>>, 0)
  BY RunNone
<1> QED BY <1>1, <1>7, <1>8, <1>9, <1>10, <1>11 DEF UpLine, r

\* The front keeps what it has read of a line.
LEMMA UpBuffers ==
  ASSUME NEW s, NEW b, NEW l, NEW st, NEW n, UpLine(s, b, l, st, n),
         s.status = "NONE", NEW k \in 1..Len(l)
  PROVE  UpLine(s, b \o SubSeq(l, 1, k), SubSeq(l, k + 1, Len(l)), st, n)
<1> DEFINE w == SubSeq(l, 1, k)
           r == SubSeq(l, k + 1, Len(l))
           x == Len(b)
<1>1. x \in Nat /\ n \in Nat /\ Run(b, 0)
  BY PlaceNat DEF UpLine
<1>2. Joins(x, l, st, n) /\ Idle(s)
  BY DEF UpLine, Place, Idle
<1>3. 0 + x = x
  BY <1>1
<1> HIDE DEF x
<1>4. Run(l, x) /\ Len(l) \in Nat
  BY <1>2 DEF Joins, Run
<1>5. k \in 0..Len(l) /\ k \in Nat
  BY <1>4
<1>6. Run(w, x) /\ Len(w) = k /\ Run(r, x + k) /\ Len(r) = Len(l) - k
  BY <1>1, <1>4, <1>5, RunCut
<1> HIDE DEF w, r
<1>7. Run(b \o w, 0) /\ Len(b \o w) = x + k
  <2>1. Run(w, 0 + Len(b)) /\ 0 \in Nat
    BY <1>3, <1>6 DEF x
  <2>2. Run(b \o w, 0) /\ Len(b \o w) = Len(b) + Len(w)
    BY <1>1, <2>1, RunCat
  <2> QED BY <1>6, <2>2 DEF x
<1>8. (x + k) + Len(r) = x + Len(l) /\ x + k \in Nat
  BY <1>1, <1>4, <1>5, <1>6
<1>9. Joins(x + k, r, st, n)
  BY <1>2, <1>6, <1>8 DEF Joins
<1>10. Place(s, b \o w) = x + k
  BY <1>2, <1>7 DEF Place
<1>11. st \notin Early
  <2>1. st \in Early => Len(l) = 0
    BY DEF UpLine
  <2> QED BY <1>4, <2>1
<1> QED BY <1>7, <1>9, <1>10, <1>11 DEF UpLine, w, r

\* The client writes what the application sent next.
LEMMA UpWrites ==
  ASSUME NEW s, NEW b, NEW l, NEW st, NEW n, UpLine(s, b, l, st, n),
         st \notin Early \cup {"DESTROY"}, NEW w, Run(w, n + 1)
  PROVE  UpLine(s, b, l \o w, st, n + Len(w))
<1> DEFINE x == Place(s, b)
<1>1. x \in Nat /\ n \in Nat /\ Reached(s) \in Nat /\ Reached(s) <= n + 1
  BY PlaceNat, UpNumbers DEF UpLine
<1>2. Len(w) \in Nat
  BY DEF Run
<1>3. n + Len(w) \in Nat /\ Reached(s) <= (n + Len(w)) + 1
  BY <1>1, <1>2
<1>4. ASSUME s.status # "DESTROY" PROVE Joins(x, l \o w, st, n + Len(w))
  <2>1. Joins(x, l, st, n)
    BY <1>4 DEF UpLine
  <2> HIDE DEF x
  <2>2. Run(l, x) /\ Len(l) \in Nat /\ x + Len(l) = n + 1
    BY <2>1 DEF Joins, Run
  <2>3. Run(l \o w, x) /\ Len(l \o w) = Len(l) + Len(w)
    BY <1>1, <2>2, RunCat
  <2>4. x + (Len(l) + Len(w)) = (n + Len(w)) + 1
    BY <1>1, <1>2, <2>2
  <2>5. x + Len(l \o w) <= (n + Len(w)) + 1
    BY <1>3, <2>3, <2>4
  <2> QED BY <2>3, <2>4, <2>5 DEF Joins
<1> QED BY <1>3, <1>4 DEF UpLine

\* The client is destroyed: what was being written may be cut off.
LEMMA UpStops ==
  ASSUME NEW s, NEW b, NEW l, NEW st, NEW n, UpLine(s, b, l, st, n), NEW k,
         s.status # "DESTROY" => k \in 0..Len(l)
  PROVE  UpLine(s, b, SubSeq(l, 1, Len(l) - k), "DESTROY", n)
<1> DEFINE x == Place(s, b)
           p == SubSeq(l, 1, Len(l) - k)
<1>1. x \in Nat /\ n \in Nat
  BY PlaceNat DEF UpLine
<1>2. ASSUME s.status # "DESTROY" PROVE Joins(x, p, "DESTROY", n)
  <2>1. Joins(x, l, st, n)
    BY <1>2 DEF UpLine
  <2> HIDE DEF x
  <2>2. Run(l, x) /\ Len(l) \in Nat /\ x + Len(l) <= n + 1
    BY <2>1 DEF Joins, Run
  <2>3. Len(l) - k \in 0..Len(l)
    BY <1>2, <2>2
  <2>4. Run(p, x) /\ Len(p) = Len(l) - k
    BY <1>1, <2>2, <2>3, RunCut
  <2> HIDE DEF p
  <2>5. x + Len(p) <= n + 1
    BY <1>1, <2>2, <2>3, <2>4
  <2> QED BY <2>4, <2>5 DEF Joins
<1>3. "DESTROY" \notin Early
  BY DEF Early
<1> QED BY <1>2, <1>3 DEF UpLine

\* A client that is destroyed before it has a connection leaves all as it is.
LEMMA UpAny ==
  ASSUME NEW s, NEW b, NEW l, NEW st, NEW n, UpLine(s, b, l, st, n)
  PROVE  UpLine(s, b, l, "DESTROY", n)
<1>1. "DESTROY" \notin Early
  BY DEF Early
<1> QED BY <1>1 DEF UpLine, Joins

\* The client is connected and has written the request; the server has
\* accepted the connection with a session or with a front.
LEMMA UpDials ==
  ASSUME NEW s, NEW t, NEW b, NEW l, NEW st, NEW n, UpLine(s, b, l, st, n), st \in Early,
         s.status = "NONE", UpOrder(t), Idle(t), t.status \in {"NONE", "HANDSHAKE"},
         Reached(t) = Reached(s), NEW su
  PROVE  su \notin Early => UpLine(t, b, l \o <<Req>>, su, n)
<1>1. n = 0 /\ l = <<>> /\ b = <<>> /\ Reached(t) <= n + 1
  BY DEF UpLine
<1>2. l \o <<Req>> = <<0>>
  BY <1>1 DEF Req
<1>3. Run(<<0>>, 0) /\ Len(<<0>>) = 1
  BY RunShort
<1>4. Place(t, b) = 0
  BY <1>1 DEF Place
<1>5. Joins(0, <<0>>, su, 0)
  BY <1>3 DEF Joins
<1> QED BY <1>1, <1>2, <1>4, <1>5 DEF UpLine

-----------------------------------------------------------------------------
(* The operations of the two sessions in each status.                        *)

\* destroy leaves at most a resolution, a dial and a read of datagrams.
LEMMA DestroyedOps ==
  ASSUME NEW s, NEW why, DOMAIN s = SrvFields, ServerOps(s)
  PROVE  LET t == ServerDestroyed(s, why) IN
         /\ ServerOps(t) /\ DOMAIN t = SrvFields /\ t.status = "DESTROY" /\ t.cause = why
         /\ t.peer = s.peer
<1> DEFINE t == ServerDestroyed(s, why)
<1>1. /\ DOMAIN t = SrvFields /\ t.status = "DESTROY"
      /\ t.ops = s.ops \cap {"resolve", "dial", "udp_read"} /\ t.cause = why /\ t.peer = s.peer
  BY DEF ServerDestroyed, SrvFields
<1> HIDE DEF t
<1> QED BY <1>1 DEF ServerOps, Late, t

\* An operation ends and another one of the same status begins.
LEMMA OpsMoved ==
  ASSUME NEW s, NEW t, ServerOps(s), Alike(s, t), NEW S, t.ops \subseteq s.ops \cup S,
         "dial" \notin S, s.status \in {"HANDSHAKE", "FORWARD", "UDP_FORWARD", "DESTROY"},
         s.status = "HANDSHAKE" => S \subseteq {"in_read"},
         s.status = "FORWARD" => S \subseteq {"in_read", "out_write", "out_read", "in_write"},
         s.status = "UDP_FORWARD" =>
            S \subseteq {"in_read", "resolve", "udp_write", "udp_read", "in_write"},
         s.status = "DESTROY" => S \subseteq Late
  PROVE  ServerOps(t)
<1>1. t.status = s.status /\ t.peer = s.peer /\ t.cause = s.cause
  BY DEF Alike
<1>2. "dial" \in t.ops => "dial" \in s.ops
  OBVIOUS
<1>3. CASE s.status = "HANDSHAKE"
  BY <1>1, <1>2, <1>3 DEF ServerOps
<1>4. CASE s.status = "FORWARD"
  BY <1>1, <1>2, <1>4 DEF ServerOps
<1>5. CASE s.status = "UDP_FORWARD"
  BY <1>1, <1>2, <1>5 DEF ServerOps
<1>6. CASE s.status = "DESTROY"
  BY <1>1, <1>2, <1>6 DEF ServerOps
<1> QED BY <1>3, <1>4, <1>5, <1>6

\* Other buffers change nothing.
LEMMA OpsBuffers ==
  ASSUME NEW s, NEW t, ServerOps(s), t.ops = s.ops, t.status = s.status, t.peer = s.peer,
         t.cause = s.cause
  PROVE  ServerOps(t)
  BY DEF ServerOps

\* out_udp_sent goes on with a read, a resolution or the next datagram.
LEMMA OutUdpSentOps ==
  ASSUME NEW s, NEW resolve, DOMAIN s = SrvFields, ServerOps(s), s.status = "UDP_FORWARD"
  PROVE  ServerOps(OutUdpSent(s, resolve))
<1>1. ServerOps(Begin(s, "in_read")) /\ ServerOps(Begin(s, "resolve"))
  <2>1. Alike(s, Begin(s, "in_read")) /\ Begin(s, "in_read").ops = s.ops \cup {"in_read"}
    BY BeginAlike
  <2>2. Alike(s, Begin(s, "resolve")) /\ Begin(s, "resolve").ops = s.ops \cup {"resolve"}
    BY BeginAlike
  <2>3. ServerOps(Begin(s, "in_read"))
    <3> DEFINE S == {"in_read"}
    <3>1. "dial" \notin S /\ S \subseteq {"in_read", "resolve", "udp_write", "udp_read", "in_write"}
      OBVIOUS
    <3> QED BY <2>1, <3>1, OpsMoved
  <2>4. ServerOps(Begin(s, "resolve"))
    <3> DEFINE S == {"resolve"}
    <3>1. "dial" \notin S /\ S \subseteq {"in_read", "resolve", "udp_write", "udp_read", "in_write"}
      OBVIOUS
    <3> QED BY <2>2, <3>1, OpsMoved
  <2> QED BY <2>3, <2>4
<1>2. ServerOps(SendUdp(s))
  <2> DEFINE t == SendUdp(s)
  <2>1. /\ t.peer = s.peer /\ t.status = s.status /\ t.cause = s.cause
        /\ t.ops \subseteq s.ops \cup {"udp_read", "udp_write"}
    BY SendUdpFields
  <2> HIDE DEF t
  <2>2. ServerOps(t)
    BY <2>1 DEF ServerOps
  <2> QED BY <2>2 DEF t
<1> QED BY <1>1, <1>2 DEF OutUdpSent

\* in_recv in HANDSHAKE: the session connects, or is one of datagrams.
LEMMA FirstRecvOps ==
  ASSUME NEW s, NEW data, NEW quota, NEW resolve, Free(s), ServerOps(s),
         s.status = "HANDSHAKE", s.peer = "none", setup.kind \in {"tcp", "udp"}
  PROVE  LET t == FirstRecv(s, data, quota, resolve) IN
         /\ ServerOps(t) /\ t.status \in {"HANDSHAKE", "UDP_FORWARD"}
         /\ DOMAIN t = SrvFields
<1> DEFINE t == [s EXCEPT !.user = Auth(quota)]
           a == [t EXCEPT !.outBuf = data, !.peer = "fallback"]
           b == [t EXCEPT !.status = "UDP_FORWARD", !.udpBuf = Tail(data)]
           c == [t EXCEPT !.outBuf = Tail(data), !.peer = "requested"]
           known == setup.cred = "listed" \/ t.user
<1>1. DOMAIN s = SrvFields
  BY FreeOps
<1>2. s.ops = {} /\ s.cause = ""
  <2>1. s.ops \subseteq {"handshake", "in_read", "dial"} /\ s.cause = ""
    BY DEF ServerOps
  <2> QED BY <2>1, FreeOps
<1>3. /\ DOMAIN a = SrvFields /\ a.status = "HANDSHAKE" /\ a.ops = {} /\ a.peer = "fallback"
      /\ a.cause = ""
      /\ DOMAIN b = SrvFields /\ b.status = "UDP_FORWARD" /\ b.ops = {} /\ b.peer = "none"
      /\ b.cause = ""
      /\ DOMAIN c = SrvFields /\ c.status = "HANDSHAKE" /\ c.ops = {} /\ c.cause = ""
  BY <1>1, <1>2 DEF SrvFields
<1>4. FirstRecv(s, data, quota, resolve)
        = IF ~known THEN Begin(a, "dial")
          ELSE IF setup.kind = "udp" THEN OutUdpSent(b, resolve) ELSE Begin(c, "dial")
  BY DEF FirstRecv
<1> HIDE DEF known, a, b, c
<1>5. CASE ~known
  <2> DEFINE x == Begin(a, "dial")
  <2>0. Alike(a, x) /\ x.ops = a.ops \cup {"dial"}
    BY <1>3, BeginAlike
  <2> HIDE DEF x
  <2>1. Alike(a, x) /\ x.ops = {"dial"}
    BY <1>3, <2>0
  <2>2. ServerOps(x) /\ x.status = "HANDSHAKE" /\ DOMAIN x = SrvFields
    BY <1>3, <2>1 DEF Alike, ServerOps
  <2>3. FirstRecv(s, data, quota, resolve) = x
    BY <1>4, <1>5 DEF x
  <2> QED BY <2>2, <2>3
<1>6. CASE known /\ setup.kind = "udp"
  <2>1. ServerOps(b)
    BY <1>3, <1>6 DEF ServerOps
  <2>2. ServerOps(OutUdpSent(b, resolve))
    BY <1>3, <2>1, OutUdpSentOps
  <2>3. Same(b, OutUdpSent(b, resolve))
    BY <1>3, OutUdpSentSame
  <2> QED BY <1>3, <1>4, <1>6, <2>2, <2>3 DEF Same
<1>7. CASE known /\ setup.kind # "udp"
  <2> DEFINE x == Begin(c, "dial")
  <2>0. Alike(c, x) /\ x.ops = c.ops \cup {"dial"}
    BY <1>3, BeginAlike
  <2> HIDE DEF x
  <2>1. Alike(c, x) /\ x.ops = {"dial"}
    BY <1>3, <2>0
  <2>2. ServerOps(x) /\ x.status = "HANDSHAKE" /\ DOMAIN x = SrvFields
    BY <1>3, <1>7, <2>1 DEF Alike, ServerOps
  <2>3. FirstRecv(s, data, quota, resolve) = x
    BY <1>4, <1>7 DEF x
  <2> QED BY <2>2, <2>3
<1> QED BY <1>5, <1>6, <1>7

\* destroy, the first time or again.
LEMMA DestroyOps ==
  ASSUME NEW s, NEW why, DOMAIN s = SrvFields, ServerOps(s), ServerDestroy(s, why)
  PROVE  ServerOps(srv')
  BY DestroyedOps DEF ServerDestroy

\* What a handler of the server finds when its operation has ended.
LEMMA DoneOps ==
  ASSUME NEW s, NEW a, DOMAIN s = SrvFields, ServerOps(s)
  PROVE  ServerOps(Done(s, a)) /\ DOMAIN Done(s, a) = SrvFields
         /\ Done(s, a).status = s.status /\ Done(s, a).peer = s.peer
<1> DEFINE t == Done(s, a)
<1>1. Alike(s, t) /\ t.ops = s.ops \ {a}
  BY DoneAlike
<1> HIDE DEF t
<1>2. ServerOps(t)
  BY <1>1 DEF Alike, ServerOps
<1> QED BY <1>1, <1>2 DEF Alike, t

\* A session begins, or the front hands its data over.
LEMMA ServerBeginsOps ==
  ASSUME IInv, ServerSolo(srv), ServerOps(srv), UpOrder(srv), setup.kind \in {"tcp", "udp"},
         ClientDialed \/ Handshake \/ FrontRecv \/ ServerDialed
  PROVE  ServerOps(srv')
<1>1. DOMAIN srv = SrvFields
  BY DEF IInv, SrvOK
<1>2. CASE ClientDialed
  <2>1. srv.status = "NONE"
    BY <1>2 DEF IInv, Phases, ClientDialed, Starting
  <2>2. CASE UNCHANGED srv
    BY <2>2
  <2>3. CASE srv' = [srv EXCEPT !.status = "HANDSHAKE", !.ops = {"handshake"}]
    <3>1. /\ srv'.status = "HANDSHAKE" /\ srv'.ops = {"handshake"} /\ srv'.cause = srv.cause
          /\ srv'.peer = srv.peer
      BY <1>1, <2>3 DEF SrvFields
    <3> QED BY <2>1, <3>1 DEF ServerOps
  <2> QED BY <1>2, <2>2, <2>3 DEF ClientDialed, AsyncAccept
<1>3. CASE Handshake
  <2> DEFINE s == Done(srv, "handshake")
             t == Begin(s, "in_read")
  <2>1. CASE UNCHANGED srv
    BY <2>1
  <2>2. CASE "handshake" \in srv.ops /\ srv' = t
    <3>1. srv.status = "HANDSHAKE"
      BY <2>2 DEF ServerOps, Late
    <3>2. ServerOps(s) /\ DOMAIN s = SrvFields /\ s.status = "HANDSHAKE"
      BY <1>1, <3>1, DoneOps
    <3> HIDE DEF s
    <3>3. Alike(s, t) /\ t.ops = s.ops \cup {"in_read"}
      BY <3>2, BeginAlike
    <3> HIDE DEF t
    <3>4. "dial" \notin {"in_read"}
      OBVIOUS
    <3> QED BY <2>2, <3>2, <3>3, <3>4, OpsMoved
  <2>3. CASE ServerDestroy(s, "error")
    <3>1. ServerOps(s) /\ DOMAIN s = SrvFields
      BY <1>1, DoneOps
    <3> QED BY <2>3, <3>1, DestroyOps
  <2> QED BY <1>3, <2>1, <2>2, <2>3 DEF Handshake, ServerHandshake, FrontHandshake
<1>4. CASE FrontRecv
  <2> DEFINE s == [srv EXCEPT !.status = "HANDSHAKE"]
  <2>1. srv.status = "NONE" /\ srv.ops = {} /\ ~srv.clash
    BY <1>4 DEF IInv, SrvOK, Phases, FrontRecv, ServerSolo
  <2>2. srv.peer = "none" /\ srv.cause = ""
    BY <2>1 DEF UpOrder, Idle, ServerOps
  <2>3. /\ DOMAIN s = SrvFields /\ s.status = "HANDSHAKE" /\ s.ops = {} /\ ~s.clash
        /\ s.peer = "none" /\ s.cause = ""
    BY <1>1, <2>1, <2>2 DEF SrvFields
  <2>4. PICK k \in 1..Len(link["up"]), quota \in BOOLEAN, resolve \in BOOLEAN :
          \/ UNCHANGED srv
          \/ srv' = FirstRecv(s, front.buf \o Arrived("up", k), quota, resolve)
    BY <1>4 DEF FrontRecv
  <2> HIDE DEF s
  <2>5. Free(s) /\ ServerOps(s)
    BY <2>3 DEF Free, ServerSolo, OneOf, ServerOps
  <2>6. ServerOps(FirstRecv(s, front.buf \o Arrived("up", k), quota, resolve))
    BY <2>3, <2>5, FirstRecvOps
  <2> QED BY <2>4, <2>6
<1>5. CASE ServerDialed
  <2> DEFINE r == Done(srv, "dial")
             f == [r EXCEPT !.status = "FORWARD"]
             s == Begin(f, "out_read")
             d == [s EXCEPT !.data = srv.outBuf, !.outBuf = <<>>]
  <2>1. /\ "dial" \in srv.ops /\ srv.status # "DESTROY"
        /\ srv' = Begin(d, "out_write") \/ srv' = Begin(s, "in_read")
    BY <1>5 DEF ServerDialed
  <2>2. /\ srv.status = "HANDSHAKE" /\ (setup.kind = "tcp" \/ srv.peer = "fallback")
        /\ "dial" \in ServerUp
    BY <2>1 DEF ServerSolo, ServerOps, ServerUp
  <2>3. Free(r)
    BY <1>1, <2>1, <2>2, ServerFree
  <2>4. Alike(srv, r) /\ ServerOps(r)
    BY <1>1, DoneAlike, DoneOps
  <2>5. r.ops = {} /\ r.cause = ""
    <3>1. r.ops \subseteq {"handshake", "in_read", "dial"} /\ r.cause = ""
      BY <2>2, <2>4 DEF Alike, ServerOps
    <3> QED BY <2>3, <3>1, FreeOps
  <2> HIDE DEF r
  <2>6. /\ DOMAIN f = SrvFields /\ f.status = "FORWARD" /\ f.ops = {} /\ f.peer = srv.peer
        /\ f.cause = ""
    BY <2>4, <2>5 DEF Alike, SrvFields
  <2> HIDE DEF f
  <2>7. ServerOps(f)
    BY <2>2, <2>6 DEF ServerOps
  <2>8. Alike(f, s) /\ s.ops = f.ops \cup {"out_read"} /\ "dial" \notin {"out_read"}
    BY <2>6, BeginAlike
  <2> HIDE DEF s
  <2>9. ServerOps(s) /\ s.status = "FORWARD" /\ DOMAIN s = SrvFields
    <3>1. {"out_read"} \subseteq {"in_read", "out_write", "out_read", "in_write"}
      OBVIOUS
    <3> QED BY <2>6, <2>7, <2>8, <3>1, OpsMoved DEF Alike
  <2>10. /\ DOMAIN d = SrvFields /\ d.status = "FORWARD" /\ d.ops = s.ops /\ d.peer = s.peer
         /\ d.cause = s.cause
    BY <2>9 DEF SrvFields
  <2> HIDE DEF d
  <2>11. ServerOps(d)
    BY <2>9, <2>10, OpsBuffers
  <2>12. ServerOps(Begin(d, "out_write"))
    <3>1. Alike(d, Begin(d, "out_write")) /\ Begin(d, "out_write").ops = d.ops \cup {"out_write"}
      BY <2>10, BeginAlike
    <3>2. {"out_write"} \subseteq {"in_read", "out_write", "out_read", "in_write"}
          /\ "dial" \notin {"out_write"}
      OBVIOUS
    <3> QED BY <2>10, <2>11, <3>1, <3>2, OpsMoved
  <2>13. ServerOps(Begin(s, "in_read"))
    <3>1. Alike(s, Begin(s, "in_read")) /\ Begin(s, "in_read").ops = s.ops \cup {"in_read"}
      BY <2>9, BeginAlike
    <3>2. {"in_read"} \subseteq {"in_read", "out_write", "out_read", "in_write"}
          /\ "dial" \notin {"in_read"}
      OBVIOUS
    <3> QED BY <2>9, <3>1, <3>2, OpsMoved
  <2> QED BY <2>1, <2>12, <2>13
<1> QED BY <1>2, <1>3, <1>4, <1>5

\* The next operation of a session that relays a connection.
LEMMA BeginTcp ==
  ASSUME NEW s, NEW b, ServerOps(s), DOMAIN s = SrvFields, s.status = "FORWARD",
         b \in {"in_read", "out_write", "out_read", "in_write"}
  PROVE  ServerOps(Begin(s, b))
<1>1. Alike(s, Begin(s, b)) /\ Begin(s, b).ops = s.ops \cup {b}
  BY BeginAlike
<1>2. "dial" \notin {b} /\ {b} \subseteq {"in_read", "out_write", "out_read", "in_write"}
  OBVIOUS
<1> QED BY <1>1, <1>2, OpsMoved

\* The next operation of a session that relays datagrams.
LEMMA BeginUdp ==
  ASSUME NEW s, NEW b, ServerOps(s), DOMAIN s = SrvFields, s.status = "UDP_FORWARD",
         b \in {"in_read", "udp_read", "in_write"}
  PROVE  ServerOps(Begin(s, b))
<1>1. Alike(s, Begin(s, b)) /\ Begin(s, b).ops = s.ops \cup {b}
  BY BeginAlike
<1>2. "dial" \notin {b}
      /\ {b} \subseteq {"in_read", "resolve", "udp_write", "udp_read", "in_write"}
  OBVIOUS
<1> QED BY <1>1, <1>2, OpsMoved

\* The session relays, or ends.
LEMMA ServerRelaysOps ==
  ASSUME IInv, ServerSolo(srv), ServerOps(srv), UpOrder(srv), setup.kind \in {"tcp", "udp"},
         \/ ServerInRecv \/ Resolved \/ ServerOutSent \/ ServerUdpSent
         \/ ServerOutRecv \/ ServerInSent \/ ServerEof \/ ServerError
         \/ ServerDialedLate \/ ServerDialFailed \/ UdpReadEnds
  PROVE  ServerOps(srv')
<1>1. DOMAIN srv = SrvFields
  BY DEF IInv, SrvOK
<1>2. ASSUME NEW a
      PROVE  ServerOps(Done(srv, a)) /\ DOMAIN Done(srv, a) = SrvFields
             /\ Done(srv, a).status = srv.status /\ Done(srv, a).peer = srv.peer
  BY <1>1, DoneOps
<1>3. \A s, b : ServerOps(s) /\ DOMAIN s = SrvFields /\ s.status = "FORWARD"
                /\ b \in {"in_read", "out_write", "out_read", "in_write"}
                => ServerOps(Begin(s, b))
  BY BeginTcp
<1>4. \A s, b : ServerOps(s) /\ DOMAIN s = SrvFields /\ s.status = "UDP_FORWARD"
                /\ b \in {"in_read", "udp_read", "in_write"}
                => ServerOps(Begin(s, b))
  BY BeginUdp
<1>5. CASE ServerInRecv
  <2> DEFINE s == Done(srv, "in_read")
  <2>1. "in_read" \in srv.ops /\ "in_read" \in ServerUp
    BY <1>5 DEF ServerInRecv, ServerUp
  <2>2. srv.status \in {"HANDSHAKE", "FORWARD", "UDP_FORWARD"}
    BY <2>1 DEF ServerOps, Late
  <2>3. PICK k \in 1..Len(link["up"]), quota \in BOOLEAN, resolve \in BOOLEAN :
          \/ srv.status = "HANDSHAKE" /\ srv' = FirstRecv(s, Arrived("up", k), quota, resolve)
          \/ srv.status = "FORWARD"
               /\ srv' = Begin([s EXCEPT !.data = Arrived("up", k)], "out_write")
          \/ srv.status = "UDP_FORWARD"
               /\ srv' = OutUdpSent([s EXCEPT !.udpBuf = @ \o Arrived("up", k)], resolve)
    BY <1>5, <2>2 DEF ServerInRecv
  <2>4. Free(s)
    BY <1>1, <2>1, ServerFree
  <2>5. ServerOps(s) /\ DOMAIN s = SrvFields /\ s.status = srv.status /\ s.peer = srv.peer
    BY <1>2
  <2> HIDE DEF s
  <2>6. CASE srv.status = "HANDSHAKE" /\ srv' = FirstRecv(s, Arrived("up", k), quota, resolve)
    <3>1. "dial" \notin srv.ops
      BY <2>1 DEF ServerSolo, OneOf, ServerUp
    <3>2. srv.peer = "none"
      BY <2>6, <3>1 DEF UpOrder, Idle
    <3>3. ServerOps(FirstRecv(s, Arrived("up", k), quota, resolve))
      BY <2>4, <2>5, <2>6, <3>2, FirstRecvOps
    <3> QED BY <2>6, <3>3
  <2>7. CASE srv.status = "FORWARD"
               /\ srv' = Begin([s EXCEPT !.data = Arrived("up", k)], "out_write")
    <3> DEFINE d == [s EXCEPT !.data = Arrived("up", k)]
    <3>1. /\ DOMAIN d = SrvFields /\ d.ops = s.ops /\ d.status = s.status /\ d.peer = s.peer
          /\ d.cause = s.cause
      BY <2>5 DEF SrvFields
    <3> HIDE DEF d
    <3>2. ServerOps(d)
      BY <2>5, <3>1, OpsBuffers
    <3>3. d.status = "FORWARD"
      BY <2>5, <2>7, <3>1
    <3>4. ServerOps(Begin(d, "out_write"))
      BY <1>3, <3>1, <3>2, <3>3
    <3> QED BY <2>7, <3>4 DEF d
  <2>8. CASE srv.status = "UDP_FORWARD"
               /\ srv' = OutUdpSent([s EXCEPT !.udpBuf = @ \o Arrived("up", k)], resolve)
    <3> DEFINE d == [s EXCEPT !.udpBuf = @ \o Arrived("up", k)]
    <3>1. /\ DOMAIN d = SrvFields /\ d.ops = s.ops /\ d.status = s.status /\ d.peer = s.peer
          /\ d.cause = s.cause
      BY <2>5 DEF SrvFields
    <3> HIDE DEF d
    <3>2. ServerOps(d)
      BY <2>5, <3>1, OpsBuffers
    <3>3. ServerOps(OutUdpSent(d, resolve))
      BY <2>5, <2>8, <3>1, <3>2, OutUdpSentOps
    <3> QED BY <2>8, <3>3 DEF d
  <2> QED BY <2>3, <2>6, <2>7, <2>8
<1>6. CASE Resolved
  <2> DEFINE s == Done(srv, "resolve")
             t == SendUdp(s)
  <2>1. "resolve" \in srv.ops /\ (srv' = t \/ ServerDestroy(s, "error"))
    BY <1>6 DEF Resolved
  <2>2. srv.status \in {"UDP_FORWARD", "DESTROY"}
    BY <2>1 DEF ServerSolo
  <2>3. ServerOps(s) /\ DOMAIN s = SrvFields /\ s.status = srv.status
    BY <1>2
  <2> HIDE DEF s
  <2>4. /\ t.peer = s.peer /\ t.status = s.status /\ t.cause = s.cause
        /\ t.ops \subseteq s.ops \cup {"udp_read", "udp_write"}
    BY <2>3, SendUdpFields
  <2> HIDE DEF t
  <2>5. ServerOps(t)
    BY <2>2, <2>3, <2>4 DEF ServerOps, Late
  <2> QED BY <2>1, <2>3, <2>5, DestroyOps
<1>7. CASE ServerOutSent
  <2> DEFINE r == Done(srv, "out_write")
             d == [r EXCEPT !.toTarget = @ \o srv.data]
  <2>1. "out_write" \in srv.ops /\ srv' = Begin(d, "in_read")
    BY <1>7 DEF ServerOutSent
  <2>2. srv.status = "FORWARD"
    BY <2>1 DEF ServerOps, Late
  <2>3. ServerOps(r) /\ DOMAIN r = SrvFields /\ r.status = srv.status
    BY <1>2
  <2> HIDE DEF r
  <2>4. /\ DOMAIN d = SrvFields /\ d.ops = r.ops /\ d.status = r.status /\ d.peer = r.peer
        /\ d.cause = r.cause
    BY <2>3 DEF SrvFields
  <2> HIDE DEF d
  <2>5. ServerOps(d)
    BY <2>3, <2>4, OpsBuffers
  <2> QED BY <1>3, <2>1, <2>2, <2>3, <2>4, <2>5
<1>8. CASE ServerUdpSent
  <2> DEFINE s == Done(srv, "udp_write")
  <2>1. PICK resolve \in BOOLEAN :
          srv' = IF srv.status = "UDP_FORWARD" THEN OutUdpSent(s, resolve) ELSE s
    BY <1>8 DEF ServerUdpSent
  <2>2. ServerOps(s) /\ DOMAIN s = SrvFields /\ s.status = srv.status
    BY <1>2
  <2> HIDE DEF s
  <2> QED BY <2>1, <2>2, OutUdpSentOps
<1>9. CASE ServerOutRecv
  <2>1. PICK op \in {"out_read", "udp_read"} \cap srv.ops :
          srv.status # "DESTROY" /\ srv' = Begin(Done(srv, op), "in_write")
    BY <1>9 DEF ServerOutRecv, OutRecv
  <2>2. srv.status \in {"FORWARD", "UDP_FORWARD"}
    BY <2>1 DEF ServerOps
  <2> QED BY <1>2, <1>3, <1>4, <2>1, <2>2
<1>10. CASE ServerInSent
  <2>1. /\ "in_write" \in srv.ops
        /\ srv' = Begin(Done(srv, "in_write"),
                        IF srv.status = "UDP_FORWARD" THEN "udp_read" ELSE "out_read")
    BY <1>10 DEF ServerInSent
  <2>2. srv.status \in {"FORWARD", "UDP_FORWARD"}
    BY <2>1 DEF ServerOps, Late
  <2> DEFINE s == Done(srv, "in_write")
  <2>3. ServerOps(s) /\ DOMAIN s = SrvFields /\ s.status = srv.status
    BY <1>2
  <2> HIDE DEF s
  <2>4. CASE srv.status = "UDP_FORWARD"
    <3>1. ServerOps(Begin(s, "udp_read"))
      BY <1>4, <2>3, <2>4
    <3> QED BY <2>1, <2>4, <3>1 DEF s
  <2>5. CASE srv.status = "FORWARD"
    <3>1. ServerOps(Begin(s, "out_read"))
      BY <1>3, <2>3, <2>5
    <3> QED BY <2>1, <2>5, <3>1 DEF s
  <2> QED BY <2>2, <2>4, <2>5
<1>11. CASE ServerEof \/ ServerError
  BY <1>1, <1>11, DestroyOps DEF ServerEof, ServerError
<1>12. CASE ServerDialedLate
  <2> DEFINE r == Done(srv, "dial")
             f == [r EXCEPT !.late = TRUE]
  <2>1. srv' = ServerDestroyed(f, srv.cause)
    BY <1>12 DEF ServerDialedLate
  <2>2. Alike(srv, r) /\ ServerOps(r)
    BY <1>1, DoneAlike, DoneOps
  <2> HIDE DEF r
  <2>3. /\ DOMAIN f = SrvFields /\ f.ops = r.ops /\ f.status = r.status /\ f.peer = r.peer
        /\ f.cause = r.cause
    BY <2>2 DEF Alike, SrvFields
  <2> HIDE DEF f
  <2>4. ServerOps(f)
    BY <2>2, <2>3, OpsBuffers
  <2> QED BY <2>1, <2>3, <2>4, DestroyedOps
<1>13. CASE ServerDialFailed
  BY <1>2, <1>13, DestroyOps DEF ServerDialFailed
<1>14. CASE UdpReadEnds
  BY <1>2, <1>14 DEF UdpReadEnds
<1> QED BY <1>5, <1>6, <1>7, <1>8, <1>9, <1>10, <1>11, <1>12, <1>13, <1>14

\* A client session that has received nothing.
Fresh(c) == c.data = <<>> /\ c.toApp = <<>> /\ c.udpBuf = <<>>
\* The operations a client session may have under way.
ClientOps(c) ==
  /\ c.status \in {"HANDSHAKE", "REQUEST"} => c.ops \subseteq {"in_read", "in_write"}
  /\ c.status = "CONNECT" => c.ops \subseteq {"dial"}
  /\ c.status = "INVALID" => c.ops \subseteq {"in_write"}
  /\ c.status = "FORWARD" =>
       setup.kind = "tcp" /\ c.ops \subseteq {"in_read", "out_write", "out_read", "in_write"}
  /\ c.status = "UDP_FORWARD" =>
       setup.kind = "udp" /\ c.ops \subseteq {"udp_read", "out_write", "out_read", "udp_write"}
  /\ c.status = "DESTROY" => c.ops \subseteq {"dial"} /\ ("dial" \in c.ops => Fresh(c))
  /\ c.status \in Early \cup {"FORWARD", "UDP_FORWARD", "DESTROY"}

\* What a client session has of the stream to the application.
Writing(c) == "in_write" \in c.ops \/ "udp_write" \in c.ops
DownBusy(c) == IF Writing(c) THEN Len(c.data) ELSE 0
DownNext(c) == 1 + Len(c.toApp)
Got(c) == DownNext(c) + DownBusy(c) + Len(c.udpBuf)
DownOrder(c) ==
  /\ Run(c.toApp, 1)
  /\ c.status # "DESTROY" => Run(c.udpBuf, DownNext(c) + DownBusy(c))
  /\ Writing(c) => Run(c.data, DownNext(c))
  /\ c.status \in Early => Fresh(c)
  /\ setup.kind = "tcp" => c.udpBuf = <<>>
  /\ setup.kind = "udp" => Len(c.toApp) % 2 = 0 /\ ("udp_write" \in c.ops => Len(c.data) = 2)

\* d has the same data as c.
CsAlike(c, d) ==
  DOMAIN d = CsFields /\ d.data = c.data /\ d.udpBuf = c.udpBuf /\ d.toApp = c.toApp
  /\ d.cause = c.cause

\* Begin and Done do not touch the data of the client either.
LEMMA ClientAlike ==
  ASSUME NEW c, NEW op, DOMAIN c = CsFields
  PROVE  /\ CsAlike(c, Begin(c, op)) /\ Begin(c, op).ops = c.ops \cup {op}
         /\ Begin(c, op).status = c.status
         /\ CsAlike(c, Done(c, op)) /\ Done(c, op).ops = c.ops \ {op}
         /\ Done(c, op).status = c.status
  BY BeginFacts, DoneFacts DEF CsAlike, CsFields

\* The lengths are numbers.
LEMMA DownNumbers ==
  ASSUME NEW c, DownOrder(c)
  PROVE  /\ DownNext(c) \in Nat /\ DownBusy(c) \in Nat /\ Len(c.toApp) \in Nat
         /\ c.status # "DESTROY" => Len(c.udpBuf) \in Nat /\ Got(c) \in Nat
<1>1. c.toApp \in Seq(Nat) /\ (Writing(c) => c.data \in Seq(Nat))
      /\ (c.status # "DESTROY" => c.udpBuf \in Seq(Nat))
  BY DEF DownOrder, Run
<1>2. Len(c.toApp) \in Nat /\ (Writing(c) => Len(c.data) \in Nat)
      /\ (c.status # "DESTROY" => Len(c.udpBuf) \in Nat)
  BY <1>1
<1>3. DownBusy(c) \in Nat /\ DownNext(c) \in Nat
  BY <1>2 DEF DownBusy, DownNext
<1> QED BY <1>2, <1>3 DEF Got

\* A session that has received nothing.
LEMMA FreshDown ==
  ASSUME NEW c, Fresh(c), "udp_write" \notin c.ops
  PROVE  DownOrder(c) /\ Got(c) = 1
<1>1. Len(c.toApp) = 0 /\ Len(c.udpBuf) = 0 /\ Len(c.data) = 0
  BY DEF Fresh
<1>2. DownNext(c) = 1 /\ DownBusy(c) = 0
  BY <1>1 DEF DownNext, DownBusy
<1>3. 1 \in Nat /\ 1 + 0 = 1 /\ 0 % 2 = 0 /\ 1 + 0 + 0 = 1
  OBVIOUS
<1>4. Run(<<>>, 1)
  BY <1>3, RunNone, Zenon
<1> QED BY <1>1, <1>2, <1>3, <1>4 DEF DownOrder, Fresh, Got

\* A change of operations that moves no data.
LEMMA AlikeDown ==
  ASSUME NEW c, NEW d, CsAlike(c, d), DownOrder(c),
         "in_write" \in d.ops <=> "in_write" \in c.ops,
         "udp_write" \in d.ops <=> "udp_write" \in c.ops,
         d.status = c.status
  PROVE  DownOrder(d) /\ Got(d) = Got(c) /\ d.toApp = c.toApp
<1>1. Writing(d) <=> Writing(c)
  BY DEF Writing
<1>2. DownBusy(d) = DownBusy(c) /\ DownNext(d) = DownNext(c) /\ (Fresh(c) => Fresh(d))
  BY <1>1 DEF DownBusy, DownNext, CsAlike, Fresh
<1>3. DownOrder(d)
  BY <1>1, <1>2 DEF DownOrder, CsAlike
<1> QED BY <1>2, <1>3 DEF Got, CsAlike

\* destroy
LEMMA DestroyedDown ==
  ASSUME NEW c, NEW why, DOMAIN c = CsFields, DownOrder(c), ClientOps(c)
  PROVE  LET d == [c EXCEPT !.status = "DESTROY", !.ops = @ \cap {"dial"}, !.cause = why] IN
         /\ DownOrder(d) /\ d.toApp = c.toApp /\ ClientOps(d) /\ d.status = "DESTROY"
         /\ d.cause = why /\ DOMAIN d = CsFields /\ d.ops = c.ops \cap {"dial"}
         /\ "dial" \in c.ops => Fresh(d) /\ Got(d) = Got(c)
<1> DEFINE d == [c EXCEPT !.status = "DESTROY", !.ops = @ \cap {"dial"}, !.cause = why]
<1>0. "dial" \in c.ops => Fresh(c)
  BY DEF ClientOps, DownOrder, Early
<1>1. /\ d.toApp = c.toApp /\ d.data = c.data /\ d.ops = c.ops \cap {"dial"} /\ d.status = "DESTROY" /\ d.udpBuf = c.udpBuf
      /\ d.cause = why /\ DOMAIN d = CsFields
  BY DEF CsFields
<1> HIDE DEF d
<1>2. ClientOps(d) /\ ~Writing(d) /\ "udp_write" \notin d.ops /\ d.status \notin Early
  BY <1>0, <1>1 DEF ClientOps, Writing, Early, Fresh
<1>3. DownOrder(d)
  BY <1>1, <1>2 DEF DownOrder
<1>4. ASSUME "dial" \in c.ops PROVE Fresh(d) /\ Got(d) = Got(c)
  <2>1. "udp_write" \notin c.ops
    BY <1>4 DEF ClientOps, Early
  <2>2. Fresh(c) /\ Fresh(d)
    BY <1>0, <1>1, <1>4 DEF Fresh
  <2> QED BY <1>2, <2>1, <2>2, FreshDown
<1> QED BY <1>1, <1>2, <1>3, <1>4 DEF d

\* out_recv of a TCP session: what was read is written to the application.
LEMMA OutRecvDown ==
  ASSUME NEW c, NEW w, DOMAIN c = CsFields, DownOrder(c), setup.kind = "tcp",
         c.status = "FORWARD", ~Writing(c), Run(w, Got(c))
  PROVE  LET d == Begin([c EXCEPT !.data = w], "in_write") IN
         DownOrder(d) /\ Got(d) = Got(c) + Len(w) /\ d.toApp = c.toApp
<1> DEFINE e == [c EXCEPT !.data = w]
           d == Begin(e, "in_write")
           x == DownNext(c)
<1>1. /\ DOMAIN e = CsFields /\ e.data = w /\ e.toApp = c.toApp /\ e.udpBuf = c.udpBuf
      /\ e.ops = c.ops /\ e.status = "FORWARD"
  BY DEF CsFields
<1> HIDE DEF e
<1>2. CsAlike(e, d) /\ d.ops = e.ops \cup {"in_write"} /\ d.status = "FORWARD"
  BY <1>1, ClientAlike
<1> HIDE DEF d
<1>3. /\ d.data = w /\ d.toApp = c.toApp /\ d.udpBuf = c.udpBuf /\ Writing(d)
      /\ d.status \notin Early
  BY <1>1, <1>2 DEF CsAlike, Writing, Early
<1>4. /\ x \in Nat /\ DownBusy(c) = 0 /\ c.udpBuf = <<>> /\ Run(c.toApp, 1) /\ Len(w) \in Nat
  BY DownNumbers DEF DownBusy, DownOrder, Run
<1>5. DownNext(d) = x /\ DownBusy(d) = Len(w)
  BY <1>3 DEF DownNext, DownBusy
<1>6. Got(c) = x
  BY <1>4 DEF Got
<1> HIDE DEF x
<1>7. Got(d) = x + Len(w) /\ x + Len(w) \in Nat
  BY <1>3, <1>4, <1>5 DEF Got
<1>8. Run(<<>>, x + Len(w))
  BY <1>7, RunNone, Zenon
<1>9. setup.kind # "udp"
  OBVIOUS
<1>10. DownOrder(d)
  BY <1>2, <1>3, <1>4, <1>5, <1>6, <1>8, <1>9 DEF DownOrder
<1> QED BY <1>3, <1>6, <1>7, <1>10 DEF d, e

\* out_recv of a UDP session: what was read is added to udp_data_buf.
LEMMA MoreDown ==
  ASSUME NEW c, NEW w, DOMAIN c = CsFields, DownOrder(c), setup.kind = "udp",
         c.status = "UDP_FORWARD", ~Writing(c), Run(w, Got(c))
  PROVE  LET d == [c EXCEPT !.udpBuf = @ \o w] IN
         /\ DownOrder(d) /\ Got(d) = Got(c) + Len(w) /\ d.toApp = c.toApp /\ ~Writing(d)
         /\ DOMAIN d = CsFields /\ d.status = "UDP_FORWARD" /\ d.ops = c.ops
<1> DEFINE d == [c EXCEPT !.udpBuf = @ \o w]
           x == DownNext(c)
<1>1. /\ DOMAIN d = CsFields /\ d.toApp = c.toApp /\ d.udpBuf = c.udpBuf \o w
      /\ d.ops = c.ops /\ d.status = "UDP_FORWARD"
  BY DEF CsFields
<1> HIDE DEF d
<1>2. x \in Nat /\ DownBusy(c) = 0 /\ Len(c.udpBuf) \in Nat /\ Len(w) \in Nat
  BY DownNumbers DEF DownBusy, Run
<1>3. ~Writing(d) /\ DownNext(d) = x /\ DownBusy(d) = 0 /\ d.status \notin Early
      /\ "udp_write" \notin d.ops
  BY <1>1 DEF Writing, DownNext, DownBusy, Early
<1>4. x + DownBusy(c) = x /\ Got(c) = x + Len(c.udpBuf)
  BY <1>2 DEF Got
<1>5. Run(c.toApp, 1) /\ Run(c.udpBuf, x) /\ Len(c.toApp) % 2 = 0
  BY <1>4 DEF DownOrder
<1> HIDE DEF x
<1>6. Run(w, x + Len(c.udpBuf))
  BY <1>4
<1>7. Run(c.udpBuf \o w, x) /\ Len(c.udpBuf \o w) = Len(c.udpBuf) + Len(w)
  BY <1>2, <1>5, <1>6, RunCat
<1>8. DownNext(d) + DownBusy(d) = x
  BY <1>2, <1>3
<1>9. DownOrder(d)
  BY <1>1, <1>3, <1>5, <1>7, <1>8 DEF DownOrder
<1>10. Got(d) = x + (Len(c.udpBuf) + Len(w))
  BY <1>1, <1>7, <1>8 DEF Got
<1>11. x + (Len(c.udpBuf) + Len(w)) = (x + Len(c.udpBuf)) + Len(w)
  BY <1>2
<1> QED BY <1>1, <1>3, <1>4, <1>9, <1>10, <1>11 DEF d

\* What was being written has been written.
LEMMA SentDown ==
  ASSUME NEW c, NEW op, DOMAIN c = CsFields, DownOrder(c), ClientSolo(c),
         op \in {"in_write", "udp_write"}, op \in c.ops,
         setup.kind = "udp" => op = "udp_write", c.status \in {"FORWARD", "UDP_FORWARD"}
  PROVE  LET d == [Done(c, op) EXCEPT !.toApp = @ \o c.data] IN
         /\ DownOrder(d) /\ Got(d) = Got(c) /\ ~Writing(d) /\ d.status = c.status
         /\ Len(d.toApp) = Len(c.toApp) + Len(c.data) /\ DOMAIN d = CsFields
         /\ d.ops = c.ops \ {op} /\ d.cause = c.cause
<1> DEFINE e == Done(c, op)
           d == [e EXCEPT !.toApp = @ \o c.data]
           x == DownNext(c)
           y == Len(c.data)
<1>1. CsAlike(c, e) /\ e.ops = c.ops \ {op} /\ e.status = c.status
  BY ClientAlike
<1> HIDE DEF e
<1>2. /\ DOMAIN d = CsFields /\ d.toApp = c.toApp \o c.data /\ d.udpBuf = c.udpBuf
      /\ d.ops = c.ops \ {op} /\ d.status = c.status /\ d.cause = c.cause
  BY <1>1 DEF CsAlike, CsFields
<1> HIDE DEF d
<1>3. {"in_write", "udp_write"} \subseteq ClientDown
  BY DEF ClientDown
<1>4. ~Writing(d) /\ "udp_write" \notin d.ops
  BY <1>2, <1>3 DEF ClientSolo, OneOf, Writing
<1>5. /\ Writing(c) /\ DownBusy(c) = y /\ Run(c.data, x) /\ Run(c.toApp, 1)
      /\ Run(c.udpBuf, x + y) /\ Len(c.toApp) \in Nat /\ y \in Nat /\ x = 1 + Len(c.toApp)
      /\ Len(c.udpBuf) \in Nat /\ x \in Nat
  <2>1. Writing(c)
    BY DEF Writing
  <2>2. DownBusy(c) = y
    BY <2>1 DEF DownBusy
  <2>3. Run(c.data, x) /\ Run(c.toApp, 1) /\ Run(c.udpBuf, x + y)
    BY <2>1, <2>2 DEF DownOrder
  <2>4. c.status # "DESTROY"
    OBVIOUS
  <2> HIDE DEF y
  <2> QED BY <2>1, <2>2, <2>3, <2>4, DownNumbers DEF DownNext
<1>6. Run(c.toApp \o c.data, 1) /\ Len(c.toApp \o c.data) = Len(c.toApp) + Len(c.data)
  <2>1. 1 \in Nat
    OBVIOUS
  <2>2. Run(c.data, 1 + Len(c.toApp))
    BY <1>5
  <2> QED BY <1>5, <2>1, <2>2, RunCat
<1>7. DownBusy(d) = 0 /\ DownNext(d) = 1 + (Len(c.toApp) + y)
  BY <1>2, <1>4, <1>6 DEF DownBusy, DownNext
<1>8. Got(c) = x + y + Len(c.udpBuf)
  BY <1>5 DEF Got
<1> HIDE DEF x, y
<1>9. DownNext(d) + DownBusy(d) = x + y
  BY <1>5, <1>7
<1>10. d.status \notin Early
  BY <1>2 DEF Early
<1>11. setup.kind = "udp" => (Len(c.toApp) + Len(c.data)) % 2 = 0
  <2> SUFFICES ASSUME setup.kind = "udp" PROVE (Len(c.toApp) + Len(c.data)) % 2 = 0
    OBVIOUS
  <2>1. Len(c.toApp) % 2 = 0 /\ Len(c.data) = 2
    BY DEF DownOrder
  <2>2. \A a \in Nat : a % 2 = 0 => (a + 2) % 2 = 0
    OBVIOUS
  <2> QED BY <1>5, <2>1, <2>2
<1>12. DownOrder(d)
  BY <1>2, <1>4, <1>5, <1>6, <1>9, <1>10, <1>11 DEF DownOrder
<1>13. Got(d) = Got(c)
  <2>1. Got(d) = x + y + Len(c.udpBuf)
    BY <1>2, <1>9 DEF Got
  <2> QED BY <1>8, <2>1
<1> QED BY <1>2, <1>4, <1>6, <1>12, <1>13 DEF d, e

\* udp_sent: the next datagram leaves udp_data_buf.
LEMMA UdpSentDown ==
  ASSUME NEW c, DOMAIN c = CsFields, DownOrder(c), ~Writing(c), setup.kind = "udp",
         c.status = "UDP_FORWARD", ClientOps(c)
  PROVE  LET d == UdpSent(c) IN
         /\ DownOrder(d) /\ Got(d) = Got(c) /\ d.toApp = c.toApp /\ DOMAIN d = CsFields
         /\ ClientOps(d) /\ d.cause = c.cause /\ d.status = "UDP_FORWARD"
<1> DEFINE e == [c EXCEPT !.data = SubSeq(c.udpBuf, 1, 2),
                          !.udpBuf = SubSeq(@, 3, Len(@))]
           d == UdpSent(c)
           x == DownNext(c)
           p == SubSeq(c.udpBuf, 1, 2)
           r == SubSeq(c.udpBuf, 3, Len(c.udpBuf))
<1>1. x \in Nat /\ DownBusy(c) = 0 /\ Len(c.udpBuf) \in Nat
  BY DownNumbers DEF DownBusy
<1>2. x + DownBusy(c) = x /\ Got(c) = x + Len(c.udpBuf)
  BY <1>1 DEF Got
<1>3. Run(c.toApp, 1) /\ Run(c.udpBuf, x) /\ Len(c.toApp) % 2 = 0
  BY <1>2 DEF DownOrder
<1>4. /\ DOMAIN d = CsFields /\ d.status = "UDP_FORWARD" /\ d.status \notin Early
      /\ d.ops \subseteq c.ops \cup {"udp_write", "out_read"}
  BY UdpSentSame DEF Early
<1>5. ClientOps(d)
  <2> HIDE DEF d
  <2> QED BY <1>4 DEF ClientOps
<1>6. CASE ~Whole(c.udpBuf)
  <2>1. d = Begin(c, "out_read")
    BY <1>6 DEF UdpSent
  <2>2. CsAlike(c, d) /\ d.ops = c.ops \cup {"out_read"} /\ d.status = c.status
    BY <2>1, ClientAlike
  <2> HIDE DEF d
  <2>3. DownOrder(d) /\ Got(d) = Got(c) /\ d.toApp = c.toApp
    BY <2>2, AlikeDown
  <2> QED BY <1>4, <1>5, <2>2, <2>3 DEF d, CsAlike
<1>7. CASE Whole(c.udpBuf)
  <2>1. d = Begin(e, "udp_write")
    BY <1>7 DEF UdpSent
  <2>2. /\ DOMAIN e = CsFields /\ e.ops = c.ops /\ e.status = c.status /\ e.toApp = c.toApp
        /\ e.data = p /\ e.udpBuf = r /\ e.cause = c.cause
    BY DEF CsFields
  <2> HIDE DEF e
  <2>3. CsAlike(e, d) /\ d.ops = e.ops \cup {"udp_write"} /\ d.status = e.status
    BY <2>1, <2>2, ClientAlike
  <2> HIDE DEF d
  <2>4. d.toApp = c.toApp /\ d.data = p /\ d.udpBuf = r /\ Writing(d) /\ d.cause = c.cause
    BY <2>2, <2>3 DEF CsAlike, Writing
  <2>5. 2 \in 0..Len(c.udpBuf) /\ 2 + 1 = 3
    BY <1>1, <1>7 DEF Whole
  <2>6. /\ Run(p, x) /\ Len(p) = 2 /\ Run(r, x + 2) /\ Len(r) = Len(c.udpBuf) - 2
    <3>1. /\ Run(SubSeq(c.udpBuf, 1, 2), x) /\ Len(SubSeq(c.udpBuf, 1, 2)) = 2
          /\ Run(SubSeq(c.udpBuf, 2 + 1, Len(c.udpBuf)), x + 2)
          /\ Len(SubSeq(c.udpBuf, 2 + 1, Len(c.udpBuf))) = Len(c.udpBuf) - 2
      BY <1>1, <1>3, <2>5, RunCut
    <3> QED BY <2>5, <3>1
  <2> HIDE DEF p, r
  <2>7. DownNext(d) = x /\ DownBusy(d) = 2
    BY <2>4, <2>6 DEF DownNext, DownBusy
  <2> HIDE DEF x
  <2>8. DownOrder(d)
    BY <1>3, <1>4, <2>4, <2>6, <2>7 DEF DownOrder
  <2>9. Got(d) = Got(c)
    <3>1. Got(d) = x + 2 + Len(r)
      BY <2>4, <2>7 DEF Got
    <3>2. \A a, b \in Nat : a + 2 + (b - 2) = a + b
      OBVIOUS
    <3>3. x + 2 + (Len(c.udpBuf) - 2) = x + Len(c.udpBuf)
      BY <1>1, <3>2, Zenon
    <3> QED BY <1>2, <2>6, <3>1, <3>3, Zenon
  <2> QED BY <1>4, <1>5, <2>4, <2>8, <2>9 DEF d
<1> QED BY <1>6, <1>7

\* The client goes on: d follows c, with the data where it was or further on.
Goes(c, d) ==
  /\ DOMAIN d = CsFields /\ ClientOps(d) /\ DownOrder(d) /\ Got(d) = Got(c)
  /\ d.status # "DESTROY" /\ d.cause = c.cause

\* Operations that write nothing to the application.
Mild(c, a, b) ==
  \/ c.status = "FORWARD" /\ {a, b} \subseteq {"in_read", "out_write", "out_read"}
  \/ c.status = "UDP_FORWARD" /\ {a, b} \subseteq {"udp_read", "out_write", "out_read"}

\* Such an operation ends, another begins.
LEMMA OpGoes ==
  ASSUME NEW c, NEW a, NEW b, DOMAIN c = CsFields, ClientOps(c), DownOrder(c), Mild(c, a, b)
  PROVE  /\ Goes(c, Done(c, a)) /\ Done(c, a).status = c.status /\ Done(c, a).ops = c.ops \ {a}
         /\ Goes(c, Begin(Done(c, a), b)) /\ Begin(Done(c, a), b).status = c.status
<1> DEFINE d == Done(c, a)
           e == Begin(d, b)
<1>1. CsAlike(c, d) /\ d.ops = c.ops \ {a} /\ d.status = c.status
  BY ClientAlike
<1> HIDE DEF d
<1>2. CsAlike(d, e) /\ e.ops = d.ops \cup {b} /\ e.status = d.status
  BY <1>1, ClientAlike DEF CsAlike
<1> HIDE DEF e
<1>3. DownOrder(d) /\ Got(d) = Got(c)
  BY <1>1, AlikeDown DEF Mild
<1>4. DownOrder(e) /\ Got(e) = Got(d)
  BY <1>1, <1>2, <1>3, AlikeDown DEF Mild
<1>5. ClientOps(d)
  BY <1>1 DEF ClientOps, Mild
<1>6. ClientOps(e)
  BY <1>1, <1>2 DEF ClientOps, Mild
<1>7. Goes(c, d)
  BY <1>1, <1>3, <1>5 DEF Goes, CsAlike, Mild
<1>8. Goes(c, e)
  BY <1>1, <1>2, <1>3, <1>4, <1>6 DEF Goes, CsAlike, Mild
<1> QED BY <1>1, <1>2, <1>7, <1>8 DEF d, e

\* A session that has received nothing goes on.
LEMMA FreshGoes ==
  ASSUME NEW c, NEW d, Fresh(c), "udp_write" \notin c.ops, Fresh(d), "udp_write" \notin d.ops,
         DOMAIN d = CsFields, ClientOps(d), d.status # "DESTROY", d.cause = c.cause
  PROVE  Goes(c, d)
  BY FreshDown DEF Goes

\* in_recv and in_sent before the session relays: u is what c has become, and
\* its one operation has ended.
LEMMA EarlyGoes ==
  ASSUME NEW c, NEW a, NEW u, NEW st, NEW b, ClientOps(c), DownOrder(c),
         ClientSolo(c), c.status \in Early, a \in c.ops,
         DOMAIN u = CsFields, u.ops = c.ops \ {a}, Fresh(u), u.cause = c.cause, u.status = st,
         \/ st \in {"HANDSHAKE", "REQUEST"} /\ b \in {"in_read", "in_write"}
         \/ st = "INVALID" /\ b = "in_write"
         \/ st = "CONNECT" /\ b = "dial"
  PROVE  Goes(c, Begin(u, b)) /\ Begin(u, b).status = st
<1> DEFINE d == Begin(u, b)
<1>1. Fresh(c) /\ "udp_write" \notin c.ops
  BY DEF DownOrder, ClientOps, Early
<1>2. u.ops = {}
  BY DEF ClientSolo, OneOf, Starting
<1>3. CsAlike(u, d) /\ d.ops = u.ops \cup {b} /\ d.status = u.status
  BY ClientAlike
<1> HIDE DEF d
<1>4. /\ DOMAIN d = CsFields /\ d.ops = {b} /\ Fresh(d) /\ d.cause = c.cause /\ d.status = st
  BY <1>2, <1>3 DEF CsAlike, Fresh
<1>5. ClientOps(d) /\ "udp_write" \notin d.ops
  BY <1>4 DEF ClientOps, Early
<1>6. Goes(c, d)
  BY <1>1, <1>4, <1>5, FreshGoes
<1> QED BY <1>4, <1>6 DEF d

\* An early session that has ended its operation.
LEMMA EarlyEnds ==
  ASSUME NEW c, NEW a, DOMAIN c = CsFields, ClientOps(c), DownOrder(c), c.status \in Early
  PROVE  /\ Goes(c, Done(c, a)) /\ Done(c, a).status = c.status
         /\ Fresh(Done(c, a)) /\ Done(c, a).ops = c.ops \ {a}
         /\ LET d == [Done(c, a) EXCEPT !.toApp = @ \o c.data] IN
            Goes(c, d) /\ d.status = c.status /\ Fresh(d) /\ d.ops = c.ops \ {a}
<1> DEFINE r == Done(c, a)
           d == [r EXCEPT !.toApp = @ \o c.data]
<1>1. CsAlike(c, r) /\ r.ops = c.ops \ {a} /\ r.status = c.status
  BY ClientAlike
<1>2. Fresh(c) /\ "udp_write" \notin c.ops /\ c.status # "DESTROY"
  BY DEF DownOrder, ClientOps, Early
<1> HIDE DEF r
<1>3. /\ DOMAIN r = CsFields /\ Fresh(r) /\ ClientOps(r) /\ "udp_write" \notin r.ops
      /\ r.cause = c.cause
  BY <1>1, <1>2 DEF CsAlike, Fresh, ClientOps
<1>4. /\ DOMAIN d = CsFields /\ d.ops = r.ops /\ d.data = <<>> /\ d.udpBuf = <<>> /\ d.toApp = <<>>
      /\ d.cause = c.cause /\ d.status = c.status
  <2>1. r.toApp \o c.data = <<>>
    BY <1>2, <1>3 DEF Fresh
  <2> QED BY <1>1, <1>3, <2>1 DEF CsFields, Fresh
<1> HIDE DEF d
<1>5. Fresh(d) /\ "udp_write" \notin d.ops
  BY <1>3, <1>4 DEF Fresh
<1>6. ClientOps(d)
  BY <1>1, <1>2, <1>3, <1>4 DEF ClientOps
<1>7. Goes(c, r)
  BY <1>1, <1>2, <1>3, FreshGoes
<1>8. Goes(c, d)
  BY <1>2, <1>4, <1>5, <1>6, FreshGoes
<1> QED BY <1>1, <1>3, <1>4, <1>5, <1>7, <1>8 DEF d, r

\* The reply to the SOCKS5 client.
LEMMA EarlyReply ==
  ASSUME NEW c, NEW a, DOMAIN c = CsFields, ClientOps(c), DownOrder(c),
         c.status \in {"HANDSHAKE", "REQUEST"}
  PROVE  LET d == Begin(Done(c, a), "in_write") IN Goes(c, d) /\ d.status = c.status
<1> DEFINE r == Done(c, a)
           d == Begin(r, "in_write")
<1>1. CsAlike(c, r) /\ r.ops = c.ops \ {a} /\ r.status = c.status
  BY ClientAlike
<1>2. Fresh(c) /\ "udp_write" \notin c.ops
  BY DEF DownOrder, ClientOps, Early
<1> HIDE DEF r
<1>3. CsAlike(r, d) /\ d.ops = r.ops \cup {"in_write"} /\ d.status = r.status
  BY <1>1, ClientAlike DEF CsAlike
<1> HIDE DEF d
<1>4. /\ DOMAIN d = CsFields /\ Fresh(d) /\ ClientOps(d) /\ "udp_write" \notin d.ops
      /\ d.cause = c.cause
  BY <1>1, <1>2, <1>3 DEF CsAlike, Fresh, ClientOps
<1>5. Goes(c, d)
  BY <1>1, <1>2, <1>3, <1>4, FreshGoes
<1> QED BY <1>1, <1>3, <1>5 DEF d, r

\* in_recv of the SOCKS5 exchange.
LEMMA SocksGoes ==
  ASSUME IInv, ClientSolo(cs), ClientOps(cs), DownOrder(cs), SocksRecv
  PROVE  \/ Goes(cs, cs') /\ cs.status \in Early /\ cs'.status \in Early /\ UNCHANGED <<link, eof>>
         \/ \E c : Goes(cs, c) /\ ClientDestroy(c, "error") /\ cs.status \in Early
<1> DEFINE c == Done(cs, "in_read")
           d == [c EXCEPT !.status = "INVALID"]
<1>1. DOMAIN cs = CsFields /\ "in_read" \in cs.ops /\ cs.status \in {"HANDSHAKE", "REQUEST"}
      /\ cs.status \in Early
  BY DEF IInv, Phases, SocksRecv, Early
<1>2. \/ cs' = Begin(c, "in_write") /\ UNCHANGED <<link, eof>>
      \/ cs' = Begin(d, "in_write") /\ UNCHANGED <<link, eof>>
      \/ ClientDestroy(c, "error")
  BY DEF SocksRecv
<1>3. Goes(cs, c) /\ c.status = cs.status /\ Fresh(c) /\ c.ops = cs.ops \ {"in_read"}
  BY <1>1, EarlyEnds
<1>4. Goes(cs, Begin(d, "in_write")) /\ Begin(d, "in_write").status = "INVALID"
  <2> HIDE DEF c
  <2>1. /\ DOMAIN d = CsFields /\ d.ops = cs.ops \ {"in_read"} /\ Fresh(d) /\ d.cause = cs.cause
        /\ d.status = "INVALID"
    BY <1>3 DEF Goes, Fresh, CsFields
  <2> HIDE DEF d
  <2> QED BY <1>1, <2>1, EarlyGoes
<1>5. Goes(cs, Begin(c, "in_write")) /\ Begin(c, "in_write").status = cs.status
  BY <1>1, EarlyReply
<1> QED BY <1>1, <1>2, <1>4, <1>5, <1>3 DEF Early

\* in_sent: before the session relays, and after.
LEMMA InSentGoes ==
  ASSUME IInv, ClientSolo(cs), ClientOps(cs), DownOrder(cs), ClientInSent
  PROVE  \/ /\ Goes(cs, cs') /\ UNCHANGED <<link, eof>>
            /\ \/ cs.status \in Early /\ cs'.status \in Early
               \/ cs.status = "FORWARD" /\ cs'.status = "FORWARD"
         \/ \E c : Goes(cs, c) /\ ClientDestroy(c, "error") /\ cs.status \in Early
<1> DEFINE r == Done(cs, "in_write")
           c == [r EXCEPT !.toApp = @ \o cs.data]
           d == [c EXCEPT !.status = "REQUEST"]
           e == [c EXCEPT !.status = "CONNECT"]
<1>1. DOMAIN cs = CsFields /\ "in_write" \in cs.ops
  BY DEF IInv, Phases, ClientInSent
<1>2. \/ cs.status = "HANDSHAKE" /\ cs' = Begin(d, "in_read") /\ UNCHANGED <<link, eof>>
      \/ cs.status = "REQUEST" /\ cs' = Begin(e, "dial") /\ UNCHANGED <<link, eof>>
      \/ cs.status = "FORWARD" /\ cs' = Begin(c, "out_read") /\ UNCHANGED <<link, eof>>
      \/ cs.status = "INVALID" /\ ClientDestroy(c, "error")
  BY DEF ClientInSent
<1>3. CASE cs.status = "HANDSHAKE" /\ cs' = Begin(d, "in_read") /\ UNCHANGED <<link, eof>>
  <2>1. Goes(cs, c) /\ Fresh(c) /\ c.ops = cs.ops \ {"in_write"} /\ cs.status \in Early
    BY <1>1, <1>3, EarlyEnds DEF Early
  <2> HIDE DEF c
  <2>2. /\ DOMAIN d = CsFields /\ d.ops = cs.ops \ {"in_write"} /\ Fresh(d)
        /\ d.cause = cs.cause /\ d.status = "REQUEST"
    BY <2>1 DEF Goes, Fresh, CsFields
  <2> HIDE DEF d
  <2>3. Goes(cs, Begin(d, "in_read")) /\ Begin(d, "in_read").status = "REQUEST"
    BY <1>1, <2>1, <2>2, EarlyGoes
  <2> QED BY <1>3, <2>1, <2>3 DEF Early, c, d
<1>4. CASE cs.status = "REQUEST" /\ cs' = Begin(e, "dial") /\ UNCHANGED <<link, eof>>
  <2>1. Goes(cs, c) /\ Fresh(c) /\ c.ops = cs.ops \ {"in_write"} /\ cs.status \in Early
    BY <1>1, <1>4, EarlyEnds DEF Early
  <2> HIDE DEF c
  <2>2. /\ DOMAIN e = CsFields /\ e.ops = cs.ops \ {"in_write"} /\ Fresh(e)
        /\ e.cause = cs.cause /\ e.status = "CONNECT"
    BY <2>1 DEF Goes, Fresh, CsFields
  <2> HIDE DEF e
  <2>3. Goes(cs, Begin(e, "dial")) /\ Begin(e, "dial").status = "CONNECT"
    BY <1>1, <2>1, <2>2, EarlyGoes
  <2> QED BY <1>4, <2>1, <2>3 DEF Early, c, e
<1>5. CASE cs.status = "INVALID" /\ ClientDestroy(c, "error")
  <2>1. Goes(cs, c) /\ cs.status \in Early
    BY <1>1, <1>5, EarlyEnds DEF Early
  <2> QED BY <1>5, <2>1
<1>6. CASE cs.status = "FORWARD" /\ cs' = Begin(c, "out_read") /\ UNCHANGED <<link, eof>>
  <2>1. setup.kind = "tcp" /\ cs.ops \subseteq {"in_read", "out_write", "out_read", "in_write"}
    BY <1>6 DEF ClientOps
  <2>2. /\ DownOrder(c) /\ Got(c) = Got(cs) /\ ~Writing(c) /\ c.status = "FORWARD"
        /\ DOMAIN c = CsFields /\ c.ops = cs.ops \ {"in_write"} /\ c.cause = cs.cause
    BY <1>1, <1>6, <2>1, SentDown
  <2> HIDE DEF c
  <2>3. /\ CsAlike(c, Begin(c, "out_read")) /\ Begin(c, "out_read").ops = c.ops \cup {"out_read"}
        /\ Begin(c, "out_read").status = "FORWARD"
    BY <2>2, ClientAlike
  <2> DEFINE b == Begin(c, "out_read")
  <2> HIDE DEF b
  <2>4. /\ CsAlike(c, b) /\ b.ops = c.ops \cup {"out_read"} /\ b.status = "FORWARD"
    BY <2>3 DEF b
  <2>5. DownOrder(b) /\ Got(b) = Got(c)
    BY <2>2, <2>4, AlikeDown
  <2>6. ClientOps(b)
    BY <2>1, <2>2, <2>4 DEF ClientOps
  <2>7. Goes(cs, b)
    BY <2>2, <2>4, <2>5, <2>6 DEF Goes, CsAlike
  <2> QED BY <1>6, <2>4, <2>7 DEF b
<1> QED BY <1>2, <1>3, <1>4, <1>5, <1>6

\* request_remote
LEMMA DialGoes ==
  ASSUME IInv, ClientSolo(cs), ClientOps(cs), DownOrder(cs), ClientDialed,
         setup.kind \in {"tcp", "udp"}
  PROVE  Goes(cs, cs') /\ "dial" \in cs.ops /\ cs'.status \in {"FORWARD", "UDP_FORWARD"}
<1> DEFINE r == Done(cs, "dial")
           st == IF setup.kind = "udp" THEN "UDP_FORWARD" ELSE "FORWARD"
           s == [r EXCEPT !.status = st, !.late = cs.status = "DESTROY"]
           t == Begin(s, "out_read")
           u == Begin(t, "out_write")
<1>1. /\ DOMAIN cs = CsFields /\ cs.status \in {"CONNECT", "DESTROY"} /\ "dial" \in cs.ops
      /\ cs' = u
  BY DEF IInv, Phases, ClientDialed, RequestRemote
<1>2. Fresh(cs) /\ "udp_write" \notin cs.ops /\ cs.ops \ {"dial"} = {}
  BY <1>1 DEF DownOrder, ClientOps, Early
<1>3. CsAlike(cs, r) /\ r.ops = {}
  BY <1>1, <1>2, ClientAlike
<1> HIDE DEF r
<1>4. st \in {"FORWARD", "UDP_FORWARD"} /\ (st = "FORWARD" => setup.kind = "tcp")
      /\ (st = "UDP_FORWARD" => setup.kind = "udp")
  OBVIOUS
<1> HIDE DEF st
<1>5. /\ DOMAIN s = CsFields /\ Fresh(s) /\ s.ops = {} /\ s.status = st /\ s.cause = cs.cause
  BY <1>2, <1>3 DEF CsAlike, CsFields, Fresh
<1> HIDE DEF s
<1>6. CsAlike(s, t) /\ t.ops = s.ops \cup {"out_read"} /\ t.status = s.status
  BY <1>5, ClientAlike
<1> HIDE DEF t
<1>7. CsAlike(t, u) /\ u.ops = t.ops \cup {"out_write"} /\ u.status = t.status
  BY <1>6, ClientAlike DEF CsAlike
<1> HIDE DEF u
<1>8. /\ DOMAIN u = CsFields /\ Fresh(u) /\ u.ops = {"out_read", "out_write"} /\ u.status = st
      /\ u.cause = cs.cause
  BY <1>5, <1>6, <1>7 DEF CsAlike, Fresh
<1>9. ClientOps(u) /\ "udp_write" \notin u.ops
  BY <1>4, <1>8 DEF ClientOps, Early
<1>10. Goes(cs, u)
  BY <1>2, <1>4, <1>8, <1>9, FreshGoes
<1> QED BY <1>1, <1>4, <1>8, <1>10

\* in_recv, udp_recv and out_sent of a session that relays.
LEMMA UplinkGoes ==
  ASSUME IInv, ClientOps(cs), DownOrder(cs)
  PROVE  /\ ClientInRecv => Goes(cs, cs') /\ cs.status = "FORWARD" /\ cs'.status = "FORWARD"
         /\ "udp_read" \in cs.ops =>
              LET c == Done(cs, "udp_read")
                  d == Begin(c, "out_write")
              IN  /\ cs.status = "UDP_FORWARD"
                  /\ Goes(cs, c) /\ c.status = "UDP_FORWARD"
                  /\ Goes(cs, d) /\ d.status = "UDP_FORWARD"
         /\ ClientOutSent =>
              /\ Goes(cs, cs') /\ cs'.status = cs.status
              /\ cs.status \in {"FORWARD", "UDP_FORWARD"}
<1>1. DOMAIN cs = CsFields
  BY DEF IInv, Phases
<1>2. ASSUME ClientInRecv
      PROVE  Goes(cs, cs') /\ cs.status = "FORWARD" /\ cs'.status = "FORWARD"
  <2> DEFINE d == Begin(Done(cs, "in_read"), "out_write")
  <2>1. cs.status = "FORWARD" /\ cs' = d
    BY <1>2 DEF ClientInRecv
  <2>2. Mild(cs, "in_read", "out_write")
    BY <2>1 DEF Mild
  <2>3. Goes(cs, d) /\ d.status = cs.status
    BY <1>1, <2>2, OpGoes
  <2> HIDE DEF d
  <2> QED BY <2>1, <2>3
<1>3. ASSUME "udp_read" \in cs.ops
      PROVE  LET c == Done(cs, "udp_read")
                 d == Begin(c, "out_write")
             IN  /\ cs.status = "UDP_FORWARD"
                 /\ Goes(cs, c) /\ c.status = "UDP_FORWARD"
                 /\ Goes(cs, d) /\ d.status = "UDP_FORWARD"
  <2>1. cs.status = "UDP_FORWARD"
    BY <1>3 DEF ClientOps, Early
  <2>2. Mild(cs, "udp_read", "out_write")
    BY <2>1 DEF Mild
  <2> QED BY <1>1, <2>1, <2>2, OpGoes
<1>4. ASSUME ClientOutSent
      PROVE  /\ Goes(cs, cs') /\ cs'.status = cs.status
             /\ cs.status \in {"FORWARD", "UDP_FORWARD"}
  <2> DEFINE c == Done(cs, "out_write")
             b == IF c.status = "UDP_FORWARD" THEN "udp_read" ELSE "in_read"
  <2>1. "out_write" \in cs.ops /\ cs' = Begin(c, b)
    BY <1>4 DEF ClientOutSent, OutSent
  <2>2. cs.status \in {"FORWARD", "UDP_FORWARD"}
    BY <2>1 DEF ClientOps, Early
  <2>3. c.status = cs.status
    BY <1>1, ClientAlike
  <2>4. Mild(cs, "out_write", b)
    BY <2>2, <2>3 DEF Mild
  <2> HIDE DEF b
  <2>5. Goes(cs, Begin(c, b)) /\ Begin(c, b).status = cs.status
    BY <1>1, <2>4, OpGoes
  <2> QED BY <2>1, <2>2, <2>5
<1> QED BY <1>2, <1>3, <1>4

\* udp_sent
LEMMA UdpSentGoes ==
  ASSUME IInv, ClientSolo(cs), ClientOps(cs), DownOrder(cs), ClientUdpSent
  PROVE  Goes(cs, cs') /\ cs.status = "UDP_FORWARD" /\ cs'.status = "UDP_FORWARD"
<1> DEFINE d == [Done(cs, "udp_write") EXCEPT !.toApp = @ \o cs.data]
<1>1. DOMAIN cs = CsFields /\ "udp_write" \in cs.ops /\ cs' = UdpSent(d)
  BY DEF IInv, Phases, ClientUdpSent
<1>2. cs.status = "UDP_FORWARD" /\ setup.kind = "udp"
  BY <1>1 DEF ClientOps, Early
<1>3. /\ DownOrder(d) /\ Got(d) = Got(cs) /\ ~Writing(d) /\ d.status = cs.status
      /\ DOMAIN d = CsFields /\ d.ops = cs.ops \ {"udp_write"} /\ d.cause = cs.cause
  BY <1>1, <1>2, SentDown
<1> HIDE DEF d
<1>4. ClientOps(d)
  BY <1>2, <1>3 DEF ClientOps
<1> DEFINE e == UdpSent(d)
<1>5. /\ DownOrder(e) /\ Got(e) = Got(d) /\ DOMAIN e = CsFields
      /\ ClientOps(e) /\ e.cause = d.cause /\ e.status = "UDP_FORWARD"
  BY <1>2, <1>3, <1>4, UdpSentDown
<1> HIDE DEF e
<1>6. Goes(cs, e)
  BY <1>3, <1>5 DEF Goes
<1> QED BY <1>1, <1>2, <1>5, <1>6 DEF e

\* The client reads k units: d has got them.
Takes(c, d, k) ==
  /\ DOMAIN d = CsFields /\ ClientOps(d) /\ DownOrder(d) /\ Got(d) = Got(c) + k
  /\ d.status # "DESTROY" /\ d.cause = c.cause

\* out_recv
LEMMA OutRecvTakes ==
  ASSUME IInv, ClientSolo(cs), ClientOps(cs), DownOrder(cs), "out_read" \in cs.ops,
         NEW w, Run(w, Got(cs)), NEW d,
         LET c == Done(cs, "out_read") IN
         d = IF cs.status = "UDP_FORWARD" THEN UdpSent([c EXCEPT !.udpBuf = @ \o w])
             ELSE Begin([c EXCEPT !.data = w], "in_write")
  PROVE  Takes(cs, d, Len(w)) /\ d.status = cs.status /\ cs.status \in {"FORWARD", "UDP_FORWARD"}
<1> DEFINE c == Done(cs, "out_read")
<1>1. DOMAIN cs = CsFields
  BY DEF IInv, Phases
<1>2. \/ cs.status = "FORWARD" /\ setup.kind = "tcp"
      \/ cs.status = "UDP_FORWARD" /\ setup.kind = "udp"
  BY DEF ClientOps, Early
<1>3. CsAlike(cs, c) /\ c.ops = cs.ops \ {"out_read"} /\ c.status = cs.status
  BY <1>1, ClientAlike
<1>4. ~Writing(cs)
  <2>1. {"out_read", "in_write", "udp_write"} \subseteq ClientDown
    BY DEF ClientDown
  <2> QED BY <2>1 DEF ClientSolo, OneOf, Writing
<1>5. d = IF cs.status = "UDP_FORWARD" THEN UdpSent([c EXCEPT !.udpBuf = @ \o w])
          ELSE Begin([c EXCEPT !.data = w], "in_write")
  OBVIOUS
<1> HIDE DEF c
<1>6. DownOrder(c) /\ Got(c) = Got(cs) /\ ~Writing(c) /\ DOMAIN c = CsFields
  BY <1>3, <1>4, AlikeDown DEF Writing, CsAlike
<1>7. ClientOps(c)
  BY <1>3 DEF ClientOps
<1>8. CASE cs.status = "UDP_FORWARD"
  <2> DEFINE e == [c EXCEPT !.udpBuf = @ \o w]
  <2>1. setup.kind = "udp" /\ c.status = "UDP_FORWARD"
    BY <1>2, <1>3, <1>8
  <2>2. /\ DownOrder(e) /\ Got(e) = Got(c) + Len(w) /\ ~Writing(e)
        /\ DOMAIN e = CsFields /\ e.status = "UDP_FORWARD" /\ e.ops = c.ops
    BY <1>6, <2>1, MoreDown
  <2>3. e.cause = c.cause
    BY <1>6 DEF CsFields
  <2>4. d = UdpSent(e)
    BY <1>5, <1>8
  <2> HIDE DEF e
  <2>5. ClientOps(e)
    BY <1>7, <2>1, <2>2 DEF ClientOps
  <2>6. /\ DownOrder(d) /\ Got(d) = Got(e) /\ DOMAIN d = CsFields
        /\ ClientOps(d) /\ d.cause = e.cause /\ d.status = "UDP_FORWARD"
    BY <2>1, <2>2, <2>4, <2>5, UdpSentDown
  <2> QED BY <1>3, <1>6, <1>8, <2>2, <2>3, <2>6 DEF Takes, CsAlike
<1>9. CASE cs.status = "FORWARD"
  <2> DEFINE e == [c EXCEPT !.data = w]
  <2>1. setup.kind = "tcp" /\ c.status = "FORWARD"
    BY <1>2, <1>3, <1>9
  <2>2. d = Begin(e, "in_write")
    BY <1>5, <1>9
  <2>3. DownOrder(d) /\ Got(d) = Got(c) + Len(w)
    BY <1>6, <2>1, <2>2, OutRecvDown
  <2>4. DOMAIN e = CsFields /\ e.ops = c.ops /\ e.status = c.status /\ e.cause = c.cause
    BY <1>6 DEF CsFields
  <2> HIDE DEF e
  <2>5. CsAlike(e, d) /\ d.ops = e.ops \cup {"in_write"} /\ d.status = e.status
    BY <2>2, <2>4, ClientAlike
  <2>6. ClientOps(d)
    BY <1>7, <2>1, <2>4, <2>5 DEF ClientOps
  <2> QED BY <1>3, <1>6, <1>9, <2>3, <2>4, <2>5, <2>6 DEF Takes, CsAlike
<1> QED BY <1>2, <1>8, <1>9

-----------------------------------------------------------------------------
(* The whole stream to the application: c is the client session, l what is   *)
(* on the way, m the last unit the target has sent.  When the server session *)
(* is unbroken, alive or ended because the target closed, nothing is missing *)
(* between what the client has read and that unit.                           *)

\* The session reads from the TLS connection, now or when it is made.
Live(c) == c.status # "DESTROY" \/ "dial" \in c.ops
DownLine(c, l, unbroken, m) ==
  /\ DownOrder(c) /\ m \in Nat /\ Len(c.toApp) <= m
  /\ "dial" \in c.ops => Fresh(c)
  /\ Live(c) =>
       Run(l, Got(c)) /\ Got(c) + Len(l) <= m + 1 /\ (unbroken => Got(c) + Len(l) = m + 1)

\* What the application has is a part of what the client has got.
LEMMA GotBound ==
  ASSUME NEW c, DownOrder(c), c.status # "DESTROY"
  PROVE  1 + Len(c.toApp) <= Got(c) /\ Got(c) \in Nat /\ Len(c.toApp) \in Nat
<1>1. DownBusy(c) \in Nat /\ Len(c.udpBuf) \in Nat /\ Len(c.toApp) \in Nat /\ Got(c) \in Nat
  BY DownNumbers
<1>2. Got(c) = 1 + Len(c.toApp) + DownBusy(c) + Len(c.udpBuf)
  BY DEF Got, DownNext
<1>3. \A a, b, e \in Nat : 1 + a <= 1 + a + b + e
  OBVIOUS
<1> QED BY <1>1, <1>2, <1>3

\* Also when the client has not been connected yet.
LEMMA LiveNumbers ==
  ASSUME NEW c, NEW l, NEW u, NEW m, DownLine(c, l, u, m), Live(c)
  PROVE  Got(c) \in Nat
<1>1. CASE c.status # "DESTROY"
  BY <1>1, DownNumbers DEF DownLine
<1>2. CASE "dial" \in c.ops
  <2>1. Len(c.toApp) = 0 /\ Len(c.udpBuf) = 0 /\ Len(c.data) = 0
    BY <1>2 DEF DownLine, Fresh
  <2> QED BY <2>1 DEF Got, DownNext, DownBusy
<1> QED BY <1>1, <1>2 DEF Live

\* Of the sessions that go on only one that connects has not received anything.
LEMMA DialFresh ==
  ASSUME NEW c, ClientOps(c), DownOrder(c), "dial" \in c.ops
  PROVE  Fresh(c) /\ c.status \in {"CONNECT", "DESTROY"}
  BY DEF ClientOps, DownOrder, Early

\* The client goes on.
LEMMA DownGoes ==
  ASSUME NEW c, NEW d, NEW l, NEW u, NEW m, DownLine(c, l, u, m), Live(c), Goes(c, d)
  PROVE  DownLine(d, l, u, m)
<1>1. /\ DownOrder(d) /\ Got(d) = Got(c) /\ d.status # "DESTROY"
      /\ m \in Nat /\ Run(l, Got(c)) /\ Got(c) + Len(l) <= m + 1
      /\ (u => Got(c) + Len(l) = m + 1)
  BY DEF DownLine, Goes
<1>5. "dial" \in d.ops => Fresh(d)
  BY DialFresh DEF Goes
<1>2. Len(l) \in Nat
  BY <1>1 DEF Run
<1>3. 1 + Len(d.toApp) <= Got(d) /\ Got(d) \in Nat /\ Len(d.toApp) \in Nat
  BY <1>1, GotBound
<1>4. Len(d.toApp) <= m
  BY <1>1, <1>2, <1>3
<1> QED BY <1>1, <1>4, <1>5 DEF DownLine

\* The client reads k units.
LEMMA DownTakes ==
  ASSUME NEW c, NEW d, NEW l, NEW u, NEW m, DownLine(c, l, u, m), c.status # "DESTROY",
         NEW k \in 1..Len(l), Takes(c, d, k)
  PROVE  DownLine(d, SubSeq(l, k + 1, Len(l)), u, m)
<1> DEFINE x == Got(c)
           r == SubSeq(l, k + 1, Len(l))
<1>1. /\ DownOrder(d) /\ Got(d) = x + k /\ d.status # "DESTROY"
      /\ m \in Nat /\ Run(l, x) /\ x + Len(l) <= m + 1 /\ (u => x + Len(l) = m + 1)
  BY DEF DownLine, Live, Takes
<1>10. "dial" \in d.ops => Fresh(d)
  BY DialFresh DEF Takes
<1>2. Len(l) \in Nat
  BY <1>1 DEF Run
<1>3. x \in Nat
  BY DownNumbers DEF DownLine
<1> HIDE DEF x
<1>4. k \in 0..Len(l) /\ k \in Nat
  BY <1>2
<1>5. Run(r, x + k) /\ Len(r) = Len(l) - k
  BY <1>1, <1>3, <1>4, RunCut
<1> HIDE DEF r
<1>6. (x + k) + Len(r) = x + Len(l)
  BY <1>2, <1>3, <1>4, <1>5
<1>7. 1 + Len(d.toApp) <= Got(d) /\ Len(d.toApp) \in Nat
  BY <1>1, GotBound
<1>8. Len(d.toApp) <= m
  BY <1>1, <1>2, <1>3, <1>4, <1>7
<1>9. DownLine(d, r, u, m)
  BY <1>1, <1>5, <1>6, <1>8, <1>10 DEF DownLine
<1> QED BY <1>9 DEF r

\* The client is destroyed.
LEMMA DownStops ==
  ASSUME NEW c, NEW d, NEW l, NEW k, NEW u, NEW m, DownLine(c, l, u, m),
         DownOrder(d), d.toApp = c.toApp, d.status = "DESTROY",
         "dial" \in d.ops => "dial" \in c.ops /\ Fresh(d) /\ Got(d) = Got(c) /\ k = l
  PROVE  DownLine(d, k, u, m)
<1>1. CASE "dial" \in d.ops
  BY <1>1 DEF DownLine, Live
<1>2. CASE "dial" \notin d.ops
  BY <1>2 DEF DownLine, Live
<1> QED BY <1>1, <1>2

\* The server writes what the target sent next.
LEMMA DownWrites ==
  ASSUME NEW c, NEW l, NEW m, DownLine(c, l, TRUE, m), NEW w, Run(w, m + 1)
  PROVE  DownLine(c, l \o w, TRUE, m + Len(w))
<1>1. /\ DownOrder(c) /\ m \in Nat /\ Len(c.toApp) <= m
  BY DEF DownLine
<1>2. Len(w) \in Nat /\ Len(c.toApp) \in Nat
  BY <1>1, DownNumbers DEF Run
<1>3. m + Len(w) \in Nat /\ Len(c.toApp) <= m + Len(w)
  BY <1>1, <1>2
<1>4. ASSUME Live(c)
      PROVE  Run(l \o w, Got(c)) /\ Got(c) + Len(l \o w) = (m + Len(w)) + 1
  <2>0. Got(c) \in Nat
    BY <1>4, LiveNumbers
  <2>1. Run(l, Got(c)) /\ Got(c) + Len(l) = m + 1 /\ Got(c) \in Nat
    BY <1>4, <2>0 DEF DownLine
  <2>2. Len(l) \in Nat
    BY <2>1 DEF Run
  <2>3. Run(w, Got(c) + Len(l))
    BY <2>1
  <2>4. Run(l \o w, Got(c)) /\ Len(l \o w) = Len(l) + Len(w)
    BY <2>1, <2>3, RunCat
  <2>5. \A a, b, e \in Nat : a + b = m + 1 => a + (b + e) = (m + e) + 1
    BY <1>1
  <2>6. Got(c) + (Len(l) + Len(w)) = (m + Len(w)) + 1
    BY <1>2, <2>1, <2>2, <2>5
  <2> QED BY <2>4, <2>6
<1>5. ASSUME Live(c) PROVE Got(c) + Len(l \o w) <= (m + Len(w)) + 1
  BY <1>3, <1>4, <1>5
<1>6. "dial" \in c.ops => Fresh(c)
  BY DEF DownLine
<1> QED BY <1>1, <1>3, <1>4, <1>5, <1>6 DEF DownLine

\* The server ends: what was being written may be cut off.
LEMMA DownCut ==
  ASSUME NEW c, NEW l, NEW u, NEW v, NEW m, DownLine(c, l, u, m), NEW k,
         Live(c) => k \in 0..Len(l), v => u /\ k = 0
  PROVE  DownLine(c, SubSeq(l, 1, Len(l) - k), v, m)
<1> DEFINE p == SubSeq(l, 1, Len(l) - k)
<1>1. /\ DownOrder(c) /\ m \in Nat /\ Len(c.toApp) <= m
  BY DEF DownLine
<1>2. ASSUME Live(c)
      PROVE  Run(p, Got(c)) /\ Got(c) + Len(p) <= m + 1 /\ (v => Got(c) + Len(p) = m + 1)
  <2>0. Got(c) \in Nat
    BY <1>2, LiveNumbers
  <2>1. /\ Run(l, Got(c)) /\ Got(c) + Len(l) <= m + 1 /\ (u => Got(c) + Len(l) = m + 1)
        /\ Got(c) \in Nat
    BY <1>2, <2>0 DEF DownLine
  <2>2. Len(l) \in Nat /\ k \in 0..Len(l)
    BY <1>2, <2>1 DEF Run
  <2>3. Len(l) - k \in 0..Len(l) /\ k \in Nat
    BY <2>2
  <2>4. Run(p, Got(c)) /\ Len(p) = Len(l) - k
    BY <2>1, <2>3, RunCut
  <2> HIDE DEF p
  <2>5. Got(c) + Len(p) <= m + 1
    BY <1>1, <2>1, <2>2, <2>3, <2>4
  <2>6. ASSUME v PROVE Got(c) + Len(p) = m + 1
    <3>1. k = 0 /\ u
      BY <2>6
    <3>2. Len(p) = Len(l)
      BY <2>2, <2>4, <3>1
    <3> QED BY <2>1, <3>1, <3>2
  <2> QED BY <2>4, <2>5, <2>6
<1>3. "dial" \in c.ops => Fresh(c)
  BY DEF DownLine
<1> QED BY <1>1, <1>2, <1>3 DEF DownLine

\* A weaker claim about the server session.
LEMMA DownWeaker ==
  ASSUME NEW c, NEW l, NEW u, NEW v, NEW m, DownLine(c, l, u, m), v => u
  PROVE  DownLine(c, l, v, m)
  BY DEF DownLine

\* shutdown_ssl_socket loses at most what is on the way.
LEMMA ShutdownLoses ==
  ASSUME NEW d \in Dir, NEW w, Shutdown(d, w), DOMAIN link = Dir, DOMAIN eof = Dir,
         setup.kind \in {"tcp", "udp"}
  PROVE  /\ DOMAIN link' = Dir /\ DOMAIN eof' = Dir /\ eof'[d]
         /\ \A e \in Dir : e # d => link'[e] = link[e] /\ eof'[e] = eof[e]
         /\ \E k : /\ link'[d] = SubSeq(link[d], 1, Len(link[d]) - k)
                   /\ ~w => k = 0
                   /\ Len(link[d]) \in Nat => k \in 0..Len(link[d])
<1> DEFINE n == Len(link[d])
           top == IF w THEN Min({Size, n}) ELSE 0
<1>1. PICK k \in 0..top : link' = [link EXCEPT ![d] = SubSeq(@, 1, Len(@) - k)]
  BY DEF Shutdown
<1>2. eof' = [eof EXCEPT ![d] = TRUE]
  BY DEF Shutdown
<1>3. link'[d] = SubSeq(link[d], 1, n - k)
  BY <1>1
<1>4. ~w => k = 0
  BY <1>1
<1>5. ASSUME n \in Nat PROVE k \in 0..n
  <2>1. CASE ~w
    BY <1>4, <1>5, <2>1
  <2>2. CASE w
    <3>1. Size \in Nat
      BY DEF Size
    <3> HIDE DEF n
    <3>2. \E x \in {Size, n} : \A y \in {Size, n} : x <= y
      BY <1>5, <3>1
    <3>3. Min({Size, n}) \in {Size, n} /\ Min({Size, n}) <= n
      BY <3>2 DEF Min
    <3>4. k \in 0..Min({Size, n})
      BY <2>2 DEF n
    <3> QED BY <1>5, <3>1, <3>3, <3>4
  <2> QED BY <2>1, <2>2
<1> QED BY <1>1, <1>2, <1>3, <1>4, <1>5

-----------------------------------------------------------------------------
(* The invariant of the two streams.                                         *)

Unbroken(s) == s.status # "DESTROY" \/ s.cause = "eof"
\* The last of the n units, or of the units of the n datagrams, of the target.
LastDown(s, n) == IF setup.kind = "udp" /\ s.peer # "fallback" THEN 2 * n ELSE n

Wires ==
  /\ setup.kind \in {"tcp", "udp"} /\ DOMAIN link = Dir /\ DOMAIN eof = Dir
  /\ made \in [Dir -> Nat]
\* A client session that is destroyed while it connects is one that connects.
Phase(c) == IF c.status = "DESTROY" /\ "dial" \in c.ops THEN "CONNECT" ELSE c.status
UpWhole == UpLine(srv, front.buf, link["up"], Phase(cs), Size * made["up"])
DownWhole == DownLine(cs, link["down"], Unbroken(srv), LastDown(srv, made["down"]))
Flow ==
  /\ Wires /\ ClientOps(cs) /\ ServerOps(srv) /\ UpWhole /\ DownWhole
  /\ srv.status \in {"NONE", "HANDSHAKE"} => made["down"] = 0

\* Who talks to whom does not change.
LEMMA FlowFrom ==
  ASSUME UNCHANGED setup
  PROVE  /\ ClientOps(cs') => ClientOps(cs)'
         /\ ServerOps(srv') => ServerOps(srv)'
         /\ UpLine(srv', front'.buf, link'["up"], Phase(cs'), Size * made'["up"]) => UpWhole'
         /\ DownLine(cs', link'["down"], Unbroken(srv'), LastDown(srv', made'["down"]))
              => DownWhole'
<1>1. ClientOps(cs') => ClientOps(cs)'
  BY DEF ClientOps
<1>2. ServerOps(srv') => ServerOps(srv)'
  BY DEF ServerOps
<1>3. Size' = Size
  BY DEF Size
<1>4. UpLine(srv', front'.buf, link'["up"], Phase(cs'), Size * made'["up"]) => UpWhole'
  BY <1>3 DEF UpWhole
<1>5. LastDown(srv', made'["down"]) = LastDown(srv, made["down"])'
  BY DEF LastDown
<1>6. DownOrder(cs') => DownOrder(cs)'
  BY DEF DownOrder
<1>7. ASSUME DownLine(cs', link'["down"], Unbroken(srv'), LastDown(srv', made'["down"]))
      PROVE  DownWhole'
  BY <1>5, <1>6, <1>7 DEF DownLine, DownWhole
<1> QED BY <1>1, <1>2, <1>4, <1>7

\* The parts of the stream to the target see of the client only its phase.
LEMMA UpPhase ==
  ASSUME NEW s, NEW b, NEW l, NEW st, NEW su, NEW n, UpLine(s, b, l, st, n),
         st \in Early <=> su \in Early, st # "DESTROY"
  PROVE  UpLine(s, b, l, su, n)
  BY DEF UpLine, Joins

\* The client goes on and leaves the TLS connection as it is.
LEMMA GoesFlow ==
  ASSUME Flow, Goes(cs, cs'), cs.status # "DESTROY", cs.status \in Early <=> cs'.status \in Early,
         UNCHANGED <<setup, srv, front, link, made>>
  PROVE  UpWhole' /\ DownWhole' /\ ClientOps(cs)' /\ ServerOps(srv)'
<1>1. UpLine(srv, front.buf, link["up"], Phase(cs), Size * made["up"])
  BY DEF Flow, UpWhole
<1>2. UpLine(srv, front.buf, link["up"], Phase(cs'), Size * made["up"])
  <2>1. Phase(cs) = cs.status /\ Phase(cs') = cs'.status
    BY DEF Phase, Goes
  <2> QED BY <1>1, <2>1, UpPhase
<1>3. DownLine(cs, link["down"], Unbroken(srv), LastDown(srv, made["down"]))
  BY DEF Flow, DownWhole
<1>4. DownLine(cs', link["down"], Unbroken(srv), LastDown(srv, made["down"]))
  BY <1>3, DownGoes DEF Live
<1>5. ClientOps(cs') /\ ServerOps(srv)
  BY DEF Flow, Goes
<1> QED BY <1>2, <1>4, <1>5, FlowFrom

\* The client is destroyed, with or without a connection that it shuts down.
LEMMA ClientStopsFlow ==
  ASSUME Flow, cs.status # "DESTROY", NEW c, NEW why, Goes(cs, c), ClientDestroy(c, why),
         "dial" \in c.ops => cs.status \in Early,
         UNCHANGED <<setup, srv, front, made>>
  PROVE  UpWhole' /\ DownWhole' /\ ClientOps(cs)' /\ ServerOps(srv)'
<1>1. /\ UpLine(srv, front.buf, link["up"], Phase(cs), Size * made["up"])
      /\ DownLine(cs, link["down"], Unbroken(srv), LastDown(srv, made["down"]))
      /\ Wires /\ ServerOps(srv)
  BY DEF Flow, UpWhole, DownWhole
<1>2. "up" \in Dir /\ "down" \in Dir /\ "down" # "up"
  BY DEF Dir
<1>3. cs' = [c EXCEPT !.status = "DESTROY", !.ops = @ \cap {"dial"}, !.cause = why]
  BY DEF ClientDestroy
<1>4. /\ DownOrder(cs') /\ cs'.toApp = c.toApp /\ ClientOps(cs') /\ cs'.status = "DESTROY"
      /\ cs'.ops = c.ops \cap {"dial"} /\ ("dial" \in c.ops => Fresh(cs') /\ Got(cs') = Got(c))
  <2>1. DOMAIN c = CsFields /\ DownOrder(c) /\ ClientOps(c)
    BY DEF Goes
  <2> DEFINE d == [c EXCEPT !.status = "DESTROY", !.ops = @ \cap {"dial"}, !.cause = why]
  <2>2. /\ DownOrder(d) /\ d.toApp = c.toApp /\ ClientOps(d) /\ d.status = "DESTROY"
        /\ d.ops = c.ops \cap {"dial"}
        /\ "dial" \in c.ops => Fresh(d) /\ Got(d) = Got(c)
    BY <2>1, DestroyedDown
  <2>3. cs' = d
    BY <1>3
  <2> HIDE DEF d
  <2> QED BY <2>2, <2>3
<1>5. DownLine(c, link["down"], Unbroken(srv), LastDown(srv, made["down"]))
  BY <1>1, DownGoes DEF Live
<1>6. Phase(cs) = cs.status
  BY DEF Phase
<1>7. CASE c.status \in {"FORWARD", "UDP_FORWARD"}
  <2>1. Shutdown("up", "out_write" \in c.ops)
    BY <1>7 DEF ClientDestroy
  <2>2. /\ \A e \in Dir : e # "up" => link'[e] = link[e]
        /\ \E k : /\ link'["up"] = SubSeq(link["up"], 1, Len(link["up"]) - k)
                  /\ Len(link["up"]) \in Nat => k \in 0..Len(link["up"])
    BY <1>1, <1>2, <2>1, ShutdownLoses DEF Wires
  <2>3. link'["down"] = link["down"]
    BY <1>2, <2>2
  <2>4. PICK k : /\ link'["up"] = SubSeq(link["up"], 1, Len(link["up"]) - k)
                 /\ Len(link["up"]) \in Nat => k \in 0..Len(link["up"])
    BY <2>2
  <2>5. srv.status # "DESTROY" => Len(link["up"]) \in Nat
    BY <1>1 DEF UpLine, Joins, Run
  <2>6. UpLine(srv, front.buf, link'["up"], "DESTROY", Size * made["up"])
    BY <1>1, <2>4, <2>5, UpStops
  <2>7. "dial" \notin c.ops
    BY <1>7 DEF Goes, ClientOps
  <2>8. "dial" \notin cs'.ops /\ Phase(cs') = "DESTROY"
    BY <1>4, <2>7 DEF Phase
  <2>9. DownLine(cs', link["down"], Unbroken(srv), LastDown(srv, made["down"]))
    BY <1>4, <1>5, <2>8, DownStops
  <2> QED BY <1>1, <1>4, <2>3, <2>6, <2>8, <2>9, FlowFrom
<1>8. CASE c.status \notin {"FORWARD", "UDP_FORWARD"}
  <2>1. UNCHANGED link
    BY <1>8 DEF ClientDestroy
  <2>2. CASE "dial" \in c.ops
    <3>1. Phase(cs') = "CONNECT" /\ "CONNECT" \in Early /\ cs.status \in Early
      BY <1>4, <2>2 DEF Phase, Early
    <3>2. UpLine(srv, front.buf, link["up"], Phase(cs'), Size * made["up"])
      BY <1>1, <1>6, <3>1, UpPhase
    <3>3. DownLine(cs', link["down"], Unbroken(srv), LastDown(srv, made["down"]))
      BY <1>4, <1>5, <2>2, DownStops
    <3> QED BY <1>1, <1>4, <2>1, <3>2, <3>3, FlowFrom
  <2>3. CASE "dial" \notin c.ops
    <3>1. "dial" \notin cs'.ops /\ Phase(cs') = "DESTROY"
      BY <1>4, <2>3 DEF Phase
    <3>2. UpLine(srv, front.buf, link["up"], "DESTROY", Size * made["up"])
      BY <1>1, UpAny
    <3>3. DownLine(cs', link["down"], Unbroken(srv), LastDown(srv, made["down"]))
      BY <1>4, <1>5, <3>1, DownStops
    <3> QED BY <1>1, <1>4, <2>1, <3>1, <3>2, <3>3, FlowFrom
  <2> QED BY <2>2, <2>3
<1> QED BY <1>7, <1>8

\* The dial of the client fails, also when the session is destroyed.
LEMMA DialFailsFlow ==
  ASSUME IInv, Flow, ClientDialFailed
  PROVE  UpWhole' /\ DownWhole' /\ ClientOps(cs)' /\ ServerOps(srv)'
<1> DEFINE c == Done(cs, "dial")
<1>1. /\ ClientOps(cs) /\ DownOrder(cs) /\ DOMAIN cs = CsFields /\ "dial" \in cs.ops
      /\ cs.status \in {"CONNECT", "DESTROY"} /\ UNCHANGED <<setup, srv, front, made>>
      /\ UpLine(srv, front.buf, link["up"], Phase(cs), Size * made["up"])
      /\ DownLine(cs, link["down"], Unbroken(srv), LastDown(srv, made["down"]))
      /\ ServerOps(srv)
  BY DEF Flow, UpWhole, DownWhole, DownLine, IInv, Phases, ClientDialFailed
<1>2. CASE cs.status # "DESTROY" /\ ClientDestroy(c, "error")
  <2>1. Goes(cs, c) /\ c.ops = cs.ops \ {"dial"}
    BY <1>1, <1>2, EarlyEnds DEF Early
  <2> HIDE DEF c
  <2>2. "dial" \notin c.ops
    BY <2>1
  <2> QED BY <1>1, <1>2, <2>1, <2>2, ClientStopsFlow
<1>3. CASE cs.status = "DESTROY" /\ cs' = c /\ UNCHANGED link
  <2>1. CsAlike(cs, c) /\ c.ops = cs.ops \ {"dial"} /\ c.status = "DESTROY"
    BY <1>1, <1>3, ClientAlike
  <2> HIDE DEF c
  <2>2. "dial" \notin c.ops /\ Phase(c) = "DESTROY" /\ ClientOps(c)
    BY <1>1, <1>3, <2>1 DEF Phase, ClientOps, Early
  <2>3. DownOrder(c) /\ c.toApp = cs.toApp
    BY <1>1, <1>3, <2>1, AlikeDown
  <2>4. DownLine(c, link["down"], Unbroken(srv), LastDown(srv, made["down"]))
    BY <1>1, <2>1, <2>2, <2>3, DownStops
  <2>5. UpLine(srv, front.buf, link["up"], "DESTROY", Size * made["up"])
    BY <1>1, UpAny
  <2> QED BY <1>1, <1>3, <2>2, <2>4, <2>5, FlowFrom
<1> QED BY <1>2, <1>3 DEF ClientDialFailed

\* The client, before it relays and when it ends.
LEMMA ClientPhasesFlow ==
  ASSUME IInv, ClientSolo(cs), Flow,
         SocksRecv \/ ClientInSent \/ ClientOutSent \/ ClientUdpSent \/ ClientEof \/ ClientError
  PROVE  UpWhole' /\ DownWhole' /\ ClientOps(cs)' /\ ServerOps(srv)'
<1>1. ClientOps(cs) /\ DownOrder(cs) /\ DOMAIN cs = CsFields
  BY DEF Flow, DownWhole, DownLine, IInv, Phases
<1>2. "FORWARD" \notin Early /\ "UDP_FORWARD" \notin Early /\ "DESTROY" \notin Early
  BY DEF Early
<1>3. ASSUME NEW op \in cs.ops, op # "dial" PROVE cs.status # "DESTROY"
  BY <1>1, <1>3 DEF ClientOps
<1>4. CASE SocksRecv
  <2>1. UNCHANGED <<setup, srv, front, made>> /\ cs.status # "DESTROY"
    BY <1>4 DEF SocksRecv
  <2>2. CASE Goes(cs, cs') /\ cs.status \in Early /\ cs'.status \in Early /\ UNCHANGED <<link, eof>>
    BY <2>1, <2>2, GoesFlow
  <2>3. CASE \E c : Goes(cs, c) /\ ClientDestroy(c, "error") /\ cs.status \in Early
    BY <2>1, <2>3, ClientStopsFlow
  <2> QED BY <1>1, <1>4, <2>2, <2>3, SocksGoes
<1>5. CASE ClientInSent
  <2>1. UNCHANGED <<setup, srv, front, made>> /\ cs.status # "DESTROY"
    BY <1>3, <1>5 DEF ClientInSent
  <2>2. CASE /\ Goes(cs, cs') /\ UNCHANGED <<link, eof>>
             /\ \/ cs.status \in Early /\ cs'.status \in Early
                \/ cs.status = "FORWARD" /\ cs'.status = "FORWARD"
    BY <2>1, <2>2, GoesFlow
  <2>3. CASE \E c : Goes(cs, c) /\ ClientDestroy(c, "error") /\ cs.status \in Early
    BY <2>1, <2>3, ClientStopsFlow
  <2> QED BY <1>1, <1>5, <2>2, <2>3, InSentGoes
<1>6. CASE ClientOutSent
  <2>1. UNCHANGED <<setup, srv, front, link, made>> /\ cs.status # "DESTROY"
    BY <1>3, <1>6 DEF ClientOutSent
  <2>2. Goes(cs, cs') /\ cs'.status = cs.status
    BY <1>1, <1>6, UplinkGoes
  <2> QED BY <2>1, <2>2, GoesFlow
<1>7. CASE ClientUdpSent
  <2>1. UNCHANGED <<setup, srv, front, link, made>> /\ cs.status # "DESTROY"
    BY <1>3, <1>7 DEF ClientUdpSent
  <2>2. Goes(cs, cs') /\ cs'.status = cs.status
    BY <1>1, <1>7, UdpSentGoes
  <2> QED BY <2>1, <2>2, GoesFlow
<1>8. CASE ClientEof \/ ClientError
  <2>1. UNCHANGED <<setup, srv, front, made>> /\ cs.status # "DESTROY"
    BY <1>3, <1>8 DEF ClientEof, ClientError
  <2>2. ClientDestroy(cs, "eof") \/ ClientDestroy(cs, "error")
    BY <1>8 DEF ClientEof, ClientError
  <2>3. Goes(cs, cs)
    BY <1>1, <2>1 DEF Goes
  <2>4. "dial" \in cs.ops => cs.status \in Early
    BY <1>1, <2>1, DialFresh DEF Early
  <2> QED BY <2>1, <2>2, <2>3, <2>4, ClientStopsFlow
<1> QED BY <1>4, <1>5, <1>6, <1>7, <1>8

\* The client writes what the application sent, w, to the TLS connection.
LEMMA WriteUpFlow ==
  ASSUME Flow, Goes(cs, cs'), cs'.status = cs.status, cs.status \in {"FORWARD", "UDP_FORWARD"},
         UNCHANGED <<setup, srv, front>>, NEW w, Write("up", w),
         made' = [made EXCEPT !["up"] = @ + 1], Run(w, Size * made["up"] + 1), Len(w) = Size
  PROVE  UpWhole' /\ DownWhole' /\ ClientOps(cs)' /\ ServerOps(srv)'
<1> DEFINE n == Size * made["up"]
<1>1. /\ UpLine(srv, front.buf, link["up"], Phase(cs), n)
      /\ DownLine(cs, link["down"], Unbroken(srv), LastDown(srv, made["down"]))
      /\ Wires /\ ServerOps(srv)
  BY DEF Flow, UpWhole, DownWhole
<1>2. cs.status \notin Early \cup {"DESTROY"} /\ Phase(cs) = cs.status /\ Phase(cs') = cs.status
      /\ Live(cs)
  BY DEF Early, Phase, Live
<1>3. UpLine(srv, front.buf, link["up"] \o w, Phase(cs), n + Len(w))
  <2> HIDE DEF n
  <2>1. Run(w, n + 1)
    BY DEF n
  <2> QED BY <1>1, <1>2, <2>1, UpWrites
<1>4. /\ link'["up"] = link["up"] \o w /\ link'["down"] = link["down"]
      /\ made'["up"] = made["up"] + 1 /\ made'["down"] = made["down"] /\ made["up"] \in Nat
  BY <1>1 DEF Wires, Write, Dir
<1>5. n + Len(w) = Size * made'["up"]
  <2>1. Size = 1 \/ Size = 2
    BY DEF Size
  <2> HIDE DEF n
  <2>2. CASE Size = 1
    BY <1>4, <2>2 DEF n
  <2>3. CASE Size = 2
    BY <1>4, <2>3 DEF n
  <2> QED BY <2>1, <2>2, <2>3
<1>6. DownLine(cs', link["down"], Unbroken(srv), LastDown(srv, made["down"]))
  BY <1>1, <1>2, DownGoes
<1>7. ClientOps(cs')
  BY DEF Goes
<1> HIDE DEF n
<1>8. UpLine(srv', front'.buf, link'["up"], Phase(cs'), Size * made'["up"])
  BY <1>2, <1>3, <1>4, <1>5
<1> QED BY <1>1, <1>4, <1>6, <1>7, <1>8, FlowFrom

\* The client relays.
LEMMA ClientRelaysFlow ==
  ASSUME IInv, ClientSolo(cs), Flow, ClientInRecv \/ UdpRecv \/ ClientOutRecv
  PROVE  UpWhole' /\ DownWhole' /\ ClientOps(cs)' /\ ServerOps(srv)'
<1>1. ClientOps(cs) /\ DownOrder(cs) /\ DOMAIN cs = CsFields /\ Wires
  BY DEF Flow, DownWhole, DownLine, IInv, Phases
<1>2. ASSUME NEW op \in cs.ops, op # "dial" PROVE cs.status # "DESTROY"
  BY <1>1, <1>2 DEF ClientOps
<1>3. made["up"] \in Nat
  BY <1>1 DEF Wires, Dir
<1>4. CASE ClientInRecv
  <2> DEFINE w == <<made["up"] + 1>>
  <2>1. /\ UNCHANGED <<setup, srv, front>> /\ Write("up", w)
        /\ made' = [made EXCEPT !["up"] = @ + 1]
    BY <1>4 DEF ClientInRecv
  <2>2. Goes(cs, cs') /\ cs.status = "FORWARD" /\ cs'.status = "FORWARD"
    BY <1>1, <1>4, UplinkGoes
  <2>3. Size = 1 /\ Size * made["up"] = made["up"]
    BY <1>1, <1>3, <2>2 DEF ClientOps, Size
  <2>4. Run(w, made["up"] + 1) /\ Len(w) = 1
    <3>1. made["up"] + 1 \in Nat
      BY <1>3
    <3> QED BY <3>1, RunShort
  <2> HIDE DEF w
  <2> QED BY <2>1, <2>2, <2>3, <2>4, WriteUpFlow
<1>5. CASE UdpRecv
  <2> DEFINE c == Done(cs, "udp_read")
             d == Begin(c, "out_write")
             w == Packet(made["up"] + 1)
  <2>1. /\ UNCHANGED <<setup, srv, front>> /\ "udp_read" \in cs.ops
        /\ \/ made' = [made EXCEPT !["up"] = @ + 1] /\ cs' = d /\ Write("up", w)
           \/ cs' = c /\ UNCHANGED <<link, made>>
           \/ ClientDestroy(c, "error") /\ UNCHANGED made
    BY <1>5 DEF UdpRecv
  <2>2. /\ cs.status = "UDP_FORWARD" /\ Goes(cs, c) /\ c.status = "UDP_FORWARD"
        /\ Goes(cs, d) /\ d.status = "UDP_FORWARD"
    BY <1>1, <2>1, UplinkGoes
  <2> HIDE DEF c, d
  <2>3. CASE made' = [made EXCEPT !["up"] = @ + 1] /\ cs' = d /\ Write("up", w)
    <3>1. Size = 2 /\ Size * made["up"] = 2 * made["up"]
      BY <1>1, <1>3, <2>2 DEF ClientOps, Size
    <3>2. Run(w, 2 * made["up"] + 1) /\ Len(w) = 2
      BY <1>3, RunShort
    <3> HIDE DEF w
    <3> QED BY <2>1, <2>2, <2>3, <3>1, <3>2, WriteUpFlow
  <2>4. CASE cs' = c /\ UNCHANGED <<link, made>>
    BY <2>1, <2>2, <2>4, GoesFlow
  <2>5. CASE ClientDestroy(c, "error") /\ UNCHANGED made
    <3>1. "dial" \notin c.ops
      BY <2>2 DEF Goes, ClientOps
    <3> QED BY <2>1, <2>2, <2>5, <3>1, ClientStopsFlow
  <2> QED BY <2>1, <2>3, <2>4, <2>5
<1>6. CASE ClientOutRecv
  <2> DEFINE c == Done(cs, "out_read")
             l == link["down"]
             m == LastDown(srv, made["down"])
  <2>1. "out_read" \in cs.ops /\ UNCHANGED <<setup, srv, front, made>>
    BY <1>6 DEF ClientOutRecv
  <2>2. PICK k \in 1..Len(l) :
          /\ link' = Taken("down", k)
          /\ cs' = IF cs.status = "UDP_FORWARD"
                   THEN UdpSent([c EXCEPT !.udpBuf = @ \o Arrived("down", k)])
                   ELSE Begin([c EXCEPT !.data = Arrived("down", k)], "in_write")
    BY <1>6 DEF ClientOutRecv
  <2>3. /\ UpLine(srv, front.buf, link["up"], Phase(cs), Size * made["up"])
        /\ DownLine(cs, l, Unbroken(srv), m) /\ ServerOps(srv)
    BY DEF Flow, UpWhole, DownWhole
  <2>4. cs.status # "DESTROY"
    BY <1>2, <2>1
  <2>5. Run(l, Got(cs)) /\ Got(cs) \in Nat /\ Len(l) \in Nat
    <3>1. Run(l, Got(cs))
      BY <2>3, <2>4 DEF DownLine, Live
    <3>2. Len(l) \in Nat
      BY <3>1 DEF Run
    <3> QED BY <1>1, <2>4, <3>1, <3>2, DownNumbers
  <2>6. k \in 0..Len(l)
    BY <2>5
  <2>7. Run(Arrived("down", k), Got(cs)) /\ Len(Arrived("down", k)) = k
    BY <2>5, <2>6, RunCut DEF Arrived
  <2>8. /\ link'["down"] = SubSeq(l, k + 1, Len(l)) /\ link'["up"] = link["up"]
    BY <1>1, <2>2 DEF Taken, Wires, Dir
  <2> DEFINE w == Arrived("down", k)
  <2> HIDE DEF w
  <2>9. Takes(cs, cs', Len(w)) /\ cs'.status = cs.status
    <3>1. Run(w, Got(cs))
      BY <2>7 DEF w
    <3>2. cs' = IF cs.status = "UDP_FORWARD"
                THEN UdpSent([c EXCEPT !.udpBuf = @ \o w])
                ELSE Begin([c EXCEPT !.data = w], "in_write")
      BY <2>2 DEF w
    <3> QED BY <1>1, <2>1, <3>1, <3>2, OutRecvTakes
  <2>10. Takes(cs, cs', k)
    BY <2>7, <2>9 DEF w
  <2> HIDE DEF l, m
  <2>11. DownLine(cs', SubSeq(l, k + 1, Len(l)), Unbroken(srv), m)
    BY <2>3, <2>4, <2>10, DownTakes
  <2>12. ClientOps(cs')
    BY <2>10 DEF Takes
  <2>13. Phase(cs') = Phase(cs)
    BY <2>4, <2>9 DEF Phase
  <2> QED BY <2>1, <2>3, <2>8, <2>11, <2>12, <2>13, FlowFrom DEF l, m
<1> QED BY <1>4, <1>5, <1>6

\* The server session goes on: t follows s, with the data where it was or
\* further on.
Carries(s, t) ==
  /\ ServerOps(t) /\ UpOrder(t) /\ Reached(t) = Reached(s) /\ (Idle(t) <=> Idle(s))
  /\ t.peer = s.peer /\ (t.status = "DESTROY" <=> s.status = "DESTROY")
  /\ (t.status = "NONE" <=> s.status = "NONE")
  /\ (t.status = "HANDSHAKE" => s.status = "HANDSHAKE")
  /\ (s.status = "DESTROY" => t.cause = s.cause)

\* What the rest of the invariant says of a server session.
Kept ==
  /\ UpWhole' /\ DownWhole' /\ ClientOps(cs)' /\ ServerOps(srv)'
  /\ srv'.status \in {"NONE", "HANDSHAKE"} => made'["down"] = 0

\* The server session goes on and leaves the TLS connection as it is.
LEMMA CarriesFlow ==
  ASSUME Flow, Carries(srv, srv'), front'.buf = front.buf,
         UNCHANGED <<setup, cs, link, made>>
  PROVE  Kept
<1>1. /\ UpLine(srv, front.buf, link["up"], Phase(cs), Size * made["up"])
      /\ DownLine(cs, link["down"], Unbroken(srv), LastDown(srv, made["down"]))
      /\ ClientOps(cs)
      /\ (srv.status \in {"NONE", "HANDSHAKE"} => made["down"] = 0)
  BY DEF Flow, UpWhole, DownWhole
<1>2. UpLine(srv', front.buf, link["up"], Phase(cs), Size * made["up"])
  BY <1>1, UpMoves DEF Carries
<1>3. Unbroken(srv') => Unbroken(srv)
  BY DEF Carries, Unbroken
<1>4. LastDown(srv', made["down"]) = LastDown(srv, made["down"])
  BY DEF Carries, LastDown
<1>5. DownLine(cs, link["down"], Unbroken(srv'), LastDown(srv', made["down"]))
  BY <1>1, <1>3, <1>4, DownWeaker
<1>6. ServerOps(srv') /\ (srv'.status \in {"NONE", "HANDSHAKE"} => made'["down"] = 0)
  BY <1>1 DEF Carries
<1> QED BY <1>1, <1>2, <1>5, <1>6, FlowFrom DEF Kept

\* A server session, or the front, leaves the TLS connection for good: it
\* shuts it down, after which v says whether all was sent.
LEMMA CutFlow ==
  ASSUME Flow, NEW w, Shutdown("down", w), UNCHANGED <<setup, cs, made>>,
         front'.buf = front.buf,
         UpLine(srv', front.buf, link["up"], Phase(cs), Size * made["up"]),
         ServerOps(srv'), srv'.peer = srv.peer, Unbroken(srv') => Unbroken(srv) /\ ~w,
         srv'.status \in {"NONE", "HANDSHAKE"} => srv.status \in {"NONE", "HANDSHAKE"}
  PROVE  Kept
<1>1. /\ DownLine(cs, link["down"], Unbroken(srv), LastDown(srv, made["down"]))
      /\ ClientOps(cs) /\ Wires
      /\ (srv.status \in {"NONE", "HANDSHAKE"} => made["down"] = 0)
  BY DEF Flow, DownWhole
<1>2. "up" \in Dir /\ "down" \in Dir /\ "down" # "up"
  BY DEF Dir
<1>3. /\ \A e \in Dir : e # "down" => link'[e] = link[e]
      /\ \E k : /\ link'["down"] = SubSeq(link["down"], 1, Len(link["down"]) - k)
                /\ ~w => k = 0
                /\ Len(link["down"]) \in Nat => k \in 0..Len(link["down"])
  BY <1>1, <1>2, ShutdownLoses DEF Wires
<1>4. link'["up"] = link["up"]
  BY <1>2, <1>3
<1>5. PICK k : /\ link'["down"] = SubSeq(link["down"], 1, Len(link["down"]) - k)
               /\ ~w => k = 0
               /\ Len(link["down"]) \in Nat => k \in 0..Len(link["down"])
  BY <1>3
<1>6. Live(cs) => Len(link["down"]) \in Nat
  BY <1>1 DEF DownLine, Run
<1>7. LastDown(srv', made["down"]) = LastDown(srv, made["down"])
  BY DEF LastDown
<1>8. DownLine(cs, link'["down"], Unbroken(srv'), LastDown(srv, made["down"]))
  BY <1>1, <1>5, <1>6, DownCut
<1>9. srv'.status \in {"NONE", "HANDSHAKE"} => made'["down"] = 0
  BY <1>1
<1> QED BY <1>1, <1>4, <1>7, <1>8, <1>9, FlowFrom DEF Kept

\* ServerSession::destroy, called with s.
LEMMA ServerStopsFlow ==
  ASSUME Flow, NEW s, NEW why, ServerDestroy(s, why), Carries(srv, s), DOMAIN s = SrvFields,
         srv.status # "NONE", why = "eof" => "in_write" \notin s.ops,
         UNCHANGED <<setup, cs, front, made>>
  PROVE  Kept
<1>1. CASE s.status = "DESTROY"
  <2>1. srv' = s /\ UNCHANGED <<link, eof>>
    BY <1>1 DEF ServerDestroy
  <2> QED BY <2>1, CarriesFlow
<1>2. CASE s.status # "DESTROY"
  <2> DEFINE t == ServerDestroyed(s, why)
  <2>1. srv' = t /\ Shutdown("down", "in_write" \in s.ops)
    BY <1>2 DEF ServerDestroy
  <2>0. ServerOps(s) /\ UpOrder(s)
    BY DEF Carries
  <2>2. ServerOps(t) /\ t.status = "DESTROY" /\ t.cause = why /\ t.peer = s.peer
    BY <2>0, DestroyedOps
  <2>3. UpOrder(t) /\ Reached(t) <= Reached(s)
    BY <2>0, DestroyedUp
  <2> HIDE DEF t
  <2>4. UpLine(srv, front.buf, link["up"], Phase(cs), Size * made["up"])
    BY DEF Flow, UpWhole
  <2>5. Reached(t) <= Reached(srv)
    BY <2>3 DEF Carries
  <2>6. UpLine(t, front.buf, link["up"], Phase(cs), Size * made["up"])
    BY <2>2, <2>3, <2>4, <2>5, UpEnds
  <2>7. t.peer = srv.peer /\ Unbroken(srv)
    BY <1>2, <2>2 DEF Carries, Unbroken
  <2>8. Unbroken(t) => ~("in_write" \in s.ops)
    BY <2>2 DEF Unbroken
  <2> QED BY <2>1, <2>2, <2>6, <2>7, <2>8, CutFlow
<1> QED BY <1>1, <1>2

\* A change of operations that moves no data.
LEMMA AlikeCarries ==
  ASSUME NEW s, NEW t, Alike(s, t), UpOrder(s), ServerOps(t),
         "out_write" \in t.ops <=> "out_write" \in s.ops,
         "dial" \in t.ops <=> "dial" \in s.ops,
         "resolve" \in t.ops => "resolve" \in s.ops
  PROVE  Carries(s, t)
<1>1. UpOrder(t) /\ Reached(t) = Reached(s) /\ (Idle(t) <=> Idle(s))
  BY AlikeUp
<1> QED BY <1>1 DEF Carries, Alike

\* An operation ends and another begins, and neither has to do with the data
\* for the target.
LEMMA SwapCarries ==
  ASSUME NEW s, NEW a, NEW b, DOMAIN s = SrvFields, UpOrder(s), ServerOps(Done(s, a)),
         {a, b} \cap {"out_write", "dial", "resolve"} = {}
  PROVE  /\ Carries(s, Done(s, a))
         /\ ServerOps(Begin(Done(s, a), b)) => Carries(s, Begin(Done(s, a), b))
<1> DEFINE r == Done(s, a)
           t == Begin(r, b)
<1>1. Alike(s, r) /\ r.ops = s.ops \ {a}
  BY DoneAlike
<1> HIDE DEF r
<1>2. Alike(r, t) /\ t.ops = r.ops \cup {b}
  BY <1>1, BeginAlike DEF Alike
<1> HIDE DEF t
<1>3. Alike(s, t)
  BY <1>1, <1>2 DEF Alike
<1>4. a \notin {"out_write", "dial", "resolve"} /\ b \notin {"out_write", "dial", "resolve"}
  OBVIOUS
<1>5. Carries(s, r)
  BY <1>1, <1>4, AlikeCarries DEF r
<1>6. ASSUME ServerOps(t) PROVE Carries(s, t)
  BY <1>1, <1>2, <1>3, <1>4, <1>6, AlikeCarries
<1> QED BY <1>5, <1>6 DEF r, t

\* request_remote: the request is the first unit of the connection.
LEMMA DialedFlow ==
  ASSUME IInv, Solo, Flow, ClientDialed
  PROVE  Kept
<1>1. /\ ClientOps(cs) /\ DownOrder(cs) /\ DOMAIN cs = CsFields /\ Wires /\ ServerOps(srv)
      /\ ClientSolo(cs) /\ ServerSolo(srv) /\ DOMAIN srv = SrvFields
      /\ UpLine(srv, front.buf, link["up"], Phase(cs), Size * made["up"])
      /\ DownLine(cs, link["down"], Unbroken(srv), LastDown(srv, made["down"]))
      /\ (srv.status \in {"NONE", "HANDSHAKE"} => made["down"] = 0)
      /\ setup.kind \in {"tcp", "udp"} /\ "dial" \in cs.ops
  BY DEF Flow, UpWhole, DownWhole, DownLine, IInv, Phases, SrvOK, Solo, Wires, ClientDialed
<1>2. Goes(cs, cs') /\ cs'.status \in {"FORWARD", "UDP_FORWARD"}
  BY <1>1, DialGoes
<1>3. /\ srv.status = "NONE" /\ Phase(cs) \in Early /\ Phase(cs') \notin Early /\ Live(cs)
  BY <1>1, <1>2 DEF IInv, Phases, Starting, Early, Phase, Live
<1>4. /\ UNCHANGED <<setup, made>> /\ link'["up"] = link["up"] \o <<Req>>
      /\ link'["down"] = link["down"]
  BY <1>1 DEF ClientDialed, Write, Wires, Dir
<1>5. ServerOps(srv')
  BY <1>1, ServerBeginsOps DEF UpLine
<1>6. UpOrder(srv) /\ srv.ops = {} /\ Idle(srv)
  BY <1>1, <1>3 DEF UpLine, ServerOps, Idle
<1>7. /\ UpOrder(srv') /\ Idle(srv') /\ srv'.status \in {"NONE", "HANDSHAKE"}
      /\ Reached(srv') = Reached(srv) /\ srv'.peer = srv.peer /\ front'.buf = front.buf
  <2>1. CASE setup.front = "ServerSession"
    <3>1. srv' = [srv EXCEPT !.status = "HANDSHAKE", !.ops = {"handshake"}] /\ UNCHANGED front
      BY <2>1 DEF ClientDialed, AsyncAccept
    <3>2. /\ srv'.status = "HANDSHAKE" /\ srv'.ops = {"handshake"} /\ srv'.peer = srv.peer
          /\ srv'.toTarget = srv.toTarget /\ srv'.udpBuf = srv.udpBuf
      BY <1>1, <3>1 DEF SrvFields
    <3>3. "dial" \notin srv'.ops /\ "out_write" \notin srv'.ops /\ "resolve" \notin srv'.ops
          /\ "dial" \notin srv.ops /\ "out_write" \notin srv.ops
      BY <1>6, <3>2
    <3>4. Base(srv') = Base(srv) /\ UpBusy(srv') = UpBusy(srv) /\ UpNext(srv') = UpNext(srv)
      BY <3>2, <3>3 DEF Base, UpBusy, UpNext
    <3>5. Idle(srv') /\ Reached(srv') = Reached(srv)
      BY <3>2, <3>3, <3>4 DEF Idle, Reached
    <3>6. UpOrder(srv')
      BY <1>6, <3>2, <3>3, <3>4, <3>5 DEF UpOrder
    <3> QED BY <3>1, <3>2, <3>5, <3>6
  <2>2. CASE setup.front # "ServerSession"
    <3>1. UNCHANGED srv /\ front'.buf = front.buf
      BY <2>2 DEF ClientDialed, AsyncAccept, IInv, Phases, FrontFields
    <3> QED BY <1>3, <1>6, <3>1
  <2> QED BY <2>1, <2>2
<1>8. UpLine(srv', front.buf, link["up"] \o <<Req>>, Phase(cs'), Size * made["up"])
  BY <1>1, <1>3, <1>7, UpDials
<1>9. DownLine(cs', link["down"], Unbroken(srv), LastDown(srv, made["down"]))
  BY <1>1, <1>2, <1>3, DownGoes
<1>10. Unbroken(srv) /\ LastDown(srv', made["down"]) = LastDown(srv, made["down"])
  BY <1>3, <1>7 DEF Unbroken, LastDown
<1>11. DownLine(cs', link["down"], Unbroken(srv'), LastDown(srv', made["down"]))
  BY <1>9, <1>10, DownWeaker
<1>12. ClientOps(cs') /\ made["down"] = 0
  BY <1>1, <1>2, <1>3 DEF Goes
<1> QED BY <1>4, <1>5, <1>7, <1>8, <1>11, <1>12, FlowFrom DEF Kept

\* The end of the TLS handshake, and of a front that hands nothing over.
LEMMA HandshakeFlow ==
  ASSUME IInv, Solo, Flow, Handshake \/ FrontTimeout \/ FrontEof
  PROVE  Kept
<1>1. /\ Wires /\ ServerOps(srv) /\ DOMAIN srv = SrvFields /\ DOMAIN front = FrontFields
      /\ UpLine(srv, front.buf, link["up"], Phase(cs), Size * made["up"])
  BY DEF Flow, UpWhole, IInv, Phases, SrvOK
<1>2. UpOrder(srv) /\ Carries(srv, srv)
  BY <1>1 DEF UpLine, Carries
<1>3. CASE Handshake /\ ServerHandshake
  <2> DEFINE s == Done(srv, "handshake")
             t == Begin(s, "in_read")
  <2>1. /\ "handshake" \in srv.ops /\ UNCHANGED <<setup, cs, made, front>>
        /\ (srv' = t /\ UNCHANGED link) \/ ServerDestroy(s, "error")
    BY <1>3 DEF Handshake, ServerHandshake
  <2>2. {"handshake", "in_read"} \cap {"out_write", "dial", "resolve"} = {}
    OBVIOUS
  <2>3. ServerOps(s) /\ DOMAIN s = SrvFields
    BY <1>1, DoneOps
  <2>4. Carries(srv, s) /\ (ServerOps(t) => Carries(srv, t))
    BY <1>1, <1>2, <2>2, <2>3, SwapCarries
  <2>5. ServerOps(srv')
    BY <1>1, <1>2, <1>3, ServerBeginsOps DEF Solo, Wires
  <2>6. srv.status # "NONE"
    BY <1>1, <2>1 DEF ServerOps
  <2> HIDE DEF s, t
  <2>7. CASE srv' = t /\ UNCHANGED link
    BY <2>1, <2>4, <2>5, <2>7, CarriesFlow
  <2>8. CASE ServerDestroy(s, "error")
    BY <2>1, <2>3, <2>4, <2>6, <2>8, ServerStopsFlow
  <2> QED BY <2>1, <2>7, <2>8
<1>4. CASE UNCHANGED <<setup, cs, srv, link, made>> /\ front' = [front EXCEPT !.ops = {"in_read"}]
  <2>1. front'.buf = front.buf
    BY <1>1, <1>4 DEF FrontFields
  <2> QED BY <1>2, <1>4, <2>1, CarriesFlow
<1>5. CASE /\ UNCHANGED <<setup, cs, srv, made>> /\ Shutdown("down", FALSE)
           /\ front' = [front EXCEPT !.status = "DESTROY", !.ops = {}, !.timer = FALSE]
  <2>1. front'.buf = front.buf
    BY <1>1, <1>5 DEF FrontFields
  <2>2. Unbroken(srv') => Unbroken(srv) /\ ~FALSE
    BY <1>5
  <2> QED BY <1>1, <1>5, <2>1, <2>2, CutFlow
<1> QED BY <1>3, <1>4, <1>5 DEF Handshake, FrontHandshake, FrontTimeout, FrontEof

\* The target is reached.
LEMMA TargetFlow ==
  ASSUME IInv, Solo, Flow, ServerDialed
  PROVE  Kept
<1>1. /\ Wires /\ ServerOps(srv) /\ DOMAIN srv = SrvFields /\ ServerSolo(srv)
      /\ UpLine(srv, front.buf, link["up"], Phase(cs), Size * made["up"])
      /\ "dial" \in srv.ops /\ srv.status # "DESTROY"
      /\ UNCHANGED <<setup, cs, front, link, made>>
  BY DEF Flow, UpWhole, IInv, SrvOK, Solo, ServerDialed
<1>2. UpOrder(srv) /\ setup.kind \in {"tcp", "udp"}
  BY <1>1 DEF UpLine, Wires
<1>3. ServerOps(srv')
  BY <1>1, <1>2, ServerBeginsOps
<1>4. UpOrder(srv') /\ Reached(srv') = Reached(srv) /\ ~Idle(srv')
  BY <1>1, <1>2, DialedUp
<1>5. srv.status = "HANDSHAKE" /\ ~Idle(srv)
  BY <1>1 DEF ServerSolo, Idle
<1>6. srv'.status = "FORWARD" /\ srv'.peer = srv.peer
  <2> DEFINE r == Done(srv, "dial")
             f == [r EXCEPT !.status = "FORWARD"]
             s == Begin(f, "out_read")
             d == [s EXCEPT !.data = srv.outBuf, !.outBuf = <<>>]
  <2>1. srv' = Begin(d, "out_write") \/ srv' = Begin(s, "in_read")
    BY DEF ServerDialed
  <2>2. Alike(srv, r)
    BY <1>1, DoneAlike
  <2> HIDE DEF r
  <2>3. DOMAIN f = SrvFields /\ f.status = "FORWARD" /\ f.peer = srv.peer
    BY <2>2 DEF Alike, SrvFields
  <2> HIDE DEF f
  <2>4. Alike(f, s)
    BY <2>3, BeginAlike
  <2> HIDE DEF s
  <2>5. DOMAIN d = SrvFields /\ d.status = "FORWARD" /\ d.peer = srv.peer
    BY <2>3, <2>4 DEF Alike, SrvFields
  <2> HIDE DEF d
  <2>6. Alike(d, Begin(d, "out_write")) /\ Alike(s, Begin(s, "in_read"))
    BY <2>4, <2>5, BeginAlike DEF Alike
  <2> QED BY <2>1, <2>3, <2>4, <2>5, <2>6 DEF Alike
<1>7. Carries(srv, srv')
  BY <1>3, <1>4, <1>5, <1>6 DEF Carries
<1> QED BY <1>1, <1>7, CarriesFlow

\* What the server, or the front, reads follows on what it has.
LEMMA ArrivesUp ==
  ASSUME NEW st, NEW n, UpLine(srv, front.buf, link["up"], st, n), srv.status # "DESTROY",
         NEW k \in 1..Len(link["up"])
  PROVE  /\ Run(Arrived("up", k), Place(srv, front.buf)) /\ Len(Arrived("up", k)) = k
         /\ k \in Nat /\ k > 0
<1> DEFINE x == Place(srv, front.buf)
           l == link["up"]
<1>1. Run(l, x) /\ x \in Nat
  BY PlaceNat DEF UpLine, Joins
<1> HIDE DEF x
<1>2. Len(l) \in Nat
  BY <1>1 DEF Run
<1>3. k \in 0..Len(l) /\ k \in Nat /\ k > 0
  BY <1>2
<1>4. Run(SubSeq(l, 1, k), x) /\ Len(SubSeq(l, 1, k)) = k
  BY <1>1, <1>3, RunCut
<1> QED BY <1>3, <1>4 DEF Arrived, x

\* The server session reads k units.
LEMMA ReadFlow ==
  ASSUME Flow, srv.status # "DESTROY", NEW k \in 1..Len(link["up"]), link' = Taken("up", k),
         UpOrder(srv'), ~Idle(srv'), srv'.status \notin {"NONE", "DESTROY"}, ServerOps(srv'),
         Reached(srv') = Place(srv, front.buf) + k, front'.buf = <<>>,
         srv'.status = "HANDSHAKE" => srv.status \in {"NONE", "HANDSHAKE"},
         srv'.peer = srv.peer \/ srv.status \in {"NONE", "HANDSHAKE"},
         UNCHANGED <<setup, cs, made>>
  PROVE  Kept
<1>1. /\ UpLine(srv, front.buf, link["up"], Phase(cs), Size * made["up"])
      /\ DownLine(cs, link["down"], Unbroken(srv), LastDown(srv, made["down"]))
      /\ ClientOps(cs) /\ Wires
      /\ (srv.status \in {"NONE", "HANDSHAKE"} => made["down"] = 0)
  BY DEF Flow, UpWhole, DownWhole
<1>2. /\ link'["up"] = SubSeq(link["up"], k + 1, Len(link["up"]))
      /\ link'["down"] = link["down"]
  BY <1>1 DEF Taken, Wires, Dir
<1>3. UpLine(srv', <<>>, SubSeq(link["up"], k + 1, Len(link["up"])), Phase(cs), Size * made["up"])
  BY <1>1, UpReads
<1>4. Unbroken(srv)
  BY DEF Unbroken
<1>5. LastDown(srv', made["down"]) = LastDown(srv, made["down"])
  <2>1. CASE srv'.peer = srv.peer
    BY <2>1 DEF LastDown
  <2>2. CASE made["down"] = 0
    BY <2>2 DEF LastDown
  <2> QED BY <1>1, <2>1, <2>2
<1>6. DownLine(cs, link["down"], Unbroken(srv'), LastDown(srv', made["down"]))
  BY <1>1, <1>4, <1>5, DownWeaker
<1>7. srv'.status \in {"NONE", "HANDSHAKE"} => made'["down"] = 0
  BY <1>1
<1> QED BY <1>1, <1>2, <1>3, <1>6, <1>7, FlowFrom DEF Kept

\* The front keeps what it has read, or hands it over.
LEMMA FrontRecvFlow ==
  ASSUME IInv, Solo, Flow, FrontRecv
  PROVE  Kept
<1> DEFINE x == [srv EXCEPT !.status = "HANDSHAKE"]
           n == Size * made["up"]
<1>1. /\ Wires /\ ServerOps(srv) /\ DOMAIN srv = SrvFields /\ DOMAIN front = FrontFields
      /\ UpLine(srv, front.buf, link["up"], Phase(cs), n)
      /\ DownLine(cs, link["down"], Unbroken(srv), LastDown(srv, made["down"]))
      /\ ClientOps(cs) /\ "in_read" \in front.ops /\ UNCHANGED <<setup, cs, made>>
      /\ srv.status = "NONE" /\ srv.ops = {} /\ ~srv.clash
      /\ (srv.status \in {"NONE", "HANDSHAKE"} => made["down"] = 0)
  BY DEF Flow, UpWhole, DownWhole, IInv, Phases, SrvOK, Solo, ServerSolo, FrontRecv
<1>2. PICK k \in 1..Len(link["up"]), quota \in BOOLEAN, resolve \in BOOLEAN :
        LET data == front.buf \o Arrived("up", k) IN
        /\ link' = Taken("up", k)
        /\ \/ front' = [front EXCEPT !.buf = data] /\ UNCHANGED srv
           \/ front' = HandOver(front) /\ srv' = FirstRecv(x, data, quota, resolve)
  BY DEF FrontRecv
<1> DEFINE data == front.buf \o Arrived("up", k)
<1>3. UpOrder(srv) /\ Idle(srv) /\ Run(front.buf, 0)
  BY <1>1 DEF UpLine, Idle
<1>4. Place(srv, front.buf) = Len(front.buf) /\ Len(front.buf) \in Nat
  BY <1>3, PlaceNat DEF Place
<1>5. Run(Arrived("up", k), Len(front.buf)) /\ Len(Arrived("up", k)) = k /\ k \in Nat /\ k > 0
  <2>1. srv.status # "DESTROY"
    BY <1>1
  <2> HIDE DEF n
  <2> QED BY <1>1, <1>4, <2>1, ArrivesUp
<1>6. Run(data, 0) /\ Len(data) = Len(front.buf) + k
  <2>1. 0 \in Nat /\ 0 + Len(front.buf) = Len(front.buf)
    BY <1>4
  <2>2. Run(Arrived("up", k), 0 + Len(front.buf))
    BY <1>5, <2>1
  <2> QED BY <1>3, <1>5, <2>1, <2>2, RunCat
<1>7. CASE front' = [front EXCEPT !.buf = data] /\ UNCHANGED srv
  <2>1. front'.buf = front.buf \o SubSeq(link["up"], 1, k)
    BY <1>1, <1>7 DEF FrontFields, Arrived
  <2>2. /\ link'["up"] = SubSeq(link["up"], k + 1, Len(link["up"]))
        /\ link'["down"] = link["down"]
    BY <1>1, <1>2 DEF Taken, Wires, Dir
  <2>3. UpLine(srv, front.buf \o SubSeq(link["up"], 1, k),
               SubSeq(link["up"], k + 1, Len(link["up"])), Phase(cs), n)
    <3> HIDE DEF n
    <3> QED BY <1>1, UpBuffers
  <2> QED BY <1>1, <1>7, <2>1, <2>2, <2>3, FlowFrom DEF Kept
<1>8. CASE front' = HandOver(front) /\ srv' = FirstRecv(x, data, quota, resolve)
  <2>1. /\ DOMAIN x = SrvFields /\ x.status = "HANDSHAKE" /\ x.ops = {} /\ ~x.clash
        /\ x.peer = srv.peer /\ x.cause = srv.cause
        /\ x.toTarget = srv.toTarget /\ x.udpBuf = srv.udpBuf
    BY <1>1 DEF SrvFields
  <2> HIDE DEF x
  <2>2. srv.peer = "none" /\ srv.cause = ""
    BY <1>1, <1>3 DEF UpOrder, ServerOps
  <2>3. Free(x) /\ ServerOps(x)
    BY <2>1, <2>2 DEF Free, ServerSolo, OneOf, ServerOps
  <2>4. UpOrder(x)
    <3>1. Base(x) = Base(srv) /\ UpBusy(x) = 0 /\ UpBusy(srv) = 0 /\ UpNext(x) = UpNext(srv)
      BY <1>1, <2>1 DEF Base, UpBusy, UpNext
    <3> QED BY <1>1, <1>3, <2>1, <3>1 DEF UpOrder
  <2>5. data # <<>>
    <3>1. Len(data) # 0
      BY <1>4, <1>5, <1>6
    <3> QED BY <3>1
  <2> HIDE DEF data
  <2> DEFINE t == FirstRecv(x, data, quota, resolve)
  <2>6. UpOrder(t) /\ Reached(t) = Len(data) /\ ~Idle(t)
    BY <1>6, <2>1, <2>3, <2>4, <2>5, FirstRecvUp
  <2>7. ServerOps(t) /\ t.status \in {"HANDSHAKE", "UDP_FORWARD"}
    BY <1>1, <2>1, <2>2, <2>3, FirstRecvOps DEF Wires
  <2> HIDE DEF t
  <2>8. Reached(t) = Place(srv, front.buf) + k
    BY <1>4, <1>6, <2>6
  <2>9. front'.buf = <<>>
    BY <1>1, <1>8 DEF HandOver, FrontFields
  <2>10. srv' = t /\ link' = Taken("up", k)
    BY <1>2, <1>8 DEF t
  <2>11. srv.status # "DESTROY" /\ t.status \notin {"NONE", "DESTROY"}
    BY <1>1, <2>7
  <2> QED BY <1>1, <2>6, <2>7, <2>8, <2>9, <2>10, <2>11, ReadFlow
<1> QED BY <1>2, <1>7, <1>8

\* ServerSession::in_recv
LEMMA InRecvFlow ==
  ASSUME IInv, Solo, Flow, ServerInRecv
  PROVE  Kept
<1> DEFINE s == Done(srv, "in_read")
           n == Size * made["up"]
<1>1. /\ Wires /\ ServerOps(srv) /\ DOMAIN srv = SrvFields /\ ServerSolo(srv)
      /\ UpLine(srv, front.buf, link["up"], Phase(cs), n)
      /\ "in_read" \in srv.ops /\ UNCHANGED <<setup, cs, made, front>>
  BY DEF Flow, UpWhole, IInv, SrvOK, Solo, ServerInRecv
<1>2. srv.status \in {"HANDSHAKE", "FORWARD", "UDP_FORWARD"}
  BY <1>1 DEF ServerOps, Late
<1>3. PICK k \in 1..Len(link["up"]), quota \in BOOLEAN, resolve \in BOOLEAN :
        /\ link' = Taken("up", k)
        /\ \/ srv.status = "HANDSHAKE" /\ srv' = FirstRecv(s, Arrived("up", k), quota, resolve)
           \/ srv.status = "FORWARD"
                /\ srv' = Begin([s EXCEPT !.data = Arrived("up", k)], "out_write")
           \/ srv.status = "UDP_FORWARD"
                /\ srv' = OutUdpSent([s EXCEPT !.udpBuf = @ \o Arrived("up", k)], resolve)
  BY <1>2 DEF ServerInRecv
<1> DEFINE w == Arrived("up", k)
<1>4. UpOrder(srv) /\ front.buf = <<>> /\ front'.buf = <<>> /\ setup.kind \in {"tcp", "udp"}
  BY <1>1, <1>2 DEF UpLine, Wires
<1>5. Run(w, Place(srv, front.buf)) /\ Len(w) = k /\ k \in Nat /\ k > 0
  <2> HIDE DEF n
  <2> QED BY <1>1, <1>2, ArrivesUp
<1>6. Free(s) /\ s.status = srv.status
  <2>1. "in_read" \in ServerUp
    BY DEF ServerUp
  <2> QED BY <1>1, <2>1, ServerFree
<1>7. ServerOps(s) /\ DOMAIN s = SrvFields /\ s.peer = srv.peer
  BY <1>1, DoneOps
<1>8. Carries(srv, s)
  <2>1. {"in_read", "in_read"} \cap {"out_write", "dial", "resolve"} = {}
    OBVIOUS
  <2> QED BY <1>1, <1>4, <1>7, <2>1, SwapCarries
<1>9. UpOrder(s) /\ Reached(s) = Reached(srv)
  BY <1>8 DEF Carries
<1>10. ServerOps(srv')
  BY <1>1, <1>4, ServerRelaysOps
<1>11. "dial" \notin srv.ops
  BY <1>1 DEF ServerSolo, OneOf, ServerUp
<1> HIDE DEF s, w
<1>12. CASE srv.status = "HANDSHAKE" /\ srv' = FirstRecv(s, w, quota, resolve)
  <2> DEFINE t == FirstRecv(s, w, quota, resolve)
  <2>1. Place(srv, front.buf) = 0 /\ srv.peer = "none"
    BY <1>4, <1>11, <1>12 DEF Place, Idle, UpOrder
  <2>2. Run(w, 0) /\ w # <<>>
    <3>1. Run(w, 0) /\ Len(w) # 0
      BY <1>5, <2>1
    <3> QED BY <3>1
  <2>3. UpOrder(t) /\ Reached(t) = Len(w) /\ ~Idle(t)
    BY <1>6, <1>9, <1>12, <2>2, FirstRecvUp
  <2>4. t.status \in {"HANDSHAKE", "UDP_FORWARD"}
    BY <1>4, <1>6, <1>7, <1>12, <2>1, FirstRecvOps
  <2> HIDE DEF t
  <2>5. Reached(t) = Place(srv, front.buf) + k
    BY <1>5, <2>1, <2>3
  <2>6. srv' = t /\ srv.status # "DESTROY" /\ t.status \notin {"NONE", "DESTROY"}
    BY <1>12, <2>4 DEF t
  <2> QED BY <1>1, <1>3, <1>4, <1>10, <1>12, <2>3, <2>5, <2>6, ReadFlow
<1>13. CASE srv.status = "FORWARD" /\ srv' = Begin([s EXCEPT !.data = w], "out_write")
  <2> DEFINE d == [s EXCEPT !.data = w]
             t == Begin(d, "out_write")
  <2>1. Place(srv, front.buf) = Reached(srv)
    BY <1>13 DEF Place, Idle
  <2>2. UpOrder(t) /\ Reached(t) = Reached(s) + Len(w) /\ ~Idle(t)
    BY <1>5, <1>6, <1>9, <1>13, <2>1, InRecvUp
  <2>3. DOMAIN d = SrvFields /\ d.status = s.status /\ d.peer = s.peer
    BY <1>7 DEF SrvFields
  <2> HIDE DEF d
  <2>4. Alike(d, t)
    BY <2>3, BeginAlike
  <2> HIDE DEF t
  <2>5. t.status = "FORWARD" /\ t.peer = srv.peer
    BY <1>6, <1>7, <1>13, <2>3, <2>4 DEF Alike
  <2>6. Reached(t) = Place(srv, front.buf) + k
    BY <1>5, <1>9, <2>1, <2>2
  <2>7. srv' = t /\ srv.status # "DESTROY" /\ t.status \notin {"NONE", "DESTROY"}
    BY <1>13, <2>5 DEF t, d
  <2> QED BY <1>1, <1>3, <1>4, <1>10, <2>2, <2>5, <2>6, <2>7, ReadFlow
<1>14. CASE srv.status = "UDP_FORWARD" /\ srv' = OutUdpSent([s EXCEPT !.udpBuf = @ \o w], resolve)
  <2> DEFINE d == [s EXCEPT !.udpBuf = @ \o w]
             t == OutUdpSent(d, resolve)
  <2>1. Place(srv, front.buf) = Reached(srv)
    BY <1>14 DEF Place, Idle
  <2>2. /\ UpOrder(d) /\ Reached(d) = Reached(s) + Len(w) /\ Free(d)
        /\ d.status = "UDP_FORWARD"
    BY <1>5, <1>6, <1>9, <1>14, <2>1, MoreUdp
  <2>3. d.peer = s.peer /\ DOMAIN d = SrvFields
    BY <1>7 DEF SrvFields
  <2> HIDE DEF d
  <2>4. UpOrder(t) /\ Reached(t) = Reached(d) /\ t.status = "UDP_FORWARD"
    BY <2>2, OutUdpSentUp
  <2>5. Same(d, t)
    BY <2>3, OutUdpSentSame
  <2> HIDE DEF t
  <2>6. t.peer = srv.peer /\ ~Idle(t)
    BY <1>7, <2>3, <2>4, <2>5 DEF Same, Idle
  <2>7. Reached(t) = Place(srv, front.buf) + k
    BY <1>5, <1>9, <2>1, <2>2, <2>4
  <2>8. srv' = t /\ srv.status # "DESTROY" /\ t.status \notin {"NONE", "DESTROY"}
    BY <1>14, <2>4 DEF t, d
  <2> QED BY <1>1, <1>3, <1>4, <1>10, <2>4, <2>6, <2>7, <2>8, ReadFlow
<1> QED BY <1>3, <1>12, <1>13, <1>14 DEF w

\* What a destroyed session drops changes nothing else.
LEMMA LateFlow ==
  ASSUME Flow, srv.status = "DESTROY", srv'.status = "DESTROY", srv'.cause = srv.cause,
         srv'.peer = srv.peer, ServerOps(srv'), UpOrder(srv'), Reached(srv') <= Reached(srv),
         UNCHANGED <<setup, cs, front, link, made>>
  PROVE  Kept
<1>1. /\ UpLine(srv, front.buf, link["up"], Phase(cs), Size * made["up"])
      /\ DownLine(cs, link["down"], Unbroken(srv), LastDown(srv, made["down"]))
      /\ ClientOps(cs)
  BY DEF Flow, UpWhole, DownWhole
<1>2. UpLine(srv', front.buf, link["up"], Phase(cs), Size * made["up"])
  BY <1>1, UpEnds
<1>3. (Unbroken(srv') => Unbroken(srv)) /\ LastDown(srv', made["down"]) = LastDown(srv, made["down"])
  BY DEF Unbroken, LastDown
<1>4. DownLine(cs, link["down"], Unbroken(srv'), LastDown(srv', made["down"]))
  BY <1>1, <1>3, DownWeaker
<1> QED BY <1>1, <1>2, <1>4, FlowFrom DEF Kept

\* The connection to the target comes too late, or fails.
LEMMA DialLateFlow ==
  ASSUME IInv, Solo, Flow, ServerDialedLate \/ ServerDialFailed
  PROVE  Kept
<1> DEFINE r == Done(srv, "dial")
<1>1. /\ Wires /\ ServerOps(srv) /\ DOMAIN srv = SrvFields /\ ServerSolo(srv)
      /\ UpLine(srv, front.buf, link["up"], Phase(cs), Size * made["up"])
      /\ "dial" \in srv.ops /\ UNCHANGED <<setup, cs, front, made>>
  BY DEF Flow, UpWhole, IInv, SrvOK, Solo, ServerDialedLate, ServerDialFailed
<1>2. /\ UpOrder(srv) /\ setup.kind \in {"tcp", "udp"} /\ "out_write" \notin srv.ops
      /\ srv.status # "NONE"
  BY <1>1 DEF UpLine, Wires, ServerOps, Late
<1>3. ServerOps(srv')
  BY <1>1, <1>2, ServerRelaysOps
<1>4. Alike(srv, r) /\ r.ops = srv.ops \ {"dial"}
  BY <1>1, DoneAlike
<1> HIDE DEF r
<1>5. ASSUME srv'.status = "DESTROY", srv'.toTarget = srv.toTarget, srv'.udpBuf = srv.udpBuf,
             srv'.peer = srv.peer, srv'.ops \subseteq srv.ops \ {"dial"}
      PROVE  UpOrder(srv') /\ Reached(srv') <= Reached(srv)
  BY <1>1, <1>2, <1>5, DialEndsUp
<1>6. CASE ServerDialedLate
  <2> DEFINE f == [r EXCEPT !.late = TRUE]
  <2>1. srv' = ServerDestroyed(f, srv.cause) /\ srv.status = "DESTROY" /\ UNCHANGED link
    BY <1>6 DEF ServerDialedLate, r
  <2>2. /\ DOMAIN f = SrvFields /\ f.ops = r.ops /\ f.peer = srv.peer
        /\ f.toTarget = srv.toTarget /\ f.udpBuf = srv.udpBuf
    BY <1>4 DEF Alike, SrvFields
  <2> HIDE DEF f
  <2>3. /\ srv'.status = "DESTROY" /\ srv'.toTarget = srv.toTarget /\ srv'.udpBuf = srv.udpBuf
        /\ srv'.peer = srv.peer /\ srv'.ops \subseteq r.ops /\ srv'.cause = srv.cause
    BY <2>1, <2>2 DEF ServerDestroyed, SrvFields
  <2> QED BY <1>1, <1>3, <1>4, <1>5, <2>1, <2>3, LateFlow
<1>7. CASE ServerDialFailed /\ srv.status = "DESTROY"
  <2>1. srv' = r /\ UNCHANGED link
    BY <1>4, <1>7 DEF ServerDialFailed, ServerDestroy, Alike, r
  <2> QED BY <1>1, <1>3, <1>4, <1>5, <1>7, <2>1, LateFlow DEF Alike
<1>8. CASE ServerDialFailed /\ srv.status # "DESTROY"
  <2>1. srv' = ServerDestroyed(r, "error") /\ Shutdown("down", "in_write" \in r.ops)
    BY <1>4, <1>8 DEF ServerDialFailed, ServerDestroy, Alike, r
  <2>2. /\ srv'.status = "DESTROY" /\ srv'.toTarget = srv.toTarget /\ srv'.udpBuf = srv.udpBuf
        /\ srv'.peer = srv.peer /\ srv'.ops \subseteq r.ops /\ srv'.cause = "error"
    BY <1>4, <2>1 DEF ServerDestroyed, SrvFields, Alike
  <2>3. UpOrder(srv') /\ Reached(srv') <= Reached(srv)
    BY <1>4, <1>5, <2>2
  <2>4. UpLine(srv', front.buf, link["up"], Phase(cs), Size * made["up"])
    BY <1>1, <1>2, <2>2, <2>3, UpEnds
  <2>5. ~Unbroken(srv')
    BY <2>2 DEF Unbroken
  <2> QED BY <1>1, <1>3, <2>1, <2>2, <2>4, <2>5, CutFlow
<1> QED BY <1>6, <1>7, <1>8

\* The handlers of the server that read nothing from the TLS connection.
LEMMA ServerRelaysFlow ==
  ASSUME IInv, Solo, Flow,
         \/ Resolved \/ ServerOutSent \/ ServerUdpSent \/ ServerInSent \/ ServerEof \/ ServerError
         \/ UdpReadEnds
  PROVE  Kept
<1>1. /\ Wires /\ ServerOps(srv) /\ DOMAIN srv = SrvFields /\ ServerSolo(srv)
      /\ UpLine(srv, front.buf, link["up"], Phase(cs), Size * made["up"])
  BY DEF Flow, UpWhole, IInv, SrvOK, Solo
<1>2. UpOrder(srv) /\ setup.kind \in {"tcp", "udp"} /\ Carries(srv, srv)
  BY <1>1 DEF UpLine, Wires, Carries
<1>3. ServerOps(srv')
  BY <1>1, <1>2, ServerRelaysOps
<1>4. ASSUME NEW a
      PROVE  ServerOps(Done(srv, a)) /\ DOMAIN Done(srv, a) = SrvFields
             /\ Done(srv, a).status = srv.status
  BY <1>1, DoneOps
<1>5. CASE Resolved
  <2> DEFINE s == Done(srv, "resolve")
             t == SendUdp(s)
  <2>1. /\ "resolve" \in srv.ops /\ UNCHANGED <<setup, cs, front, made>> /\ "resolve" \in ServerUp
        /\ (srv' = t /\ UNCHANGED link) \/ ServerDestroy(s, "error")
    BY <1>5 DEF Resolved, ServerUp
  <2>2. srv.status \in {"UDP_FORWARD", "DESTROY"} /\ Whole(srv.udpBuf)
    BY <1>1, <1>2, <2>1 DEF ServerSolo, UpOrder
  <2>3. Free(s)
    BY <1>1, <2>1, ServerFree
  <2>4. ServerOps(s) /\ DOMAIN s = SrvFields /\ s.status = srv.status
    BY <1>4
  <2>5. Alike(srv, s) /\ s.ops = srv.ops \ {"resolve"}
    BY <1>1, DoneAlike
  <2> HIDE DEF s
  <2>6. Carries(srv, s)
    BY <1>2, <2>4, <2>5, AlikeCarries
  <2>7. CASE srv' = t /\ UNCHANGED link
    <3>1. UpOrder(s) /\ Reached(s) = Reached(srv) /\ Whole(s.udpBuf)
      BY <2>2, <2>5, <2>6 DEF Carries, Alike
    <3>2. UpOrder(t) /\ Reached(t) = Reached(s)
      BY <2>2, <2>3, <2>4, <3>1, SendUdpUp
    <3>3. t.peer = s.peer /\ t.status = s.status /\ t.cause = s.cause
      BY <2>4, SendUdpFields
    <3> HIDE DEF t
    <3>4. t.peer = srv.peer /\ t.status = srv.status /\ t.cause = srv.cause
      BY <2>5, <3>3 DEF Alike
    <3>5. Idle(t) <=> Idle(srv)
      BY <2>2, <3>4 DEF Idle
    <3>6. Carries(srv, t)
      BY <1>3, <2>7, <3>1, <3>2, <3>4, <3>5 DEF Carries
    <3> QED BY <2>1, <2>7, <3>6, CarriesFlow
  <2>8. CASE ServerDestroy(s, "error")
    BY <2>1, <2>2, <2>4, <2>6, <2>8, ServerStopsFlow
  <2> QED BY <2>1, <2>7, <2>8
<1>6. CASE ServerOutSent
  <2>1. "out_write" \in srv.ops /\ UNCHANGED <<setup, cs, front, link, made>>
    BY <1>6 DEF ServerOutSent
  <2>2. srv.status = "FORWARD"
    BY <1>1, <2>1 DEF ServerOps, Late
  <2>3. UpOrder(srv') /\ Reached(srv') = Reached(srv) /\ ~Idle(srv') /\ srv'.status = "FORWARD"
    BY <1>1, <1>2, <1>6, <2>2, OutSentUp
  <2>4. srv'.peer = srv.peer
    <3> DEFINE r == Done(srv, "out_write")
               d == [r EXCEPT !.toTarget = @ \o srv.data]
    <3>1. srv' = Begin(d, "in_read")
      BY <1>6 DEF ServerOutSent
    <3>2. Alike(srv, r)
      BY <1>1, DoneAlike
    <3> HIDE DEF r
    <3>3. DOMAIN d = SrvFields /\ d.peer = srv.peer
      BY <3>2 DEF Alike, SrvFields
    <3> HIDE DEF d
    <3> QED BY <3>1, <3>3, BeginAlike DEF Alike
  <2>5. ~Idle(srv)
    BY <2>2 DEF Idle
  <2>6. Carries(srv, srv')
    BY <1>3, <2>2, <2>3, <2>4, <2>5 DEF Carries
  <2> QED BY <2>1, <2>6, CarriesFlow
<1>7. CASE ServerUdpSent
  <2> DEFINE s == Done(srv, "udp_write")
  <2>1. /\ "udp_write" \in srv.ops /\ "udp_write" \in ServerUp
        /\ UNCHANGED <<setup, cs, front, link, made>>
    BY <1>7 DEF ServerUdpSent, ServerUp
  <2>2. PICK resolve \in BOOLEAN :
          srv' = IF srv.status = "UDP_FORWARD" THEN OutUdpSent(s, resolve) ELSE s
    BY <1>7 DEF ServerUdpSent
  <2>3. Free(s)
    BY <1>1, <2>1, ServerFree
  <2>4. ServerOps(s) /\ DOMAIN s = SrvFields /\ s.status = srv.status
    BY <1>4
  <2>5. Carries(srv, s)
    <3>1. {"udp_write", "in_read"} \cap {"out_write", "dial", "resolve"} = {}
      OBVIOUS
    <3> QED BY <1>1, <1>2, <2>4, <3>1, SwapCarries
  <2> HIDE DEF s
  <2>6. CASE srv.status = "UDP_FORWARD"
    <3> DEFINE t == OutUdpSent(s, resolve)
    <3>1. UpOrder(s) /\ Reached(s) = Reached(srv) /\ s.peer = srv.peer /\ s.status = "UDP_FORWARD"
      BY <2>4, <2>5, <2>6 DEF Carries
    <3>2. UpOrder(t) /\ Reached(t) = Reached(s) /\ t.status = "UDP_FORWARD"
      BY <2>3, <3>1, OutUdpSentUp
    <3>3. Same(s, t)
      BY <2>4, OutUdpSentSame
    <3> HIDE DEF t
    <3>4. srv' = t
      BY <2>2, <2>6 DEF t
    <3>5. ~Idle(t) /\ ~Idle(srv) /\ t.peer = srv.peer
      BY <2>6, <3>1, <3>2, <3>3 DEF Idle, Same
    <3>6. Carries(srv, t)
      BY <1>3, <2>6, <3>1, <3>2, <3>4, <3>5 DEF Carries
    <3> QED BY <2>1, <3>4, <3>6, CarriesFlow
  <2>7. CASE srv.status # "UDP_FORWARD"
    BY <2>1, <2>2, <2>5, <2>7, CarriesFlow
  <2> QED BY <2>6, <2>7
<1>8. CASE ServerInSent
  <2> DEFINE b == IF srv.status = "UDP_FORWARD" THEN "udp_read" ELSE "out_read"
             t == Begin(Done(srv, "in_write"), b)
  <2>1. srv' = t /\ UNCHANGED <<setup, cs, front, link, made>>
    BY <1>8 DEF ServerInSent
  <2>2. {"in_write", b} \cap {"out_write", "dial", "resolve"} = {}
    OBVIOUS
  <2> HIDE DEF b
  <2>3. ServerOps(t) => Carries(srv, t)
    BY <1>1, <1>2, <1>4, <2>2, SwapCarries
  <2> HIDE DEF t
  <2> QED BY <1>3, <2>1, <2>3, CarriesFlow
<1>9. CASE ServerEof \/ ServerError
  <2>1. UNCHANGED <<setup, cs, front, made>>
    BY <1>9 DEF ServerEof, ServerError
  <2>2. srv.status # "NONE"
    BY <1>1, <1>9 DEF ServerEof, ServerError, ServerOps
  <2>3. CASE ServerDestroy(srv, "error")
    BY <1>1, <1>2, <2>1, <2>2, <2>3, ServerStopsFlow
  <2>4. CASE "out_read" \in srv.ops /\ ServerDestroy(srv, "eof")
    <3>1. {"out_read", "in_write"} \subseteq ServerDown
      BY DEF ServerDown
    <3>2. "in_write" \notin srv.ops
      BY <1>1, <2>4, <3>1 DEF ServerSolo, OneOf
    <3> QED BY <1>1, <1>2, <2>1, <2>2, <2>4, <3>2, ServerStopsFlow
  <2> QED BY <1>9, <2>3, <2>4 DEF ServerEof, ServerError
<1>10. CASE UdpReadEnds
  <2> DEFINE s == Done(srv, "udp_read")
  <2>1. srv' = s /\ UNCHANGED <<setup, cs, front, link, made>>
    BY <1>10 DEF UdpReadEnds
  <2>2. {"udp_read", "in_read"} \cap {"out_write", "dial", "resolve"} = {}
    OBVIOUS
  <2>3. Carries(srv, s)
    BY <1>1, <1>2, <1>4, <2>2, SwapCarries
  <2> HIDE DEF s
  <2> QED BY <2>1, <2>3, CarriesFlow
<1> QED BY <1>5, <1>6, <1>7, <1>8, <1>9, <1>10

\* out_recv and out_udp_recv of the server: the target's next unit or datagram.
LEMMA OutRecvFlow ==
  ASSUME IInv, Solo, Flow, ServerOutRecv
  PROVE  Kept
<1> DEFINE a == made["down"]
<1>1. /\ Wires /\ ServerOps(srv) /\ DOMAIN srv = SrvFields /\ ServerSolo(srv) /\ ClientOps(cs)
      /\ UpLine(srv, front.buf, link["up"], Phase(cs), Size * made["up"])
      /\ DownLine(cs, link["down"], Unbroken(srv), LastDown(srv, a))
  BY DEF Flow, UpWhole, DownWhole, IInv, SrvOK, Solo
<1>2. UpOrder(srv) /\ setup.kind \in {"tcp", "udp"} /\ a \in Nat
  BY <1>1 DEF UpLine, Wires, Dir
<1>3. PICK op \in {"out_read", "udp_read"} \cap srv.ops :
        /\ srv.status # "DESTROY" /\ srv' = Begin(Done(srv, op), "in_write")
        /\ Write("down", IF op = "udp_read" THEN Packet(a + 1) ELSE <<a + 1>>)
  BY DEF ServerOutRecv, OutRecv
<1>4. UNCHANGED <<setup, cs, front>> /\ made' = [made EXCEPT !["down"] = @ + 1]
  BY DEF ServerOutRecv
<1> DEFINE w == IF op = "udp_read" THEN Packet(a + 1) ELSE <<a + 1>>
           t == Begin(Done(srv, op), "in_write")
           m == LastDown(srv, a)
<1>5. ServerOps(srv')
  BY <1>1, <1>2, ServerRelaysOps
<1>6. Carries(srv, srv')
  <2>1. {op, "in_write"} \cap {"out_write", "dial", "resolve"} = {}
    OBVIOUS
  <2>2. ServerOps(Done(srv, op))
    BY <1>1, DoneOps
  <2>3. ServerOps(t) => Carries(srv, t)
    BY <1>1, <1>2, <2>1, <2>2, SwapCarries
  <2> HIDE DEF t
  <2>4. srv' = t
    BY <1>3 DEF t
  <2> QED BY <1>5, <2>3, <2>4
<1>7. UpLine(srv', front.buf, link["up"], Phase(cs), Size * made["up"])
  BY <1>1, <1>6, UpMoves DEF Carries
<1>8. Run(w, m + 1) /\ m + Len(w) = LastDown(srv, a + 1)
  <2>1. CASE op = "udp_read"
    <3>1. srv.status = "UDP_FORWARD"
      BY <1>1, <1>3, <2>1 DEF ServerOps
    <3>2. setup.kind = "udp" /\ srv.peer = "none"
      BY <1>1, <3>1 DEF ServerOps
    <3>3. m = 2 * a /\ LastDown(srv, a + 1) = 2 * (a + 1)
      BY <3>2 DEF LastDown
    <3>4. Run(Packet(a + 1), 2 * a + 1) /\ Len(Packet(a + 1)) = 2 /\ w = Packet(a + 1)
      BY <1>2, <2>1, RunShort
    <3>5. \A x \in Nat : 2 * x + 2 = 2 * (x + 1)
      OBVIOUS
    <3>6. 2 * a + 2 = 2 * (a + 1)
      BY <1>2, <3>5
    <3> HIDE DEF a, w, m
    <3>7. Run(w, m + 1)
      BY <3>3, <3>4, Zenon
    <3> QED BY <3>3, <3>4, <3>6, <3>7, Zenon
  <2>2. CASE op # "udp_read"
    <3>1. srv.status = "FORWARD"
      BY <1>1, <1>3, <2>2 DEF ServerOps
    <3>2. setup.kind = "tcp" \/ srv.peer = "fallback"
      BY <1>1, <3>1 DEF ServerOps
    <3>3. m = a /\ LastDown(srv, a + 1) = a + 1
      BY <3>2 DEF LastDown
    <3>4. a + 1 \in Nat
      BY <1>2
    <3>5. Run(<<a + 1>>, a + 1) /\ Len(<<a + 1>>) = 1 /\ w = <<a + 1>>
      BY <2>2, <3>4, RunShort
    <3> HIDE DEF a, w, m
    <3> QED BY <1>2, <3>3, <3>5
  <2> QED BY <2>1, <2>2
<1>9. Unbroken(srv) = TRUE /\ srv'.status # "DESTROY" /\ srv'.peer = srv.peer
      /\ srv'.status # "NONE" /\ srv'.status # "HANDSHAKE"
  <2>1. srv.status \in {"FORWARD", "UDP_FORWARD"}
    BY <1>1, <1>3 DEF ServerOps
  <2> QED BY <2>1, <1>6 DEF Unbroken, Carries
<1>10. /\ link'["down"] = link["down"] \o w /\ link'["up"] = link["up"]
       /\ made'["down"] = a + 1 /\ made'["up"] = made["up"]
  BY <1>1, <1>3, <1>4 DEF Write, Wires, Dir
<1> HIDE DEF w, m
<1>11. DownLine(cs, link["down"], TRUE, m)
  BY <1>1, <1>9 DEF m
<1>12. DownLine(cs, link["down"] \o w, TRUE, LastDown(srv, a + 1))
  BY <1>8, <1>11, DownWrites
<1>13. LastDown(srv', a + 1) = LastDown(srv, a + 1)
  BY <1>9 DEF LastDown
<1>14. DownLine(cs, link["down"] \o w, Unbroken(srv'), LastDown(srv', a + 1))
  BY <1>12, <1>13, DownWeaker
<1> QED BY <1>1, <1>4, <1>5, <1>7, <1>9, <1>10, <1>14, FlowFrom DEF Kept

\* At the start nothing has been written, and nothing is on its way.
LEMMA InitFlow == Init => Flow
<1> SUFFICES ASSUME Init PROVE Flow
  OBVIOUS
<1>1. setup.kind \in {"tcp", "udp"} /\ setup.origin \in {"socks", "nat"}
  BY DEF Init, Setup
<1>2. /\ DOMAIN link = Dir /\ DOMAIN eof = Dir /\ made \in [Dir -> Nat]
      /\ link["up"] = <<>> /\ link["down"] = <<>> /\ made["up"] = 0 /\ made["down"] = 0
  BY DEF Init, Dir
<1>3. /\ srv.status = "NONE" /\ srv.ops = {} /\ srv.peer = "none" /\ srv.cause = ""
      /\ srv.toTarget = <<>> /\ srv.udpBuf = <<>> /\ front.buf = <<>>
  BY DEF Init
<1>4. /\ cs.status \in {"CONNECT", "HANDSHAKE"}
      /\ cs.status = "CONNECT" => cs.ops = {"dial"}
      /\ cs.status = "HANDSHAKE" => cs.ops = {"in_read"}
      /\ cs.data = <<>> /\ cs.udpBuf = <<>> /\ cs.toApp = <<>>
  BY <1>1 DEF Init
<1>5. Run(<<>>, 0) /\ Run(<<>>, 1) /\ Len(<<>>) = 0 /\ 1 + 0 = 1 /\ 0 + 0 = 0
  <2>1. 0 \in Nat /\ 1 \in Nat /\ Len(<<>>) = 0 /\ 1 + 0 = 1 /\ 0 + 0 = 0
    OBVIOUS
  <2> QED BY <2>1, RunNone, Zenon
<1>6. Size * made["up"] = 0 /\ LastDown(srv, made["down"]) = 0
  BY <1>1, <1>2 DEF Size, LastDown
<1>7. Wires
  BY <1>1, <1>2 DEF Wires
<1>8. ClientOps(cs) /\ cs.status \in Early /\ ~Writing(cs)
  BY <1>4 DEF ClientOps, Early, Writing
<1>9. ServerOps(srv)
  BY <1>3 DEF ServerOps
<1>10. Base(srv) = 1 /\ UpBusy(srv) = 0 /\ UpNext(srv) = 1 /\ Reached(srv) = 1 /\ Idle(srv)
  BY <1>3, <1>5 DEF Base, UpBusy, UpNext, Reached, Idle
<1>11. UpOrder(srv)
  BY <1>3, <1>5, <1>10 DEF UpOrder
<1>12. UpLine(srv, <<>>, <<>>, Phase(cs), 0)
  <2>1. Place(srv, <<>>) = 0
    BY <1>5, <1>10 DEF Place
  <2>2. Joins(0, <<>>, Phase(cs), 0)
    BY <1>4, <1>5, <1>8 DEF Joins, Phase
  <2> QED BY <1>5, <1>10, <1>11, <2>1, <2>2 DEF UpLine
<1>13. UpWhole
  BY <1>2, <1>3, <1>6, <1>12 DEF UpWhole
<1>14. DownBusy(cs) = 0 /\ DownNext(cs) = 1 /\ Got(cs) = 1
  BY <1>4, <1>5, <1>8 DEF DownBusy, DownNext, Got
<1>15. DownOrder(cs)
  BY <1>4, <1>5, <1>8, <1>14 DEF DownOrder, Fresh
<1>16. DownLine(cs, <<>>, Unbroken(srv), 0)
  BY <1>4, <1>5, <1>14, <1>15 DEF DownLine, Fresh
<1>17. DownWhole
  BY <1>2, <1>6, <1>16 DEF DownWhole
<1> QED BY <1>2, <1>7, <1>8, <1>9, <1>13, <1>17 DEF Flow

\* The TLS connection keeps its two directions, and the counters count.
LEMMA WiresStep ==
  ASSUME Wires, [Next]_vars
  PROVE  Wires'
<1> SUFFICES UNCHANGED setup /\ DOMAIN link' = Dir /\ DOMAIN eof' = Dir
             /\ made' \in [Dir -> Nat]
  BY DEF Wires
<1>1. DOMAIN link = Dir /\ DOMAIN eof = Dir /\ made \in [Dir -> Nat]
  BY DEF Wires
<1>2. ASSUME NEW d, NEW w, Shutdown(d, w) PROVE DOMAIN link' = Dir /\ DOMAIN eof' = Dir
  BY <1>1, <1>2 DEF Shutdown
<1>3. ASSUME NEW d, NEW w, Write(d, w) PROVE DOMAIN link' = Dir
  BY <1>1, <1>3 DEF Write
<1>4. ASSUME NEW d, NEW k, link' = Taken(d, k) PROVE DOMAIN link' = Dir
  BY <1>1, <1>4 DEF Taken
<1>5. ASSUME NEW c, NEW why, ClientDestroy(c, why)
      PROVE  DOMAIN link' = Dir /\ DOMAIN eof' = Dir
  BY <1>1, <1>2, <1>5 DEF ClientDestroy
<1>6. ASSUME NEW s, NEW why, ServerDestroy(s, why)
      PROVE  DOMAIN link' = Dir /\ DOMAIN eof' = Dir
  BY <1>1, <1>2, <1>6 DEF ServerDestroy
<1>7. ASSUME NEW d \in Dir, made' = [made EXCEPT ![d] = @ + 1] PROVE made' \in [Dir -> Nat]
  BY <1>1, <1>7
<1>8. "up" \in Dir /\ "down" \in Dir
  BY DEF Dir
<1>9. CASE SocksRecv \/ ClientInSent \/ ClientEof \/ ClientError \/ ClientDialFailed
  BY <1>1, <1>5, <1>9 DEF SocksRecv, ClientInSent, ClientEof, ClientError, ClientDialFailed
<1>10. CASE ClientDialed
  BY <1>1, <1>3, <1>10 DEF ClientDialed
<1>11. CASE ClientInRecv
  BY <1>1, <1>3, <1>7, <1>8, <1>11 DEF ClientInRecv
<1>12. CASE UdpRecv
  BY <1>1, <1>3, <1>5, <1>7, <1>8, <1>12 DEF UdpRecv
<1>13. CASE ClientOutRecv
  BY <1>1, <1>4, <1>13 DEF ClientOutRecv
<1>14. CASE Handshake
  BY <1>1, <1>2, <1>6, <1>14 DEF Handshake, ServerHandshake, FrontHandshake
<1>15. CASE FrontTimeout \/ FrontEof
  BY <1>1, <1>2, <1>15 DEF FrontTimeout, FrontEof
<1>16. CASE FrontRecv
  BY <1>1, <1>4, <1>16 DEF FrontRecv
<1>17. CASE ServerInRecv
  BY <1>1, <1>4, <1>17 DEF ServerInRecv
<1>18. CASE Resolved \/ ServerEof \/ ServerError \/ ServerDialFailed
  BY <1>1, <1>6, <1>18 DEF Resolved, ServerEof, ServerError, ServerDialFailed
<1>19. CASE ServerOutRecv
  BY <1>1, <1>3, <1>7, <1>8, <1>19 DEF ServerOutRecv
<1>20. CASE \/ ClientOutSent \/ ClientUdpSent \/ ServerDialed \/ ServerOutSent \/ ServerUdpSent
            \/ ServerDialedLate \/ UdpReadEnds \/ ServerInSent \/ Closes \/ UNCHANGED vars
  BY <1>1, <1>20 DEF ClientOutSent, ClientUdpSent, ServerDialed, ServerOutSent, ServerUdpSent,
                     ServerDialedLate, UdpReadEnds, ServerInSent, Closes, vars
<1> QED BY <1>9, <1>10, <1>11, <1>12, <1>13, <1>14, <1>15, <1>16, <1>17, <1>18, <1>19, <1>20
        DEF Next

\* Every step keeps what is written, on its way and delivered in order.
LEMMA FlowStep ==
  ASSUME IInv, Solo, Flow, [Next]_vars
  PROVE  Flow'
<1>1. Wires'
  BY WiresStep DEF Flow
<1>2. Kept => Flow'
  BY <1>1 DEF Kept, Flow
<1>3. ClientSolo(cs)
  BY DEF Solo
<1>4. ASSUME UNCHANGED srv, made'["down"] = made["down"],
             UpWhole' /\ DownWhole' /\ ClientOps(cs)' /\ ServerOps(srv)'
      PROVE  Kept
  BY <1>4 DEF Kept, Flow
<1>5. CASE \/ SocksRecv \/ ClientInSent \/ ClientOutSent \/ ClientUdpSent
           \/ ClientEof \/ ClientError
  <2>1. UNCHANGED <<srv, made>>
    BY <1>5 DEF SocksRecv, ClientInSent, ClientOutSent, ClientUdpSent, ClientEof, ClientError
  <2> QED BY <1>2, <1>3, <1>4, <1>5, <2>1, ClientPhasesFlow
<1>13. CASE ClientDialFailed
  <2>1. UNCHANGED <<srv, made>>
    BY <1>13 DEF ClientDialFailed
  <2> QED BY <1>2, <1>4, <1>13, <2>1, DialFailsFlow
<1>6. CASE ClientInRecv \/ UdpRecv \/ ClientOutRecv
  <2>1. UNCHANGED srv /\ (UNCHANGED made \/ made' = [made EXCEPT !["up"] = @ + 1])
    BY <1>6 DEF ClientInRecv, UdpRecv, ClientOutRecv
  <2>2. made'["down"] = made["down"]
    BY <2>1 DEF Flow, Wires, Dir
  <2> QED BY <1>2, <1>3, <1>4, <1>6, <2>1, <2>2, ClientRelaysFlow
<1>7. CASE ClientDialed
  BY <1>2, <1>7, DialedFlow
<1>8. CASE Handshake \/ FrontTimeout \/ FrontEof
  BY <1>2, <1>8, HandshakeFlow
<1>9. CASE FrontRecv \/ ServerInRecv \/ ServerDialed
  BY <1>2, <1>9, FrontRecvFlow, InRecvFlow, TargetFlow
<1>10. CASE \/ Resolved \/ ServerOutSent \/ ServerUdpSent \/ ServerInSent
            \/ ServerEof \/ ServerError \/ UdpReadEnds
  BY <1>2, <1>10, ServerRelaysFlow
<1>14. CASE ServerDialedLate \/ ServerDialFailed
  BY <1>2, <1>14, DialLateFlow
<1>11. CASE ServerOutRecv
  BY <1>2, <1>11, OutRecvFlow
<1>12. CASE Closes \/ UNCHANGED vars
  <2>1. UNCHANGED <<setup, cs, srv, front, link, made>>
    BY <1>12 DEF Closes, vars
  <2>2. /\ UpLine(srv', front'.buf, link'["up"], Phase(cs'), Size * made'["up"])
        /\ DownLine(cs', link'["down"], Unbroken(srv'), LastDown(srv', made'["down"]))
        /\ ClientOps(cs') /\ ServerOps(srv')
    BY <2>1 DEF Flow, UpWhole, DownWhole
  <2> QED BY <1>2, <1>4, <2>1, <2>2, FlowFrom
<1> QED BY <1>5, <1>6, <1>7, <1>8, <1>9, <1>10, <1>11, <1>12, <1>13, <1>14 DEF Next

\* Runs that begin alike and are equally long are equal.
LEMMA RunEqual ==
  ASSUME NEW a \in Nat, NEW s, NEW t, Run(s, a), Run(t, a), Len(s) = Len(t)
  PROVE  s = t
<1>1. s \in Seq(Nat) /\ t \in Seq(Nat) /\ Len(s) = Len(t)
  BY DEF Run
<1>2. \A i \in 1..Len(s) : s[i] = t[i]
  BY <1>1 DEF Run
<1> QED BY <1>1, <1>2, SeqEqual

\* All that the application, or the target, has sent is a run.
LEMMA UnitsRun ==
  ASSUME NEW n \in Nat
  PROVE  /\ Run(Units(n), 1) /\ Len(Units(n)) = n
         /\ Run(<<Req>> \o Units(n), 0) /\ Len(<<Req>> \o Units(n)) = n + 1
<1>1. Units(n) \in Seq(Nat) /\ Len(Units(n)) = n
  BY DEF Units
<1>2. \A i \in 1..n : Units(n)[i] = 1 + i - 1
  BY DEF Units
<1>3. Run(Units(n), 1)
  BY <1>1, <1>2 DEF Run
<1>4. 0 \in Nat /\ Req = 0 /\ 0 + 1 = 1 /\ 1 + n = n + 1
  BY DEF Req
<1>5. Run(<<Req>>, 0) /\ Len(<<Req>>) = 1
  BY <1>4, RunShort
<1>6. Run(Units(n), 0 + Len(<<Req>>))
  BY <1>3, <1>4, <1>5
<1>7. Run(<<Req>> \o Units(n), 0) /\ Len(<<Req>> \o Units(n)) = Len(<<Req>>) + Len(Units(n))
  BY <1>4, <1>5, <1>6, RunCat
<1> QED BY <1>1, <1>3, <1>4, <1>5, <1>7

\* What flows in order and is not ahead of its sender is a prefix of what was
\* sent.
LEMMA FlowIntact == ASSUME Flow PROVE Intact
<1>1. /\ UpLine(srv, front.buf, link["up"], Phase(cs), Size * made["up"])
      /\ DownLine(cs, link["down"], Unbroken(srv), LastDown(srv, made["down"]))
      /\ setup.kind \in {"tcp", "udp"} /\ made["down"] \in Nat
  BY DEF Flow, UpWhole, DownWhole, Wires, Dir
<1> DEFINE n == Size * made["up"]
           m == Size * made["down"]
           u == (IF srv.peer = "fallback" THEN <<Req>> ELSE <<>>) \o Units(n)
<1>2. UpOrder(srv) /\ n \in Nat /\ Reached(srv) <= n + 1 /\ Run(srv.toTarget, Base(srv))
  BY <1>1 DEF UpLine, UpOrder
<1>3. Size = 1 \/ Size = 2
  BY DEF Size
<1>4. m \in Nat
  BY <1>1, <1>3
<1> HIDE DEF n
<1>5. Base(srv) \in Nat /\ Base(srv) + Len(srv.toTarget) <= n + 1
  <2>1. /\ Base(srv) \in Nat /\ Len(srv.toTarget) \in Nat /\ UpBusy(srv) \in Nat
        /\ Len(srv.udpBuf) \in Nat
    BY <1>2, UpNumbers DEF Base
  <2> QED BY <1>2, <2>1 DEF Reached, UpNext
<1>6. IsPrefix(srv.toTarget, u)
  <2>1. CASE srv.peer = "fallback"
    <3>1. Base(srv) = 0 /\ u = <<Req>> \o Units(n)
      BY <2>1 DEF Base
    <3> HIDE DEF u
    <3>2. Run(u, 0) /\ Len(u) = n + 1
      BY <1>2, <3>1, UnitsRun
    <3>3. 0 \in Nat /\ Run(srv.toTarget, 0)
      BY <1>2, <3>1
    <3>4. Len(srv.toTarget) <= Len(u)
      <4>1. Len(srv.toTarget) \in Nat
        BY <1>2, UpNumbers
      <4> QED BY <1>5, <3>1, <3>2, <4>1
    <3> QED BY <3>2, <3>3, <3>4, RunPrefix
  <2>2. CASE srv.peer # "fallback"
    <3>1. Units(n) \in Seq(Nat)
      BY <1>2, UnitsRun DEF Run
    <3>2. Base(srv) = 1 /\ u = Units(n)
      BY <2>2, <3>1 DEF Base
    <3> HIDE DEF u
    <3>3. Run(u, 1) /\ Len(u) = n
      BY <1>2, <3>2, UnitsRun
    <3>4. 1 \in Nat /\ Run(srv.toTarget, 1)
      BY <1>2, <3>2
    <3>5. Len(srv.toTarget) <= Len(u)
      <4>1. Len(srv.toTarget) \in Nat
        BY <1>2, UpNumbers
      <4> QED BY <1>2, <1>5, <3>2, <3>3, <4>1
    <3> QED BY <3>3, <3>4, <3>5, RunPrefix
  <2> QED BY <2>1, <2>2
<1> HIDE DEF m
<1>7. ASSUME srv.peer # "fallback"
      PROVE  IsPrefix(cs.toApp, Units(m)) /\ Len(cs.toApp) % Size = 0
  <2>1. LastDown(srv, made["down"]) = m
    BY <1>1, <1>7 DEF LastDown, Size, m
  <2>2. Run(cs.toApp, 1) /\ Len(cs.toApp) <= m
    BY <1>1, <2>1 DEF DownLine, DownOrder
  <2>3. Run(Units(m), 1) /\ Len(Units(m)) = m /\ 1 \in Nat
    BY <1>4, UnitsRun
  <2>4. IsPrefix(cs.toApp, Units(m))
    <3>1. Len(cs.toApp) <= Len(Units(m))
      BY <2>2, <2>3
    <3> QED BY <2>2, <2>3, <3>1, RunPrefix
  <2>5. Len(cs.toApp) \in Nat
    BY <2>2 DEF Run
  <2>6. CASE setup.kind = "udp"
    BY <1>1, <2>4, <2>6 DEF DownLine, DownOrder, Size
  <2>7. CASE setup.kind = "tcp"
    <3>1. Size = 1
      BY <2>7 DEF Size
    <3>2. \A x \in Nat : x % 1 = 0
      OBVIOUS
    <3> QED BY <2>4, <2>5, <3>1, <3>2
  <2> QED BY <1>1, <2>4, <2>6, <2>7
<1> QED BY <1>6, <1>7 DEF Intact, n, m

\* What the ServerSession gives the target is a prefix of what the application
\* sent - after the bytes of the request when the target is the fallback - and
\* what the ClientSession gives the application is a prefix of what the target
\* sent, in whole datagrams: whatever part of the connection a read returns,
\* whether the first read was made by the PipelineSession or not, and in
\* whichever order the sessions and their resolutions end.
THEOREM StreamsIntact == Spec => []Intact
<1> DEFINE Inv == IInv /\ Solo /\ Flow
<1>1. Init => Inv
  BY InitOK, InitSolo, InitFlow
<1>2. Inv /\ [Next]_vars => Inv'
  BY Step, SoloStep, FlowStep
<1>3. Inv => Intact
  BY FlowIntact
<1> QED
  BY <1>1, <1>2, <1>3, PTL DEF Spec

-----------------------------------------------------------------------------
(* The end of a session.  The connection to the client is shut down only     *)
(* when the server's session, or the front before there is one, is destroyed *)
(* for good; and the client that meets that end with nothing left to read    *)
(* has been given everything that was written before it.                     *)

Ends ==
  /\ front.timer \/ front.ops # {} => front.status = "HANDSHAKE"
  /\ front.status = "HANDSHAKE" => srv.status = "NONE"
  /\ Starting(cs) => ~eof["down"] /\ front.status = "NONE"
  /\ eof["down"] => srv.status = "DESTROY" \/ (srv.status = "NONE" /\ front.status = "DESTROY")
  /\ cs.cause = "eof" => eof["down"] /\ cs.status = "DESTROY"
  /\ setup.kind = "tcp" /\ cs.cause = "eof" /\ srv.cause = "eof" =>
       Len(cs.toApp) = made["down"]

\* At the start nobody has ended.
LEMMA InitEnds == Init => Ends
<1> SUFFICES ASSUME Init PROVE Ends
  OBVIOUS
<1>1. front.timer = FALSE /\ front.ops = {} /\ front.status = "NONE" /\ cs.cause = ""
  BY DEF Init
<1>2. eof["down"] = FALSE
  BY DEF Init, Dir
<1> QED BY <1>1, <1>2, Zenon DEF Ends

\* A client that goes on, or ends for another reason, changes none of this.
LEMMA ClientEnds ==
  ASSUME Ends, UNCHANGED <<setup, srv, front>>, eof'["down"] = eof["down"],
         Starting(cs') => Starting(cs), cs'.cause # "eof"
  PROVE  Ends'
<1>1. Starting(cs)' => Starting(cs)
  BY DEF Starting
<1> QED BY <1>1 DEF Ends

\* The client meets the end of the connection when it has nothing to write to
\* the application and nothing to read.
LEMMA ClientMeetsEnd ==
  ASSUME Ends, Flow, ClientSolo(cs), setup.kind = "tcp", "out_read" \in cs.ops,
         link["down"] = <<>>, srv.cause = "eof"
  PROVE  Len(cs.toApp) = made["down"]
<1>1. ServerOps(srv) /\ ClientOps(cs)
      /\ DownLine(cs, link["down"], Unbroken(srv), LastDown(srv, made["down"]))
  BY DEF Flow, DownWhole
<1>2. cs.status # "DESTROY" /\ Unbroken(srv) /\ LastDown(srv, made["down"]) = made["down"]
  BY <1>1 DEF ClientOps, Unbroken, LastDown
<1>3. ~Writing(cs)
  BY DEF ClientSolo, OneOf, ClientDown, Writing
<1>4. cs.udpBuf = <<>> /\ Len(<<>>) = 0 /\ Len(cs.toApp) \in Nat /\ made["down"] \in Nat
  BY <1>1, <1>2, GotBound DEF DownLine, DownOrder
<1>5. Got(cs) = 1 + Len(cs.toApp)
  BY <1>3, <1>4 DEF Got, DownBusy, DownNext
<1>6. Got(cs) + Len(link["down"]) = made["down"] + 1
  BY <1>1, <1>2 DEF DownLine, Live
<1> QED BY <1>4, <1>5, <1>6

\* The client, before and while it relays.
LEMMA ClientEndsStep ==
  ASSUME IInv, ClientSolo(cs), Flow, Ends,
         \/ SocksRecv \/ ClientInSent \/ ClientInRecv \/ UdpRecv \/ ClientOutSent
         \/ ClientOutRecv \/ ClientUdpSent \/ ClientEof \/ ClientError
  PROVE  Ends'
<1>1. /\ ClientOps(cs) /\ DownOrder(cs) /\ DOMAIN cs = CsFields /\ Wires
      /\ DownLine(cs, link["down"], Unbroken(srv), LastDown(srv, made["down"]))
  BY DEF Flow, DownWhole, DownLine, IInv, Phases
<1>2. "FORWARD" \notin Early /\ "UDP_FORWARD" \notin Early /\ "DESTROY" \notin Early
  BY DEF Early
<1>3. /\ UNCHANGED <<setup, srv, front>> /\ cs.status # "DESTROY"
      /\ UNCHANGED made \/ ClientInRecv \/ UdpRecv
  BY <1>1 DEF SocksRecv, ClientInSent, ClientInRecv, UdpRecv, ClientOutSent, ClientOutRecv,
              ClientUdpSent, ClientEof, ClientError, ClientOps
<1>4. cs.cause # "eof"
  BY <1>3 DEF Ends
<1>17. \A d : Goes(cs, d) /\ "dial" \in d.ops => d.status \in Early
  BY DialFresh DEF Goes, Early
<1>5. ASSUME Goes(cs, cs'), UNCHANGED eof, cs'.status \in Early => cs.status \in Early
      PROVE  Ends'
  <2>1. Starting(cs') => Starting(cs)
    BY <1>5, <1>17 DEF Starting
  <2> QED BY <1>3, <1>4, <1>5, <2>1, ClientEnds DEF Goes
<1>6. ASSUME NEW c, NEW why, ClientDestroy(c, why), DOMAIN c = CsFields
      PROVE  /\ cs'.status = "DESTROY" /\ cs'.cause = why /\ cs'.toApp = c.toApp
             /\ eof'["down"] = eof["down"] /\ (Starting(cs') => "dial" \in c.ops)
  <2>1. cs' = [c EXCEPT !.status = "DESTROY", !.ops = @ \cap {"dial"}, !.cause = why]
    BY <1>6 DEF ClientDestroy
  <2>2. /\ cs'.status = "DESTROY" /\ cs'.cause = why /\ cs'.toApp = c.toApp
        /\ cs'.ops = c.ops \cap {"dial"}
    BY <1>6, <2>1 DEF CsFields
  <2>3. eof' = [eof EXCEPT !["up"] = TRUE] \/ UNCHANGED eof
    BY <1>6 DEF ClientDestroy, Shutdown
  <2>4. eof'["down"] = eof["down"]
    BY <1>1, <2>3 DEF Wires, Dir
  <2> QED BY <1>2, <2>2, <2>4 DEF Starting
<1>7. ASSUME NEW c, ClientDestroy(c, "error"), DOMAIN c = CsFields,
             "dial" \in c.ops => Starting(cs)
      PROVE  Ends'
  <2>1. /\ cs'.status = "DESTROY" /\ cs'.cause = "error" /\ eof'["down"] = eof["down"]
        /\ Starting(cs') => Starting(cs)
    BY <1>6, <1>7
  <2> QED BY <1>3, <2>1, ClientEnds
<1>8. CASE SocksRecv
  <2>1. CASE Goes(cs, cs') /\ cs.status \in Early /\ cs'.status \in Early /\ UNCHANGED <<link, eof>>
    BY <1>5, <2>1
  <2>2. CASE \E c : Goes(cs, c) /\ ClientDestroy(c, "error") /\ cs.status \in Early
    BY <1>7, <2>2 DEF Goes, Starting
  <2> QED BY <1>1, <1>8, <2>1, <2>2, SocksGoes
<1>9. CASE ClientInSent
  <2>1. CASE /\ Goes(cs, cs') /\ UNCHANGED <<link, eof>>
             /\ \/ cs.status \in Early /\ cs'.status \in Early
                \/ cs.status = "FORWARD" /\ cs'.status = "FORWARD"
    BY <1>5, <2>1
  <2>2. CASE \E c : Goes(cs, c) /\ ClientDestroy(c, "error") /\ cs.status \in Early
    BY <1>7, <2>2 DEF Goes, Starting
  <2> QED BY <1>1, <1>9, <2>1, <2>2, InSentGoes
<1>10. CASE ClientInRecv
  <2>1. UNCHANGED eof
    BY <1>10 DEF ClientInRecv
  <2> QED BY <1>1, <1>2, <1>5, <1>10, <2>1, UplinkGoes
<1>11. CASE UdpRecv
  <2> DEFINE c == Done(cs, "udp_read")
             d == Begin(c, "out_write")
  <2>1. "udp_read" \in cs.ops
    BY <1>11 DEF UdpRecv
  <2>2. Goes(cs, c) /\ c.status = "UDP_FORWARD" /\ Goes(cs, d) /\ d.status = "UDP_FORWARD"
    BY <1>1, <2>1, UplinkGoes
  <2>3. \/ cs' = d /\ UNCHANGED eof
        \/ cs' = c /\ UNCHANGED eof
        \/ ClientDestroy(c, "error")
    BY <1>11 DEF UdpRecv
  <2> HIDE DEF c, d
  <2>4. "dial" \notin c.ops /\ DOMAIN c = CsFields
    BY <1>2, <1>17, <2>2 DEF Goes
  <2> QED BY <1>2, <1>5, <1>7, <2>2, <2>3, <2>4
<1>12. CASE ClientOutSent
  <2>1. UNCHANGED eof
    BY <1>12 DEF ClientOutSent
  <2> QED BY <1>1, <1>2, <1>5, <1>12, <2>1, UplinkGoes
<1>13. CASE ClientUdpSent
  <2>1. UNCHANGED eof
    BY <1>13 DEF ClientUdpSent
  <2> QED BY <1>1, <1>2, <1>5, <1>13, <2>1, UdpSentGoes
<1>14. CASE ClientOutRecv
  <2>1. "out_read" \in cs.ops /\ UNCHANGED eof
    BY <1>14 DEF ClientOutRecv
  <2>2. PICK k \in 1..Len(link["down"]) :
          cs' = IF cs.status = "UDP_FORWARD"
                THEN UdpSent([Done(cs, "out_read") EXCEPT !.udpBuf = @ \o Arrived("down", k)])
                ELSE Begin([Done(cs, "out_read") EXCEPT !.data = Arrived("down", k)], "in_write")
    BY <1>14 DEF ClientOutRecv
  <2>3. Run(Arrived("down", k), Got(cs))
    <3>1. Run(link["down"], Got(cs)) /\ Got(cs) \in Nat
      BY <1>1, <1>3, GotBound DEF DownLine, Live
    <3>2. k \in 0..Len(link["down"])
      BY <2>2
    <3> QED BY <3>1, <3>2, RunCut DEF Arrived
  <2>4. Takes(cs, cs', Len(Arrived("down", k))) /\ cs'.status = cs.status
    BY <1>1, <2>1, <2>2, <2>3, OutRecvTakes
  <2>5. Starting(cs') => Starting(cs)
    <3>1. "dial" \in cs'.ops => cs'.status \in Early
      BY <2>4, DialFresh DEF Takes, Early
    <3> QED BY <2>4, <3>1 DEF Starting
  <2> QED BY <1>3, <1>4, <2>1, <2>4, <2>5, ClientEnds DEF Takes
<1>15. CASE ClientError
  BY <1>1, <1>7, <1>15 DEF ClientError, Starting
<1>16. CASE ClientEof
  <2>1. CASE ClientDestroy(cs, "error")
    BY <1>1, <1>7, <2>1 DEF Starting
  <2>2. CASE /\ "out_read" \in cs.ops /\ eof["down"] /\ link["down"] = <<>>
             /\ ClientDestroy(cs, "eof")
    <3>1. /\ cs'.status = "DESTROY" /\ cs'.cause = "eof" /\ cs'.toApp = cs.toApp
          /\ eof'["down"] = eof["down"] /\ UNCHANGED made /\ (Starting(cs') => Starting(cs))
      BY <1>1, <1>6, <1>16, <2>2 DEF ClientEof, Starting
    <3>2. setup.kind = "tcp" /\ srv.cause = "eof" => Len(cs.toApp) = made["down"]
      BY <2>2, ClientMeetsEnd
    <3>3. Starting(cs)' => Starting(cs)
      BY <3>1 DEF Starting
    <3> QED BY <1>3, <2>2, <3>1, <3>2, <3>3 DEF Ends
  <2> QED BY <1>16, <2>1, <2>2 DEF ClientEof
<1> QED BY <1>8, <1>9, <1>10, <1>11, <1>12, <1>13, <1>14, <1>15, <1>16

\* The dial of the client fails.
LEMMA DialFailsEnds ==
  ASSUME IInv, Flow, Ends, ClientDialFailed
  PROVE  Ends'
<1>1. /\ DOMAIN cs = CsFields /\ DOMAIN eof = Dir /\ Starting(cs)
      /\ UNCHANGED <<setup, srv, front, made>>
  BY DEF IInv, Phases, Flow, Wires, ClientDialFailed, Starting
<1>2. ~eof["down"] /\ cs.cause # "eof"
  BY <1>1 DEF Ends
<1> DEFINE c == Done(cs, "dial")
<1>3. CsAlike(cs, c) /\ DOMAIN c = CsFields
  BY <1>1, ClientAlike DEF CsAlike
<1> HIDE DEF c
<1>4. \/ cs' = [c EXCEPT !.status = "DESTROY", !.ops = @ \cap {"dial"}, !.cause = "error"]
      \/ cs' = c
  BY DEF ClientDialFailed, ClientDestroy, c
<1>5. cs'.cause # "eof"
  BY <1>2, <1>3, <1>4 DEF CsAlike, CsFields
<1>6. eof' = [eof EXCEPT !["up"] = TRUE] \/ UNCHANGED eof
  BY DEF ClientDialFailed, ClientDestroy, Shutdown
<1>7. eof'["down"] = eof["down"]
  BY <1>1, <1>6 DEF Dir
<1> QED BY <1>1, <1>5, <1>7, ClientEnds

\* ServerSession::destroy: the session is destroyed, or was.
LEMMA StopEnds ==
  ASSUME NEW s, NEW why, DOMAIN s = SrvFields, ServerDestroy(s, why)
  PROVE  /\ srv'.status = "DESTROY"
         /\ s.status = "DESTROY" => srv' = s /\ UNCHANGED eof
<1>1. CASE s.status = "DESTROY"
  BY <1>1 DEF ServerDestroy
<1>2. CASE s.status # "DESTROY"
  <2>1. srv' = ServerDestroyed(s, why)
    BY <1>2 DEF ServerDestroy
  <2>2. srv'.status = "DESTROY"
    BY <2>1 DEF ServerDestroyed, SrvFields
  <2> QED BY <1>2, <2>2
<1> QED BY <1>1, <1>2

\* A server session shuts the connection down only when it is destroyed, and
\* what a destroyed one still does changes neither its status nor its cause.
LEMMA ServerEnds ==
  ASSUME IInv, Flow,
         \/ (Handshake /\ ServerHandshake) \/ ServerDialed \/ ServerInRecv \/ Resolved
         \/ ServerOutSent \/ ServerUdpSent \/ ServerOutRecv \/ ServerInSent
         \/ ServerEof \/ ServerError \/ ServerDialedLate \/ ServerDialFailed \/ UdpReadEnds
  PROVE  /\ UNCHANGED <<setup, cs, front>> /\ srv.status # "NONE"
         /\ UNCHANGED eof \/ srv'.status = "DESTROY"
         /\ srv.status = "DESTROY" =>
              srv'.status = "DESTROY" /\ srv'.cause = srv.cause /\ UNCHANGED <<eof, made>>
<1>1. ServerOps(srv) /\ DOMAIN srv = SrvFields
  BY DEF Flow, IInv, SrvOK
<1>2. UNCHANGED <<setup, cs, front>>
  BY DEF Handshake, ServerHandshake, ServerDialed, ServerInRecv, Resolved, ServerOutSent,
         ServerUdpSent, ServerOutRecv, ServerInSent, ServerEof, ServerError,
         ServerDialedLate, ServerDialFailed, UdpReadEnds
<1>3. srv.status # "NONE"
  BY <1>1 DEF ServerHandshake, ServerDialed, ServerInRecv, Resolved, ServerOutSent,
              ServerUdpSent, ServerOutRecv, ServerInSent, ServerEof, ServerError, ServerOps,
              ServerDialedLate, ServerDialFailed, UdpReadEnds
<1>4. ASSUME NEW op
      PROVE  /\ Alike(srv, Done(srv, op)) /\ DOMAIN Done(srv, op) = SrvFields
             /\ Done(srv, op).status = srv.status /\ Done(srv, op).cause = srv.cause
  BY <1>1, DoneAlike DEF Alike
<1>5. UNCHANGED eof \/ srv'.status = "DESTROY"
  <2>1. \/ UNCHANGED eof \/ ServerDestroy(Done(srv, "handshake"), "error")
        \/ ServerDestroy(Done(srv, "resolve"), "error")
        \/ ServerDestroy(Done(srv, "dial"), "error")
        \/ ServerDestroy(srv, "error") \/ ServerDestroy(srv, "eof")
    BY DEF ServerHandshake, ServerDialed, ServerInRecv, Resolved, ServerOutSent,
           ServerUdpSent, ServerOutRecv, ServerInSent, ServerEof, ServerError,
           ServerDialedLate, ServerDialFailed, UdpReadEnds
  <2> QED BY <1>1, <1>4, <2>1, StopEnds
<1>6. ASSUME srv.status = "DESTROY"
      PROVE  srv'.status = "DESTROY" /\ srv'.cause = srv.cause /\ UNCHANGED <<eof, made>>
  <2>1. srv.ops \subseteq {"resolve", "dial", "udp_read", "udp_write"}
    BY <1>1, <1>6 DEF ServerOps, Late
  <2>2. Resolved \/ ServerUdpSent \/ ServerDialedLate \/ ServerDialFailed \/ UdpReadEnds
    BY <1>6, <2>1 DEF ServerHandshake, ServerDialed, ServerInRecv, ServerOutSent,
                      ServerOutRecv, ServerInSent, ServerEof, ServerError
  <2>3. CASE Resolved
    <3> DEFINE s == Done(srv, "resolve")
               t == SendUdp(s)
    <3>1. UNCHANGED made /\ ((srv' = t /\ UNCHANGED eof) \/ ServerDestroy(s, "error"))
      BY <2>3 DEF Resolved
    <3>2. s.status = "DESTROY" /\ s.cause = srv.cause /\ DOMAIN s = SrvFields
      BY <1>4, <1>6
    <3>3. t.status = s.status /\ t.cause = s.cause
      BY <3>2, SendUdpFields
    <3> HIDE DEF s, t
    <3> QED BY <3>1, <3>2, <3>3, StopEnds
  <2>4. CASE ServerUdpSent
    <3>1. UNCHANGED <<eof, made>> /\ srv' = Done(srv, "udp_write")
      BY <1>6, <2>4 DEF ServerUdpSent
    <3> QED BY <1>4, <1>6, <3>1
  <2>5. CASE ServerDialedLate
    <3> DEFINE s == [Done(srv, "dial") EXCEPT !.late = TRUE]
    <3>1. UNCHANGED <<eof, made>> /\ srv' = ServerDestroyed(s, srv.cause)
      BY <2>5 DEF ServerDialedLate
    <3>2. DOMAIN s = SrvFields
      BY <1>4 DEF SrvFields
    <3> HIDE DEF s
    <3> QED BY <3>1, <3>2 DEF ServerDestroyed, SrvFields
  <2>6. CASE ServerDialFailed
    <3> DEFINE s == Done(srv, "dial")
    <3>1. UNCHANGED made /\ ServerDestroy(s, "error")
      BY <2>6 DEF ServerDialFailed
    <3>2. s.status = "DESTROY" /\ s.cause = srv.cause /\ DOMAIN s = SrvFields
      BY <1>4, <1>6
    <3> HIDE DEF s
    <3> QED BY <3>1, <3>2, StopEnds
  <2>7. CASE UdpReadEnds
    <3>1. UNCHANGED <<eof, made>> /\ srv' = Done(srv, "udp_read")
      BY <2>7 DEF UdpReadEnds
    <3> QED BY <1>4, <1>6, <3>1
  <2> QED BY <2>2, <2>3, <2>4, <2>5, <2>6, <2>7
<1> QED BY <1>2, <1>3, <1>5, <1>6

\* The server session, before and while it relays.
LEMMA ServerEndsStep ==
  ASSUME IInv, Flow, Ends,
         \/ (Handshake /\ ServerHandshake) \/ ServerDialed \/ ServerInRecv \/ Resolved
         \/ ServerOutSent \/ ServerUdpSent \/ ServerOutRecv \/ ServerInSent
         \/ ServerEof \/ ServerError \/ ServerDialedLate \/ ServerDialFailed \/ UdpReadEnds
  PROVE  Ends'
<1>1. /\ UNCHANGED <<setup, cs, front>> /\ srv.status # "NONE"
      /\ UNCHANGED eof \/ srv'.status = "DESTROY"
      /\ srv.status = "DESTROY" =>
           srv'.status = "DESTROY" /\ srv'.cause = srv.cause /\ UNCHANGED <<eof, made>>
  BY ServerEnds
<1>2. ~Starting(cs) /\ ~Starting(cs)'
  BY <1>1 DEF IInv, Phases, Starting
<1>3. front.status # "HANDSHAKE"
  BY <1>1 DEF Ends
<1>4. CASE srv.status = "DESTROY"
  BY <1>1, <1>2, <1>3, <1>4 DEF Ends
<1>5. CASE srv.status # "DESTROY"
  <2>1. ~eof["down"] /\ cs.cause # "eof"
    BY <1>1, <1>5 DEF Ends
  <2>2. eof'["down"] => srv'.status = "DESTROY"
    BY <1>1, <2>1
  <2> QED BY <1>1, <1>2, <1>3, <2>1, <2>2 DEF Ends
<1> QED BY <1>4, <1>5

\* The front, while it waits for the password line.
LEMMA FrontEndsStep ==
  ASSUME IInv, Flow, Ends, (Handshake /\ FrontHandshake) \/ FrontRecv \/ FrontTimeout \/ FrontEof
  PROVE  Ends'
<1>1. DOMAIN front = FrontFields /\ DOMAIN eof = Dir /\ "down" \in Dir
  BY DEF IInv, Phases, Flow, Wires, Dir
<1>2. front.timer \/ front.ops # {}
  BY DEF FrontHandshake, FrontRecv, FrontTimeout, FrontEof
<1>3. front.status = "HANDSHAKE" /\ srv.status = "NONE"
  BY <1>2, Zenon DEF Ends
<1>12. ~eof["down"] /\ cs.cause # "eof" /\ ~Starting(cs)
  BY <1>3 DEF Ends
<1>5. UNCHANGED <<setup, cs, made>>
  BY DEF Handshake, FrontRecv, FrontTimeout, FrontEof
<1>4. ~eof["down"] /\ cs.cause # "eof" /\ ~Starting(cs)'
  BY <1>5, <1>12 DEF Starting
<1>6. CASE UNCHANGED <<srv, eof>> /\ front'.status = "HANDSHAKE"
  BY <1>3, <1>4, <1>5, <1>6 DEF Ends
<1>7. CASE /\ front' = [front EXCEPT !.status = "DESTROY", !.ops = {}, !.timer = FALSE]
           /\ UNCHANGED srv
  <2>1. front'.status = "DESTROY" /\ front'.ops = {} /\ front'.timer = FALSE
    BY <1>1, <1>7 DEF FrontFields
  <2> QED BY <1>3, <1>4, <1>5, <1>7, <2>1 DEF Ends
<1>8. CASE front' = HandOver(front) /\ eof' = [eof EXCEPT !["down"] = @ \/ front'.socket]
  <2>1. /\ front'.status = "DESTROY" /\ front'.ops = {} /\ front'.timer = FALSE
        /\ front'.socket = FALSE
    BY <1>1, <1>8 DEF FrontFields, HandOver
  <2>2. eof'["down"] = (eof["down"] \/ front'.socket)
    BY <1>1, <1>8, Zenon
  <2>3. ~eof'["down"]
    BY <1>4, <2>1, <2>2, Zenon
  <2> QED BY <1>4, <1>5, <2>1, <2>3 DEF Ends
<1>9. CASE Handshake /\ FrontHandshake
  <2>1. CASE front' = [front EXCEPT !.ops = {"in_read"}] /\ UNCHANGED <<srv, eof>>
    <3>1. front'.status = "HANDSHAKE"
      BY <1>1, <1>3, <2>1 DEF FrontFields
    <3> QED BY <1>6, <2>1, <3>1
  <2> QED BY <1>7, <1>9, <2>1 DEF FrontHandshake
<1>10. CASE FrontRecv
  <2>1. PICK data :
          \/ front' = [front EXCEPT !.buf = data] /\ UNCHANGED <<srv, eof>>
          \/ front' = HandOver(front) /\ eof' = [eof EXCEPT !["down"] = @ \/ front'.socket]
    BY <1>10 DEF FrontRecv
  <2>2. CASE front' = [front EXCEPT !.buf = data] /\ UNCHANGED <<srv, eof>>
    <3>1. front'.status = "HANDSHAKE"
      BY <1>1, <1>3, <2>2 DEF FrontFields
    <3> QED BY <1>6, <2>2, <3>1
  <2> QED BY <1>8, <2>1, <2>2
<1>11. CASE FrontTimeout \/ FrontEof
  BY <1>7, <1>11 DEF FrontTimeout, FrontEof
<1> QED BY <1>9, <1>10, <1>11

\* The connection is made: nothing of the server has ended yet.
LEMMA DialedEnds ==
  ASSUME IInv, ClientSolo(cs), Flow, Ends, ClientDialed
  PROVE  Ends'
<1>1. /\ DOMAIN front = FrontFields /\ DOMAIN srv = SrvFields
      /\ ClientOps(cs) /\ DownOrder(cs) /\ setup.kind \in {"tcp", "udp"}
  BY DEF IInv, Phases, SrvOK, Flow, Wires, DownWhole, DownLine
<1>2. Goes(cs, cs') /\ "dial" \in cs.ops /\ cs'.status \in {"FORWARD", "UDP_FORWARD"}
  BY <1>1, DialGoes
<1>8. "dial" \notin cs'.ops
  BY <1>2 DEF Goes, ClientOps
<1>3. Starting(cs) /\ ~Starting(cs)' /\ srv.status = "NONE"
  BY <1>2, <1>8 DEF Early, IInv, Phases, Starting
<1>4. ~eof["down"] /\ front.status = "NONE" /\ cs'.cause # "eof"
  BY <1>2, <1>3 DEF Ends, Goes
<1>5. UNCHANGED <<setup, eof, made>>
  BY DEF ClientDialed
<1>6. CASE setup.front = "ServerSession"
  <2>1. UNCHANGED front
    BY <1>6 DEF ClientDialed, AsyncAccept
  <2> QED BY <1>3, <1>4, <1>5, <2>1 DEF Ends
<1>7. CASE setup.front # "ServerSession"
  <2>1. /\ UNCHANGED srv
        /\ front' = [front EXCEPT !.status = "HANDSHAKE", !.ops = {"handshake"},
                                  !.timer = TRUE, !.socket = TRUE]
    BY <1>7 DEF ClientDialed, AsyncAccept
  <2>2. front'.status = "HANDSHAKE"
    BY <1>1, <2>1 DEF FrontFields
  <2> QED BY <1>3, <1>4, <1>5, <2>1, <2>2 DEF Ends
<1> QED BY <1>6, <1>7

\* Every step keeps how the sessions end.
LEMMA EndsStep ==
  ASSUME IInv, Solo, Flow, Ends, [Next]_vars
  PROVE  Ends'
<1>1. ClientSolo(cs)
  BY DEF Solo
<1>2. CASE \/ SocksRecv \/ ClientInSent \/ ClientInRecv \/ UdpRecv \/ ClientOutSent
           \/ ClientOutRecv \/ ClientUdpSent \/ ClientEof \/ ClientError
  BY <1>1, <1>2, ClientEndsStep
<1>3. CASE ClientDialed \/ ClientDialFailed
  BY <1>1, <1>3, DialedEnds, DialFailsEnds
<1>4. CASE Handshake
  BY <1>4, ServerEndsStep, FrontEndsStep DEF Handshake
<1>5. CASE FrontRecv \/ FrontTimeout \/ FrontEof
  BY <1>5, FrontEndsStep
<1>6. CASE \/ ServerDialed \/ ServerInRecv \/ Resolved \/ ServerOutSent \/ ServerUdpSent
           \/ ServerOutRecv \/ ServerInSent \/ ServerEof \/ ServerError
           \/ ServerDialedLate \/ ServerDialFailed \/ UdpReadEnds
  BY <1>6, ServerEndsStep
<1>7. CASE Closes \/ UNCHANGED vars
  <2>1. UNCHANGED <<setup, cs, srv, front, eof, made>>
    BY <1>7 DEF Closes, vars
  <2> QED BY <2>1 DEF Ends, Starting
<1> QED BY <1>2, <1>3, <1>4, <1>5, <1>6, <1>7 DEF Next

\* When the target closes and both sessions end for that reason alone, the
\* application has been given everything the target sent: nothing written to
\* the TLS connection before it was shut down, and nothing the ClientSession
\* had read of it, is left behind.
THEOREM ClosesWhole == Spec => []ClosedWhole
<1> DEFINE Inv == IInv /\ Solo /\ Flow /\ Ends
<1>1. Init => Inv
  BY InitOK, InitSolo, InitFlow, InitEnds
<1>2. Inv /\ [Next]_vars => Inv'
  BY Step, SoloStep, FlowStep, EndsStep
<1>3. Inv => ClosedWhole
  <2> SUFFICES ASSUME Flow, Ends, setup.kind = "tcp", cs.cause = "eof", srv.cause = "eof"
               PROVE  cs.toApp = Units(made["down"])
    BY DEF ClosedWhole
  <2>1. Len(cs.toApp) = made["down"] /\ made["down"] \in Nat /\ Run(cs.toApp, 1) /\ 1 \in Nat
    BY DEF Ends, Flow, Wires, Dir, DownWhole, DownLine, DownOrder
  <2>2. Run(Units(made["down"]), 1) /\ Len(Units(made["down"])) = made["down"]
    BY <2>1, UnitsRun
  <2> QED BY <2>1, <2>2, RunEqual
<1> QED
  BY <1>1, <1>2, <1>3, PTL DEF Spec
=============================================================================
