---------------------------- MODULE TunTcpProofs ----------------------------
(***************************************************************************)
(* Theorems of TunTcp, for every window, buffer size and volume and for    *)
(* all three ways to the far end: the bytes owed to lwip are counted       *)
(* exactly, credit is given back exactly, both streams arrive whole and in *)
(* order, and an ordinary close leaves nothing unsent.                     *)
(***************************************************************************)
EXTENDS TunTcp, SequenceTheorems, FiniteSetTheorems, TLAPS

-----------------------------------------------------------------------------
(* What holds of the record w of a session and its client between two        *)
(* callbacks.                                                                *)

\* The bytes that lwip still owes to the application, and how they mark a
\* pipeline session.
Owed(w) ==
  w.client = "open" =>
     /\ w.ackLength = Len(w.recvBuf) + w.unacked
     /\ (mode = "pipeline" /\ ~w.destroyed) => (w.asyncWriting <=> w.ackLength > 0)

\* The credit of the frames that were received.
Credited(w) ==
  (mode = "pipeline" /\ ~w.destroyed) =>
     w.acks + w.readAck + w.pushAck = Len(w.written) + Len(w.recvBuf) + Len(w.queue)

\* Types, counts, and what destroy leaves.
Core(w) ==
  /\ w \in Tun /\ Owed(w) /\ Credited(w)
  /\ w.dialing => ~w.connected
  /\ w.client # "open" => w.destroyed
  /\ w.closeFuture => mode = "pipeline"

\* The reading chain of a live session: it dials, or one sent handler that
\* leads to a read is pending, or it reads, or it waits in the data cache, or
\* it holds data for lwip; and only one of these.
Marks(w) == {i \in 1..Len(w.sends) : w.sends[i] # "data"}
Chain(w) ==
  /\ \A i, j \in Marks(w) : i = j
  /\ Marks(w) # {} => w.reading = 0 /\ ~w.waiting /\ w.recvBuf = <<>>
  /\ w.reading \in {0, 1}
  /\ w.reading = 1 => w.connected /\ ~w.waiting /\ w.recvBuf = <<>> /\ mode # "pipeline"
  /\ w.waiting => w.connected /\ w.recvBuf = <<>> /\ w.queue = <<>>
  /\ w.recvBuf # <<>> => w.connected
  /\ \A i \in Marks(w) : w.sends[i] = "start" <=> ~w.connected
  /\ \A i \in Marks(w) : mode # "pipeline" => w.sends[i] = "first"
  /\ w.dialing => ~w.connected /\ Marks(w) = {}
  /\ \/ Marks(w) # {} \/ w.reading = 1 \/ w.waiting \/ w.recvBuf # <<>> \/ w.dialing

Fit(w) == Core(w) /\ (~w.destroyed => Chain(w))

\* No link of the chain but, perhaps, data for lwip.
Unlinked(w) ==
  w.connected /\ ~w.dialing /\ Marks(w) = {} /\ w.reading = 0 /\ ~w.waiting

-----------------------------------------------------------------------------
(* The streams.                                                              *)

\* s holds the units n + 1, n + 2, ...
Run(s, n) == \A i \in 1..Len(s) : s[i] = n + i

\* The first n units went to the wire after the request, or wait for it.
Offset == IF mode = "local" THEN 0 ELSE 1
UpLine(w, n) ==
  /\ w.connected => /\ Run(w.wire, 0 - Offset) /\ Len(w.wire) <= Offset + n
                    /\ ~w.destroyed => Len(w.wire) = Offset + n
  /\ ~w.connected => /\ w.wire = <<>> /\ Run(w.sendBuf, 0)
                     /\ ~w.destroyed => Len(w.sendBuf) = n

\* lwip was given the units up to some number, the buffer holds the next ones.
DownLine(w) == Run(w.written, 0) /\ Run(w.recvBuf, Len(w.written))
Got(w) == Len(w.written) + Len(w.recvBuf)

\* The DATA frames on the way hold the units m + 1 to n, in order.
FrameLine(q, m, n) ==
  /\ m <= n
  /\ \A i \in DOMAIN q : q[i].cmd = "DATA" => m < q[i].unit /\ q[i].unit <= n
  /\ \A i, j \in DOMAIN q :
       i < j /\ q[i].cmd = "DATA" /\ q[j].cmd = "DATA" => q[i].unit < q[j].unit
  /\ \A u \in (m + 1)..n : \E i \in DOMAIN q : q[i].cmd = "DATA" /\ q[i].unit = u

\* Without a pipeline the socket holds them, and the end behind them.
SocketLine(q, m, n) ==
  /\ m <= n
  /\ \A i \in 1..(n - m) : q[i].cmd = "DATA" /\ q[i].unit = m + i
  /\ Len(q) >= n - m
  /\ \A i \in DOMAIN q : i > n - m => q[i].cmd # "DATA"

\* Until the session is destroyed, the data cache and the frames of the
\* pipeline hold what is still to come.
Rest(w, q, n) ==
  /\ DownLine(w) /\ Got(w) <= n
  /\ (mode = "pipeline" /\ ~w.destroyed) =>
       Run(w.queue, Got(w)) /\ FrameLine(q, Got(w) + Len(w.queue), n)
  /\ mode # "pipeline" => SocketLine(q, Got(w), n)

\* Why the connection ended.
Ended(w, c) ==
  c = "eof" =>
     /\ w.destroyed
     /\ mode # "pipeline" => w.reading = 0 /\ ~w.dialing
     /\ w.client = "closed" => w.unacked = 0 /\ w.recvBuf = <<>>

\* The frames of the far end.
Frame == [cmd : {"DATA", "ACK", "CLOSE"}, unit : Nat]
Inbound == Seq(Frame)
Exact(w, q, f) == mode # "pipeline" /\ ~f.closed => Len(q) = f.sent - Got(w)

\* The inductive invariant: n units were sent by the application, q is on the
\* way from the far end f, and c is why the connection ended.
Safe(w, n, q, f, c) ==
  /\ Fit(w) /\ UpLine(w, n) /\ Rest(w, q, f.sent) /\ Exact(w, q, f) /\ Ended(w, c)
IInv ==
  /\ mode \in Mode /\ inbound \in Inbound /\ app \in Nat /\ far \in FarEnd
  /\ Safe(tun, app, inbound, far, cause)

-----------------------------------------------------------------------------
(* What the functions on the record do.                                      *)

SameUp(w, x) == x.connected = w.connected /\ x.sendBuf = w.sendBuf /\ x.wire = w.wire
SameDown(w, x) == x.written = w.written /\ x.recvBuf = w.recvBuf /\ x.queue = w.queue
SameClient(w, x) ==
  x.client = w.client /\ x.ackLength = w.ackLength /\ x.unacked = w.unacked

\* x is w after destroy: the buffers and the counts of the client are left.
Ends(w, x) ==
  /\ x \in Tun /\ x.destroyed /\ x.dialing = w.dialing
  /\ SameUp(w, x) /\ SameDown(w, x)
  /\ x.ackLength = w.ackLength /\ x.unacked = w.unacked
  /\ x.reading = w.reading /\ x.closeFuture = w.closeFuture

\* The count of what is owed, without the mark.
Owes(w) == w.client = "open" => w.ackLength = Len(w.recvBuf) + w.unacked

\* The types of the fields.
LEMMA TunNumbers ==
  ASSUME NEW w \in Tun
  PROVE  /\ w.waitConnected \in Nat /\ w.waitAck \in Nat /\ w.credit \in Nat
         /\ w.pushAck \in Nat /\ w.reading \in Nat /\ w.readAck \in Nat
         /\ w.ackLength \in Nat /\ w.unacked \in Nat /\ w.recved \in Nat
         /\ w.frames \in Nat /\ w.acks \in Nat
  BY DEF Tun

\* The types of the sequences.
LEMMA TunSequences ==
  ASSUME NEW w \in Tun
  PROVE  /\ w.sendBuf \in Seq(Nat) /\ w.queue \in Seq(Nat) /\ w.recvBuf \in Seq(Nat)
         /\ w.written \in Seq(Nat) /\ w.wire \in Seq(Nat) /\ w.sends \in Seq(Handler)
  BY DEF Tun

\* Their lengths.
LEMMA TunLengths ==
  ASSUME NEW w \in Tun
  PROVE  /\ Len(w.sendBuf) \in Nat /\ Len(w.queue) \in Nat /\ Len(w.recvBuf) \in Nat
         /\ Len(w.written) \in Nat /\ Len(w.wire) \in Nat /\ Len(w.sends) \in Nat
  BY TunSequences

\* How much was received is a number.
LEMMA GotType ==
  ASSUME NEW w \in Tun
  PROVE  Got(w) \in Nat /\ Got(w) \in Int /\ Len(w.queue) \in Nat /\ Got(w) + Len(w.queue) \in Nat
<1> DEFINE t == Len(w.written)
           b == Len(w.recvBuf)
           q == Len(w.queue)
<1>1. t \in Nat /\ b \in Nat /\ q \in Nat
  BY TunLengths
<1> HIDE DEF t, b, q
<1>2. t + b \in Nat /\ t + b \in Int /\ (t + b) + q \in Nat
  BY <1>1
<1> QED
  BY <1>1, <1>2 DEF Got, t, b, q

\* The smaller of two numbers.
LEMMA MinPair ==
  ASSUME NEW a \in Int, NEW b \in Int
  PROVE  Min({a, b}) \in {a, b} /\ Min({a, b}) <= a /\ Min({a, b}) <= b
<1>1. CASE a <= b
  BY <1>1 DEF Min
<1>2. CASE b <= a
  BY <1>2 DEF Min
<1> QED
  BY <1>1, <1>2

\* destroy cancels what is under way.
LEMMA CancelledEnds ==
  ASSUME NEW w \in Tun
  PROVE  Ends(w, Cancelled(w)) /\ Cancelled(w).client = w.client
<1> DEFINE x == Cancelled(w)
           h == IF mode = "pipeline" THEN w.sends ELSE <<>>
<1>1. x = [w EXCEPT !.destroyed = TRUE, !.waitAck = 0, !.sends = h]
  BY DEF Cancelled
<1>2. h \in Seq(Handler)
  BY DEF Tun
<1> HIDE DEF x, h
<1>3. x \in Tun
  BY <1>1, <1>2 DEF Tun
<1>4. /\ x.destroyed /\ x.dialing = w.dialing /\ SameUp(w, x) /\ SameDown(w, x)
      /\ x.ackLength = w.ackLength /\ x.unacked = w.unacked
      /\ x.reading = w.reading /\ x.closeFuture = w.closeFuture
      /\ x.client = w.client
  BY <1>1 DEF Tun, SameUp, SameDown
<1> QED
  BY <1>3, <1>4 DEF Ends, x

\* The client is released.
LEMMA ReleasedEnds ==
  ASSUME NEW w, NEW x, Ends(w, x), NEW how \in {"closed", "aborted"}
  PROVE  Ends(w, Released(x, how)) /\ Released(x, how).client = how
<1> DEFINE y == Released(x, how)
<1>1. y = [x EXCEPT !.client = how]
  BY DEF Released
<1> HIDE DEF y
<1>2. y \in Tun /\ y.client = how
  BY <1>1 DEF Ends, Tun
<1>3. /\ y.destroyed /\ y.dialing = x.dialing /\ SameUp(x, y) /\ SameDown(x, y)
      /\ y.ackLength = x.ackLength /\ y.unacked = x.unacked
      /\ y.reading = x.reading /\ y.closeFuture = x.closeFuture
  BY <1>1 DEF Ends, Tun, SameUp, SameDown
<1>4. Ends(w, y)
  BY <1>2, <1>3 DEF Ends, SameUp, SameDown
<1> QED
  BY <1>2, <1>4 DEF y

\* destroy closes a client that nothing is owed, and leaves the others alone
\* or aborts them.
LEMMA DestroyEnds ==
  ASSUME NEW w \in Tun
  PROVE  /\ Ends(w, Destroy(w))
         /\ w.destroyed => Destroy(w) = w
         /\ w.client # "open" => Destroy(w).client = w.client
         /\ w.client = "open" /\ Destroy(w).client = "closed" => w.ackLength = 0
<1> DEFINE c == Cancelled(w)
<1>1. Ends(w, c) /\ c.client = w.client /\ c.ackLength = w.ackLength
  BY CancelledEnds DEF Ends
<1>2. CASE w.destroyed
  <2>1. Destroy(w) = w
    BY <1>2 DEF Destroy
  <2>2. Ends(w, w)
    BY <1>2 DEF Ends, SameUp, SameDown
  <2> QED
    BY <1>2, <2>1, <2>2
<1>3. CASE ~w.destroyed
  <2>1. \/ w.client = "open" /\ Destroy(w) = Released(c, "aborted")
        \/ w.client = "open" /\ c.ackLength = 0 /\ Destroy(w) = Released(c, "closed")
        \/ Destroy(w) = c
    BY <1>1, <1>3 DEF Destroy, CloseCallback
  <2> HIDE DEF c
  <2>2. /\ Ends(w, Released(c, "aborted")) /\ Released(c, "aborted").client = "aborted"
        /\ Ends(w, Released(c, "closed")) /\ Released(c, "closed").client = "closed"
    BY <1>1, ReleasedEnds
  <2> QED
    BY <1>1, <1>3, <2>1, <2>2
<1> QED
  BY <1>2, <1>3

\* close_client destroys the session and releases an open client.
LEMMA CloseClientEnds ==
  ASSUME NEW w \in Tun, NEW how \in {"closed", "aborted"}
  PROVE  /\ w.client # "open" => CloseClient(w, how) = w
         /\ w.client = "open" =>
              Ends(w, CloseClient(w, how)) /\ CloseClient(w, how).client = how
<1>1. CASE w.client # "open"
  BY <1>1 DEF CloseClient
<1>2. CASE w.client = "open"
  <2> DEFINE x == [w EXCEPT !.client = how]
             y == Destroy(x)
  <2>1. x \in Tun
    BY DEF Tun
  <2>2. /\ x.destroyed = w.destroyed /\ x.dialing = w.dialing
        /\ SameUp(w, x) /\ SameDown(w, x)
        /\ x.ackLength = w.ackLength /\ x.unacked = w.unacked
        /\ x.reading = w.reading /\ x.closeFuture = w.closeFuture
    BY DEF Tun, SameUp, SameDown
  <2> HIDE DEF x
  <2>3. Ends(x, y)
    BY <2>1, <2>2, DestroyEnds
  <2>4. Ends(w, y)
    BY <2>2, <2>3 DEF Ends, SameUp, SameDown
  <2>5. CloseClient(w, how) = Released(y, how)
    BY <1>2 DEF CloseClient, x
  <2> HIDE DEF y
  <2> QED
    BY <1>2, <2>4, <2>5, ReleasedEnds
<1> QED
  BY <1>1, <1>2

\* A session that ends is fit when it was, or when it was on the way to it.
LEMMA EndsFit ==
  ASSUME NEW w, NEW x, Owes(w), w.closeFuture => mode = "pipeline", Ends(w, x),
         w.dialing => ~w.connected, x.client = "open" => w.client = "open"
  PROVE  Fit(x)
<1>1. Owed(x)
  BY DEF Owes, Owed, Ends, SameDown
<1> QED
  BY <1>1 DEF Core, Credited, Ends, SameUp, Fit

\* destroy and close_client keep a session fit.
LEMMA DestroyFit ==
  ASSUME NEW w, Core(w)
  PROVE  Fit(Destroy(w)) /\ \A how \in {"closed", "aborted"} :
                               w.client = "open" => Fit(CloseClient(w, how))
<1>1. /\ w \in Tun /\ (w.dialing => ~w.connected)
      /\ Owes(w) /\ (w.closeFuture => mode = "pipeline")
  BY DEF Core, Owed, Owes
<1>2. Fit(Destroy(w))
  BY <1>1, DestroyEnds, EndsFit
<1>3. ASSUME NEW how \in {"closed", "aborted"}, w.client = "open"
      PROVE  Fit(CloseClient(w, how))
  BY <1>1, <1>3, CloseClientEnds, EndsFit
<1> QED
  BY <1>2, <1>3

-----------------------------------------------------------------------------
(* Reading, and handing data to lwip.                                        *)

\* The pending handlers after one more is added.
LEMMA MarksAppend ==
  ASSUME NEW w \in Tun, NEW x \in Tun, NEW h \in Handler, x.sends = Append(w.sends, h)
  PROVE  /\ h = "data" => Marks(x) = Marks(w) /\ \A i \in Marks(w) : x.sends[i] = w.sends[i]
         /\ h # "data" => /\ Marks(x) = Marks(w) \cup {Len(w.sends) + 1}
                          /\ x.sends[Len(w.sends) + 1] = h
<1> DEFINE s == w.sends
           n == Len(s)
<1>1. s \in Seq(Handler) /\ n \in Nat
  BY DEF Tun
<1> HIDE DEF s
<1>2. /\ Len(Append(s, h)) = n + 1 /\ Append(s, h)[n + 1] = h
      /\ \A i \in 1..n : Append(s, h)[i] = s[i]
  BY <1>1
<1>3. \A i : i \in 1..(n + 1) <=> i \in 1..n \/ i = n + 1
  BY <1>1
<1>4. n + 1 \notin 1..n
  BY <1>1
<1> HIDE DEF n
<1> QED
  BY <1>2, <1>3, <1>4 DEF Marks, s, n

\* The pending handlers when the next one runs.
LEMMA MarksTail ==
  ASSUME NEW w \in Tun, NEW x \in Tun, w.sends # <<>>, x.sends = Tail(w.sends)
  PROVE  /\ Head(w.sends) # "data" => 1 \in Marks(w)
         /\ Head(w.sends) = w.sends[1]
         /\ \A i \in Marks(x) : i + 1 \in Marks(w) /\ i + 1 # 1 /\ x.sends[i] = w.sends[i + 1]
         /\ \A i \in Marks(w) : i # 1 => i - 1 \in Marks(x)
<1> DEFINE s == w.sends
           n == Len(s)
<1>1. s \in Seq(Handler) /\ n \in Nat
  BY DEF Tun
<1> HIDE DEF s
<1>2. /\ n # 0 /\ Len(Tail(s)) = n - 1 /\ Head(s) = s[1]
      /\ \A i \in 1..(n - 1) : Tail(s)[i] = s[i + 1]
  BY <1>1 DEF s
<1>3. 1 \in 1..n
  BY <1>1, <1>2
<1>4. \A i \in 1..(n - 1) : i + 1 \in 1..n /\ i + 1 # 1
  BY <1>1
<1>5. \A i \in 1..n : i # 1 => i - 1 \in 1..(n - 1) /\ (i - 1) + 1 = i
  BY <1>1
<1> HIDE DEF n
<1>6. Marks(w) = {i \in 1..n : s[i] # "data"}
  BY DEF Marks, s, n
<1>7. Marks(x) = {i \in 1..(n - 1) : s[i + 1] # "data"}
  BY <1>2 DEF Marks, s, n
<1>8. \A i \in Marks(x) : x.sends[i] = s[i + 1]
  BY <1>2, <1>7 DEF s
<1> QED
  BY <1>2, <1>3, <1>4, <1>5, <1>6, <1>7, <1>8 DEF s

\* The next read begins: it is the only link of the chain.
LEMMA TryReadFit ==
  ASSUME NEW w, Core(w), ~w.destroyed => Unlinked(w) /\ w.recvBuf = <<>>
  PROVE  /\ Fit(TryRead(w)) /\ SameUp(w, TryRead(w)) /\ SameDown(w, TryRead(w))
         /\ SameClient(w, TryRead(w))
         /\ TryRead(w).destroyed = w.destroyed /\ (w.destroyed => TryRead(w) = w)
<1>1. CASE w.destroyed
  BY <1>1 DEF TryRead, Fit, SameUp, SameDown, SameClient
<1>2. CASE ~w.destroyed /\ mode = "pipeline"
  <2> DEFINE x == [w EXCEPT !.acks = @ + w.readAck, !.readAck = 0, !.sends = Append(@, "ack")]
  <2>1. TryRead(w) = x
    BY <1>2 DEF TryRead
  <2>2. w \in Tun
    BY DEF Core
  <2>3. x \in Tun
    <3>1. Append(w.sends, "ack") \in Seq(Handler)
      BY <2>2 DEF Tun, Handler
    <3>2. w.acks + w.readAck \in Nat
      BY <2>2, TunNumbers
    <3> QED
      BY <2>2, <3>1, <3>2 DEF Tun
  <2>4. SameUp(w, x) /\ SameDown(w, x) /\ SameClient(w, x) /\ x.destroyed = w.destroyed
    BY <2>2 DEF Tun, SameUp, SameDown, SameClient
  <2>5. /\ x.dialing = w.dialing /\ x.closeFuture = w.closeFuture
        /\ x.asyncWriting = w.asyncWriting /\ x.pushAck = w.pushAck
        /\ x.reading = w.reading /\ x.waiting = w.waiting
    BY <2>2 DEF Tun
  <2>6. x.acks + x.readAck = w.acks + w.readAck
    BY <2>2 DEF Tun
  <2>7. x.sends = Append(w.sends, "ack")
    BY <2>2 DEF Tun
  <2> HIDE DEF x
  <2>8. Core(x)
    <3>1. Owed(x)
      BY <2>4, <2>5 DEF Core, Owed, SameDown, SameClient
    <3>2. w.acks + w.readAck + w.pushAck = Len(w.written) + Len(w.recvBuf) + Len(w.queue)
      BY <1>2 DEF Core, Credited
    <3>3. x.acks + x.readAck + x.pushAck = Len(x.written) + Len(x.recvBuf) + Len(x.queue)
      BY <2>4, <2>5, <2>6, <3>2 DEF SameDown
    <3>4. Credited(x)
      BY <3>3 DEF Credited
    <3> QED
      BY <2>3, <2>4, <2>5, <3>1, <3>4 DEF Core, SameClient, SameUp
  <2>9. Marks(x) = {Len(w.sends) + 1} /\ x.sends[Len(w.sends) + 1] = "ack"
    BY <1>2, <2>2, <2>3, <2>7, MarksAppend DEF Unlinked, Handler
  <2>10. Chain(x)
    BY <1>2, <2>4, <2>5, <2>9 DEF Chain, Unlinked, SameUp, SameDown
  <2> QED
    BY <1>2, <2>1, <2>4, <2>8, <2>10 DEF Fit
<1>3. CASE ~w.destroyed /\ mode # "pipeline"
  <2> DEFINE x == [w EXCEPT !.reading = @ + 1]
  <2>1. TryRead(w) = x
    BY <1>3 DEF TryRead
  <2>2. w \in Tun
    BY DEF Core
  <2>3. x \in Tun
    <3>1. w.reading + 1 \in Nat
      BY <2>2, TunNumbers
    <3> QED
      BY <2>2, <3>1 DEF Tun
  <2>4. SameUp(w, x) /\ SameDown(w, x) /\ SameClient(w, x) /\ x.destroyed = w.destroyed
    BY <2>2 DEF Tun, SameUp, SameDown, SameClient
  <2>5. /\ x.dialing = w.dialing /\ x.closeFuture = w.closeFuture
        /\ x.reading = w.reading + 1 /\ x.waiting = w.waiting /\ x.sends = w.sends
    BY <2>2 DEF Tun
  <2> HIDE DEF x
  <2>6. Core(x)
    BY <1>3, <2>3, <2>4, <2>5 DEF Core, Owed, Credited, SameDown, SameClient, SameUp
  <2>7. Marks(x) = {}
    BY <1>3, <2>5 DEF Marks, Unlinked
  <2>8. x.reading = 1
    BY <1>3, <2>5 DEF Unlinked
  <2>9. x.connected /\ ~x.dialing /\ ~x.waiting /\ x.recvBuf = <<>>
    BY <1>3, <2>4, <2>5 DEF Unlinked, SameUp, SameDown
  <2>10. Chain(x)
    BY <1>3, <2>7, <2>8, <2>9 DEF Chain
  <2> QED
    BY <1>3, <2>1, <2>4, <2>6, <2>10 DEF Fit
<1> QED
  BY <1>1, <1>2, <1>3

\* A run followed by a run that goes on where it ends.
LEMMA RunConcat ==
  ASSUME NEW a \in Seq(Nat), NEW b \in Seq(Nat), NEW n \in Int,
         Run(a, n), Run(b, n + Len(a))
  PROVE  a \o b \in Seq(Nat) /\ Len(a \o b) = Len(a) + Len(b) /\ Run(a \o b, n)
<1>1. /\ a \o b \in Seq(Nat) /\ Len(a \o b) = Len(a) + Len(b)
      /\ Len(a) \in Nat /\ Len(b) \in Nat
  OBVIOUS
<1>2. \A i \in 1..(Len(a) + Len(b)) :
        (a \o b)[i] = IF i <= Len(a) THEN a[i] ELSE b[i - Len(a)]
  OBVIOUS
<1>3. ASSUME NEW i \in 1..(Len(a) + Len(b)) PROVE (a \o b)[i] = n + i
  <2>1. CASE i <= Len(a)
    <3>1. i \in 1..Len(a)
      BY <1>1, <2>1
    <3> QED
      BY <1>2, <2>1, <3>1 DEF Run
  <2>2. CASE ~(i <= Len(a))
    <3>1. i - Len(a) \in 1..Len(b)
      BY <1>1, <2>2
    <3>2. b[i - Len(a)] = (n + Len(a)) + (i - Len(a))
      BY <3>1 DEF Run
    <3>3. (n + Len(a)) + (i - Len(a)) = n + i
      BY <1>1
    <3> QED
      BY <1>2, <2>2, <3>2, <3>3
  <2> QED
    BY <2>1, <2>2
<1> QED
  BY <1>1, <1>3 DEF Run

\* The first k units of a run, and those behind them.
LEMMA RunSplit ==
  ASSUME NEW s \in Seq(Nat), NEW k \in 0..Len(s), NEW n \in Int
  PROVE  /\ SubSeq(s, 1, k) \in Seq(Nat) /\ Len(SubSeq(s, 1, k)) = k
         /\ SubSeq(s, k + 1, Len(s)) \in Seq(Nat)
         /\ Len(SubSeq(s, k + 1, Len(s))) = Len(s) - k
         /\ Run(s, n) => Run(SubSeq(s, 1, k), n) /\ Run(SubSeq(s, k + 1, Len(s)), n + k)
<1>1. /\ SubSeq(s, 1, k) \in Seq(Nat) /\ Len(SubSeq(s, 1, k)) = k
      /\ SubSeq(s, k + 1, Len(s)) \in Seq(Nat)
      /\ Len(SubSeq(s, k + 1, Len(s))) = Len(s) - k
      /\ Len(s) \in Nat
  OBVIOUS
<1>2. \A i \in 1..k : SubSeq(s, 1, k)[i] = s[i] /\ i \in 1..Len(s)
  OBVIOUS
<1>3. \A i \in 1..(Len(s) - k) : SubSeq(s, k + 1, Len(s))[i] = s[k + i] /\ k + i \in 1..Len(s)
  OBVIOUS
<1>4. Run(s, n) => Run(SubSeq(s, 1, k), n)
  BY <1>1, <1>2 DEF Run
<1>5. ASSUME Run(s, n) PROVE Run(SubSeq(s, k + 1, Len(s)), n + k)
  <2>1. ASSUME NEW i \in 1..(Len(s) - k) PROVE SubSeq(s, k + 1, Len(s))[i] = (n + k) + i
    <3>1. s[k + i] = n + (k + i)
      BY <1>3, <1>5 DEF Run
    <3>2. n + (k + i) = (n + k) + i
      BY <1>1
    <3> QED
      BY <1>3, <3>1, <3>2
  <2> QED
    BY <1>1, <2>1 DEF Run
<1> QED
  BY <1>1, <1>4, <1>5

\* Moving the first k units of one run to the end of the run before it.
LEMMA RunMoved ==
  ASSUME NEW a \in Seq(Nat), NEW r \in Seq(Nat), NEW k \in 0..Len(r)
  PROVE  /\ a \o SubSeq(r, 1, k) \in Seq(Nat) /\ Len(a \o SubSeq(r, 1, k)) = Len(a) + k
         /\ SubSeq(r, k + 1, Len(r)) \in Seq(Nat)
         /\ Len(SubSeq(r, k + 1, Len(r))) = Len(r) - k
         /\ Run(a, 0) /\ Run(r, Len(a)) =>
              /\ Run(a \o SubSeq(r, 1, k), 0)
              /\ Run(SubSeq(r, k + 1, Len(r)), Len(a \o SubSeq(r, 1, k)))
<1> DEFINE b == SubSeq(r, 1, k)
           v == SubSeq(r, k + 1, Len(r))
           m == Len(a)
<1>1. m \in Int /\ m \in Nat
  OBVIOUS
<1> HIDE DEF m
<1>2. /\ b \in Seq(Nat) /\ Len(b) = k /\ v \in Seq(Nat) /\ Len(v) = Len(r) - k
      /\ Run(r, m) => Run(b, m) /\ Run(v, m + k)
  BY <1>1, RunSplit
<1> HIDE DEF b, v
<1>3. a \o b \in Seq(Nat) /\ Len(a \o b) = m + k
  <2>1. b \in Seq(Nat)
    BY <1>2
  <2>2. a \o b \in Seq(Nat) /\ Len(a \o b) = Len(a) + Len(b)
    BY <2>1
  <2> QED
    BY <1>2, <2>2 DEF m
<1>4. ASSUME Run(a, 0), Run(r, m) PROVE Run(a \o b, 0) /\ Run(v, Len(a \o b))
  <2>1. m = 0 + Len(a)
    BY <1>1 DEF m
  <2>2. Run(b, 0 + Len(a)) /\ 0 \in Int
    BY <1>2, <1>4, <2>1
  <2>3. Run(a \o b, 0)
    BY <1>2, <1>4, <2>2, RunConcat
  <2> QED
    BY <1>2, <1>3, <1>4, <2>3
<1> QED
  BY <1>2, <1>3, <1>4 DEF b, v, m

\* x is w after some of its data was handed to lwip: what both hold together
\* is the same, and lwip never closes the client for it.
Moves(w, x) ==
  /\ SameUp(w, x) /\ x.queue = w.queue /\ Got(x) = Got(w)
  /\ DownLine(w) => DownLine(x)
  /\ w.destroyed => x.destroyed /\ x.reading = w.reading /\ x.dialing = w.dialing
Hands(w, x) ==
  /\ Moves(w, x)
  /\ x.client = "closed" => w.client = "closed" /\ x.unacked = w.unacked /\ x.recvBuf = w.recvBuf

\* The part of m_recv_buf that lwip took is moved, and the counts with it.
LEMMA ConsumeFit ==
  ASSUME NEW w, Fit(w), w.client = "open", w.recvBuf # <<>>, NEW n \in 0..Len(w.recvBuf)
  PROVE  LET x == Consume([w EXCEPT !.unacked = @ + n,
                                    !.written = @ \o SubSeq(w.recvBuf, 1, n)], n)
         IN  Fit(x) /\ Hands(w, x)
<1> DEFINE r == w.recvBuf
           t == w.written \o SubSeq(r, 1, n)
           v == SubSeq(r, n + 1, Len(r))
           a == [w EXCEPT !.unacked = @ + n, !.written = t]
           d == [a EXCEPT !.recvBuf = SubSeq(@, n + 1, Len(@))]
<1>1. /\ w \in Tun /\ r \in Seq(Nat) /\ w.written \in Seq(Nat) /\ n \in Nat
      /\ Len(r) \in Nat /\ w.unacked \in Nat /\ w.ackLength \in Nat
      /\ Len(w.written) \in Nat /\ n \in 0..Len(r)
  BY TunSequences, TunNumbers, TunLengths DEF Fit, Core
<1>2. d = [w EXCEPT !.unacked = w.unacked + n, !.written = t, !.recvBuf = v]
  BY <1>1 DEF Tun
<1> HIDE DEF r
<1>3. t \in Seq(Nat) /\ Len(t) = Len(w.written) + n /\ v \in Seq(Nat) /\ Len(v) = Len(r) - n
  BY <1>1, RunMoved
<1>4. Run(w.written, 0) /\ Run(r, Len(w.written)) => Run(t, 0) /\ Run(v, Len(t))
  BY <1>1, RunMoved
<1>5. DownLine(w) => Run(t, 0) /\ Run(v, Len(t))
  BY <1>4 DEF DownLine, r
<1>6. w.unacked + n \in Nat
  BY <1>1
<1> HIDE DEF t, v
<1>7. d \in Tun
  <2> HIDE DEF d
  <2> QED
    BY <1>1, <1>2, <1>3, <1>6 DEF Tun
<1>8. /\ SameUp(w, d) /\ d.queue = w.queue /\ d.written = t /\ d.recvBuf = v
      /\ d.unacked = w.unacked + n /\ d.client = w.client /\ d.ackLength = w.ackLength
      /\ d.destroyed = w.destroyed /\ d.dialing = w.dialing /\ d.closeFuture = w.closeFuture
      /\ d.asyncWriting = w.asyncWriting /\ d.pushAck = w.pushAck /\ d.readAck = w.readAck
      /\ d.acks = w.acks /\ d.reading = w.reading /\ d.waiting = w.waiting
      /\ d.sends = w.sends
  <2> HIDE DEF d
  <2> QED
    BY <1>1, <1>2 DEF Tun, SameUp
<1> HIDE DEF d, a
<1>9. Len(d.written) + Len(d.recvBuf) = Len(w.written) + Len(w.recvBuf)
  <2>1. (Len(w.written) + n) + (Len(r) - n) = Len(w.written) + Len(r)
    BY <1>1
  <2> QED
    BY <1>3, <1>8, <2>1 DEF r
<1>10. Core(d)
  <2>1. w.ackLength = Len(r) + w.unacked
    BY DEF Fit, Core, Owed, r
  <2>2. Len(r) + w.unacked = (Len(r) - n) + (w.unacked + n)
    BY <1>1
  <2>3. d.ackLength = Len(d.recvBuf) + d.unacked
    BY <1>3, <1>8, <2>1, <2>2
  <2>4. Owed(d)
    BY <1>8, <2>3 DEF Fit, Core, Owed
  <2>5. Credited(d)
    BY <1>8, <1>9 DEF Fit, Core, Credited
  <2> QED
    BY <1>7, <1>8, <2>4, <2>5 DEF Fit, Core, SameUp
<1>11. Hands(w, d)
  <2>1. Got(d) = Got(w)
    BY <1>9 DEF Got
  <2>2. DownLine(w) => DownLine(d)
    BY <1>5, <1>8 DEF DownLine
  <2> QED
    BY <1>8, <2>1, <2>2 DEF Hands, Moves
<1>12. ~d.destroyed => Unlinked(d)
  <2> SUFFICES ASSUME ~d.destroyed PROVE Unlinked(d)
    OBVIOUS
  <2>1. Chain(w)
    BY <1>8 DEF Fit
  <2>2. Marks(d) = Marks(w)
    BY <1>8 DEF Marks
  <2>3. Marks(w) = {} /\ w.reading = 0 /\ ~w.waiting /\ w.connected /\ ~w.dialing
    BY <2>1 DEF Chain
  <2> QED
    BY <1>8, <2>2, <2>3 DEF Unlinked, SameUp
<1> DEFINE x == Consume([w EXCEPT !.unacked = @ + n,
                                  !.written = @ \o SubSeq(w.recvBuf, 1, n)], n)
<1>13. x = IF d.recvBuf = <<>> THEN TryRead(d) ELSE d
  BY DEF Consume, a, d, t, r
<1> HIDE DEF x
<1>14. Fit(x) /\ Hands(w, x)
  <2>1. CASE d.recvBuf = <<>>
    <3>1. /\ Fit(x) /\ SameUp(d, x) /\ SameDown(d, x) /\ SameClient(d, x)
          /\ x.destroyed = d.destroyed /\ (d.destroyed => x = d)
      BY <1>10, <1>12, <1>13, <2>1, TryReadFit
    <3>2. Hands(w, x)
      BY <1>11, <1>8, <3>1 DEF Hands, Moves, SameUp, SameDown, SameClient, Got, DownLine
    <3> QED
      BY <3>1, <3>2
  <2>2. CASE d.recvBuf # <<>>
    <3>1. ~d.destroyed => Chain(d)
      BY <1>12, <2>2 DEF Chain, Unlinked
    <3> QED
      BY <1>10, <1>11, <1>13, <2>2, <3>1 DEF Fit
  <2> QED
    BY <2>1, <2>2
<1> QED
  BY <1>14 DEF x

\* client_socks_recv_send_out keeps a session fit, whatever lwip answers.
LEMMA SendOutFit ==
  ASSUME NEW w, Fit(w), NEW n \in TcpWrite(w)
  PROVE  Fit(SendOut(w, n)) /\ Hands(w, SendOut(w, n))
<1>1. /\ w \in Tun /\ Core(w) /\ (w.dialing => ~w.connected)
      /\ Len(w.recvBuf) \in Int /\ w.unacked \in Int /\ SndBuf \in Int
  BY TunLengths, TunNumbers, BoundsAssumption DEF Fit, Core
<1>2. CASE w.client # "open" \/ w.recvBuf = <<>>
  <2>1. SendOut(w, n) = w
    BY <1>2 DEF SendOut
  <2> QED
    BY <2>1 DEF Hands, Moves, SameUp
<1>3. CASE w.client = "open" /\ w.recvBuf # <<>> /\ n < 0
  <2> DEFINE x == CloseClient(w, "aborted")
  <2>1. SendOut(w, n) = x
    BY <1>3 DEF SendOut
  <2>2. Ends(w, x) /\ x.client = "aborted"
    BY <1>1, <1>3, CloseClientEnds
  <2>3. Fit(x)
    BY <1>1, <1>3, DestroyFit
  <2> HIDE DEF x
  <2>4. Hands(w, x)
    BY <2>2 DEF Ends, Hands, Moves, SameDown, Got, DownLine
  <2> QED
    BY <2>1, <2>3, <2>4
<1>4. CASE w.client = "open" /\ w.recvBuf # <<>> /\ ~(n < 0)
  <2>1. SendOut(w, n) = Consume([w EXCEPT !.unacked = @ + n,
                                          !.written = @ \o SubSeq(w.recvBuf, 1, n)], n)
    BY <1>4 DEF SendOut
  <2>2. SndBuf - w.unacked \in Int
    BY <1>1
  <2> DEFINE m == Min({Len(w.recvBuf), SndBuf - w.unacked})
  <2>3. m \in {Len(w.recvBuf), SndBuf - w.unacked} /\ m <= Len(w.recvBuf)
    BY <1>1, <2>2, MinPair
  <2>4. n = m \/ n = -1 \/ n = 0
    BY DEF TcpWrite
  <2> HIDE DEF m
  <2>5. m \in Int
    BY <1>1, <2>2, <2>3
  <2>6. Len(w.recvBuf) \in Nat
    BY <1>1, TunLengths
  <2>7. n \in 0..Len(w.recvBuf)
    BY <1>4, <2>3, <2>4, <2>5, <2>6
  <2> QED
    BY <1>4, <2>1, <2>7, ConsumeFit
<1> QED
  BY <1>2, <1>3, <1>4

\* All of Core but the credit.
Sound(w) ==
  /\ w \in Tun /\ Owed(w)
  /\ w.dialing => ~w.connected
  /\ w.client # "open" => w.destroyed
  /\ w.closeFuture => mode = "pipeline"

\* The credit with that of data which is about to be taken.
CreditWith(w, acks, data) ==
  (mode = "pipeline" /\ ~w.destroyed) =>
     w.acks + w.readAck + w.pushAck + acks
       = Len(w.written) + Len(w.recvBuf) + Len(w.queue) + Len(data)

\* A live session that is about to take data has no link of its chain.
Loose(w) == ~w.destroyed => Unlinked(w)

\* x is w with more data, in the buffer or at lwip.
Takes(w, x, data) ==
  /\ SameUp(w, x) /\ x.queue = w.queue /\ Got(x) = Got(w) + Len(data)
  /\ DownLine(w) /\ Run(data, Got(w)) => DownLine(x)
  /\ w.destroyed => x.destroyed /\ x.reading = w.reading
  /\ x.client = "closed" => w.client = "closed"

\* The read handler counts what it puts into m_recv_buf.
LEMMA TakeFit ==
  ASSUME NEW w, Sound(w), NEW data \in Seq(Nat), data # <<>>, NEW acks \in Nat,
         CreditWith(w, acks, data), Loose(w)
  PROVE  Fit(Take(w, data, acks)) /\ Takes(w, Take(w, data, acks), data)
<1> DEFINE x == Take(w, data, acks)
           r == w.recvBuf \o data
           n == Len(data)
           l == w.ackLength + n
           k == w.readAck + acks
           p == mode = "pipeline"
<1>1. x = [w EXCEPT !.readAck = k, !.recvBuf = r, !.ackLength = l, !.asyncWriting = p]
  BY DEF Take
<1>2. w \in Tun
  BY DEF Sound
<1>3. /\ w.acks \in Nat /\ w.readAck \in Nat /\ w.pushAck \in Nat /\ w.unacked \in Nat
      /\ w.ackLength \in Nat /\ Len(w.written) \in Nat /\ Len(w.recvBuf) \in Nat
      /\ Len(w.queue) \in Nat
  BY <1>2, TunNumbers, TunLengths
<1>4. n \in Nat /\ n > 0
  OBVIOUS
<1>5. w.recvBuf \in Seq(Nat) /\ w.written \in Seq(Nat)
  BY <1>2, TunSequences
<1>6. r \in Seq(Nat) /\ Len(r) = Len(w.recvBuf) + n
  BY <1>5
<1> HIDE DEF n
<1>7. l \in Nat /\ k \in Nat
  BY <1>3, <1>4
<1>8. p \in BOOLEAN
  OBVIOUS
<1> HIDE DEF x, r, p
<1>9. x \in Tun
  <2> HIDE DEF l, k
  <2> QED
    BY <1>1, <1>2, <1>6, <1>7, <1>8 DEF Tun
<1>10. /\ x.readAck = k /\ x.recvBuf = r /\ x.ackLength = l /\ x.asyncWriting = p
       /\ SameUp(w, x) /\ x.written = w.written /\ x.queue = w.queue
       /\ x.client = w.client /\ x.unacked = w.unacked /\ x.destroyed = w.destroyed
       /\ x.dialing = w.dialing /\ x.closeFuture = w.closeFuture
       /\ x.acks = w.acks /\ x.pushAck = w.pushAck
       /\ x.reading = w.reading /\ x.waiting = w.waiting /\ x.sends = w.sends
  <2> HIDE DEF l, k
  <2> QED
    BY <1>1, <1>2 DEF Tun, SameUp
<1>11. Owed(x)
  <2> SUFFICES ASSUME x.client = "open"
               PROVE  /\ x.ackLength = Len(x.recvBuf) + x.unacked
                      /\ p => (x.asyncWriting <=> x.ackLength > 0)
    BY DEF Owed, p
  <2>1. w.ackLength = Len(w.recvBuf) + w.unacked
    BY <1>10 DEF Sound, Owed
  <2>2. l = (Len(w.recvBuf) + n) + w.unacked
    BY <1>3, <1>4, <2>1
  <2>3. x.ackLength = Len(x.recvBuf) + x.unacked
    BY <1>6, <1>10, <2>2
  <2>4. l > 0
    BY <1>3, <1>4
  <2>5. x.ackLength > 0
    BY <1>10, <2>4
  <2> HIDE DEF l
  <2>6. p => x.asyncWriting
    BY <1>10
  <2> QED
    BY <2>3, <2>5, <2>6
<1>12. Credited(x)
  <2> SUFFICES ASSUME mode = "pipeline", ~x.destroyed
               PROVE  x.acks + x.readAck + x.pushAck
                        = Len(x.written) + Len(x.recvBuf) + Len(x.queue)
    BY DEF Credited
  <2>1. w.acks + w.readAck + w.pushAck + acks
              = Len(w.written) + Len(w.recvBuf) + Len(w.queue) + n
    BY <1>10 DEF CreditWith, n
  <2> DEFINE t == Len(w.written)
             b == Len(w.recvBuf)
             q == Len(w.queue)
  <2>2. t \in Nat /\ b \in Nat /\ q \in Nat /\ w.acks + w.readAck + w.pushAck + acks = t + b + q + n
    BY <1>3, <2>1
  <2> HIDE DEF t, b, q
  <2>3. w.acks + k + w.pushAck = t + (b + n) + q
    BY <1>3, <1>4, <2>2
  <2> QED
    BY <1>6, <1>10, <2>3 DEF t, b, q
<1>13. ~x.destroyed => Chain(x)
  <2> SUFFICES ASSUME ~x.destroyed PROVE Chain(x)
    OBVIOUS
  <2>1. Unlinked(w)
    BY <1>10 DEF Loose
  <2>2. r # <<>>
    BY <1>3, <1>4, <1>6
  <2>3. Marks(x) = {}
    BY <1>10, <2>1 DEF Marks, Unlinked
  <2>4. x.connected /\ ~x.dialing /\ x.reading = 0 /\ ~x.waiting /\ x.recvBuf # <<>>
    BY <1>10, <2>1, <2>2 DEF Unlinked, SameUp
  <2> QED
    BY <2>3, <2>4 DEF Chain
<1>14. Fit(x)
  BY <1>9, <1>10, <1>11, <1>12, <1>13 DEF Fit, Core, Sound, SameUp
<1>15. Got(x) = Got(w) + n
  <2> DEFINE t == Len(w.written)
             b == Len(w.recvBuf)
  <2>1. t \in Nat /\ b \in Nat
    BY <1>3
  <2> HIDE DEF t, b
  <2>2. (t + b) + n = t + (b + n)
    BY <1>4, <2>1
  <2> QED
    BY <1>6, <1>10, <2>2 DEF Got, t, b
<1>16. DownLine(w) /\ Run(data, Got(w)) => DownLine(x)
  <2> SUFFICES ASSUME DownLine(w), Run(data, Got(w)) PROVE DownLine(x)
    OBVIOUS
  <2>1. Len(w.written) \in Int
    BY <1>3
  <2>2. Run(w.recvBuf, Len(w.written)) /\ Run(data, Len(w.written) + Len(w.recvBuf))
    BY DEF DownLine, Got
  <2>3. Run(r, Len(w.written))
    BY <1>5, <2>1, <2>2, RunConcat DEF r
  <2> QED
    BY <1>10, <2>3 DEF DownLine
<1>17. Takes(w, x, data)
  BY <1>10, <1>15, <1>16 DEF Takes, n
<1> QED
  BY <1>14, <1>17 DEF x

\* Data is received and handed to lwip.
LEMMA ReceivedFit ==
  ASSUME NEW w, Sound(w), NEW data \in Seq(Nat), data # <<>>, NEW acks \in Nat,
         CreditWith(w, acks, data), Loose(w),
         NEW y \in Received(w, data, acks)
  PROVE  Fit(y) /\ Takes(w, y, data)
<1> DEFINE x == Take(w, data, acks)
<1>1. Fit(x) /\ Takes(w, x, data)
  BY TakeFit
<1>2. PICK n \in TcpWrite(x) : y = SendOut(x, n)
  BY DEF Received
<1> HIDE DEF x
<1>3. Fit(y) /\ Hands(x, y)
  BY <1>1, <1>2, SendOutFit
<1>4. Takes(w, y, data)
  BY <1>1, <1>3 DEF Takes, Hands, Moves, SameUp
<1> QED
  BY <1>3, <1>4

\* x is w after data went on from the data cache.
Passes(w, x) ==
  /\ SameUp(w, x) /\ Got(x) + Len(x.queue) = Got(w) + Len(w.queue)
  /\ DownLine(w) /\ Run(w.queue, Got(w)) => DownLine(x) /\ Run(x.queue, Got(x))
  /\ x.client # "closed"

\* A session whose next read begins.
Begins(w) == Core(w) /\ ~w.destroyed /\ Unlinked(w) /\ w.recvBuf = <<>>

\* Nothing is held at all.
LEMMA RunEmpty == \A n : Run(<<>>, n)
  BY DEF Run

\* A read of the data cache takes all of it, or waits.
LEMMA CacheReadFit ==
  ASSUME NEW w, Begins(w), mode = "pipeline", NEW x \in CacheRead(w)
  PROVE  Fit(x) /\ Passes(w, x)
<1>1. w \in Tun /\ Core(w) /\ ~w.destroyed /\ w.client = "open"
  BY DEF Begins, Core
<1>2. CASE w.queue = <<>>
  <2>1. x = [w EXCEPT !.waiting = TRUE]
    BY <1>2 DEF CacheRead
  <2>2. x \in Tun
    BY <1>1, <2>1 DEF Tun
  <2>3. SameUp(w, x) /\ SameDown(w, x) /\ SameClient(w, x)
    BY <1>1, <2>1 DEF Tun, SameUp, SameDown, SameClient
  <2>4. /\ x.dialing = w.dialing /\ x.destroyed = w.destroyed /\ x.closeFuture = w.closeFuture
        /\ x.asyncWriting = w.asyncWriting /\ x.acks = w.acks /\ x.readAck = w.readAck
        /\ x.pushAck = w.pushAck /\ x.reading = w.reading /\ x.waiting /\ x.sends = w.sends
    BY <1>1, <2>1 DEF Tun
  <2>5. Owed(x)
    BY <1>1, <2>3, <2>4 DEF Core, Owed, SameDown, SameClient
  <2>6. Credited(x)
    BY <1>1, <2>3, <2>4 DEF Core, Credited, SameDown
  <2>7. Core(x)
    BY <1>1, <2>2, <2>3, <2>4, <2>5, <2>6 DEF Core, SameClient, SameUp
  <2>8. Marks(x) = {}
    BY <2>4 DEF Marks, Begins, Unlinked
  <2>9. x.connected /\ ~x.dialing /\ x.recvBuf = <<>> /\ x.queue = <<>> /\ x.reading = 0
    BY <1>2, <2>3, <2>4 DEF SameUp, SameDown, Begins, Unlinked
  <2>10. Chain(x)
    BY <2>4, <2>8, <2>9 DEF Chain
  <2>11. Passes(w, x)
    BY <1>1, <2>3 DEF Passes, SameDown, SameClient, Got, DownLine
  <2> QED
    BY <2>7, <2>10, <2>11 DEF Fit
<1>3. CASE w.queue # <<>>
  <2> DEFINE v == [w EXCEPT !.queue = <<>>, !.pushAck = 0]
             q == w.queue
  <2>1. x \in Received(v, q, w.pushAck)
    BY <1>3 DEF CacheRead
  <2>2. <<>> \in Seq(Nat) /\ 0 \in Nat
    OBVIOUS
  <2>3. v \in Tun
    BY <1>1, <2>2 DEF Tun
  <2>4. /\ SameUp(w, v) /\ v.written = w.written /\ v.recvBuf = w.recvBuf /\ v.queue = <<>>
        /\ SameClient(w, v) /\ v.pushAck = 0 /\ v.acks = w.acks /\ v.readAck = w.readAck
        /\ v.dialing = w.dialing /\ v.destroyed = w.destroyed /\ v.closeFuture = w.closeFuture
        /\ v.asyncWriting = w.asyncWriting /\ v.reading = w.reading /\ v.waiting = w.waiting
        /\ v.sends = w.sends
    BY <1>1 DEF Tun, SameUp, SameClient
  <2>5. q \in Seq(Nat) /\ w.pushAck \in Nat
    BY <1>1, TunSequences, TunNumbers
  <2> HIDE DEF v, q
  <2>6. Owed(v)
    BY <1>1, <2>4 DEF Core, Owed, SameClient
  <2>7. Sound(v)
    BY <1>1, <2>3, <2>4, <2>6 DEF Sound, Core, SameClient, SameUp
  <2>8. CreditWith(v, w.pushAck, q)
    <3> DEFINE t == Len(w.written)
               b == Len(w.recvBuf)
               n == Len(q)
    <3>1. t \in Nat /\ b \in Nat /\ n \in Nat /\ w.acks \in Nat /\ w.readAck \in Nat
      BY <1>1, <2>5, TunLengths, TunNumbers
    <3>2. w.acks + w.readAck + w.pushAck = t + b + n
      BY <1>1 DEF Core, Credited, q
    <3>3. Len(<<>>) = 0
      OBVIOUS
    <3> HIDE DEF t, b, n
    <3>4. w.acks + w.readAck + 0 + w.pushAck = t + b + 0 + n
      BY <2>5, <3>1, <3>2
    <3>5. v.acks + v.readAck + v.pushAck + w.pushAck
            = Len(v.written) + Len(v.recvBuf) + Len(v.queue) + Len(q)
      BY <2>4, <3>3, <3>4 DEF t, b, n
    <3> QED
      BY <3>5 DEF CreditWith
  <2>9. Loose(v)
    <3>1. Marks(v) = Marks(w)
      BY <2>4 DEF Marks
    <3> QED
      BY <2>4, <3>1 DEF Loose, Begins, Unlinked, SameUp
  <2>10. Fit(x) /\ Takes(v, x, q)
    BY <1>3, <2>1, <2>5, <2>7, <2>8, <2>9, ReceivedFit DEF q
  <2>11. Got(v) = Got(w)
    BY <2>4 DEF Got
  <2>12. /\ SameUp(w, x) /\ x.queue = <<>> /\ Got(x) = Got(w) + Len(q) /\ x.client # "closed"
    BY <1>1, <2>4, <2>10, <2>11 DEF Takes, SameUp, SameClient
  <2>13. DownLine(w) /\ Run(q, Got(w)) => DownLine(x)
    BY <2>4, <2>10, <2>11 DEF Takes, DownLine
  <2>14. Got(x) \in Nat
    <3>1. x \in Tun
      BY <2>10 DEF Fit, Core
    <3> QED
      BY <3>1, GotType
  <2>15. Got(x) + Len(x.queue) = Got(x)
    <3>1. Len(<<>>) = 0
      OBVIOUS
    <3>2. \A n \in Nat : n + 0 = n
      OBVIOUS
    <3> QED
      BY <2>12, <2>14, <3>1, <3>2
  <2> QED
    BY <2>10, <2>12, <2>13, <2>15, RunEmpty DEF Passes, q
<1> QED
  BY <1>2, <1>3

\* out_async_read of either session.
LEMMA OutAsyncReadFit ==
  ASSUME NEW w, Begins(w), NEW x \in OutAsyncRead(w)
  PROVE  Fit(x) /\ Passes(w, x) /\ (mode # "pipeline" => SameDown(w, x))
<1>1. CASE mode = "pipeline"
  BY <1>1, CacheReadFit DEF OutAsyncRead
<1>2. CASE mode # "pipeline"
  <2>1. x = TryRead(w)
    BY <1>2 DEF OutAsyncRead, TryRead, Begins
  <2>2. Fit(x) /\ SameUp(w, x) /\ SameDown(w, x) /\ SameClient(w, x)
    BY <2>1, TryReadFit DEF Begins
  <2>3. w.client = "open"
    BY DEF Begins, Core
  <2>4. Passes(w, x)
    BY <2>2, <2>3 DEF Passes, SameDown, SameClient, Got, DownLine
  <2> QED
    BY <2>2, <2>4
<1> QED
  BY <1>1, <1>2

-----------------------------------------------------------------------------
(* The handlers, on the record.                                              *)

\* x is w but for numbers and handlers that no other part of the record
\* depends on.
Alike(w, x) ==
  /\ x \in Tun /\ SameUp(w, x) /\ SameDown(w, x) /\ SameClient(w, x)
  /\ x.destroyed = w.destroyed /\ x.dialing = w.dialing /\ x.closeFuture = w.closeFuture
  /\ x.asyncWriting = w.asyncWriting
  /\ x.acks = w.acks /\ x.readAck = w.readAck /\ x.pushAck = w.pushAck
  /\ x.reading = w.reading /\ x.waiting = w.waiting

\* The counts are kept, and the chain when the pending handlers are.
LEMMA AlikeCore ==
  ASSUME NEW w, NEW x, Core(w), Alike(w, x)
  PROVE  Core(x) /\ (Marks(x) = {} /\ Unlinked(w) => Unlinked(x))
<1>1. Owed(x)
  BY DEF Core, Owed, Alike, SameDown, SameClient
<1>2. Credited(x)
  BY DEF Core, Credited, Alike, SameDown
<1>3. Core(x)
  BY <1>1, <1>2 DEF Core, Alike, SameClient, SameUp
<1> QED
  BY <1>3 DEF Alike, Unlinked, SameUp

\* The same pending handlers, or the same but for those of data.
LEMMA AlikeFit ==
  ASSUME NEW w, NEW x, Fit(w), Alike(w, x), Marks(x) = Marks(w),
         \A i \in Marks(w) : x.sends[i] = w.sends[i]
  PROVE  Fit(x)
<1>1. Core(x)
  BY AlikeCore DEF Fit
<1>2. ASSUME Chain(w) PROVE Chain(x)
  BY <1>2 DEF Chain, Alike, SameUp, SameDown
<1> QED
  BY <1>1, <1>2 DEF Fit, Alike

\* The next sent handler is taken out.
LEMMA PopAlike ==
  ASSUME NEW w \in Tun, w.sends # <<>>
  PROVE  LET x == [w EXCEPT !.sends = Tail(@)]
         IN  Alike(w, x) /\ x.sends = Tail(w.sends)
<1> DEFINE x == [w EXCEPT !.sends = Tail(@)]
<1>1. w.sends \in Seq(Handler)
  BY TunSequences
<1>2. Tail(w.sends) \in Seq(Handler)
  BY <1>1
<1>3. x \in Tun
  BY <1>2 DEF Tun
<1>4. Alike(w, x) /\ x.sends = Tail(w.sends)
  BY <1>3 DEF Alike, Tun, SameUp, SameDown, SameClient
<1> QED
  BY <1>4

\* The handler of client data gives credit and room back, or waits.
LEMMA RecvedAlike ==
  ASSUME NEW w \in Tun, NEW n \in Nat
  PROVE  Alike(w, Recved(w, n)) /\ Recved(w, n).sends = w.sends
<1> DEFINE r == IF w.client = "open" THEN w.recved + n ELSE w.recved
           x == [w EXCEPT !.recved = r]
<1>1. Recved(w, n) = x
  BY DEF Recved
<1>2. r \in Nat
  <2>1. w.recved \in Nat
    BY TunNumbers
  <2> QED
    BY <2>1
<1> HIDE DEF r
<1>3. x \in Tun
  BY <1>2 DEF Tun
<1>4. Alike(w, x) /\ x.sends = w.sends
  BY <1>3 DEF Alike, Tun, SameUp, SameDown, SameClient
<1> QED
  BY <1>1, <1>4

\* Being alike composes.
LEMMA AlikeTransitive ==
  ASSUME NEW w, NEW x, NEW y, Alike(w, x), Alike(x, y)
  PROVE  Alike(w, y)
  BY DEF Alike, SameUp, SameDown, SameClient

\* The sent handler of a DATA frame.
LEMMA DataSentAlike ==
  ASSUME NEW w \in Tun
  PROVE  Alike(w, DataSent(w)) /\ DataSent(w).sends = w.sends
<1>1. w.waitAck \in Nat /\ w.credit \in Nat
  BY TunNumbers
<1>2. CASE mode = "pipeline" /\ w.credit = 0
  <2> DEFINE x == [w EXCEPT !.waitAck = @ + 1]
  <2>1. DataSent(w) = x
    BY <1>2 DEF DataSent
  <2>2. w.waitAck + 1 \in Nat
    BY <1>1
  <2>3. x \in Tun
    BY <2>2 DEF Tun
  <2>4. Alike(w, x) /\ x.sends = w.sends
    BY <2>3 DEF Alike, Tun, SameUp, SameDown, SameClient
  <2> QED
    BY <2>1, <2>4
<1>3. CASE ~(mode = "pipeline" /\ w.credit = 0)
  <2> DEFINE c == IF mode = "pipeline" THEN w.credit - 1 ELSE w.credit
             x == [w EXCEPT !.credit = c]
  <2>1. DataSent(w) = Recved(x, 1)
    BY <1>3 DEF DataSent
  <2>2. c \in Nat
    BY <1>1, <1>3
  <2> HIDE DEF c
  <2>3. x \in Tun
    BY <2>2 DEF Tun
  <2>4. Alike(w, x) /\ x.sends = w.sends
    BY <2>3 DEF Alike, Tun, SameUp, SameDown, SameClient
  <2> HIDE DEF x
  <2>5. Alike(x, Recved(x, 1)) /\ Recved(x, 1).sends = x.sends
    BY <2>3, RecvedAlike
  <2> QED
    BY <2>1, <2>4, <2>5, AlikeTransitive
<1> QED
  BY <1>2, <1>3

\* recv_ack_cmd
LEMMA RecvAckAlike ==
  ASSUME NEW w \in Tun
  PROVE  Alike(w, RecvAckCmd(w)) /\ RecvAckCmd(w).sends = w.sends
<1> DEFINE c == w.credit + 1
           d == [w EXCEPT !.credit = c]
<1>1. w.waitAck \in Nat /\ c \in Nat
  <2>1. w.waitAck \in Nat /\ w.credit \in Nat
    BY TunNumbers
  <2> QED
    BY <2>1
<1> HIDE DEF c
<1>2. d \in Tun
  BY <1>1 DEF Tun
<1>3. Alike(w, d) /\ d.sends = w.sends /\ d.waitAck = w.waitAck
  BY <1>2 DEF Alike, Tun, SameUp, SameDown, SameClient
<1>4. CASE w.waitAck > 0
  <2> DEFINE a == w.waitAck - 1
             e == [d EXCEPT !.waitAck = @ - 1]
  <2>1. RecvAckCmd(w) = Recved(e, 1)
    BY <1>4 DEF RecvAckCmd, c
  <2>2. e = [d EXCEPT !.waitAck = a]
    BY <1>3
  <2>3. a \in Nat
    BY <1>1, <1>4
  <2> HIDE DEF a, d, e
  <2>4. e \in Tun
    BY <1>2, <2>2, <2>3 DEF Tun
  <2>5. Alike(d, e) /\ e.sends = d.sends
    BY <1>2, <2>2, <2>4 DEF Alike, Tun, SameUp, SameDown, SameClient
  <2>6. Alike(e, Recved(e, 1)) /\ Recved(e, 1).sends = e.sends
    BY <2>4, RecvedAlike
  <2> QED
    BY <1>3, <2>1, <2>5, <2>6, AlikeTransitive
<1>5. CASE ~(w.waitAck > 0)
  <2>1. RecvAckCmd(w) = d
    BY <1>5 DEF RecvAckCmd, c
  <2> QED
    BY <1>3, <2>1
<1> QED
  BY <1>4, <1>5

-----------------------------------------------------------------------------
(* The streams under a step.                                                 *)

\* What goes to the far end is not touched.
LEMMA UpSame ==
  ASSUME NEW w, NEW x, NEW n, SameUp(w, x), UpLine(w, n), w.destroyed => x.destroyed
  PROVE  UpLine(x, n)
  BY DEF SameUp, UpLine

\* What a destroyed session no longer takes.
LEMMA UpGrow ==
  ASSUME NEW w \in Tun, NEW n \in Nat, UpLine(w, n), w.destroyed
  PROVE  UpLine(w, n + 1)
<1> DEFINE t == Len(w.wire)
<1>1. t \in Nat /\ Offset \in Nat
  BY TunLengths DEF Offset
<1>2. w.connected => t <= Offset + n
  BY DEF UpLine
<1> HIDE DEF t
<1>3. w.connected => t <= Offset + (n + 1)
  BY <1>1, <1>2
<1> QED
  BY <1>3 DEF UpLine, t

\* What comes from the far end is not touched.
LEMMA RestSame ==
  ASSUME NEW w, NEW x, NEW q, NEW f, SameDown(w, x), w.destroyed => x.destroyed,
         Rest(w, q, f.sent), Exact(w, q, f)
  PROVE  Rest(x, q, f.sent) /\ Exact(x, q, f)
<1>1. Got(x) = Got(w) /\ DownLine(w) = DownLine(x) /\ x.queue = w.queue
  BY DEF SameDown, Got, DownLine
<1> QED
  BY <1>1 DEF Rest, Exact

\* Some of it is handed to lwip.
LEMMA RestMoves ==
  ASSUME NEW w, NEW x, NEW q, NEW f, Moves(w, x),
         Rest(w, q, f.sent), Exact(w, q, f)
  PROVE  Rest(x, q, f.sent) /\ Exact(x, q, f)
<1>1. /\ Got(x) = Got(w) /\ DownLine(x) /\ x.queue = w.queue
      /\ w.destroyed => x.destroyed
  BY DEF Moves, Rest
<1> QED
  BY <1>1 DEF Rest, Exact

\* The data cache is read.
LEMMA RestPasses ==
  ASSUME NEW w \in Tun, NEW x \in Tun, NEW q, NEW f, f.sent \in Nat,
         ~w.destroyed, Passes(w, x), mode # "pipeline" => SameDown(w, x),
         Rest(w, q, f.sent), Exact(w, q, f)
  PROVE  Rest(x, q, f.sent) /\ Exact(x, q, f)
<1>1. CASE mode # "pipeline"
  BY <1>1, RestSame
<1>2. CASE mode = "pipeline"
  <2>1. DownLine(x) /\ Run(x.queue, Got(x)) /\ FrameLine(q, Got(w) + Len(w.queue), f.sent)
    BY <1>2 DEF Passes, Rest
  <2>2. FrameLine(q, Got(x) + Len(x.queue), f.sent)
    BY <2>1 DEF Passes
  <2> DEFINE g == Got(x)
             l == Len(x.queue)
  <2>3. g \in Nat /\ l \in Nat
    BY GotType
  <2>4. g + l <= f.sent
    BY <2>2 DEF FrameLine
  <2> HIDE DEF g, l
  <2>5. g <= f.sent
    BY <2>3, <2>4
  <2> QED
    BY <1>2, <2>1, <2>2, <2>5 DEF Rest, Exact, g
<1> QED
  BY <1>1, <1>2

\* A client that was closed in the ordinary way has nothing left to send.
Quiet(w) == w.client = "closed" => w.unacked = 0 /\ w.recvBuf = <<>>

\* Why the connection ended stays true: a session that ends by the close of
\* the far end is quiet, and so it stays.
LEMMA EndedKept ==
  ASSUME NEW x, NEW c, Ended(tun, cause), Becomes(x, c),
         tun.destroyed /\ cause = "eof" =>
           /\ x.destroyed /\ Quiet(x)
           /\ mode # "pipeline" /\ tun.reading = 0 => x.reading = 0
           /\ mode # "pipeline" /\ ~tun.dialing => ~x.dialing,
         c = "eof" /\ x.destroyed /\ ~tun.destroyed =>
           Quiet(x) /\ (mode # "pipeline" => x.reading = 0 /\ ~x.dialing)
  PROVE  Ended(x, cause')
  BY DEF Ended, Becomes, Quiet

\* The frames of a sequence.
LEMMA FramesType ==
  ASSUME NEW q \in Inbound
  PROVE  \A i \in 1..Len(q) : q[i].unit \in Nat
<1>1. \A i \in 1..Len(q) : q[i] \in Frame
  BY DEF Inbound
<1> QED
  BY <1>1 DEF Frame
\* A sequence with one more frame.
LEMMA FramesAppend ==
  ASSUME NEW q \in Inbound, NEW e \in Frame
  PROVE  /\ Append(q, e) \in Inbound /\ Len(Append(q, e)) = Len(q) + 1
         /\ Len(q) \in Nat
         /\ DOMAIN q = 1..Len(q) /\ DOMAIN Append(q, e) = 1..(Len(q) + 1)
         /\ \A i \in DOMAIN q : Append(q, e)[i] = q[i]
         /\ Append(q, e)[Len(q) + 1] = e
  BY DEF Inbound
\* A sequence without its first frame.
LEMMA FramesTail ==
  ASSUME NEW q \in Inbound, q # <<>>
  PROVE  /\ Tail(q) \in Inbound /\ Len(Tail(q)) = Len(q) - 1
         /\ Len(q) \in Nat /\ Len(q) > 0 /\ Head(q) = q[1]
         /\ DOMAIN q = 1..Len(q) /\ DOMAIN Tail(q) = 1..(Len(q) - 1)
         /\ \A i \in 1..(Len(q) - 1) : Tail(q)[i] = q[i + 1]
  BY DEF Inbound

\* The far end sends a DATA frame.
LEMMA FrameSent ==
  ASSUME NEW q \in Inbound, NEW m \in Nat, NEW n \in Nat, FrameLine(q, m, n)
  PROVE  FrameLine(Append(q, [cmd |-> "DATA", unit |-> n + 1]), m, n + 1)
<1> DEFINE e == [cmd |-> "DATA", unit |-> n + 1]
           p == Append(q, e)
           l == Len(q)
<1>1. e \in Frame
  BY DEF Frame
<1>2. e.cmd = "DATA" /\ e.unit = n + 1
  OBVIOUS
<1> HIDE DEF e
<1>3. /\ l \in Nat /\ DOMAIN q = 1..l /\ DOMAIN p = 1..(l + 1)
      /\ \A i \in 1..l : p[i] = q[i]
      /\ p[l + 1] = e
  BY <1>1, FramesAppend
<1>4. \A i \in 1..l : q[i].unit \in Nat
  BY FramesType
<1> HIDE DEF p, l
<1>5. m <= n + 1
  BY DEF FrameLine
<1>6. ASSUME NEW i \in 1..(l + 1), p[i].cmd = "DATA"
      PROVE  m < p[i].unit /\ p[i].unit <= n + 1
  <2>1. CASE i = l + 1
    <3>1. m <= n
      BY DEF FrameLine
    <3> QED
      BY <1>2, <1>3, <2>1, <3>1
  <2>2. CASE i # l + 1
    <3>1. i \in 1..l
      BY <1>3, <2>2
    <3>2. m < q[i].unit /\ q[i].unit <= n
      BY <1>3, <1>6, <3>1 DEF FrameLine
    <3> QED
      BY <1>3, <1>4, <3>1, <3>2
  <2> QED
    BY <2>1, <2>2
<1>7. ASSUME NEW i \in 1..(l + 1), NEW j \in 1..(l + 1), i < j,
             p[i].cmd = "DATA", p[j].cmd = "DATA"
      PROVE  p[i].unit < p[j].unit
  <2>1. i \in 1..l
    BY <1>3, <1>7
  <2>2. q[i].unit <= n /\ p[i].unit = q[i].unit
    BY <1>3, <1>7, <2>1 DEF FrameLine
  <2>3. CASE j = l + 1
    BY <1>2, <1>3, <1>4, <2>1, <2>2, <2>3
  <2>4. CASE j # l + 1
    <3>1. j \in 1..l
      BY <1>3, <2>4
    <3> QED
      BY <1>3, <1>7, <2>1, <3>1 DEF FrameLine
  <2> QED
    BY <2>3, <2>4
<1>8. ASSUME NEW u \in (m + 1)..(n + 1)
      PROVE  \E i \in 1..(l + 1) : p[i].cmd = "DATA" /\ p[i].unit = u
  <2>1. CASE u = n + 1
    <3>1. l + 1 \in 1..(l + 1)
      BY <1>3
    <3> QED
      BY <1>2, <1>3, <2>1, <3>1
  <2>2. CASE u # n + 1
    <3>1. u \in (m + 1)..n
      BY <2>2
    <3>2. PICK i \in 1..l : q[i].cmd = "DATA" /\ q[i].unit = u
      BY <1>3, <3>1 DEF FrameLine
    <3>3. i \in 1..(l + 1) /\ p[i] = q[i]
      BY <1>3
    <3> QED
      BY <3>2, <3>3
  <2> QED
    BY <2>1, <2>2
<1>9. FrameLine(p, m, n + 1)
  BY <1>3, <1>5, <1>6, <1>7, <1>8 DEF FrameLine
<1> QED
  BY <1>9 DEF p, e

\* It sends another frame.
LEMMA FrameOther ==
  ASSUME NEW q \in Inbound, NEW m \in Nat, NEW n \in Nat, FrameLine(q, m, n),
         NEW c \in {"ACK", "CLOSE"}
  PROVE  FrameLine(Append(q, [cmd |-> c, unit |-> 0]), m, n)
<1> DEFINE e == [cmd |-> c, unit |-> 0]
           p == Append(q, e)
           l == Len(q)
<1>1. e \in Frame
  BY DEF Frame
<1>2. e.cmd # "DATA"
  OBVIOUS
<1> HIDE DEF e
<1>3. /\ l \in Nat /\ DOMAIN q = 1..l /\ DOMAIN p = 1..(l + 1)
      /\ \A i \in 1..l : p[i] = q[i]
      /\ p[l + 1] = e
  BY <1>1, FramesAppend
<1> HIDE DEF p, l
<1>4. \A i \in 1..(l + 1) : p[i].cmd = "DATA" => i \in 1..l /\ p[i] = q[i]
  <2>1. \A i \in 1..(l + 1) : i \in 1..l \/ i = l + 1
    BY <1>3
  <2> QED
    BY <1>2, <1>3, <2>1
<1>5. 1..l \subseteq 1..(l + 1)
  BY <1>3
<1>6. FrameLine(p, m, n)
  BY <1>3, <1>4, <1>5 DEF FrameLine
<1> QED
  BY <1>6 DEF p, e

\* The next frame is received: a DATA frame holds the next unit.
LEMMA FrameTaken ==
  ASSUME NEW q \in Inbound, q # <<>>, NEW m \in Nat, NEW n \in Nat, FrameLine(q, m, n)
  PROVE  /\ Head(q).cmd = "DATA" => /\ Head(q).unit = m + 1
                                    /\ FrameLine(Tail(q), m + 1, n)
         /\ Head(q).cmd # "DATA" => FrameLine(Tail(q), m, n)
<1> DEFINE l == Len(q)
           p == Tail(q)
<1>1. /\ l \in Nat /\ l > 0 /\ Head(q) = q[1]
      /\ DOMAIN q = 1..l /\ DOMAIN p = 1..(l - 1)
      /\ \A i \in 1..(l - 1) : p[i] = q[i + 1]
      /\ \A i \in 1..l : q[i].unit \in Nat
  BY FramesTail, FramesType
<1> HIDE DEF l, p
<1>2. 1 \in 1..l /\ (\A i \in 1..(l - 1) : i + 1 \in 1..l)
  BY <1>1
<1>3. \A i \in 1..l : i # 1 => i - 1 \in 1..(l - 1) /\ p[i - 1] = q[i]
  <2>1. \A i \in 1..l : i # 1 => i - 1 \in 1..(l - 1) /\ (i - 1) + 1 = i
    BY <1>1
  <2> QED
    BY <1>1, <2>1
<1>4. CASE q[1].cmd = "DATA"
  <2>1. m < q[1].unit /\ q[1].unit <= n
    BY <1>1, <1>2, <1>4 DEF FrameLine
  <2>2. m + 1 \in (m + 1)..n
    BY <1>1, <1>2, <2>1
  <2>3. PICK i \in 1..l : q[i].cmd = "DATA" /\ q[i].unit = m + 1
    BY <1>1, <2>2 DEF FrameLine
  <2>4. q[1].unit = m + 1
    <3>1. CASE i = 1
      BY <2>3, <3>1
    <3>2. CASE i # 1
      <4>1. 1 < i
        BY <1>1, <3>2
      <4>2. q[1].unit < q[i].unit
        BY <1>1, <1>2, <1>4, <2>3, <4>1 DEF FrameLine
      <4> QED
        BY <1>1, <1>2, <2>1, <2>3, <4>2
    <3> QED
      BY <3>1, <3>2
  <2>5. m + 1 <= n
    BY <2>1, <2>4
  <2>6. ASSUME NEW j \in 1..(l - 1), p[j].cmd = "DATA"
        PROVE  m + 1 < p[j].unit /\ p[j].unit <= n
    <3>1. 1 < j + 1 /\ j + 1 \in 1..l
      BY <1>1, <1>2
    <3>2. q[1].unit < q[j + 1].unit /\ q[j + 1].unit <= n
      BY <1>1, <1>2, <1>4, <2>6, <3>1 DEF FrameLine
    <3> QED
      BY <1>1, <2>4, <3>2
  <2>7. ASSUME NEW j \in 1..(l - 1), NEW k \in 1..(l - 1), j < k,
               p[j].cmd = "DATA", p[k].cmd = "DATA"
        PROVE  p[j].unit < p[k].unit
    <3>1. j + 1 < k + 1 /\ j + 1 \in 1..l /\ k + 1 \in 1..l
      BY <1>1, <1>2, <2>7
    <3>2. p[j] = q[j + 1] /\ p[k] = q[k + 1]
      BY <1>1
    <3>3. \A a, b \in 1..l : a < b /\ q[a].cmd = "DATA" /\ q[b].cmd = "DATA"
                               => q[a].unit < q[b].unit
      BY <1>1 DEF FrameLine
    <3> QED
      BY <2>7, <3>1, <3>2, <3>3
  <2>8. ASSUME NEW u \in ((m + 1) + 1)..n
        PROVE  \E j \in 1..(l - 1) : p[j].cmd = "DATA" /\ p[j].unit = u
    <3>1. u \in (m + 1)..n /\ u # m + 1
      OBVIOUS
    <3>2. PICK k \in 1..l : q[k].cmd = "DATA" /\ q[k].unit = u
      BY <1>1, <3>1 DEF FrameLine
    <3>3. k # 1
      BY <2>4, <3>1, <3>2
    <3> QED
      BY <1>3, <3>2, <3>3
  <2>9. FrameLine(p, m + 1, n)
    BY <1>1, <2>5, <2>6, <2>7, <2>8 DEF FrameLine
  <2> QED
    BY <1>1, <1>4, <2>4, <2>9 DEF p
<1>5. CASE q[1].cmd # "DATA"
  <2>1. ASSUME NEW j \in 1..(l - 1), p[j].cmd = "DATA"
        PROVE  m < p[j].unit /\ p[j].unit <= n
    <3>1. p[j] = q[j + 1] /\ j + 1 \in 1..l
      BY <1>1, <1>2
    <3> QED
      BY <1>1, <2>1, <3>1 DEF FrameLine
  <2>2. ASSUME NEW j \in 1..(l - 1), NEW k \in 1..(l - 1), j < k,
               p[j].cmd = "DATA", p[k].cmd = "DATA"
        PROVE  p[j].unit < p[k].unit
    <3>1. j + 1 < k + 1 /\ j + 1 \in 1..l /\ k + 1 \in 1..l
      BY <1>1, <1>2, <2>2
    <3>2. p[j] = q[j + 1] /\ p[k] = q[k + 1]
      BY <1>1
    <3>3. \A a, b \in 1..l : a < b /\ q[a].cmd = "DATA" /\ q[b].cmd = "DATA"
                               => q[a].unit < q[b].unit
      BY <1>1 DEF FrameLine
    <3> QED
      BY <2>2, <3>1, <3>2, <3>3
  <2>3. ASSUME NEW u \in (m + 1)..n
        PROVE  \E j \in 1..(l - 1) : p[j].cmd = "DATA" /\ p[j].unit = u
    <3>1. PICK k \in 1..l : q[k].cmd = "DATA" /\ q[k].unit = u
      BY <1>1 DEF FrameLine
    <3> QED
      BY <1>3, <1>5, <3>1
  <2>4. FrameLine(p, m, n)
    BY <1>1, <2>1, <2>2, <2>3 DEF FrameLine
  <2> QED
    BY <1>1, <1>5, <2>4 DEF p
<1> QED
  BY <1>4, <1>5

\* The socket takes one more unit while it is open.
LEMMA SocketSent ==
  ASSUME NEW q \in Inbound, NEW m \in Nat, NEW n \in Nat, SocketLine(q, m, n),
         Len(q) = n - m
  PROVE  LET p == Append(q, [cmd |-> "DATA", unit |-> n + 1])
         IN  SocketLine(p, m, n + 1) /\ Len(p) = (n + 1) - m
<1> DEFINE e == [cmd |-> "DATA", unit |-> n + 1]
           p == Append(q, e)
           l == Len(q)
<1>1. e \in Frame
  BY DEF Frame
<1>2. e.cmd = "DATA" /\ e.unit = n + 1
  OBVIOUS
<1> HIDE DEF e
<1>3. /\ l \in Nat /\ DOMAIN p = 1..(l + 1) /\ Len(p) = l + 1
      /\ \A i \in 1..l : p[i] = q[i]
      /\ p[l + 1] = e
  BY <1>1, FramesAppend
<1>4. l = n - m /\ m <= n
  BY DEF SocketLine
<1>5. \A i \in 1..l : q[i].cmd = "DATA" /\ q[i].unit = m + i
  BY <1>4 DEF SocketLine
<1> HIDE DEF p, l
<1>6. (n + 1) - m = l + 1 /\ m <= n + 1 /\ m + (l + 1) = n + 1
  BY <1>4
<1>7. ASSUME NEW i \in 1..(l + 1) PROVE p[i].cmd = "DATA" /\ p[i].unit = m + i
  <2>1. CASE i = l + 1
    BY <1>2, <1>3, <1>6, <2>1
  <2>2. CASE i # l + 1
    <3>1. i \in 1..l
      BY <1>3, <2>2
    <3> QED
      BY <1>3, <1>5, <3>1
  <2> QED
    BY <2>1, <2>2
<1>8. \A i \in 1..(l + 1) : ~(i > l + 1)
  BY <1>3
<1>9. l + 1 >= l + 1
  BY <1>3
<1>10. SocketLine(p, m, n + 1)
  BY <1>3, <1>6, <1>7, <1>8, <1>9 DEF SocketLine
<1> QED
  BY <1>3, <1>6, <1>10 DEF p, e

\* The end follows what was sent.
LEMMA SocketOther ==
  ASSUME NEW q \in Inbound, NEW m \in Nat, NEW n \in Nat, SocketLine(q, m, n),
         NEW c \in {"ACK", "CLOSE"}
  PROVE  SocketLine(Append(q, [cmd |-> c, unit |-> 0]), m, n)
<1> DEFINE e == [cmd |-> c, unit |-> 0]
           p == Append(q, e)
           l == Len(q)
           k == n - m
<1>1. e \in Frame
  BY DEF Frame
<1>2. e.cmd # "DATA"
  OBVIOUS
<1> HIDE DEF e
<1>3. /\ l \in Nat /\ DOMAIN q = 1..l /\ DOMAIN p = 1..(l + 1) /\ Len(p) = l + 1
      /\ \A i \in 1..l : p[i] = q[i]
      /\ p[l + 1] = e
  BY <1>1, FramesAppend
<1>4. m <= n /\ k \in Nat
  BY DEF SocketLine
<1>5. /\ \A i \in 1..k : q[i].cmd = "DATA" /\ q[i].unit = m + i
      /\ l >= k
      /\ \A i \in 1..l : i > k => q[i].cmd # "DATA"
  BY <1>3 DEF SocketLine
<1> HIDE DEF p, l, k
<1>6. l + 1 >= k /\ 1..k \subseteq 1..l
  BY <1>3, <1>4, <1>5
<1>7. \A i \in 1..k : p[i].cmd = "DATA" /\ p[i].unit = m + i
  BY <1>3, <1>5, <1>6
<1>8. \A i \in 1..(l + 1) : i > k => p[i].cmd # "DATA"
  <2>1. \A i \in 1..(l + 1) : i \in 1..l \/ i = l + 1
    BY <1>3
  <2> QED
    BY <1>2, <1>3, <1>5, <2>1
<1>9. SocketLine(p, m, n)
  BY <1>3, <1>4, <1>6, <1>7, <1>8 DEF SocketLine, k
<1> QED
  BY <1>9 DEF p, e

\* A read of the socket returns the next k units.
LEMMA SocketTaken ==
  ASSUME NEW q \in Inbound, NEW m \in Nat, NEW n \in Nat, SocketLine(q, m, n),
         NEW k \in 1..Len(q), \A i \in 1..k : q[i].cmd = "DATA"
  PROVE  LET p == SubSeq(q, k + 1, Len(q))
             data == [i \in 1..k |-> q[i].unit]
         IN  /\ p \in Inbound /\ Len(p) = Len(q) - k
             /\ data \in Seq(Nat) /\ Len(data) = k /\ Run(data, m) /\ data # <<>>
             /\ SocketLine(p, m + k, n)
<1> DEFINE p == SubSeq(q, k + 1, Len(q))
           data == [i \in 1..k |-> q[i].unit]
           l == Len(q)
           r == n - m
<1>1. /\ l \in Nat /\ k \in 1..l /\ k \in Nat /\ DOMAIN q = 1..l /\ p \in Inbound /\ Len(p) = l - k
      /\ DOMAIN p = 1..(l - k)
      /\ \A i \in 1..(l - k) : p[i] = q[k + i]
  BY DEF Inbound
<1>2. m <= n /\ r \in Nat
  BY DEF SocketLine
<1>3. /\ \A i \in 1..r : q[i].cmd = "DATA" /\ q[i].unit = m + i
      /\ l >= r
      /\ \A i \in 1..l : i > r => q[i].cmd # "DATA"
  BY <1>1 DEF SocketLine
<1> HIDE DEF l, p
<1>4. 1..k \subseteq 1..l
  BY <1>1
<1>5. \A i \in 1..k : q[i].unit \in Nat
  <2>1. \A i \in 1..l : q[i].unit \in Nat
    BY FramesType DEF l
  <2> QED
    BY <1>4, <2>1
<1>6. data \in Seq(Nat) /\ Len(data) = k /\ \A i \in 1..k : data[i] = q[i].unit
  <2>1. data \in [1..k -> Nat]
    BY <1>5
  <2>2. \A i \in 1..k : data[i] = q[i].unit
    OBVIOUS
  <2> HIDE DEF data
  <2>3. k \in Nat
    BY <1>1
  <2>4. data \in Seq(Nat) /\ Len(data) = k
    BY <2>1, <2>3
  <2> QED
    BY <2>2, <2>4
<1> HIDE DEF r, data
<1>7. k <= r
  <2>1. k \in 1..k
    BY <1>1
  <2> QED
    BY <1>1, <1>2, <1>3, <2>1
<1>8. Run(data, m)
  <2>1. \A i \in 1..k : i \in 1..r
    BY <1>1, <1>2, <1>7
  <2> QED
    BY <1>3, <1>6, <2>1 DEF Run
<1>9. /\ m + k <= n /\ n - (m + k) = r - k /\ l - k >= r - k
  BY <1>1, <1>2, <1>3, <1>7 DEF r
<1>10. ASSUME NEW i \in 1..(r - k) PROVE p[i].cmd = "DATA" /\ p[i].unit = (m + k) + i
  <2>1. k + i \in 1..r /\ i \in 1..(l - k) /\ m + (k + i) = (m + k) + i
    BY <1>1, <1>2, <1>3, <1>7
  <2> QED
    BY <1>1, <1>3, <2>1
<1>11. ASSUME NEW i \in 1..(l - k), i > r - k PROVE p[i].cmd # "DATA"
  <2>1. k + i \in 1..l /\ k + i > r
    BY <1>1, <1>2, <1>11
  <2> QED
    BY <1>1, <1>3, <2>1
<1>12. SocketLine(p, m + k, n)
  BY <1>1, <1>9, <1>10, <1>11 DEF SocketLine
<1>13. data # <<>>
  BY <1>1, <1>6
<1> QED
  BY <1>1, <1>6, <1>8, <1>12, <1>13 DEF p, data, l

-----------------------------------------------------------------------------
(* The handlers that change the chain or the streams, on the record.         *)

\* The next sent handler of a live session is taken out: the one of client
\* data leaves the chain as it is, another one was its only link.
LEMMA PopFit ==
  ASSUME NEW w, NEW x, Fit(w), ~w.destroyed, w.sends # <<>>,
         Alike(w, x), x.sends = Tail(w.sends)
  PROVE  /\ Head(w.sends) = "data" => Fit(x)
         /\ Head(w.sends) # "data" =>
              /\ Core(x) /\ ~x.destroyed /\ ~x.dialing /\ x.recvBuf = <<>>
              /\ Marks(x) = {} /\ x.reading = 0 /\ ~x.waiting
              /\ Head(w.sends) = "start" <=> ~x.connected
              /\ mode # "pipeline" => Head(w.sends) = "first"
<1>1. Core(x) /\ Chain(w) /\ w \in Tun /\ x \in Tun /\ ~x.destroyed
  BY AlikeCore DEF Fit, Core, Alike
<1>2. /\ Head(w.sends) # "data" => 1 \in Marks(w)
      /\ Head(w.sends) = w.sends[1]
      /\ \A i \in Marks(x) : i + 1 \in Marks(w) /\ i + 1 # 1 /\ x.sends[i] = w.sends[i + 1]
      /\ \A i \in Marks(w) : i # 1 => i - 1 \in Marks(x)
  BY <1>1, MarksTail
<1>3. Marks(x) \subseteq Int /\ Marks(w) \subseteq Int
  BY DEF Marks
<1>4. CASE Head(w.sends) # "data"
  <2>1. 1 \in Marks(w) /\ Marks(x) = {}
    BY <1>1, <1>2, <1>4 DEF Chain
  <2>2. w.sends[1] = "start" <=> ~w.connected
    BY <1>1, <2>1 DEF Chain
  <2>3. mode # "pipeline" => w.sends[1] = "first"
    BY <1>1, <2>1 DEF Chain
  <2>4. ~w.dialing /\ w.recvBuf = <<>> /\ w.reading = 0 /\ ~w.waiting
    BY <1>1, <2>1 DEF Chain
  <2>5. x.connected = w.connected /\ ~x.dialing /\ x.recvBuf = <<>> /\ x.reading = 0 /\ ~x.waiting
    BY <2>4 DEF Alike, SameUp, SameDown
  <2> QED
    BY <1>1, <1>2, <1>4, <2>1, <2>2, <2>3, <2>5
<1>5. CASE Head(w.sends) = "data"
  <2>1. 1 \notin Marks(w)
    BY <1>2, <1>5 DEF Marks
  <2>2. Marks(w) # {} <=> Marks(x) # {}
    BY <1>2, <2>1
  <2>3. \A i, j \in Marks(x) : i = j
    <3>1. ASSUME NEW i \in Marks(x), NEW j \in Marks(x) PROVE i = j
      <4>1. i + 1 = j + 1
        BY <1>1, <1>2 DEF Chain
      <4>2. i \in Int /\ j \in Int
        BY <1>3
      <4> QED
        BY <4>1, <4>2
    <3> QED
      BY <3>1
  <2>4. \A i \in Marks(x) : (x.sends[i] = "start" <=> ~w.connected)
                             /\ (mode # "pipeline" => x.sends[i] = "first")
    <3>1. ASSUME NEW i \in Marks(x)
          PROVE  /\ x.sends[i] = "start" <=> ~w.connected
                 /\ mode # "pipeline" => x.sends[i] = "first"
      <4>1. i + 1 \in Marks(w) /\ x.sends[i] = w.sends[i + 1]
        BY <1>2
      <4>2. w.sends[i + 1] = "start" <=> ~w.connected
        BY <1>1, <4>1 DEF Chain
      <4>3. mode # "pipeline" => w.sends[i + 1] = "first"
        BY <1>1, <4>1 DEF Chain
      <4> QED
        BY <4>1, <4>2, <4>3
    <3> QED
      BY <3>1
  <2>5. Chain(x)
    BY <1>1, <2>2, <2>3, <2>4 DEF Chain, Alike, SameUp, SameDown
  <2> QED
    BY <1>1, <1>5, <2>5 DEF Fit
<1> QED
  BY <1>4, <1>5

\* A session that is about to start: nothing of its chain is left, and n units
\* of the application wait.
Starts(w, n) ==
  /\ Core(w) /\ UpLine(w, n) /\ ~w.destroyed /\ ~w.connected
  /\ Marks(w) = {} /\ w.reading = 0 /\ ~w.waiting /\ w.recvBuf = <<>>

\* start() sends the request and what waited behind it, and nothing else.
LEMMA StartUp ==
  ASSUME NEW b \in Seq(Nat), NEW n \in Nat, mode \in Mode, Run(b, 0), Len(b) = n
  PROVE  /\ Request \o b \in Seq(Nat) /\ Len(Request \o b) = Offset + n
         /\ Run(Request \o b, 0 - Offset)
<1>1. CASE mode = "local"
  <2>1. Request = <<>> /\ Offset = 0 /\ 0 - 0 = 0 /\ 0 + n = n
    BY <1>1 DEF Request, Offset
  <2>2. <<>> \o b = b
    OBVIOUS
  <2> QED
    BY <2>1, <2>2
<1>2. CASE mode # "local"
  <2>1. Request = <<0>> /\ Offset = 1 /\ 0 - 1 = -1
    BY <1>2 DEF Request, Offset, Req
  <2>2. <<0>> \in Seq(Nat) /\ Len(<<0>>) = 1 /\ <<0>>[1] = 0
    OBVIOUS
  <2>3. Run(<<0>>, -1)
    BY <2>2 DEF Run
  <2>4. -1 + Len(<<0>>) = 0
    BY <2>2
  <2>5. /\ <<0>> \o b \in Seq(Nat) /\ Len(<<0>> \o b) = Len(<<0>>) + Len(b)
        /\ Run(<<0>> \o b, -1)
    <3>1. -1 \in Int
      OBVIOUS
    <3> QED
      BY <2>2, <2>3, <2>4, <3>1, RunConcat
  <2> QED
    BY <2>1, <2>2, <2>5
<1> QED
  BY <1>1, <1>2

\* start() leaves a fit session that reads, or whose first send is under way.
LEMMA StartFit ==
  ASSUME NEW w, NEW n \in Nat, mode \in Mode, Starts(w, n), NEW x \in Start(w)
  PROVE  Fit(x) /\ UpLine(x, n) /\ SameDown(w, x) /\ ~x.destroyed
<1> DEFINE b == w.sendBuf
           d == [w EXCEPT !.connected = TRUE, !.dialing = FALSE, !.sendBuf = <<>>]
<1>1. w \in Tun /\ Core(w) /\ ~w.destroyed /\ w.client = "open"
  BY DEF Starts, Core
<1>2. b \in Seq(Nat) /\ w.sends \in Seq(Handler)
  BY <1>1, TunSequences
<1>3. w.wire = <<>> /\ Run(b, 0) /\ Len(b) = n
  BY DEF Starts, UpLine
<1>4. d \in Tun
  <2>1. <<>> \in Seq(Nat)
    OBVIOUS
  <2> QED
    BY <1>1, <2>1 DEF Tun
<1>5. /\ d.connected /\ ~d.dialing /\ d.sendBuf = <<>> /\ d.wire = w.wire
      /\ SameDown(w, d) /\ SameClient(w, d) /\ d.destroyed = w.destroyed
      /\ d.closeFuture = w.closeFuture /\ d.asyncWriting = w.asyncWriting
      /\ d.acks = w.acks /\ d.readAck = w.readAck /\ d.pushAck = w.pushAck
      /\ d.reading = w.reading /\ d.waiting = w.waiting /\ d.sends = w.sends
  BY <1>1 DEF Tun, SameDown, SameClient
<1> HIDE DEF b
<1>6. \/ mode = "local" /\ b = <<>> /\ x \in OutAsyncRead(d)
      \/ x = [d EXCEPT !.wire = Request \o b, !.sends = Append(@, "first")]
  BY <1>1 DEF Start, b
<1> HIDE DEF d
<1>7. Owed(d) /\ Credited(d)
  BY <1>1, <1>5 DEF Core, Owed, Credited, SameDown, SameClient
<1>8. Core(d)
  BY <1>1, <1>4, <1>5, <1>7 DEF Core, SameClient
<1>9. Marks(d) = {}
  BY <1>5 DEF Starts, Marks
<1>10. d.reading = 0 /\ ~d.waiting /\ d.recvBuf = <<>> /\ ~d.destroyed
  BY <1>1, <1>5 DEF Starts, SameDown
<1>11. CASE mode = "local" /\ b = <<>> /\ x \in OutAsyncRead(d)
  <2>1. x = TryRead(d)
    BY <1>10, <1>11 DEF OutAsyncRead, TryRead
  <2>2. Unlinked(d)
    BY <1>5, <1>9, <1>10 DEF Unlinked
  <2>3. Fit(x) /\ SameUp(d, x) /\ SameDown(d, x) /\ x.destroyed = d.destroyed
    BY <1>8, <1>10, <2>1, <2>2, TryReadFit
  <2>4. n = 0 /\ Offset = 0
    BY <1>3, <1>11 DEF Offset
  <2>5. UpLine(x, n)
    <3>1. x.connected /\ x.wire = <<>>
      BY <1>3, <1>5, <2>3 DEF SameUp
    <3>2. Len(<<>>) = 0 /\ 0 <= 0 + 0 /\ 0 = 0 + 0
      OBVIOUS
    <3> QED
      BY <2>4, <3>1, <3>2, RunEmpty DEF UpLine
  <2> QED
    BY <1>5, <1>10, <2>3, <2>5 DEF SameDown
<1>12. CASE x = [d EXCEPT !.wire = Request \o b, !.sends = Append(@, "first")]
  <2> DEFINE v == Request \o b
  <2>1. v \in Seq(Nat) /\ Len(v) = Offset + n /\ Run(v, 0 - Offset)
    BY <1>2, <1>3, StartUp
  <2> HIDE DEF v
  <2>2. Append(d.sends, "first") \in Seq(Handler)
    BY <1>2, <1>5 DEF Handler
  <2>3. x = [d EXCEPT !.wire = v, !.sends = Append(d.sends, "first")]
    BY <1>4, <1>12 DEF v
  <2>4. x \in Tun
    BY <1>4, <2>1, <2>2, <2>3 DEF Tun
  <2>5. /\ x.connected = d.connected /\ x.dialing = d.dialing /\ x.wire = v
        /\ SameDown(d, x) /\ SameClient(d, x) /\ x.destroyed = d.destroyed
        /\ x.closeFuture = d.closeFuture /\ x.asyncWriting = d.asyncWriting
        /\ x.acks = d.acks /\ x.readAck = d.readAck /\ x.pushAck = d.pushAck
        /\ x.reading = d.reading /\ x.waiting = d.waiting
        /\ x.sends = Append(d.sends, "first")
    BY <1>4, <2>3 DEF Tun, SameDown, SameClient
  <2>6. Owed(x) /\ Credited(x)
    BY <1>7, <2>5 DEF Owed, Credited, SameDown, SameClient
  <2>7. Core(x)
    BY <1>8, <2>4, <2>5, <2>6 DEF Core, SameClient
  <2>8. Marks(x) = {Len(d.sends) + 1} /\ x.sends[Len(d.sends) + 1] = "first"
    BY <1>4, <1>9, <2>4, <2>5, MarksAppend DEF Handler
  <2>9. /\ x.connected /\ ~x.dialing /\ x.reading = 0 /\ ~x.waiting /\ x.recvBuf = <<>>
        /\ ~x.destroyed
    BY <1>5, <1>10, <2>5 DEF SameDown
  <2>10. Chain(x)
    BY <2>8, <2>9 DEF Chain
  <2>11. UpLine(x, n)
    <3>1. Offset + n <= Offset + n
      BY DEF Offset
    <3> QED
      BY <2>1, <2>5, <2>9, <3>1 DEF UpLine
  <2> QED
    BY <1>5, <2>5, <2>7, <2>9, <2>10, <2>11 DEF Fit, SameDown
<1> QED
  BY <1>6, <1>11, <1>12

\* The sent handler of the first send acknowledges what waited, and reads.
LEMMA FirstSentFit ==
  ASSUME NEW w, Begins(w), NEW x \in FirstSent(w)
  PROVE  /\ Fit(x) /\ SameUp(w, x) /\ Passes(w, x)
         /\ mode # "pipeline" => SameDown(w, x)
<1> DEFINE r == Recved(w, w.waitConnected)
           v == [r EXCEPT !.waitConnected = 0, !.firstCall = FALSE]
<1>1. w \in Tun
  BY DEF Begins, Core
<1>2. w.waitConnected \in Nat
  BY <1>1, TunNumbers
<1>3. Alike(w, r) /\ r.sends = w.sends
  BY <1>1, <1>2, RecvedAlike
<1>4. x \in OutAsyncRead(v)
  BY DEF FirstSent
<1> HIDE DEF r
<1>5. r \in Tun
  BY <1>3 DEF Alike
<1>6. v \in Tun
  BY <1>5 DEF Tun
<1>7. Alike(r, v) /\ v.sends = r.sends
  BY <1>5, <1>6 DEF Alike, Tun, SameUp, SameDown, SameClient
<1> HIDE DEF v
<1>8. Alike(w, v) /\ v.sends = w.sends
  BY <1>3, <1>7, AlikeTransitive
<1>9. Marks(v) = {}
  BY <1>8 DEF Marks, Begins, Unlinked
<1>10. Begins(v)
  BY <1>8, <1>9, AlikeCore DEF Begins, Alike, SameDown
<1>11. Fit(x) /\ Passes(v, x) /\ (mode # "pipeline" => SameDown(v, x))
  BY <1>4, <1>10, OutAsyncReadFit
<1>12. Got(v) = Got(w) /\ v.queue = w.queue /\ DownLine(w) = DownLine(v)
  BY <1>8 DEF Alike, SameDown, Got, DownLine
<1> QED
  BY <1>8, <1>11, <1>12 DEF Passes, Alike, SameUp, SameDown

\* One more unit at the end of a run.
LEMMA RunAppend ==
  ASSUME NEW s \in Seq(Nat), NEW n \in Int, NEW u \in Nat, Run(s, n), u = n + (Len(s) + 1)
  PROVE  Append(s, u) \in Seq(Nat) /\ Len(Append(s, u)) = Len(s) + 1 /\ Run(Append(s, u), n)
<1> DEFINE l == Len(s)
           a == Append(s, u)
<1>1. /\ l \in Nat /\ a \in Seq(Nat) /\ Len(a) = l + 1 /\ a[l + 1] = u
      /\ \A i \in 1..l : a[i] = s[i]
  OBVIOUS
<1>2. u = n + (l + 1) /\ \A i \in 1..l : s[i] = n + i
  BY DEF Run
<1> HIDE DEF l, a
<1>3. \A i \in 1..(l + 1) : i \in 1..l \/ i = l + 1
  BY <1>1
<1> QED
  BY <1>1, <1>2, <1>3 DEF Run, a, l

\* out_async_send: the next unit goes to the wire, or waits behind the others,
\* or is one too many.
LEMMA OutAsyncSendFit ==
  ASSUME NEW w, NEW n \in Nat, Fit(w), ~w.destroyed, UpLine(w, n)
  PROVE  LET x == OutAsyncSend(w, n + 1)
         IN  Fit(x) /\ UpLine(x, n + 1) /\ SameDown(w, x)
<1> DEFINE x == OutAsyncSend(w, n + 1)
<1>1. w \in Tun /\ Core(w) /\ Chain(w) /\ n + 1 \in Nat /\ Offset \in Nat
  BY DEF Fit, Core, Offset
<1>2. CASE w.connected
  <2> DEFINE v == Append(w.wire, n + 1)
             h == Append(w.sends, "data")
             f == w.frames + 1
  <2>1. x = [w EXCEPT !.wire = v, !.frames = f, !.sends = h]
    BY <1>2 DEF OutAsyncSend
  <2> DEFINE l == Len(w.wire)
  <2>2. w.wire \in Seq(Nat) /\ Run(w.wire, 0 - Offset) /\ l = Offset + n /\ l \in Nat
    BY <1>1, <1>2, TunSequences, TunLengths DEF UpLine
  <2> HIDE DEF l
  <2>3. n + 1 = (0 - Offset) + (l + 1) /\ 0 - Offset \in Int /\ l + 1 = Offset + (n + 1)
    BY <1>1, <2>2
  <2>4. v \in Seq(Nat) /\ Len(v) = l + 1 /\ Run(v, 0 - Offset)
    BY <1>1, <2>2, <2>3, RunAppend DEF l
  <2>5. f \in Nat /\ h \in Seq(Handler)
    <3>1. w.frames \in Nat /\ w.sends \in Seq(Handler)
      BY <1>1, TunNumbers, TunSequences
    <3> QED
      BY <3>1 DEF Handler
  <2> HIDE DEF v, f, x
  <2>6. x \in Tun
    <3> HIDE DEF h
    <3> QED
      BY <1>1, <2>1, <2>4, <2>5 DEF Tun
  <2>7. /\ x.connected = w.connected /\ x.wire = v /\ SameDown(w, x) /\ SameClient(w, x)
        /\ x.destroyed = w.destroyed /\ x.dialing = w.dialing /\ x.closeFuture = w.closeFuture
        /\ x.asyncWriting = w.asyncWriting
        /\ x.acks = w.acks /\ x.readAck = w.readAck /\ x.pushAck = w.pushAck
        /\ x.reading = w.reading /\ x.waiting = w.waiting /\ x.sends = h
    <3> HIDE DEF h
    <3> QED
      BY <1>1, <2>1 DEF Tun, SameDown, SameClient
  <2>8. Marks(x) = Marks(w) /\ \A i \in Marks(w) : x.sends[i] = w.sends[i]
    BY <1>1, <2>6, <2>7, MarksAppend DEF Handler
  <2>9. Owed(x) /\ Credited(x)
    BY <1>1, <2>7 DEF Core, Owed, Credited, SameDown, SameClient
  <2>10. Core(x)
    BY <1>1, <2>6, <2>7, <2>9 DEF Core, SameClient
  <2>11. Chain(x)
    <3>1. Chain(w) /\ x.recvBuf = w.recvBuf /\ x.queue = w.queue
      BY <1>1, <2>7 DEF SameDown
    <3> QED BY <2>7, <2>8, <3>1 DEF Chain
  <2>12. UpLine(x, n + 1)
    <3>1. Len(v) = Offset + (n + 1) /\ Len(v) <= Offset + (n + 1)
      BY <1>1, <2>3, <2>4
    <3> QED
      BY <1>2, <2>4, <2>7, <3>1 DEF UpLine
  <2> QED
    BY <2>7, <2>10, <2>11, <2>12 DEF Fit, x
<1>3. CASE ~w.connected /\ Len(w.sendBuf) < SendMax
  <2> DEFINE v == Append(w.sendBuf, n + 1)
             f == w.waitConnected + 1
  <2>1. x = [w EXCEPT !.sendBuf = v, !.waitConnected = f]
    BY <1>3 DEF OutAsyncSend
  <2>2. w.sendBuf \in Seq(Nat) /\ Run(w.sendBuf, 0) /\ Len(w.sendBuf) = n /\ w.wire = <<>>
    BY <1>1, <1>3, TunSequences DEF UpLine
  <2>3. n + 1 = 0 + (Len(w.sendBuf) + 1) /\ 0 \in Int
    BY <2>2
  <2>4. v \in Seq(Nat) /\ Len(v) = n + 1 /\ Run(v, 0)
    BY <1>1, <2>2, <2>3, RunAppend
  <2>5. f \in Nat
    BY <1>1, TunNumbers
  <2> HIDE DEF v, f, x
  <2>6. x \in Tun
    BY <1>1, <2>1, <2>4, <2>5 DEF Tun
  <2>7. /\ x.connected = w.connected /\ x.wire = w.wire /\ x.sendBuf = v
        /\ SameDown(w, x) /\ SameClient(w, x)
        /\ x.destroyed = w.destroyed /\ x.dialing = w.dialing /\ x.closeFuture = w.closeFuture
        /\ x.asyncWriting = w.asyncWriting
        /\ x.acks = w.acks /\ x.readAck = w.readAck /\ x.pushAck = w.pushAck
        /\ x.reading = w.reading /\ x.waiting = w.waiting /\ x.sends = w.sends
    BY <1>1, <2>1 DEF Tun, SameDown, SameClient
  <2>8. Owed(x) /\ Credited(x)
    BY <1>1, <2>7 DEF Core, Owed, Credited, SameDown, SameClient
  <2>9. Core(x)
    BY <1>1, <2>6, <2>7, <2>8 DEF Core, SameClient
  <2>10. Marks(x) = Marks(w)
    BY <2>7 DEF Marks
  <2>11. Chain(x)
    BY <1>1, <2>7, <2>10 DEF Chain, SameDown
  <2>12. UpLine(x, n + 1)
    BY <1>3, <2>2, <2>4, <2>7 DEF UpLine
  <2> QED
    BY <2>7, <2>9, <2>11, <2>12 DEF Fit, x
<1>4. CASE ~w.connected /\ ~(Len(w.sendBuf) < SendMax)
  <2>1. x = Destroy(w)
    BY <1>4 DEF OutAsyncSend
  <2> HIDE DEF x
  <2>2. Ends(w, x)
    BY <1>1, <2>1, DestroyEnds DEF Core
  <2>3. Fit(x) /\ x \in Tun /\ x.destroyed /\ SameUp(w, x) /\ SameDown(w, x)
    BY <1>1, <2>1, <2>2, DestroyFit DEF Ends
  <2>4. UpLine(x, n)
    BY <2>3, UpSame
  <2>5. UpLine(x, n + 1)
    BY <2>3, <2>4, UpGrow
  <2> QED
    BY <2>3, <2>5 DEF x
<1> QED
  BY <1>2, <1>3, <1>4

\* client_sent_func with k units: what lwip no longer holds is no longer owed.
LEMMA AckedFit ==
  ASSUME NEW w, Fit(w), w.client = "open", NEW k \in 1..w.unacked
  PROVE  LET d == [w EXCEPT !.unacked = @ - k, !.ackLength = @ - k]
             last == mode = "pipeline" /\ d.ackLength = 0
             e == [d EXCEPT !.asyncWriting = IF last THEN FALSE ELSE @]
         IN  /\ d \in Tun /\ SameUp(w, d) /\ SameDown(w, d) /\ Owes(d)
             /\ d.client = w.client /\ d.destroyed = w.destroyed /\ d.dialing = w.dialing
             /\ d.closeFuture = w.closeFuture /\ d.reading = w.reading
             /\ Fit(e) /\ SameUp(w, e) /\ SameDown(w, e) /\ SameClient(d, e)
             /\ e.destroyed = w.destroyed /\ e.dialing = w.dialing /\ e.reading = w.reading
<1> DEFINE u == w.unacked - k
           a == w.ackLength - k
           r == Len(w.recvBuf)
           d == [w EXCEPT !.unacked = @ - k, !.ackLength = @ - k]
           last == mode = "pipeline" /\ d.ackLength = 0
           p == IF last THEN FALSE ELSE w.asyncWriting
           e == [d EXCEPT !.asyncWriting = IF last THEN FALSE ELSE @]
<1>1. w \in Tun /\ Core(w)
  BY DEF Fit, Core
<1>2. w.unacked \in Nat /\ w.ackLength \in Nat /\ r \in Nat /\ w.ackLength = r + w.unacked
  BY <1>1, TunNumbers, TunLengths DEF Core, Owed
<1> HIDE DEF r
<1>3. k \in Nat /\ k > 0 /\ u \in Nat /\ a \in Nat /\ a = r + u /\ w.ackLength > 0
  BY <1>2
<1>4. d = [w EXCEPT !.unacked = u, !.ackLength = a]
  BY <1>1
<1> HIDE DEF u, a, d
<1>5. d \in Tun
  BY <1>1, <1>3, <1>4 DEF Tun
<1>6. /\ SameUp(w, d) /\ SameDown(w, d) /\ d.unacked = u /\ d.ackLength = a
      /\ d.client = w.client /\ d.destroyed = w.destroyed /\ d.dialing = w.dialing
      /\ d.closeFuture = w.closeFuture /\ d.asyncWriting = w.asyncWriting
      /\ d.acks = w.acks /\ d.readAck = w.readAck /\ d.pushAck = w.pushAck
      /\ d.reading = w.reading /\ d.waiting = w.waiting /\ d.sends = w.sends
  BY <1>1, <1>4 DEF Tun, SameUp, SameDown
<1>7. e = [d EXCEPT !.asyncWriting = p]
  BY <1>6
<1>8. p \in BOOLEAN
  BY <1>1 DEF Tun
<1> HIDE DEF e, p
<1>9. e \in Tun
  BY <1>5, <1>7, <1>8 DEF Tun
<1>10. /\ SameUp(d, e) /\ SameDown(d, e) /\ SameClient(d, e)
       /\ e.destroyed = d.destroyed /\ e.dialing = d.dialing
       /\ e.closeFuture = d.closeFuture /\ e.asyncWriting = p
       /\ e.acks = d.acks /\ e.readAck = d.readAck /\ e.pushAck = d.pushAck
       /\ e.reading = d.reading /\ e.waiting = d.waiting /\ e.sends = d.sends
  BY <1>5, <1>7 DEF Tun, SameUp, SameDown, SameClient
<1>11. SameUp(w, e) /\ SameDown(w, e)
  BY <1>6, <1>10 DEF SameUp, SameDown
<1>12. d.ackLength = Len(d.recvBuf) + d.unacked /\ e.ackLength = Len(e.recvBuf) + e.unacked
  BY <1>3, <1>6, <1>10 DEF SameDown, SameClient, r
<1>13. Owed(e)
  <2> SUFFICES ASSUME mode = "pipeline", ~e.destroyed
               PROVE  e.asyncWriting <=> e.ackLength > 0
    BY <1>12 DEF Owed
  <2>1. w.asyncWriting
    BY <1>1, <1>3, <1>6, <1>10 DEF Core, Owed
  <2>2. p <=> a # 0
    BY <1>6, <2>1 DEF p
  <2>3. a # 0 <=> a > 0
    BY <1>3
  <2>4. e.ackLength = a /\ e.asyncWriting = p
    BY <1>6, <1>10 DEF SameClient
  <2> QED
    BY <2>2, <2>3, <2>4
<1>14. Credited(e)
  BY <1>1, <1>6, <1>10, <1>11 DEF Core, Credited, SameDown
<1>15. Core(e)
  BY <1>1, <1>6, <1>9, <1>10, <1>13, <1>14 DEF Core, SameClient, SameUp
<1>16. ~e.destroyed => Chain(e)
  <2>1. Marks(e) = Marks(w) /\ e.sends = w.sends
    BY <1>6, <1>10 DEF Marks
  <2> QED
    BY <1>6, <1>10, <1>11, <2>1 DEF Fit, Chain, SameUp, SameDown
<1>17. /\ d \in Tun /\ SameUp(w, d) /\ SameDown(w, d) /\ Owes(d)
       /\ d.client = w.client /\ d.destroyed = w.destroyed /\ d.dialing = w.dialing
       /\ d.closeFuture = w.closeFuture /\ d.reading = w.reading
       /\ Fit(e) /\ SameUp(w, e) /\ SameDown(w, e) /\ SameClient(d, e)
       /\ e.destroyed = w.destroyed /\ e.dialing = w.dialing /\ e.reading = w.reading
  BY <1>5, <1>6, <1>10, <1>11, <1>12, <1>15, <1>16 DEF Owes, Fit
<1> QED
  BY <1>17 DEF d, e, last

\* What client_sent_func does then: it destroys the session if a CLOSE was
\* postponed, closes a client that was left to send its rest, or goes on.
LEMMA SentFuncFit ==
  ASSUME NEW w, Fit(w), w.client = "open", NEW k \in 1..w.unacked, NEW x \in SentFunc(w, k)
  PROVE  Fit(x) /\ Moves(w, x) /\ Quiet(x)
<1> DEFINE d == [w EXCEPT !.unacked = @ - k, !.ackLength = @ - k]
           last == mode = "pipeline" /\ d.ackLength = 0
           e == [d EXCEPT !.asyncWriting = IF last THEN FALSE ELSE @]
<1>1. /\ d \in Tun /\ SameUp(w, d) /\ SameDown(w, d) /\ Owes(d)
      /\ d.client = w.client /\ d.destroyed = w.destroyed /\ d.dialing = w.dialing
      /\ d.closeFuture = w.closeFuture /\ d.reading = w.reading
      /\ Fit(e) /\ SameUp(w, e) /\ SameDown(w, e) /\ SameClient(d, e)
      /\ e.destroyed = w.destroyed /\ e.dialing = w.dialing /\ e.reading = w.reading
  BY AckedFit
<1>2. \/ d.ackLength = 0 /\ x = Destroy(d)
      \/ d.ackLength = 0 /\ x = CloseClient(e, "closed")
      \/ \E n \in TcpWrite(e) : x = SendOut(e, n)
  BY DEF SentFunc
<1> HIDE DEF d, e
<1>3. (w.dialing => ~w.connected) /\ (w.closeFuture => mode = "pipeline")
  BY DEF Fit, Core
<1>4. e \in Tun /\ d.client = "open" /\ e.client = "open" /\ Core(e)
  BY <1>1 DEF Fit, Core, SameClient
\* Nothing is owed when the count is zero.
<1>5. d.ackLength = 0 => d.unacked = 0 /\ d.recvBuf = <<>>
  <2> DEFINE l == Len(d.recvBuf)
  <2>1. d.unacked \in Nat /\ l \in Nat /\ d.ackLength = l + d.unacked
    BY <1>1, <1>4, TunNumbers, TunLengths DEF Owes
  <2> HIDE DEF l
  <2>2. d.ackLength = 0 => d.unacked = 0 /\ l = 0
    BY <2>1
  <2>3. d.recvBuf \in Seq(Nat)
    BY <1>1, TunSequences
  <2>4. l = 0 => d.recvBuf = <<>>
    BY <2>3 DEF l
  <2> QED
    BY <2>2, <2>4
<1>6. CASE d.ackLength = 0 /\ x = Destroy(d)
  <2>1. Ends(d, x)
    BY <1>1, <1>3, <1>6, DestroyEnds
  <2>2. Fit(x)
    <3>1. d.dialing => ~d.connected
      BY <1>1, <1>3 DEF SameUp
    <3> QED
      BY <1>1, <1>3, <1>4, <2>1, <3>1, EndsFit
  <2>3. Quiet(x)
    BY <1>5, <1>6, <2>1 DEF Quiet, Ends, SameDown
  <2>4. Moves(w, x)
    BY <1>1, <2>1 DEF Moves, Ends, SameUp, SameDown, Got, DownLine
  <2> QED
    BY <2>2, <2>3, <2>4
<1>7. CASE d.ackLength = 0 /\ x = CloseClient(e, "closed")
  <2>1. Ends(e, x)
    BY <1>1, <1>3, <1>4, <1>7, CloseClientEnds
  <2>2. Fit(x)
    BY <1>4, <1>7, DestroyFit
  <2>3. Quiet(x)
    BY <1>1, <1>5, <1>7, <2>1 DEF Quiet, Ends, SameDown, SameClient
  <2>4. Moves(w, x)
    BY <1>1, <2>1 DEF Moves, Ends, SameUp, SameDown, Got, DownLine
  <2> QED
    BY <2>2, <2>3, <2>4
<1>8. CASE \E n \in TcpWrite(e) : x = SendOut(e, n)
  <2>1. Fit(x) /\ Hands(e, x)
    BY <1>1, <1>8, SendOutFit
  <2>2. x.client # "closed"
    BY <1>4, <2>1 DEF Hands
  <2>3. Moves(w, x)
    BY <1>1, <2>1 DEF Hands, Moves, SameUp, SameDown, Got, DownLine
  <2> QED
    BY <2>1, <2>2, <2>3 DEF Quiet
<1> QED
  BY <1>2, <1>6, <1>7, <1>8

-----------------------------------------------------------------------------
(* The steps.                                                                *)

\* The way to the far end is chosen once.
LEMMA Assemble ==
  ASSUME mode' = mode, mode \in Mode, inbound' \in Inbound, app' \in Nat, far' \in FarEnd,
         Safe(tun', app', inbound', far', cause')
  PROVE  IInv'
<1>1. Fit(tun)'
  BY DEF Safe, Fit, Core, Owed, Credited, Chain, Marks
<1>2. UpLine(tun, app)'
  BY DEF Safe, UpLine, Offset
<1>3. Rest(tun, inbound, far.sent)'
  BY DEF Safe, Rest
<1>4. Exact(tun, inbound, far)' /\ Ended(tun, cause)'
  BY DEF Safe, Exact, Ended
<1> QED
  BY <1>1, <1>2, <1>3, <1>4 DEF IInv, Safe

\* A step that changes the session only.
LEMMA SessionStep ==
  ASSUME IInv, UNCHANGED <<mode, inbound, app, far>>, NEW x, NEW c, Becomes(x, c),
         Fit(x), UpLine(x, app), Rest(x, inbound, far.sent), Exact(x, inbound, far),
         Ended(x, cause')
  PROVE  IInv'
<1>1. tun' = x
  BY DEF Becomes
<1>2. Safe(tun', app', inbound', far', cause')
  BY <1>1 DEF Safe
<1> QED
  BY <1>2, Assemble DEF IInv

\* A session that is destroyed ends quietly unless its client is aborted, and
\* a client that is left open still owes something.
LEMMA DestroyQuiet ==
  ASSUME NEW w, Core(w), ~w.destroyed
  PROVE  Quiet(Destroy(w))
<1> DEFINE x == Destroy(w)
<1>1. w \in Tun /\ w.client = "open" /\ w.ackLength = Len(w.recvBuf) + w.unacked
  BY DEF Core, Owed
<1>2. Ends(w, x) /\ (x.client = "closed" => w.ackLength = 0)
  BY <1>1, DestroyEnds
<1> HIDE DEF x
<1> DEFINE l == Len(w.recvBuf)
<1>3. w.unacked \in Nat /\ l \in Nat /\ w.ackLength = l + w.unacked /\ w.recvBuf \in Seq(Nat)
  BY <1>1, TunNumbers, TunLengths, TunSequences
<1>4. l = 0 => w.recvBuf = <<>>
  BY <1>3
<1> HIDE DEF l
<1>5. w.ackLength = 0 => w.unacked = 0 /\ l = 0
  BY <1>3
<1> QED
  BY <1>2, <1>4, <1>5 DEF Quiet, Ends, SameDown, x

\* A session that ends keeps its streams.
LEMMA EndsStreams ==
  ASSUME NEW w, NEW x, NEW n, NEW q, NEW f, Ends(w, x), UpLine(w, n),
         Rest(w, q, f.sent), Exact(w, q, f)
  PROVE  UpLine(x, n) /\ Rest(x, q, f.sent) /\ Exact(x, q, f)
<1>1. SameUp(w, x) /\ SameDown(w, x) /\ x.destroyed
  BY DEF Ends
<1> QED
  BY <1>1, UpSame, RestSame

\* The parts of the invariant.
LEMMA Parts ==
  ASSUME IInv
  PROVE  /\ mode \in Mode /\ inbound \in Inbound /\ app \in Nat /\ far \in FarEnd
         /\ far.sent \in Nat /\ tun \in Tun
         /\ Fit(tun) /\ Core(tun) /\ (~tun.destroyed => Chain(tun))
         /\ UpLine(tun, app) /\ Rest(tun, inbound, far.sent) /\ Exact(tun, inbound, far)
         /\ Ended(tun, cause)
         /\ tun.dialing => ~tun.connected
  BY DEF IInv, Safe, Fit, Core, FarEnd

\* The session is destroyed because of an error.
LEMMA DestroyStep ==
  ASSUME IInv, UNCHANGED <<mode, inbound, app, far>>, Becomes(Destroy(tun), "error")
  PROVE  IInv'
<1> DEFINE x == Destroy(tun)
<1>1. Ends(tun, x) /\ (tun.destroyed => x = tun) /\ Fit(x)
  BY Parts, DestroyEnds, DestroyFit
<1>2. Becomes(x, "error")
  OBVIOUS
<1> HIDE DEF x
<1>3. UpLine(x, app) /\ Rest(x, inbound, far.sent) /\ Exact(x, inbound, far)
  BY <1>1, Parts, EndsStreams
<1>4. tun.destroyed /\ cause = "eof" => Quiet(x)
  BY <1>1, Parts DEF Ended, Quiet
<1>5. x.destroyed /\ x.reading = tun.reading /\ x.dialing = tun.dialing
  BY <1>1 DEF Ends
<1>6. Ended(x, cause')
  BY <1>2, <1>4, <1>5, Parts, EndedKept
<1> QED
  BY <1>1, <1>2, <1>3, <1>6, SessionStep

\* Of a live session every error or answer but EOF keeps the reason.
LEMMA LiveEnded ==
  ASSUME IInv, ~tun.destroyed, NEW x, NEW c, c # "eof", Becomes(x, c)
  PROVE  Ended(x, cause')
  BY Parts, EndedKept

\* The way to the far end could not be opened.
LEMMA DialFailedStep ==
  ASSUME IInv, tun.dialing, UNCHANGED <<mode, inbound, app, far>>,
         Becomes(Destroy([tun EXCEPT !.dialing = FALSE]), "error")
  PROVE  IInv'
<1> DEFINE w == [tun EXCEPT !.dialing = FALSE]
           x == Destroy(w)
<1>1. tun \in Tun /\ Core(tun)
  BY Parts
<1>2. /\ w \in Tun /\ ~w.dialing /\ SameUp(tun, w) /\ SameDown(tun, w) /\ SameClient(tun, w)
      /\ w.destroyed = tun.destroyed /\ w.closeFuture = tun.closeFuture
      /\ w.asyncWriting = tun.asyncWriting /\ w.acks = tun.acks /\ w.readAck = tun.readAck
      /\ w.pushAck = tun.pushAck /\ w.reading = tun.reading
  BY <1>1 DEF Tun, SameUp, SameDown, SameClient
<1>3. Becomes(x, "error")
  OBVIOUS
<1> HIDE DEF w
<1>4. Owed(w) /\ Credited(w)
  BY <1>1, <1>2 DEF Core, Owed, Credited, SameDown, SameClient
<1>5. Core(w)
  BY <1>1, <1>2, <1>4 DEF Core, SameClient
<1>6. Ends(w, x) /\ (w.destroyed => x = w) /\ Fit(x)
  BY <1>2, <1>5, DestroyEnds, DestroyFit
<1> HIDE DEF x
<1>7. SameUp(tun, x) /\ SameDown(tun, x) /\ x.destroyed /\ ~x.dialing /\ x.reading = tun.reading
  BY <1>2, <1>6 DEF Ends, SameUp, SameDown
<1>8. UpLine(x, app) /\ Rest(x, inbound, far.sent) /\ Exact(x, inbound, far)
  BY <1>7, Parts, UpSame, RestSame
<1>9. tun.destroyed /\ cause = "eof" => Quiet(x)
  BY <1>2, <1>6, Parts DEF Ended, Quiet, SameDown, SameClient
<1>10. Ended(x, cause')
  BY <1>3, <1>7, <1>9, Parts, EndedKept
<1> QED
  BY <1>3, <1>6, <1>8, <1>10, SessionStep

\* The way is open, but the session was destroyed meanwhile: start() runs all
\* the same and nothing is sent; a local session may read.
LEMMA LateDialStep ==
  ASSUME IInv, tun.dialing, tun.destroyed, UNCHANGED <<mode, inbound, app, far>>,
         NEW x \in Start(tun), Becomes(x, "error")
  PROVE  IInv'
<1> DEFINE d == [tun EXCEPT !.connected = TRUE, !.dialing = FALSE, !.sendBuf = <<>>]
<1>1. tun \in Tun /\ Core(tun) /\ ~tun.connected /\ UpLine(tun, app) /\ app \in Nat /\ mode \in Mode
  BY Parts
<1>2. d \in Tun
  <2>1. <<>> \in Seq(Nat)
    OBVIOUS
  <2> QED
    BY <1>1, <2>1 DEF Tun
<1>3. x = d \/ (mode = "local" /\ x = [d EXCEPT !.reading = @ + 1])
  BY DEF Start, OutAsyncRead
<1>4. /\ d.connected /\ ~d.dialing /\ d.wire = tun.wire
      /\ SameDown(tun, d) /\ SameClient(tun, d) /\ d.destroyed
      /\ d.closeFuture = tun.closeFuture
  BY <1>1 DEF Tun, SameDown, SameClient
<1> HIDE DEF d
<1>5. d.reading + 1 \in Nat
  BY <1>2, TunNumbers
<1>6. x \in Tun
  BY <1>2, <1>3, <1>5 DEF Tun
<1>7. /\ x.connected /\ ~x.dialing /\ x.wire = tun.wire
      /\ SameDown(tun, x) /\ SameClient(tun, x) /\ x.destroyed
      /\ x.closeFuture = tun.closeFuture
  BY <1>2, <1>3, <1>4 DEF Tun, SameDown, SameClient
<1>8. Owed(x) /\ Credited(x)
  BY <1>1, <1>7 DEF Core, Owed, Credited, SameDown, SameClient
<1>9. Fit(x)
  BY <1>1, <1>6, <1>7, <1>8 DEF Fit, Core, SameClient
<1>10. UpLine(x, app)
  <2>1. x.wire = <<>>
    BY <1>1, <1>7 DEF UpLine
  <2>2. Len(<<>>) = 0 /\ 0 <= Offset + app /\ 0 - Offset \in Int
    BY <1>1 DEF Offset
  <2> QED
    BY <1>7, <2>1, <2>2, RunEmpty DEF UpLine
<1>11. Rest(x, inbound, far.sent) /\ Exact(x, inbound, far)
  BY <1>7, Parts, RestSame
<1>12. cause' = cause
  BY DEF Becomes
<1>13. Ended(x, cause')
  BY <1>7, <1>12, Parts DEF Ended, SameDown, SameClient
<1> QED
  BY <1>9, <1>10, <1>11, <1>13, SessionStep

\* The way to the far end is open, or could not be opened.
LEMMA DialedStep ==
  ASSUME IInv, Dialed
  PROVE  IInv'
<1>1. tun.dialing /\ UNCHANGED <<mode, inbound, app, far>>
  BY DEF Dialed
<1>2. CASE Becomes(Destroy([tun EXCEPT !.dialing = FALSE]), "error")
  BY <1>1, <1>2, DialFailedStep
<1>3. ASSUME tun.destroyed, NEW x \in Start(tun), Becomes(x, "error") PROVE IInv'
  BY <1>1, <1>3, LateDialStep
<1>4. ASSUME ~tun.destroyed, NEW x \in Start(tun), Becomes(x, "error") PROVE IInv'
  <2>1. Chain(tun) /\ Core(tun)
    BY <1>4, Parts
  <2>2. ~tun.connected /\ Marks(tun) = {}
    BY <1>1, <2>1 DEF Chain
  <2>3. tun.reading = 0 /\ ~tun.waiting /\ tun.recvBuf = <<>>
    BY <2>1, <2>2 DEF Chain
  <2>4. Starts(tun, app)
    BY <1>4, <2>1, <2>2, <2>3, Parts DEF Starts
  <2>5. Fit(x) /\ UpLine(x, app) /\ SameDown(tun, x) /\ ~x.destroyed
    BY <1>4, <2>4, Parts, StartFit
  <2>6. Rest(x, inbound, far.sent) /\ Exact(x, inbound, far)
    BY <1>4, <2>5, Parts, RestSame
  <2>7. Ended(x, cause')
    BY <1>4, LiveEnded
  <2> QED
    BY <1>1, <1>4, <2>5, <2>6, <2>7, SessionStep
<1> QED
  BY <1>2, <1>3, <1>4 DEF Dialed

\* client_recv_func without data, client_err_func.
LEMMA AppCloseStep ==
  ASSUME IInv, AppClose
  PROVE  IInv'
<1>1. tun.client = "open" /\ UNCHANGED <<mode, inbound, app, far>>
  BY DEF AppClose
<1>2. PICK how \in {"closed", "aborted"} : Becomes(CloseClient(tun, how), "app")
  BY DEF AppClose
<1> DEFINE x == CloseClient(tun, how)
<1>3. Ends(tun, x) /\ x.client = how /\ Fit(x)
  BY <1>1, Parts, CloseClientEnds, DestroyFit
<1>4. Becomes(x, "app")
  BY <1>2
<1> HIDE DEF x
<1>5. UpLine(x, app) /\ Rest(x, inbound, far.sent) /\ Exact(x, inbound, far)
  BY <1>3, Parts, EndsStreams
<1>6. cause' = "app"
  BY <1>1, <1>3, <1>4 DEF Becomes
<1>7. Ended(x, cause')
  BY <1>6 DEF Ended
<1> QED
  BY <1>1, <1>3, <1>4, <1>5, <1>7, SessionStep

\* client_recv_func with data.
LEMMA AppSendStep ==
  ASSUME IInv, AppSend
  PROVE  IInv'
<1>1. /\ tun.client = "open" /\ app' = app + 1 /\ UNCHANGED <<mode, inbound, far>>
      /\ app + 1 \in Nat
  BY Parts DEF AppSend
<1> DEFINE x == IF tun.destroyed THEN CloseClient(tun, "aborted")
                                 ELSE OutAsyncSend(tun, app + 1)
<1>2. Becomes(x, "app")
  BY DEF AppSend
<1>3. /\ Fit(x) /\ UpLine(x, app + 1) /\ Rest(x, inbound, far.sent)
      /\ Exact(x, inbound, far) /\ Ended(x, cause')
  <2>1. CASE tun.destroyed
    <3>1. x = CloseClient(tun, "aborted")
      BY <2>1
    <3> HIDE DEF x
    <3>2. Ends(tun, x) /\ x.client = "aborted" /\ Fit(x)
      BY <1>1, <3>1, Parts, CloseClientEnds, DestroyFit
    <3>3. UpLine(x, app) /\ Rest(x, inbound, far.sent) /\ Exact(x, inbound, far)
      BY <3>2, Parts, EndsStreams
    <3>4. UpLine(x, app + 1)
      BY <3>2, <3>3, Parts, UpGrow DEF Ends
    <3>5. cause' = "app"
      BY <1>1, <1>2, <3>2 DEF Becomes
    <3> QED
      BY <3>2, <3>3, <3>4, <3>5 DEF Ended
  <2>2. CASE ~tun.destroyed
    <3>1. x = OutAsyncSend(tun, app + 1)
      BY <2>2
    <3> HIDE DEF x
    <3>2. Fit(x) /\ UpLine(x, app + 1) /\ SameDown(tun, x)
      BY <2>2, <3>1, Parts, OutAsyncSendFit
    <3>3. Rest(x, inbound, far.sent) /\ Exact(x, inbound, far)
      BY <2>2, <3>2, Parts, RestSame
    <3>4. Ended(x, cause')
      BY <1>2, <2>2, LiveEnded
    <3> QED
      BY <3>2, <3>3, <3>4
  <2> QED
    BY <2>1, <2>2
<1> HIDE DEF x
<1>4. tun' = x
  BY <1>2 DEF Becomes
<1>5. Safe(tun', app', inbound', far', cause')
  BY <1>1, <1>3, <1>4 DEF Safe
<1> QED
  BY <1>1, <1>5, Parts, Assemble

\* A sent handler runs: it ends the link of the chain that it was.
LEMMA SentStep ==
  ASSUME IInv, Sent
  PROVE  IInv'
<1> DEFINE h == Head(tun.sends)
           w == [tun EXCEPT !.sends = Tail(@)]
<1>1. tun.sends # <<>> /\ UNCHANGED <<mode, inbound, app, far>>
  BY DEF Sent
<1>2. Alike(tun, w) /\ w.sends = Tail(tun.sends)
  BY <1>1, Parts, PopAlike
<1>3. \/ tun.destroyed /\ Becomes(w, "error")
      \/ /\ ~tun.destroyed
         /\ \/ h = "start" /\ \E x \in Start(w) : Becomes(x, "error")
            \/ h = "first" /\ \E x \in FirstSent(w) : Becomes(x, "error")
            \/ h = "data"  /\ Becomes(DataSent(w), "error")
            \/ h = "ack"   /\ \E x \in CacheRead(w) : Becomes(x, "error")
  BY DEF Sent
<1> HIDE DEF w
<1>4. /\ w \in Tun /\ SameUp(tun, w) /\ SameDown(tun, w) /\ SameClient(tun, w)
      /\ w.destroyed = tun.destroyed /\ w.reading = tun.reading /\ w.dialing = tun.dialing
  BY <1>2 DEF Alike
<1>5. UpLine(w, app) /\ Rest(w, inbound, far.sent) /\ Exact(w, inbound, far)
  BY <1>4, Parts, UpSame, RestSame
<1>6. CASE tun.destroyed /\ Becomes(w, "error")
  <2>1. Core(w)
    BY <1>2, Parts, AlikeCore
  <2>2. Fit(w)
    BY <1>4, <1>6, <2>1 DEF Fit
  <2>3. cause = "eof" => Quiet(w)
    BY <1>4, Parts DEF Ended, Quiet, SameDown, SameClient
  <2>4. Ended(w, cause')
    BY <1>4, <1>6, <2>3, Parts, EndedKept
  <2> QED
    BY <1>1, <1>5, <1>6, <2>2, <2>4, SessionStep
<1>7. /\ ~tun.destroyed /\ h = "data" => Fit(w)
      /\ ~tun.destroyed /\ h # "data" =>
           /\ Core(w) /\ ~w.destroyed /\ ~w.dialing /\ w.recvBuf = <<>>
           /\ Marks(w) = {} /\ w.reading = 0 /\ ~w.waiting
           /\ h = "start" <=> ~w.connected
           /\ mode # "pipeline" => h = "first"
  BY <1>1, <1>2, Parts, PopFit
<1>8. CASE ~tun.destroyed /\ h = "start" /\ \E x \in Start(w) : Becomes(x, "error")
  <2>1. PICK x \in Start(w) : Becomes(x, "error")
    BY <1>8
  <2>2. Starts(w, app)
    BY <1>5, <1>7, <1>8 DEF Starts
  <2>3. Fit(x) /\ UpLine(x, app) /\ SameDown(w, x) /\ ~x.destroyed
    BY <2>1, <2>2, Parts, StartFit
  <2>4. Rest(x, inbound, far.sent) /\ Exact(x, inbound, far)
    BY <1>4, <1>5, <1>8, <2>3, RestSame
  <2>5. Ended(x, cause')
    BY <1>8, <2>1, LiveEnded
  <2> QED
    BY <1>1, <2>1, <2>3, <2>4, <2>5, SessionStep
<1>9. ~tun.destroyed /\ h \in {"first", "ack"} => Begins(w)
  BY <1>7 DEF Begins, Unlinked
<1>10. CASE ~tun.destroyed /\ h = "first" /\ \E x \in FirstSent(w) : Becomes(x, "error")
  <2>1. PICK x \in FirstSent(w) : Becomes(x, "error")
    BY <1>10
  <2>2. Fit(x) /\ SameUp(w, x) /\ Passes(w, x) /\ (mode # "pipeline" => SameDown(w, x))
    BY <1>9, <1>10, <2>1, FirstSentFit
  <2>3. x \in Tun
    BY <2>2 DEF Fit, Core
  <2>4. Rest(x, inbound, far.sent) /\ Exact(x, inbound, far)
    BY <1>4, <1>5, <1>10, <2>2, <2>3, Parts, RestPasses
  <2>5. UpLine(x, app)
    BY <1>4, <1>5, <1>10, <2>2, UpSame
  <2>6. Ended(x, cause')
    BY <1>10, <2>1, LiveEnded
  <2> QED
    BY <1>1, <2>1, <2>2, <2>4, <2>5, <2>6, SessionStep
<1>11. CASE ~tun.destroyed /\ h = "data" /\ Becomes(DataSent(w), "error")
  <2> DEFINE x == DataSent(w)
  <2>1. Alike(w, x) /\ x.sends = w.sends
    BY <1>4, DataSentAlike
  <2>2. Becomes(x, "error")
    BY <1>11
  <2> HIDE DEF x
  <2>3. Fit(x)
    BY <1>7, <1>11, <2>1, AlikeFit DEF Marks
  <2>4. SameUp(w, x) /\ SameDown(w, x) /\ x.destroyed = w.destroyed
    BY <2>1 DEF Alike
  <2>5. UpLine(x, app) /\ Rest(x, inbound, far.sent) /\ Exact(x, inbound, far)
    BY <1>5, <2>4, UpSame, RestSame
  <2>6. Ended(x, cause')
    BY <1>11, <2>2, LiveEnded
  <2> QED
    BY <1>1, <2>2, <2>3, <2>5, <2>6, SessionStep
<1>12. CASE ~tun.destroyed /\ h = "ack" /\ \E x \in CacheRead(w) : Becomes(x, "error")
  <2>1. PICK x \in CacheRead(w) : Becomes(x, "error")
    BY <1>12
  <2>2. mode = "pipeline"
    BY <1>7, <1>12
  <2>3. Fit(x) /\ Passes(w, x)
    BY <1>9, <1>12, <2>1, <2>2, CacheReadFit
  <2>4. x \in Tun /\ SameUp(w, x)
    BY <2>3 DEF Fit, Core, Passes
  <2>5. Rest(x, inbound, far.sent) /\ Exact(x, inbound, far)
    BY <1>4, <1>5, <1>12, <2>2, <2>3, <2>4, Parts, RestPasses
  <2>6. UpLine(x, app)
    BY <1>4, <1>5, <1>12, <2>4, UpSame
  <2>7. Ended(x, cause')
    BY <1>12, <2>1, LiveEnded
  <2> QED
    BY <1>1, <2>1, <2>3, <2>5, <2>6, <2>7, SessionStep
<1> QED
  BY <1>3, <1>6, <1>8, <1>10, <1>11, <1>12

\* A write to the socket fails.
LEMMA SendFailedStep ==
  ASSUME IInv, SendFailed
  PROVE  IInv'
  BY DestroyStep DEF SendFailed

\* client_sent_func: the rest of a postponed close goes, or the next data.
LEMMA AppAckStep ==
  ASSUME IInv, AppAck
  PROVE  IInv'
<1> DEFINE c == IF tun.closeFuture THEN "eof" ELSE "error"
<1>1. tun.client = "open" /\ UNCHANGED <<mode, inbound, app, far>>
  BY DEF AppAck
<1>2. PICK k \in 1..tun.unacked : \E x \in SentFunc(tun, k) : Becomes(x, c)
  BY DEF AppAck
<1>3. PICK x \in SentFunc(tun, k) : Becomes(x, c)
  BY <1>2
<1>4. Fit(x) /\ Moves(tun, x) /\ Quiet(x)
  BY <1>1, <1>3, Parts, SentFuncFit
<1>5. SameUp(tun, x)
      /\ (tun.destroyed => x.destroyed /\ x.reading = tun.reading /\ x.dialing = tun.dialing)
  BY <1>4 DEF Moves
<1>6. UpLine(x, app) /\ Rest(x, inbound, far.sent) /\ Exact(x, inbound, far)
  BY <1>4, <1>5, Parts, UpSame, RestMoves
<1>7. c = "eof" => mode = "pipeline"
  BY Parts DEF Core
<1> HIDE DEF c
<1>8. Ended(x, cause')
  BY <1>3, <1>4, <1>5, <1>7, Parts, EndedKept
<1> QED
  BY <1>1, <1>3, <1>4, <1>6, <1>8, SessionStep

\* Pipeline::destroy ends the session from outside.
LEMMA PipeDestroyStep ==
  ASSUME IInv, PipeDestroy
  PROVE  IInv'
<1> DEFINE d == Destroy(tun)
           w == IF Contains(tun.sends, "data") THEN CloseClient(d, "aborted") ELSE d
           x == [w EXCEPT !.sends = <<>>]
<1>1. UNCHANGED <<mode, inbound, app, far>> /\ Becomes(x, "error")
  BY DEF PipeDestroy
<1>2. Ends(tun, d) /\ (tun.destroyed => d = tun) /\ Fit(d)
  BY Parts, DestroyEnds, DestroyFit
<1> HIDE DEF d
<1>3. d \in Tun /\ d.destroyed /\ Core(d)
  BY <1>2 DEF Fit, Core, Ends
<1>4. /\ Fit(w) /\ Ends(tun, w)
      /\ w.client = "closed" => d.client = "closed"
  <2>1. CASE w = d
    BY <1>2, <2>1
  <2>2. CASE w = CloseClient(d, "aborted") /\ w # d
    <3>1. d.client = "open"
      BY <1>3, <2>2, CloseClientEnds
    <3>2. Ends(d, w) /\ w.client = "aborted" /\ Fit(w)
      BY <1>3, <2>2, <3>1, CloseClientEnds, DestroyFit
    <3>3. Ends(tun, w)
      BY <1>2, <3>2 DEF Ends, SameUp, SameDown
    <3> QED
      BY <3>2, <3>3
  <2> QED
    BY <2>1, <2>2
<1> HIDE DEF w
<1>5. w \in Tun /\ Core(w) /\ w.destroyed
  BY <1>4 DEF Fit, Core, Ends
<1>6. x \in Tun
  <2>1. <<>> \in Seq(Handler)
    OBVIOUS
  <2> QED
    BY <1>5, <2>1 DEF Tun
<1>7. Alike(w, x)
  BY <1>5, <1>6 DEF Alike, Tun, SameUp, SameDown, SameClient
<1> HIDE DEF x
<1>8. Core(x)
  BY <1>5, <1>7, AlikeCore
<1>9. Ends(tun, x) /\ x.client = w.client
  BY <1>4, <1>7 DEF Ends, Alike, SameUp, SameDown, SameClient
<1>10. Fit(x)
  BY <1>8, <1>9 DEF Fit, Ends
<1>11. UpLine(x, app) /\ Rest(x, inbound, far.sent) /\ Exact(x, inbound, far)
  BY <1>9, Parts, EndsStreams
<1>12. tun.destroyed /\ cause = "eof" => Quiet(x)
  BY <1>2, <1>4, <1>9, Parts DEF Ended, Quiet, Ends, SameDown
<1>13. x.destroyed /\ x.reading = tun.reading /\ x.dialing = tun.dialing
  BY <1>9 DEF Ends
<1>14. Ended(x, cause')
  BY <1>1, <1>12, <1>13, Parts, EndedKept
<1> QED
  BY <1>1, <1>10, <1>11, <1>14, SessionStep

\* A read of the out socket ends.
LEMMA ReadEnds ==
  ASSUME NEW w, Fit(w), mode # "pipeline", w.reading > 0
  PROVE  LET v == [w EXCEPT !.reading = @ - 1]
         IN  /\ v \in Tun /\ SameUp(w, v) /\ SameDown(w, v) /\ SameClient(w, v)
             /\ v.destroyed = w.destroyed /\ Core(v)
             /\ ~w.destroyed => v.reading = 0 /\ Unlinked(v)
<1> DEFINE r == w.reading - 1
           v == [w EXCEPT !.reading = @ - 1]
<1>1. w \in Tun /\ Core(w)
  BY DEF Fit, Core
<1>2. r \in Nat
  <2>1. w.reading \in Nat
    BY <1>1, TunNumbers
  <2> QED
    BY <2>1
<1>3. v = [w EXCEPT !.reading = r]
  OBVIOUS
<1> HIDE DEF r, v
<1>4. v \in Tun
  BY <1>1, <1>2, <1>3 DEF Tun
<1>5. /\ SameUp(w, v) /\ SameDown(w, v) /\ SameClient(w, v)
      /\ v.destroyed = w.destroyed /\ v.dialing = w.dialing
      /\ v.closeFuture = w.closeFuture /\ v.asyncWriting = w.asyncWriting
      /\ v.reading = r /\ v.waiting = w.waiting /\ v.sends = w.sends
  BY <1>1, <1>3 DEF Tun, SameUp, SameDown, SameClient
<1>6. Owed(v) /\ Credited(v)
  BY <1>1, <1>5 DEF Core, Owed, Credited, SameDown, SameClient
<1>7. Core(v)
  BY <1>1, <1>4, <1>5, <1>6 DEF Core, SameClient, SameUp
<1>8. ASSUME ~w.destroyed PROVE v.reading = 0 /\ Unlinked(v)
  <2>1. Chain(w)
    BY <1>8 DEF Fit
  <2>2. w.reading = 1
    BY <2>1 DEF Chain
  <2>3. Marks(w) = {} /\ w.connected /\ ~w.waiting /\ ~w.dialing
    BY <2>1, <2>2 DEF Chain
  <2>4. r = 0
    BY <2>2 DEF r
  <2>5. Marks(v) = {}
    BY <1>5, <2>3 DEF Marks
  <2> QED
    BY <1>5, <2>3, <2>4, <2>5 DEF Unlinked, SameUp
<1> QED
  BY <1>4, <1>5, <1>7, <1>8 DEF v

\* The socket ends: nothing was owed if the client is closed at once.
LEMMA ReadEofStep ==
  ASSUME IInv, ReadEof
  PROVE  IInv'
<1> DEFINE v == [tun EXCEPT !.reading = @ - 1]
           x == Destroy(v)
<1>1. /\ mode # "pipeline" /\ tun.reading > 0 /\ ~tun.destroyed
      /\ Becomes(x, "eof") /\ UNCHANGED <<mode, inbound, app, far>>
  BY DEF ReadEof
<1>2. /\ v \in Tun /\ SameUp(tun, v) /\ SameDown(tun, v) /\ SameClient(tun, v)
      /\ v.destroyed = tun.destroyed /\ Core(v) /\ v.reading = 0
  BY <1>1, Parts, ReadEnds
<1> HIDE DEF v
<1>3. Ends(v, x) /\ Fit(x) /\ Quiet(x)
  BY <1>1, <1>2, DestroyEnds, DestroyFit, DestroyQuiet
<1> HIDE DEF x
<1>4. UpLine(v, app) /\ Rest(v, inbound, far.sent) /\ Exact(v, inbound, far)
  BY <1>2, Parts, UpSame, RestSame
<1>5. UpLine(x, app) /\ Rest(x, inbound, far.sent) /\ Exact(x, inbound, far)
  BY <1>3, <1>4, EndsStreams
<1>6. x.reading = 0 /\ ~x.dialing
  <2>1. v.connected
    BY <1>1, <1>2, Parts DEF Chain, SameUp
  <2> QED
    BY <1>2, <1>3, <2>1 DEF Ends, Core
<1>7. Ended(x, cause')
  BY <1>1, <1>3, <1>6, Parts, EndedKept
<1> QED
  BY <1>1, <1>3, <1>5, <1>7, SessionStep

\* A read fails, or was aborted by destroy.
LEMMA ReadErrorStep ==
  ASSUME IInv, ReadError
  PROVE  IInv'
<1> DEFINE v == [tun EXCEPT !.reading = @ - 1]
           x == Destroy(v)
<1>1. /\ mode # "pipeline" /\ tun.reading > 0
      /\ Becomes(x, "error") /\ UNCHANGED <<mode, inbound, app, far>>
  BY DEF ReadError
<1>2. /\ v \in Tun /\ SameUp(tun, v) /\ SameDown(tun, v) /\ SameClient(tun, v)
      /\ v.destroyed = tun.destroyed /\ Core(v)
  BY <1>1, Parts, ReadEnds
<1> HIDE DEF v
<1>3. Ends(v, x) /\ Fit(x)
  BY <1>2, DestroyEnds, DestroyFit DEF Core
<1> HIDE DEF x
<1>4. UpLine(v, app) /\ Rest(v, inbound, far.sent) /\ Exact(v, inbound, far)
  BY <1>2, Parts, UpSame, RestSame
<1>5. UpLine(x, app) /\ Rest(x, inbound, far.sent) /\ Exact(x, inbound, far)
  BY <1>3, <1>4, EndsStreams
<1>6. cause # "eof"
  BY <1>1, Parts DEF Ended
<1>7. Ended(x, cause')
  BY <1>1, <1>6, Parts, EndedKept
<1> QED
  BY <1>1, <1>3, <1>5, <1>7, SessionStep

\* A read returns data, for a live session or for one already destroyed.
LEMMA ReadDoneStep ==
  ASSUME IInv, ReadDone
  PROVE  IInv'
<1> DEFINE v == [tun EXCEPT !.reading = @ - 1]
           g == Got(tun)
           n == far.sent
<1>1. mode # "pipeline" /\ tun.reading > 0 /\ UNCHANGED <<mode, app, far>>
  BY DEF ReadDone
<1>2. PICK k \in 1..Len(inbound) :
         /\ \A i \in 1..k : inbound[i].cmd = "DATA"
         /\ inbound' = SubSeq(inbound, k + 1, Len(inbound))
         /\ \E w \in Received(v, [i \in 1..k |-> inbound[i].unit], 0) : Becomes(w, "error")
  BY DEF ReadDone
<1> DEFINE data == [i \in 1..k |-> inbound[i].unit]
<1>3. PICK x \in Received(v, data, 0) : Becomes(x, "error")
  BY <1>2
<1>4. /\ v \in Tun /\ SameUp(tun, v) /\ SameDown(tun, v) /\ SameClient(tun, v)
      /\ v.destroyed = tun.destroyed /\ Core(v)
      /\ ~tun.destroyed => Unlinked(v)
  BY <1>1, Parts, ReadEnds
<1> HIDE DEF v
<1>5. g \in Nat /\ n \in Nat /\ SocketLine(inbound, g, n) /\ inbound \in Inbound
  BY <1>1, Parts, GotType DEF Rest
<1> HIDE DEF g
<1>6. /\ inbound' \in Inbound /\ Len(inbound') = Len(inbound) - k
      /\ data \in Seq(Nat) /\ Len(data) = k /\ Run(data, g) /\ data # <<>>
      /\ SocketLine(inbound', g + k, n)
  BY <1>2, <1>5, SocketTaken
<1> HIDE DEF data
<1>7. Sound(v) /\ CreditWith(v, 0, data) /\ Loose(v) /\ 0 \in Nat
  BY <1>1, <1>4 DEF Core, Sound, CreditWith, Loose
<1>8. Fit(x) /\ Takes(v, x, data)
  BY <1>3, <1>6, <1>7, ReceivedFit
<1>9. Got(v) = g /\ DownLine(v)
  BY <1>4, Parts DEF SameDown, Got, DownLine, Rest, g
<1>10. Got(x) = g + k /\ DownLine(x) /\ SameUp(v, x) /\ (v.destroyed => x.destroyed)
  BY <1>6, <1>8, <1>9 DEF Takes
<1>11. SameUp(tun, x) /\ (tun.destroyed => x.destroyed)
  BY <1>4, <1>10 DEF SameUp
<1>12. UpLine(x, app)
  BY <1>11, Parts, UpSame
<1>13. Rest(x, inbound', n)
  <2>1. g + k <= n
    BY <1>6 DEF SocketLine
  <2> QED
    BY <1>1, <1>6, <1>10, <2>1 DEF Rest
<1>14. Exact(x, inbound', far)
  <2> SUFFICES ASSUME ~far.closed PROVE Len(inbound') = n - (g + k)
    BY <1>10 DEF Exact
  <2> DEFINE l == Len(inbound)
  <2>1. l = n - g
    BY <1>1, Parts DEF Exact, g
  <2>2. k \in Int /\ Len(inbound') = l - k
    BY <1>6
  <2> HIDE DEF l, n
  <2>3. l - k = n - (g + k)
    BY <1>5, <2>1, <2>2
  <2> QED
    BY <2>2, <2>3
<1>15. cause # "eof"
  BY <1>1, Parts DEF Ended
<1>16. Ended(x, cause')
  BY <1>3, <1>15, Parts, EndedKept
<1>17. tun' = x
  BY <1>3 DEF Becomes
<1>18. Safe(tun', app', inbound', far', cause')
  BY <1>1, <1>8, <1>12, <1>13, <1>14, <1>16, <1>17 DEF Safe
<1> QED
  BY <1>1, <1>6, <1>18, Parts, Assemble

\* A frame of the pipeline is received and the session changes.
LEMMA FrameStep ==
  ASSUME IInv, mode = "pipeline", inbound # <<>>, inbound' = Tail(inbound),
         UNCHANGED <<mode, app, far>>, NEW x, tun' = x,
         Fit(x), UpLine(x, app), Rest(x, Tail(inbound), far.sent), Ended(x, cause')
  PROVE  IInv'
<1>1. Tail(inbound) \in Inbound
  BY Parts, FramesTail
<1>2. Safe(tun', app', inbound', far', cause')
  BY DEF Safe, Exact
<1> QED
  BY <1>1, <1>2, Parts, Assemble

\* What the frames of a live session hold, and what is left of them.
LEMMA NextFrame ==
  ASSUME IInv, mode = "pipeline", inbound # <<>>, ~tun.destroyed
  PROVE  LET m == Got(tun) + Len(tun.queue)
         IN  /\ m \in Nat /\ Got(tun) <= far.sent
             /\ DownLine(tun) /\ Run(tun.queue, Got(tun))
             /\ Head(inbound).cmd = "DATA" =>
                  /\ Head(inbound).unit = m + 1 /\ m + 1 <= far.sent
                  /\ FrameLine(Tail(inbound), m + 1, far.sent)
             /\ Head(inbound).cmd # "DATA" => FrameLine(Tail(inbound), m, far.sent)
<1> DEFINE m == Got(tun) + Len(tun.queue)
<1>1. m \in Nat
  BY Parts, GotType
<1>2. /\ Got(tun) <= far.sent /\ DownLine(tun) /\ Run(tun.queue, Got(tun))
      /\ FrameLine(inbound, m, far.sent)
  BY Parts DEF Rest
<1> HIDE DEF m
<1>3. /\ Head(inbound).cmd = "DATA" =>
           Head(inbound).unit = m + 1 /\ FrameLine(Tail(inbound), m + 1, far.sent)
      /\ Head(inbound).cmd # "DATA" => FrameLine(Tail(inbound), m, far.sent)
  BY <1>1, <1>2, Parts, FrameTaken
<1>4. Head(inbound).cmd = "DATA" => m + 1 <= far.sent
  BY <1>3 DEF FrameLine
<1> QED
  BY <1>1, <1>2, <1>3, <1>4 DEF m

\* Another frame leaves what was received as it is.
LEMMA OtherFrame ==
  ASSUME IInv, mode = "pipeline", inbound # <<>>, ~tun.destroyed,
         Head(inbound).cmd # "DATA", NEW x, SameDown(tun, x)
  PROVE  Rest(x, Tail(inbound), far.sent)
<1>1. /\ Got(tun) <= far.sent /\ DownLine(tun) /\ Run(tun.queue, Got(tun))
      /\ FrameLine(Tail(inbound), Got(tun) + Len(tun.queue), far.sent)
  BY NextFrame
<1>2. Got(x) = Got(tun) /\ DownLine(x) = DownLine(tun) /\ x.queue = tun.queue
  BY DEF SameDown, Got, DownLine
<1> QED
  BY <1>1, <1>2 DEF Rest

\* A DATA frame is pushed into the data cache.
LEMMA PushFit ==
  ASSUME NEW w, Fit(w), ~w.destroyed, ~w.waiting, NEW u \in Nat
  PROVE  LET x == [w EXCEPT !.pushAck = @ + 1, !.queue = Append(@, u)]
         IN  /\ Fit(x) /\ SameUp(w, x) /\ x.written = w.written /\ x.recvBuf = w.recvBuf
             /\ x.queue = Append(w.queue, u) /\ ~x.destroyed
<1> DEFINE a == w.pushAck + 1
           q == Append(w.queue, u)
           x == [w EXCEPT !.pushAck = @ + 1, !.queue = Append(@, u)]
<1>1. w \in Tun /\ Core(w) /\ Chain(w)
  BY DEF Fit, Core
<1>2. x = [w EXCEPT !.pushAck = a, !.queue = q]
  OBVIOUS
<1>3. w.pushAck \in Nat /\ w.queue \in Seq(Nat)
  BY <1>1, TunNumbers, TunSequences
<1>4. a \in Nat /\ q \in Seq(Nat) /\ Len(q) = Len(w.queue) + 1
  BY <1>3
<1> HIDE DEF a, q, x
<1>5. x \in Tun
  BY <1>1, <1>2, <1>4 DEF Tun
<1>6. /\ SameUp(w, x) /\ x.written = w.written /\ x.recvBuf = w.recvBuf /\ x.queue = q
      /\ SameClient(w, x) /\ x.destroyed = w.destroyed /\ x.dialing = w.dialing
      /\ x.closeFuture = w.closeFuture /\ x.asyncWriting = w.asyncWriting
      /\ x.acks = w.acks /\ x.readAck = w.readAck /\ x.pushAck = a
      /\ x.reading = w.reading /\ x.waiting = w.waiting /\ x.sends = w.sends
  BY <1>1, <1>2 DEF Tun, SameUp, SameClient
<1>7. Owed(x)
  BY <1>1, <1>6 DEF Core, Owed, SameClient
<1>8. Credited(x)
  <2> SUFFICES ASSUME mode = "pipeline"
               PROVE  x.acks + x.readAck + x.pushAck
                        = Len(x.written) + Len(x.recvBuf) + Len(x.queue)
    BY DEF Credited
  <2> DEFINE t == Len(w.written)
             b == Len(w.recvBuf)
             l == Len(w.queue)
  <2>1. /\ t \in Nat /\ b \in Nat /\ l \in Nat
        /\ w.acks \in Nat /\ w.readAck \in Nat /\ w.pushAck \in Nat
    BY <1>1, TunLengths, TunNumbers
  <2>2. w.acks + w.readAck + w.pushAck = t + b + l
    BY <1>1 DEF Core, Credited
  <2> HIDE DEF t, b, l
  <2>3. w.acks + w.readAck + (w.pushAck + 1) = t + b + (l + 1)
    BY <2>1, <2>2
  <2> QED
    BY <1>4, <1>6, <2>3 DEF t, b, l, a
<1>9. Core(x)
  BY <1>1, <1>5, <1>6, <1>7, <1>8 DEF Core, SameClient, SameUp
<1>10. Marks(x) = Marks(w)
  BY <1>6 DEF Marks
<1>11. Chain(x)
  BY <1>1, <1>6, <1>10 DEF Chain, SameUp
<1> QED
  BY <1>6, <1>9, <1>11 DEF Fit, q, x

\* The session stops waiting for data.
LEMMA WakeFit ==
  ASSUME NEW w, Fit(w), ~w.destroyed, w.waiting, NEW u \in Nat
  PROVE  LET v == [w EXCEPT !.waiting = FALSE]
         IN  /\ Sound(v) /\ CreditWith(v, 1, <<u>>) /\ Loose(v)
             /\ SameUp(w, v) /\ SameDown(w, v) /\ v.queue = <<>> /\ ~v.destroyed
<1> DEFINE v == [w EXCEPT !.waiting = FALSE]
<1>1. w \in Tun /\ Core(w) /\ Chain(w)
  BY DEF Fit, Core
<1>2. v \in Tun
  BY <1>1 DEF Tun
<1>3. /\ SameUp(w, v) /\ SameDown(w, v) /\ SameClient(w, v) /\ v.destroyed = w.destroyed
      /\ v.dialing = w.dialing /\ v.closeFuture = w.closeFuture
      /\ v.asyncWriting = w.asyncWriting /\ v.sends = w.sends /\ ~v.waiting
      /\ v.acks = w.acks /\ v.readAck = w.readAck /\ v.pushAck = w.pushAck
      /\ v.reading = w.reading
  BY <1>1 DEF Tun, SameUp, SameDown, SameClient
<1> HIDE DEF v
<1>4. w.connected /\ w.queue = <<>> /\ Marks(w) = {} /\ w.reading = 0 /\ ~w.dialing
  BY <1>1 DEF Chain
<1>5. Owed(v)
  BY <1>1, <1>3 DEF Core, Owed, SameDown, SameClient
<1>6. Sound(v)
  BY <1>1, <1>2, <1>3, <1>5 DEF Sound, Core, SameClient, SameUp
<1>7. Marks(v) = {}
  BY <1>3, <1>4 DEF Marks
<1>8. Loose(v)
  BY <1>3, <1>4, <1>7 DEF Loose, Unlinked, SameUp
<1>9. CreditWith(v, 1, <<u>>)
  <2>1. Credited(v)
    BY <1>1, <1>3 DEF Core, Credited, SameDown
  <2>2. Len(<<u>>) = 1
    OBVIOUS
  <2> DEFINE s == v.acks + v.readAck + v.pushAck
             t == Len(v.written) + Len(v.recvBuf) + Len(v.queue)
  <2>3. (mode = "pipeline" /\ ~v.destroyed) => s = t
    BY <2>1 DEF Credited
  <2> HIDE DEF s, t
  <2>4. (mode = "pipeline" /\ ~v.destroyed) => s + 1 = t + Len(<<u>>)
    BY <2>2, <2>3
  <2> QED
    BY <2>4 DEF CreditWith, s, t
<1> QED
  BY <1>3, <1>4, <1>6, <1>8, <1>9 DEF SameDown, v

\* A frame of the pipeline is received.
LEMMA RecvFrameStep ==
  ASSUME IInv, RecvFrame
  PROVE  IInv'
<1> DEFINE f == Head(inbound)
           m == Got(tun) + Len(tun.queue)
<1>1. /\ mode = "pipeline" /\ inbound # <<>> /\ inbound' = Tail(inbound)
      /\ UNCHANGED <<mode, app, far>>
  BY DEF RecvFrame
\* A destroyed session is no longer listed.
<1>2. CASE tun.destroyed /\ UNCHANGED <<tun, cause>>
  <2>1. Rest(tun, Tail(inbound), far.sent)
    BY <1>1, <1>2, Parts DEF Rest
  <2>2. Ended(tun, cause')
    BY <1>2, Parts
  <2> QED
    BY <1>1, <1>2, <2>1, <2>2, Parts, FrameStep
\* DATA for a session that waits for it.
<1>3. ASSUME ~tun.destroyed, f.cmd = "DATA", tun.waiting,
             NEW x \in Received([tun EXCEPT !.waiting = FALSE], <<f.unit>>, 1),
             Becomes(x, "error")
      PROVE  IInv'
  <2> DEFINE u == f.unit
             g == Got(tun)
             v == [tun EXCEPT !.waiting = FALSE]
             n == far.sent
  <2>1. /\ m \in Nat /\ u = m + 1 /\ m + 1 <= n /\ DownLine(tun)
        /\ FrameLine(Tail(inbound), m + 1, n)
    BY <1>1, <1>3, NextFrame
  <2>2. u \in Nat
    BY <2>1
  <2>3. /\ Sound(v) /\ CreditWith(v, 1, <<u>>) /\ Loose(v)
        /\ SameUp(tun, v) /\ SameDown(tun, v) /\ v.queue = <<>> /\ ~v.destroyed
    BY <1>3, <2>2, Parts, WakeFit
  <2>4. x \in Received(v, <<u>>, 1)
    BY <1>3
  <2> HIDE DEF v, u, m
  <2>5. <<u>> \in Seq(Nat) /\ <<u>> # <<>> /\ Len(<<u>>) = 1 /\ <<u>>[1] = u /\ 1 \in Nat
    BY <2>2
  <2>6. Fit(x) /\ Takes(v, x, <<u>>)
    BY <2>3, <2>4, <2>5, ReceivedFit
  <2>7. Got(v) = g /\ DownLine(v) /\ tun.queue = <<>>
    BY <2>1, <2>3 DEF SameDown, Got, DownLine
  <2>8. m = g /\ g \in Nat
    <3>1. Len(<<>>) = 0 /\ g \in Nat
      BY Parts, GotType
    <3> HIDE DEF g
    <3>2. g + 0 = g
      BY <3>1
    <3> QED
      BY <2>7, <3>1, <3>2 DEF m, g
  <2> HIDE DEF g
  <2>9. Run(<<u>>, g)
    <3>1. \A i \in 1..1 : i = 1
      OBVIOUS
    <3> QED
      BY <2>1, <2>5, <2>8, <3>1 DEF Run
  <2>10. Got(x) = g + 1 /\ DownLine(x) /\ SameUp(v, x) /\ x.queue = <<>>
    BY <2>3, <2>5, <2>6, <2>7, <2>9 DEF Takes
  <2>11. SameUp(tun, x)
    BY <2>3, <2>10 DEF SameUp
  <2>12. UpLine(x, app)
    BY <1>3, <2>11, Parts, UpSame
  <2>13. Got(x) + Len(x.queue) = g + 1
    <3>1. Len(<<>>) = 0 /\ (g + 1) + 0 = g + 1
      BY <2>8
    <3> QED
      BY <2>10, <3>1
  <2>14. Rest(x, Tail(inbound), n)
    BY <1>1, <2>1, <2>8, <2>10, <2>13, RunEmpty DEF Rest
  <2>15. Ended(x, cause') /\ tun' = x
    BY <1>3, LiveEnded DEF Becomes
  <2> QED
    BY <1>1, <2>6, <2>12, <2>14, <2>15, FrameStep
\* DATA for a session that does not: it goes to the data cache.
<1>4. ASSUME ~tun.destroyed, f.cmd = "DATA", ~tun.waiting,
             Becomes([tun EXCEPT !.pushAck = @ + 1, !.queue = Append(@, f.unit)], "error")
      PROVE  IInv'
  <2> DEFINE u == f.unit
             g == Got(tun)
             l == Len(tun.queue)
             x == [tun EXCEPT !.pushAck = @ + 1, !.queue = Append(@, u)]
             n == far.sent
  <2>1. /\ m \in Nat /\ u = m + 1 /\ g <= n /\ DownLine(tun) /\ Run(tun.queue, g)
        /\ FrameLine(Tail(inbound), m + 1, n)
    BY <1>1, <1>4, NextFrame
  <2>2. u \in Nat
    BY <2>1
  <2>3. /\ Fit(x) /\ SameUp(tun, x) /\ x.written = tun.written /\ x.recvBuf = tun.recvBuf
        /\ x.queue = Append(tun.queue, u) /\ ~x.destroyed
    BY <1>4, <2>2, Parts, PushFit
  <2>4. Becomes(x, "error")
    BY <1>4
  <2> HIDE DEF x, u
  <2>5. g \in Nat /\ l \in Nat /\ g \in Int /\ tun.queue \in Seq(Nat) /\ m = g + l
    BY Parts, GotType, TunSequences
  <2> HIDE DEF g, l, m
  <2>6. u = g + (l + 1) /\ m + 1 = g + (l + 1)
    BY <2>1, <2>5
  <2>7. Len(Append(tun.queue, u)) = l + 1 /\ Run(Append(tun.queue, u), g)
    BY <2>1, <2>2, <2>5, <2>6, RunAppend DEF l
  <2>8. Got(x) = g /\ DownLine(x)
    BY <2>1, <2>3 DEF Got, DownLine, g
  <2>9. Rest(x, Tail(inbound), n)
    BY <1>1, <2>1, <2>3, <2>6, <2>7, <2>8 DEF Rest
  <2>10. UpLine(x, app)
    BY <1>4, <2>3, Parts, UpSame
  <2>11. Ended(x, cause') /\ tun' = x
    BY <1>4, <2>4, LiveEnded DEF Becomes
  <2> QED
    BY <1>1, <2>3, <2>9, <2>10, <2>11, FrameStep
\* ACK
<1>5. ASSUME ~tun.destroyed, f.cmd = "ACK", Becomes(RecvAckCmd(tun), "error")
      PROVE  IInv'
  <2> DEFINE x == RecvAckCmd(tun)
  <2>1. Alike(tun, x) /\ x.sends = tun.sends
    BY Parts, RecvAckAlike
  <2>2. Becomes(x, "error")
    BY <1>5
  <2> HIDE DEF x
  <2>3. Fit(x)
    BY <2>1, Parts, AlikeFit DEF Marks
  <2>4. SameUp(tun, x) /\ SameDown(tun, x) /\ x.destroyed = tun.destroyed
    BY <2>1 DEF Alike
  <2>5. f.cmd # "DATA"
    BY <1>5
  <2>6. Rest(x, Tail(inbound), far.sent)
    BY <1>1, <1>5, <2>4, <2>5, OtherFrame
  <2>7. UpLine(x, app)
    BY <2>4, Parts, UpSame
  <2>8. Ended(x, cause') /\ tun' = x
    BY <1>5, <2>2, LiveEnded DEF Becomes
  <2> QED
    BY <1>1, <2>3, <2>6, <2>7, <2>8, FrameStep
\* CLOSE, while something is still to be written
<1>6. ASSUME ~tun.destroyed, f.cmd = "CLOSE",
             Becomes([tun EXCEPT !.closeFuture = TRUE], "eof")
      PROVE  IInv'
  <2> DEFINE x == [tun EXCEPT !.closeFuture = TRUE]
  <2>1. x \in Tun
    BY Parts DEF Tun
  <2>2. /\ SameUp(tun, x) /\ SameDown(tun, x) /\ SameClient(tun, x)
        /\ x.destroyed = tun.destroyed /\ x.dialing = tun.dialing
        /\ x.asyncWriting = tun.asyncWriting /\ x.sends = tun.sends
        /\ x.acks = tun.acks /\ x.readAck = tun.readAck /\ x.pushAck = tun.pushAck
        /\ x.reading = tun.reading /\ x.waiting = tun.waiting
    BY Parts DEF Tun, SameUp, SameDown, SameClient
  <2>3. Becomes(x, "eof")
    BY <1>6
  <2> HIDE DEF x
  <2>4. Core(tun) /\ Chain(tun)
    BY <1>6, Parts
  <2>5. Owed(x) /\ Credited(x)
    BY <2>2, <2>4 DEF Core, Owed, Credited, SameDown, SameClient
  <2>6. Core(x)
    BY <1>1, <2>1, <2>2, <2>4, <2>5 DEF Core, SameClient, SameUp
  <2>7. Marks(x) = Marks(tun)
    BY <2>2 DEF Marks
  <2>8. Chain(x)
    BY <2>2, <2>4, <2>7 DEF Chain, SameUp, SameDown
  <2>9. Fit(x)
    BY <2>6, <2>8 DEF Fit
  <2>10. f.cmd # "DATA"
    BY <1>6
  <2>11. Rest(x, Tail(inbound), far.sent)
    BY <1>1, <1>6, <2>2, <2>10, OtherFrame
  <2>12. UpLine(x, app)
    BY <2>2, Parts, UpSame
  <2>13. Ended(x, cause') /\ tun' = x
    BY <1>6, <2>2, <2>3, Parts, EndedKept DEF Becomes
  <2> QED
    BY <1>1, <2>9, <2>11, <2>12, <2>13, FrameStep
\* CLOSE, when nothing is
<1>7. ASSUME ~tun.destroyed, f.cmd = "CLOSE", Becomes(Destroy(tun), "eof")
      PROVE  IInv'
  <2> DEFINE x == Destroy(tun)
  <2>1. Ends(tun, x) /\ Fit(x) /\ Quiet(x)
    BY <1>7, Parts, DestroyEnds, DestroyFit, DestroyQuiet
  <2>2. Becomes(x, "eof")
    BY <1>7
  <2> HIDE DEF x
  <2>3. SameUp(tun, x) /\ SameDown(tun, x) /\ x.destroyed
    BY <2>1 DEF Ends
  <2>4. f.cmd # "DATA"
    BY <1>7
  <2>5. Rest(x, Tail(inbound), far.sent)
    BY <1>1, <1>7, <2>3, <2>4, OtherFrame
  <2>6. UpLine(x, app)
    BY <2>3, Parts, UpSame
  <2>7. Ended(x, cause') /\ tun' = x
    BY <1>1, <1>7, <2>1, <2>2, Parts, EndedKept DEF Becomes
  <2> QED
    BY <1>1, <2>1, <2>5, <2>6, <2>7, FrameStep
<1> QED
  BY <1>2, <1>3, <1>4, <1>5, <1>6, <1>7 DEF RecvFrame

\* The far end sends, closes or acknowledges.
LEMMA FarStep ==
  ASSUME IInv, UNCHANGED <<mode, tun, app, cause>>, inbound' \in Inbound, far' \in FarEnd,
         far'.sent >= far.sent,
         \A m \in Nat : FrameLine(inbound, m, far.sent) => FrameLine(inbound', m, far'.sent),
         mode # "pipeline" => SocketLine(inbound', Got(tun), far'.sent),
         Exact(tun, inbound', far')
  PROVE  IInv'
<1> DEFINE g == Got(tun)
           l == g + Len(tun.queue)
<1>1. g \in Nat /\ l \in Nat
  BY Parts, GotType
<1>2. far.sent \in Nat /\ far'.sent \in Nat
  BY Parts DEF FarEnd
<1>3. /\ DownLine(tun) /\ g <= far.sent
      /\ (mode = "pipeline" /\ ~tun.destroyed) =>
           Run(tun.queue, g) /\ FrameLine(inbound, l, far.sent)
  BY Parts DEF Rest
<1> HIDE DEF g, l
<1>4. g <= far'.sent
  BY <1>1, <1>2, <1>3
<1>5. (mode = "pipeline" /\ ~tun.destroyed) => FrameLine(inbound', l, far'.sent)
  BY <1>1, <1>3
<1>6. Rest(tun, inbound', far'.sent)
  BY <1>3, <1>4, <1>5 DEF Rest, g, l
<1>7. Safe(tun', app', inbound', far', cause')
  BY <1>6, Parts DEF Safe
<1> QED
  BY <1>7, Parts, Assemble

\* The far end sends a unit.
LEMMA FarSendStep ==
  ASSUME IInv, FarSend
  PROVE  IInv'
<1> DEFINE n == far.sent
           p == Append(inbound, [cmd |-> "DATA", unit |-> n + 1])
           g == Got(tun)
<1>1. /\ ~far.closed /\ inbound' = p /\ far' = [far EXCEPT !.sent = n + 1]
      /\ UNCHANGED <<mode, tun, app, cause>>
  BY DEF FarSend
<1>2. n \in Nat /\ inbound \in Inbound /\ far \in FarEnd /\ g \in Nat
  BY Parts, GotType
<1>3. far' \in FarEnd /\ far'.sent = n + 1 /\ far'.closed = far.closed /\ far'.sent >= far.sent
  BY <1>1, <1>2 DEF FarEnd
<1>4. p \in Inbound
  <2>1. [cmd |-> "DATA", unit |-> n + 1] \in Frame
    BY <1>2 DEF Frame
  <2> QED
    BY <1>2, <2>1, FramesAppend
<1>5. \A m \in Nat : FrameLine(inbound, m, n) => FrameLine(p, m, n + 1)
  BY <1>2, FrameSent
<1>6. mode # "pipeline" => SocketLine(p, g, n + 1) /\ Len(p) = (n + 1) - g
  <2> SUFFICES ASSUME mode # "pipeline"
               PROVE  SocketLine(p, g, n + 1) /\ Len(p) = (n + 1) - g
    OBVIOUS
  <2>1. SocketLine(inbound, g, n) /\ Len(inbound) = n - g
    BY <1>1, Parts DEF Rest, Exact
  <2> QED
    BY <1>2, <2>1, SocketSent
<1>7. Exact(tun, inbound', far')
  BY <1>1, <1>3, <1>6 DEF Exact
<1> QED
  BY <1>1, <1>3, <1>4, <1>5, <1>6, <1>7, FarStep

\* A frame that is not DATA.
LEMMA FarOtherStep ==
  ASSUME IInv, NEW c \in {"ACK", "CLOSE"}, UNCHANGED <<mode, tun, app, cause>>,
         inbound' = Append(inbound, [cmd |-> c, unit |-> 0]),
         far' \in FarEnd, far'.sent = far.sent, mode # "pipeline" => far'.closed
  PROVE  IInv'
<1> DEFINE n == far.sent
           p == Append(inbound, [cmd |-> c, unit |-> 0])
           g == Got(tun)
<1>1. n \in Nat /\ inbound \in Inbound /\ g \in Nat /\ far'.sent >= far.sent
  BY Parts, GotType
<1>2. p \in Inbound
  <2>1. [cmd |-> c, unit |-> 0] \in Frame
    BY DEF Frame
  <2> QED
    BY <1>1, <2>1, FramesAppend
<1>3. \A m \in Nat : FrameLine(inbound, m, n) => FrameLine(p, m, n)
  BY <1>1, FrameOther
<1>4. mode # "pipeline" => SocketLine(p, g, n)
  BY <1>1, Parts, SocketOther DEF Rest
<1>5. Exact(tun, inbound', far')
  BY DEF Exact
<1> QED
  BY <1>1, <1>2, <1>3, <1>4, <1>5, FarStep

\* The far end closes.
LEMMA FarCloseStep ==
  ASSUME IInv, FarClose
  PROVE  IInv'
<1>1. far' \in FarEnd /\ far'.sent = far.sent /\ far'.closed
  BY Parts DEF FarClose, FarEnd
<1> QED
  BY <1>1, FarOtherStep DEF FarClose

\* The server acknowledges a DATA frame.
LEMMA FarAckStep ==
  ASSUME IInv, FarAck
  PROVE  IInv'
<1>1. far' \in FarEnd /\ far'.sent = far.sent
  <2>1. far.acked + 1 \in Nat
    BY Parts DEF FarEnd
  <2> QED
    BY <2>1, Parts DEF FarAck, FarEnd
<1> QED
  BY <1>1, FarOtherStep DEF FarAck

-----------------------------------------------------------------------------
(* The invariant, and what follows from it.                                  *)

\* A connection that was just accepted.
LEMMA InitOK == Init => IInv
<1> SUFFICES ASSUME Init PROVE IInv
  OBVIOUS
<1> DEFINE h == IF mode = "pipeline" THEN <<"start">> ELSE <<>>
<1>1. mode \in Mode /\ Window \in Nat
  BY ModesAssumption, BoundsAssumption DEF Init
<1>2. h \in Seq(Handler)
  BY DEF Handler
<1>3. <<>> \in Seq(Nat) /\ Len(<<>>) = 0 /\ 0 \in Nat /\ 0 + 0 = 0 /\ 0 - 0 = 0
  OBVIOUS
<1>4. tun \in Tun
  <2>1. tun.sends = h
    BY DEF Init
  <2> HIDE DEF h
  <2> QED
    BY <1>1, <1>2, <1>3, <2>1 DEF Init, Tun
<1>5. /\ ~tun.connected /\ ~tun.destroyed /\ tun.dialing = (mode # "pipeline")
      /\ tun.sendBuf = <<>> /\ tun.wire = <<>> /\ tun.written = <<>>
      /\ tun.recvBuf = <<>> /\ tun.queue = <<>> /\ tun.client = "open"
      /\ tun.ackLength = 0 /\ tun.unacked = 0 /\ ~tun.asyncWriting /\ ~tun.closeFuture
      /\ tun.acks = 0 /\ tun.readAck = 0 /\ tun.pushAck = 0
      /\ tun.reading = 0 /\ ~tun.waiting /\ tun.sends = h
  BY DEF Init
<1>6. inbound = <<>> /\ app = 0 /\ cause = "open" /\ far.sent = 0 /\ far \in FarEnd
  BY DEF Init, FarEnd
<1>7. Owed(tun) /\ Credited(tun)
  BY <1>3, <1>5 DEF Owed, Credited
<1>8. Core(tun)
  BY <1>4, <1>5, <1>7 DEF Core
<1>9. Chain(tun)
  <2> HIDE DEF h
  <2>1. /\ tun.reading = 0 /\ ~tun.waiting /\ tun.recvBuf = <<>> /\ ~tun.connected
        /\ tun.reading \in {0, 1} /\ tun.reading # 1
    BY <1>5
  <2>2. CASE mode = "pipeline"
    <3>1. tun.sends = <<"start">> /\ ~tun.dialing
      BY <1>5, <2>2 DEF h
    <3>2. Len(<<"start">>) = 1 /\ <<"start">>[1] = "start" /\ 1..1 = {1}
      OBVIOUS
    <3>3. Len(tun.sends) = 1 /\ tun.sends[1] = "start"
      BY <3>1, <3>2
    <3>4. Marks(tun) = {1}
      BY <3>2, <3>3 DEF Marks
    <3> QED
      BY <2>1, <2>2, <3>1, <3>3, <3>4 DEF Chain
  <2>3. CASE mode # "pipeline"
    <3>1. tun.sends = <<>> /\ tun.dialing
      BY <1>5, <2>3 DEF h
    <3>2. Marks(tun) = {}
      <4>1. Len(tun.sends) = 0 /\ 1..0 = {}
        BY <1>3, <3>1
      <4> QED
        BY <4>1 DEF Marks
    <3> QED
      BY <2>1, <2>3, <3>1, <3>2 DEF Chain
  <2> QED
    BY <2>2, <2>3
<1>10. UpLine(tun, app)
  BY <1>3, <1>5, <1>6, RunEmpty DEF UpLine
<1>11. Got(tun) = 0 /\ Got(tun) + Len(tun.queue) = 0 /\ DownLine(tun)
  BY <1>3, <1>5, RunEmpty DEF Got, DownLine
<1>12. FrameLine(inbound, 0, 0) /\ SocketLine(inbound, 0, 0)
  <2>1. inbound = <<>>
    BY <1>6
  <2>2. DOMAIN <<>> = {} /\ (\A u \in (0 + 1)..0 : FALSE) /\ (\A u \in 1..(0 - 0) : FALSE)
    OBVIOUS
  <2> QED
    BY <1>3, <2>1, <2>2 DEF FrameLine, SocketLine
<1>13. Rest(tun, inbound, far.sent)
  BY <1>5, <1>6, <1>11, <1>12, RunEmpty DEF Rest
<1>14. Exact(tun, inbound, far)
  BY <1>3, <1>6, <1>11 DEF Exact
<1>15. inbound \in Inbound /\ app \in Nat
  BY <1>6 DEF Inbound
<1> QED
  BY <1>1, <1>6, <1>8, <1>9, <1>10, <1>13, <1>14, <1>15 DEF IInv, Safe, Fit, Ended

\* Every step keeps the invariant.
LEMMA StepOK == IInv /\ [Next]_vars => IInv'
<1> SUFFICES ASSUME IInv, [Next]_vars PROVE IInv'
  OBVIOUS
<1>1. CASE UNCHANGED vars
  <2>1. Safe(tun', app', inbound', far', cause')
    BY <1>1 DEF vars, IInv
  <2> QED
    BY <1>1, <2>1, Assemble DEF vars, IInv
<1>2. CASE Next
  <2>1. CASE Dialed
    BY <2>1, DialedStep
  <2>15. CASE DialTimeout
    BY <2>15, DestroyStep DEF DialTimeout
  <2>2. CASE AppSend
    BY <2>2, AppSendStep
  <2>3. CASE AppClose
    BY <2>3, AppCloseStep
  <2>4. CASE Sent
    BY <2>4, SentStep
  <2>5. CASE SendFailed
    BY <2>5, SendFailedStep
  <2>6. CASE ReadDone
    BY <2>6, ReadDoneStep
  <2>7. CASE ReadEof
    BY <2>7, ReadEofStep
  <2>8. CASE ReadError
    BY <2>8, ReadErrorStep
  <2>9. CASE RecvFrame
    BY <2>9, RecvFrameStep
  <2>10. CASE AppAck
    BY <2>10, AppAckStep
  <2>11. CASE PipeDestroy
    BY <2>11, PipeDestroyStep
  <2>12. CASE FarSend
    BY <2>12, FarSendStep
  <2>13. CASE FarClose
    BY <2>13, FarCloseStep
  <2>14. CASE FarAck
    BY <2>14, FarAckStep
  <2> QED
    BY <1>2, <2>1, <2>2, <2>3, <2>4, <2>5, <2>6, <2>7, <2>8, <2>9, <2>10, <2>11,
       <2>12, <2>13, <2>14, <2>15
    DEF Next
<1> QED
  BY <1>1, <1>2

\* The invariant holds in every reachable state.
LEMMA Always == Spec => []IInv
  BY InitOK, StepOK, PTL DEF Spec

\* m_recv_buf_ack_length counts exactly what is in the buffer of the session
\* and in the control block, whatever tcp_write takes and however the
\* acknowledgements of the application are cut, and a pipeline session is
\* marked as writing for exactly as long.
THEOREM OwedAlways == Spec => []OwedExact
<1>1. IInv => OwedExact
  BY Parts DEF Core, Owed, OwedExact
<1> QED
  BY <1>1, Always, PTL

\* Every DATA frame of the far end gives exactly one unit of credit back.
THEOREM CreditReturned == Spec => []AcksExact
<1>1. IInv => AcksExact
  BY Parts DEF Core, Credited, AcksExact
<1> QED
  BY <1>1, Always, PTL

\* An ordinary close after the far end closed leaves nothing that lwip or the
\* session still has to send, over all three ways and also when the CLOSE frame
\* was postponed or the client outlived its session.
THEOREM NothingUnsent == Spec => []ClosedDrained
<1>1. IInv => ClosedDrained
  BY Parts DEF Ended, ClosedDrained
<1> QED
  BY <1>1, Always, PTL

\* One handler, or none, of a kind is pending.
LEMMA CountFacts ==
  ASSUME NEW h
  PROVE  /\ (\A i \in 1..Len(tun.sends) : tun.sends[i] # h) => Count(h) = 0
         /\ \A i \in 1..Len(tun.sends) :
              (\A j \in 1..Len(tun.sends) : tun.sends[j] = h <=> j = i) => Count(h) = 1
<1> DEFINE S == {i \in 1..Len(tun.sends) : tun.sends[i] = h}
<1>1. Count(h) = Cardinality(S)
  BY DEF Count
<1>2. (\A i \in 1..Len(tun.sends) : tun.sends[i] # h) => S = {}
  OBVIOUS
<1>3. \A i \in 1..Len(tun.sends) :
        (\A j \in 1..Len(tun.sends) : tun.sends[j] = h <=> j = i) => S = {i}
  OBVIOUS
<1> HIDE DEF S
<1> QED BY <1>1, <1>2, <1>3, FS_EmptySet, FS_Singleton

\* The links of the chain, counted.
LEMMA ChainCounts ==
  ASSUME tun \in Tun, Chain(tun)
  PROVE  If(~tun.connected) + Count("first") + Count("ack") + tun.reading
           + If(tun.waiting) + If(tun.recvBuf # <<>>) = 1
<1>1. \A i \in 1..Len(tun.sends) : tun.sends[i] \in {"start", "first", "data", "ack"}
  BY DEF Tun, Handler
<1>2. CASE Marks(tun) = {}
  <2>1. \A i \in 1..Len(tun.sends) : tun.sends[i] = "data"
    BY <1>2 DEF Marks
  <2>2. Count("first") = 0 /\ Count("ack") = 0
    BY <2>1, CountFacts
  <2>3. CASE ~tun.connected
    <3>1. tun.reading = 0 /\ ~tun.waiting /\ tun.recvBuf = <<>>
      BY <2>3 DEF Chain
    <3> QED BY <2>2, <2>3, <3>1 DEF If
  <2>4. CASE tun.connected
    <3>1. \/ tun.reading = 1 /\ ~tun.waiting /\ tun.recvBuf = <<>>
          \/ tun.reading = 0 /\ tun.waiting /\ tun.recvBuf = <<>>
          \/ tun.reading = 0 /\ ~tun.waiting /\ tun.recvBuf # <<>>
      BY <1>2, <2>4 DEF Chain
    <3> QED BY <2>2, <2>4, <3>1 DEF If
  <2> QED BY <2>3, <2>4
<1>3. CASE Marks(tun) # {}
  <2>1. PICK i \in 1..Len(tun.sends) : tun.sends[i] # "data"
    BY <1>3 DEF Marks
  <2>2. \A j \in 1..Len(tun.sends) : tun.sends[j] # "data" => j = i
    BY <2>1 DEF Chain, Marks
  <2>3. tun.reading = 0 /\ ~tun.waiting /\ tun.recvBuf = <<>>
    BY <1>3 DEF Chain
  <2>4. tun.sends[i] = "start" <=> ~tun.connected
    BY <2>1 DEF Chain, Marks
  <2>5. \/ ~tun.connected /\ Count("first") = 0 /\ Count("ack") = 0
        \/ tun.connected /\ Count("first") = 1 /\ Count("ack") = 0
        \/ tun.connected /\ Count("first") = 0 /\ Count("ack") = 1
    <3>1. CASE tun.sends[i] = "start"
      <4>1. \A j \in 1..Len(tun.sends) : tun.sends[j] # "first" /\ tun.sends[j] # "ack"
        BY <2>2, <3>1
      <4> QED BY <2>4, <3>1, <4>1, CountFacts
    <3>2. CASE tun.sends[i] = "first"
      <4>1. \A j \in 1..Len(tun.sends) : tun.sends[j] # "ack"
        BY <2>2, <3>2
      <4>2. \A j \in 1..Len(tun.sends) : tun.sends[j] = "first" <=> j = i
        BY <2>2, <3>2
      <4> QED BY <2>4, <3>2, <4>1, <4>2, CountFacts
    <3>3. CASE tun.sends[i] = "ack"
      <4>1. \A j \in 1..Len(tun.sends) : tun.sends[j] # "first"
        BY <2>2, <3>3
      <4>2. \A j \in 1..Len(tun.sends) : tun.sends[j] = "ack" <=> j = i
        BY <2>2, <3>3
      <4> QED BY <2>4, <3>3, <4>1, <4>2, CountFacts
    <3> QED BY <1>1, <2>1, <3>1, <3>2, <3>3
  <2> QED BY <2>3, <2>5 DEF If
<1> QED BY <1>2, <1>3

\* The reading chain of a live session has exactly one link: no second read is
\* begun and the session is never deaf, however the sent handlers, the frames,
\* lwip's acknowledgements and the data cache take turns.
THEOREM OneLink == Spec => []OneReader
<1>1. IInv => OneReader
  BY Parts, ChainCounts DEF OneReader
<1> QED
  BY <1>1, Always, PTL

\* Two runs from the same number: the shorter is a prefix of the longer.
LEMMA RunPrefix ==
  ASSUME NEW a \in Seq(Nat), NEW b \in Seq(Nat), NEW n \in Int,
         Run(a, n), Run(b, n), Len(a) <= Len(b)
  PROVE  IsPrefix(a, b)
<1> DEFINE l == Len(a)
           x == SubSeq(a, 1, l)
           y == SubSeq(b, 1, l)
<1>1. l \in Nat /\ Len(b) \in Nat /\ l <= Len(b)
  OBVIOUS
<1>2. x \in Seq(Nat) /\ Len(x) = l /\ \A i \in 1..l : x[i] = a[i]
  BY <1>1
<1>3. y \in Seq(Nat) /\ Len(y) = l /\ \A i \in 1..l : y[i] = b[i]
  BY <1>1
<1>4. \A i \in 1..l : a[i] = n + i
  BY DEF Run
<1>5. \A i \in 1..l : i \in 1..Len(b)
  BY <1>1
<1>6. \A i \in 1..l : b[i] = n + i
  BY <1>5 DEF Run
<1> HIDE DEF l, x, y
<1>7. x = y
  BY <1>2, <1>3, <1>4, <1>6, SeqEqual
<1> QED
  BY <1>1, <1>7 DEF IsPrefix, l, x, y

\* The units 1 to n.
LEMMA UnitsRun ==
  ASSUME NEW n \in Nat
  PROVE  Units(n) \in Seq(Nat) /\ Len(Units(n)) = n /\ Run(Units(n), 0)
<1>1. Units(n) \in [1..n -> Nat] /\ \A i \in 1..n : Units(n)[i] = i
  BY DEF Units
<1> DEFINE u == Units(n)
<1> HIDE DEF u
<1>2. u \in Seq(Nat) /\ Len(u) = n /\ \A i \in 1..n : u[i] = i
  BY <1>1 DEF u
<1>3. \A i \in 1..n : 0 + i = i
  OBVIOUS
<1> QED
  BY <1>2, <1>3 DEF Run, u

\* Both streams arrive whole and in order, for every window, buffer and volume:
\* the far end sees the request and then what the application sent, also what
\* waited for the session to connect; lwip is given what the far end sent, also
\* what went through the data cache.
THEOREM StreamsWhole == Spec => []StreamsIntact
<1>1. IInv => StreamsIntact
  <2> SUFFICES ASSUME IInv PROVE StreamsIntact
    OBVIOUS
  <2>1. /\ mode \in Mode /\ app \in Nat /\ far.sent \in Nat /\ tun \in Tun
        /\ UpLine(tun, app) /\ DownLine(tun) /\ Got(tun) <= far.sent
    BY Parts DEF Rest
  <2>2. tun.wire \in Seq(Nat) /\ tun.written \in Seq(Nat)
    BY <2>1, TunSequences
  <2>3. IsPrefix(tun.written, Units(far.sent))
    <3> DEFINE n == far.sent
               t == Len(tun.written)
               b == Len(tun.recvBuf)
    <3>1. t \in Nat /\ b \in Nat /\ t + b <= n /\ n \in Nat
      BY <2>1, TunLengths DEF Got
    <3> HIDE DEF t, b, n
    <3>2. t <= n
      BY <3>1
    <3>3. Units(n) \in Seq(Nat) /\ Len(Units(n)) = n /\ Run(Units(n), 0)
      BY <3>1, UnitsRun
    <3>4. Len(tun.written) <= Len(Units(n)) /\ Run(tun.written, 0) /\ 0 \in Int
      BY <2>1, <3>2, <3>3 DEF t, DownLine
    <3> QED
      BY <2>2, <3>3, <3>4, RunPrefix DEF n
  <2>4. IsPrefix(tun.wire, Request \o Units(app))
    <3> DEFINE r == Request \o Units(app)
    <3>1. r \in Seq(Nat) /\ Len(r) = Offset + app /\ Run(r, 0 - Offset)
      BY <2>1, UnitsRun, StartUp
    <3> HIDE DEF r
    <3>2. Offset \in Nat /\ 0 - Offset \in Int
      BY DEF Offset
    <3>3. Run(tun.wire, 0 - Offset) /\ Len(tun.wire) <= Offset + app
      <4>1. CASE tun.connected
        BY <2>1, <4>1 DEF UpLine
      <4>2. CASE ~tun.connected
        <5>1. tun.wire = <<>>
          BY <2>1, <4>2 DEF UpLine
        <5>2. Len(<<>>) = 0 /\ 0 <= Offset + app
          BY <2>1, <3>2
        <5> QED
          BY <5>1, <5>2, RunEmpty
      <4> QED
        BY <4>1, <4>2
    <3> QED
      BY <2>2, <3>1, <3>2, <3>3, RunPrefix DEF r
  <2> QED
    BY <2>3, <2>4 DEF StreamsIntact
<1> QED
  BY <1>1, Always, PTL

\* What the invariant leaves to the types: the way to the far end, the pipeline
\* and the reason for the end.
Kinds == mode \in Modes /\ pipe \in BOOLEAN /\ cause \in {"open", "app", "eof", "error"}

\* The session, its client and the far end keep their types: no count of the
\* session goes below zero, however acknowledgements, credit and reads are
\* interleaved.
THEOREM TunTypes == Spec => []TypeOK
<1>1. Init => Kinds
  BY DEF Init, Kinds
<1>2. Kinds /\ [Next]_vars => Kinds'
  <2> SUFFICES ASSUME Kinds, [Next]_vars PROVE Kinds'
    OBVIOUS
  <2>1. ASSUME NEW x, NEW c \in {"app", "eof", "error"}, Becomes(x, c)
        PROVE  cause' \in {"open", "app", "eof", "error"}
    BY <2>1 DEF Becomes, Kinds
  <2>2. CASE UNCHANGED vars
    BY <2>2 DEF vars, Kinds
  <2>3. CASE Dialed \/ DialTimeout \/ SendFailed \/ ReadEof \/ ReadError \/ AppClose
    BY <2>1, <2>3 DEF Dialed, DialTimeout, SendFailed, ReadEof, ReadError, AppClose, Kinds
  <2>4. CASE Sent
    BY <2>1, <2>4 DEF Sent, Kinds
  <2>5. CASE AppSend \/ ReadDone
    BY <2>1, <2>5 DEF AppSend, ReadDone, Kinds
  <2>6. CASE RecvFrame
    BY <2>1, <2>6 DEF RecvFrame, Kinds
  <2>7. CASE AppAck
    <3>1. mode' = mode /\ pipe' = pipe
      BY <2>7 DEF AppAck
    <3>2. \E x : Becomes(x, "eof") \/ Becomes(x, "error")
      BY <2>7 DEF AppAck
    <3> QED
      BY <2>1, <3>1, <3>2 DEF Kinds
  <2>8. CASE PipeDestroy
    BY <2>1, <2>8 DEF PipeDestroy, Kinds
  <2>9. CASE FarSend \/ FarClose \/ FarAck
    BY <2>9 DEF FarSend, FarClose, FarAck, Kinds
  <2> QED
    BY <2>2, <2>3, <2>4, <2>5, <2>6, <2>7, <2>8, <2>9 DEF Next
<1>3. IInv /\ Kinds => TypeOK
  BY Parts DEF Kinds, TypeOK, Inbound, Frame
<1> QED
  BY <1>1, <1>2, <1>3, Always, PTL DEF Spec
=============================================================================
