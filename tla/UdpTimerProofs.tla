--------------------------- MODULE UdpTimerProofs ---------------------------
(***************************************************************************)
(* Proofs about UdpTimer for every timeout: a UDP session always has a     *)
(* timer, and never outlives its timeout.  What makes this inductive is    *)
(* how udp_gc_timer_checker, which the handler sets to the time of its own *)
(* run, relates to the time of the last packet: see Fresh.                 *)
(***************************************************************************)
EXTENDS UdpTimer, SequenceTheorems, TLAPS

\* Either the checker is not newer than the last packet, or a handler that
\* runs at time d with timeout t finds it too old and destroys the session.
Fresh(t, d) == checker <= lastUse \/ checker + t <= d

\* What holds of the timer of an open session that has had a packet.
Watching ==
  /\ checker # 0 /\ checker <= now /\ lastUse <= now
  /\ armed # {} \/ queued # <<>>
  /\ \A v, w \in armed : v = w
  /\ \A w \in armed : /\ w.timeout <= Timeout /\ now <= w.at
                      /\ w.at <= lastUse + Timeout
                      /\ Fresh(w.timeout, w.at)
                      /\ queued # <<>> => now < w.at
  /\ Len(queued) <= 1
  /\ queued # <<>> => /\ now <= lastUse + Timeout
                      /\ Head(queued) <= Timeout
                      /\ Fresh(Head(queued), now)

\* The inductive invariant: before its first packet a session has no timer.
TimerInv ==
  end = "open" => IF Started THEN Watching
                  ELSE checker = 0 /\ armed = {} /\ queued = <<>> /\ now > 0

\* Every step keeps the types.
LEMMA TimerTypeStep ==
  ASSUME TypeOK, [Next]_vars
  PROVE  TypeOK'
<1> USE DEF TypeOK
<1>1. \A t \in Nat : Arm(t) => armed' \subseteq Wait
  BY DEF Arm, Wait
<1>2. CASE Use
  <2>1. checker' \in Nat /\ lastUse' \in Nat
    BY <1>2 DEF Use
  <2>2. armed' \subseteq Wait
    BY <1>1, <1>2, TimeoutAssumption DEF Use
  <2> QED
    BY <1>2, <2>1, <2>2 DEF Use
<1>3. CASE Expire
  <2>1. PICK w \in armed : /\ armed' = {} /\ queued' = Append(queued, w.timeout)
                           /\ UNCHANGED <<now, checker, end, lastUse, endTime>>
    BY <1>3 DEF Expire
  <2>2. w.timeout \in Nat
    BY DEF Wait
  <2>3. queued' \in Seq(Nat)
    BY <2>1, <2>2
  <2> QED
    BY <2>1, <2>3
<1>4. CASE Handler
  <2>1. queued' \in Seq(Nat) /\ Head(queued) \in Nat
    BY <1>4 DEF Handler
  <2>2. CASE now - checker < Head(queued)
    <3>1. Rest(Head(queued)) \in Int /\ Rest(Head(queued)) > 0
      BY <2>1, <2>2 DEF Rest
    <3>2. armed' \subseteq Wait
      BY <1>1, <1>4, <2>2, <3>1 DEF Handler, Rearm
    <3> QED
      BY <1>4, <2>1, <2>2, <3>2 DEF Handler
  <2>3. CASE ~(now - checker < Head(queued))
    <3>1. Destroy("timeout") /\ UNCHANGED <<now, checker, lastUse>>
      BY <1>4, <2>3 DEF Handler
    <3> QED
      BY <2>1, <3>1 DEF Destroy
  <2> QED
    BY <2>2, <2>3
<1>5. CASE OtherEnd
  BY <1>5 DEF OtherEnd, Destroy
<1>6. CASE Tick
  BY <1>6 DEF Tick
<1>7. CASE UNCHANGED vars
  BY <1>7 DEF vars
<1> QED
  BY <1>2, <1>3, <1>4, <1>5, <1>6, <1>7 DEF Next

\* The clock, the checker and the waits of Session keep their types; the time
\* the handler asks for is never negative.
THEOREM TimerTypeCorrect == Spec => []TypeOK
<1>1. Init => TypeOK
  BY DEF Init, TypeOK, Wait
<1> QED
  BY <1>1, TimerTypeStep, PTL DEF Spec

\* A packet: udp_timer_async_wait().
LEMMA UseKeeps ==
  ASSUME TypeOK, TimerInv, Use
  PROVE  TimerInv'
<1> USE DEF TypeOK
<1>1. end = "open" /\ end' = end /\ now' = now /\ queued' = queued /\ lastUse' = now
  BY DEF Use
<1>2. CASE ~Started
  <2>1. checker = 0 /\ armed = {} /\ queued = <<>> /\ now > 0
    BY <1>1, <1>2 DEF TimerInv
  <2>2. checker' = now /\ armed' = {[at |-> now + Timeout, timeout |-> Timeout]}
    BY <2>1 DEF Use, Arm
  <2>3. Watching'
    BY <1>1, <2>1, <2>2, TimeoutAssumption DEF Watching, Fresh
  <2> QED
    BY <2>3, <1>1, <2>1 DEF TimerInv, Started
<1>3. CASE Started /\ now - checker < Timeout
  <2>1. Watching
    BY <1>1, <1>3 DEF TimerInv
  <2>2. checker' = now /\ armed' = armed
    BY <1>3, <2>1 DEF Use, Watching
  <2>3. armed \subseteq Wait /\ \A w \in armed : w.at \in Nat /\ w.timeout \in Nat
    BY DEF Wait
  <2>4. queued # <<>> => Head(queued) \in Nat
    OBVIOUS
  <2>5. Watching'
    BY <1>1, <2>1, <2>2, <2>3, <2>4, TimeoutAssumption DEF Watching, Fresh
  <2> QED
    BY <1>1, <2>1, <2>5 DEF TimerInv, Started, Watching
<1>4. CASE Started /\ ~(now - checker < Timeout)
  <2>1. Watching
    BY <1>1, <1>4 DEF TimerInv
  <2>2. checker' = checker /\ armed' = {[at |-> now + Timeout, timeout |-> Timeout]}
    BY <1>4, <2>1 DEF Use, Watching, Arm
  <2>3. queued # <<>> => Head(queued) \in Nat
    OBVIOUS
  <2>4. Watching'
    BY <1>1, <2>1, <2>2, <2>3, TimeoutAssumption DEF Watching, Fresh
  <2> QED
    BY <1>1, <2>1, <2>4 DEF TimerInv, Started, Watching
<1> QED
  BY <1>2, <1>3, <1>4

\* The timer expires.
LEMMA ExpireKeeps ==
  ASSUME TypeOK, TimerInv, Expire
  PROVE  TimerInv'
<1> USE DEF TypeOK
<1> SUFFICES ASSUME end = "open" PROVE TimerInv'
  BY DEF TimerInv, Expire
<1>1. PICK w \in armed : /\ now >= w.at
                         /\ armed' = {} /\ queued' = Append(queued, w.timeout)
                         /\ UNCHANGED <<now, checker, end, lastUse, endTime>>
  BY DEF Expire
<1>2. Started /\ Watching
  BY DEF TimerInv
<1>3. w.at \in Nat /\ w.timeout \in Nat
  BY DEF Wait
<1>4. queued = <<>> /\ w.at = now
  BY <1>1, <1>2, <1>3 DEF Watching
<1>5. queued' = <<w.timeout>>
  BY <1>1, <1>4
<1>6. Head(queued') = w.timeout /\ Len(queued') = 1 /\ queued' # <<>>
  BY <1>5
<1>7. Watching'
  BY <1>1, <1>2, <1>3, <1>4, <1>6 DEF Watching, Fresh
<1> QED
  BY <1>1, <1>2, <1>7 DEF TimerInv, Started

\* The handler re-arms the timer, or destroys the session.
LEMMA HandlerKeeps ==
  ASSUME TypeOK, TimerInv, Handler
  PROVE  TimerInv'
<1> USE DEF TypeOK
<1>0. queued # <<>> /\ queued' = Tail(queued) /\ UNCHANGED <<now, lastUse>>
  BY DEF Handler
<1>1. Head(queued) \in Nat
  BY <1>0
<1>2. CASE end # "open"
  BY <1>2 DEF Handler, Destroy, TimerInv
<1>3. CASE end = "open" /\ ~(now - checker < Head(queued))
  BY <1>3 DEF Handler, Destroy, TimerInv
<1>4. CASE end = "open" /\ now - checker < Head(queued)
  <2>1. Started /\ Watching
    BY <1>0, <1>4 DEF TimerInv
  <2>2. /\ checker' = now /\ end' = end
        /\ armed' = {[at |-> now + Rest(Head(queued)), timeout |-> Rest(Head(queued))]}
    BY <1>4 DEF Handler, Rearm, Arm
  <2>3. Len(queued) = 1 /\ queued' = <<>>
    <3>1. Len(queued) \in Nat \ {0}
      BY <1>0, EmptySeq
    <3>2. Len(queued) = 1
      <4>1. Len(queued) <= 1
        BY <2>1, Zenon DEF Watching
      <4>2. \A n \in Nat \ {0} : n <= 1 => n = 1
        OBVIOUS
      <4> QED
        BY <3>1, <4>1, <4>2, Zenon
    <3>3. Tail(queued) \in Seq(Nat) /\ Len(Tail(queued)) = 0
      BY <1>0, <3>2, HeadTailProperties
    <3>4. Tail(queued) = <<>>
      BY <3>3, EmptySeq
    <3> QED
      BY <1>0, <3>2, <3>4
  <2>4. checker <= lastUse
    BY <1>0, <1>1, <1>4, <2>1 DEF Watching, Fresh
  <2> DEFINE r == Rest(Head(queued))
  <2>5. /\ r \in Int /\ r > 0 /\ r <= Timeout
        /\ now + r <= lastUse + Timeout
    BY <1>0, <1>1, <1>4, <2>1, <2>4, TimeoutAssumption DEF Rest, Watching
  <2> HIDE DEF r
  <2>6. armed' = {[at |-> now + r, timeout |-> r]}
    BY <2>2 DEF r
  <2>7. now \in Nat /\ lastUse \in Nat /\ lastUse <= now /\ now # 0
    BY <2>1 DEF Watching
  <2>8. /\ armed' # {} /\ \A v, w \in armed' : v = w
        /\ \A w \in armed' : w.at = now + r /\ w.timeout = r
    BY <2>6
  <2>9. now' = now /\ lastUse' = lastUse /\ checker' = now /\ queued' = <<>>
    BY <1>0, <2>2, <2>3
  <2>10. Len(queued') <= 1
    BY <2>9
  <2>11. \A w \in armed' : /\ w.timeout <= Timeout /\ now' <= w.at
                           /\ w.at <= lastUse' + Timeout
                           /\ checker' + w.timeout <= w.at
    BY <2>5, <2>7, <2>8, <2>9, TimeoutAssumption
  <2>12. checker' # 0 /\ checker' <= now' /\ lastUse' <= now'
    BY <2>7, <2>9
  <2>13. Watching'
    BY <2>8, <2>9, <2>10, <2>11, <2>12 DEF Watching, Fresh
  <2> QED
    BY <1>0, <2>1, <2>13 DEF TimerInv, Started
<1> QED
  BY <1>2, <1>3, <1>4

\* A second passes, with no timer due.
LEMMA TickKeeps ==
  ASSUME TypeOK, TimerInv, Tick
  PROVE  TimerInv'
<1> USE DEF TypeOK
<1>1. now' = now + 1 /\ UNCHANGED <<checker, armed, queued, end, lastUse, endTime>>
  BY DEF Tick
<1>2. queued = <<>> /\ \A w \in armed : ~(now >= w.at)
  BY DEF Tick, Due
<1>3. \A w \in armed : w.at \in Nat /\ w.timeout \in Nat
  BY DEF Wait
<1>4. CASE end # "open"
  BY <1>1, <1>4 DEF TimerInv
<1>5. CASE end = "open" /\ ~Started
  BY <1>1, <1>5 DEF TimerInv, Started
<1>6. CASE end = "open" /\ Started
  <2>1. Watching
    BY <1>6 DEF TimerInv
  <2>2. Watching'
    BY <1>1, <1>2, <1>3, <2>1 DEF Watching, Fresh
  <2> QED
    BY <1>1, <1>6, <2>2 DEF TimerInv, Started
<1> QED
  BY <1>4, <1>5, <1>6

\* Every step keeps the inductive invariant.
LEMMA TimerStep ==
  ASSUME TypeOK, TimerInv, [Next]_vars
  PROVE  TimerInv'
<1>1. CASE OtherEnd
  BY <1>1 DEF OtherEnd, Destroy, TimerInv
<1>2. CASE UNCHANGED vars
  BY <1>2 DEF vars, TimerInv, Started, Watching, Fresh
<1> QED
  BY <1>1, <1>2, UseKeeps, ExpireKeeps, HandlerKeeps, TickKeeps DEF Next

\* The invariant bounds the idle time.
LEMMA InvBounds ==
  ASSUME TypeOK, TimerInv
  PROVE  TimerKept /\ NeverOutlives
<1> USE DEF TypeOK
<1> SUFFICES ASSUME Started, end = "open"
             PROVE  (armed # {} \/ queued # <<>>) /\ now - lastUse <= Timeout
  BY DEF TimerKept, NeverOutlives
<1>1. Watching
  BY DEF TimerInv
<1>2. CASE queued # <<>>
  BY <1>1, <1>2, TimeoutAssumption DEF Watching
<1>3. CASE queued = <<>>
  <2>1. PICK w \in armed : now <= w.at /\ w.at <= lastUse + Timeout
    BY <1>1, <1>3 DEF Watching
  <2>2. w.at \in Nat
    BY DEF Wait
  <2> QED
    BY <1>1, <2>1, <2>2, TimeoutAssumption DEF Watching
<1> QED
  BY <1>2, <1>3

\* An open UDP session always has an armed timer or a queued handler, and no
\* session outlives udp_timeout, for every timeout and every schedule of
\* packets, expiries and handlers of a prompt event loop.
THEOREM IdleSessionsEnd == Spec => [](TimerKept /\ NeverOutlives)
<1>1. Init => TimerInv
  BY DEF Init, TimerInv, Started
<1> QED
  BY <1>1, TimerTypeCorrect, TimerStep, InvBounds, PTL DEF Spec

\* An idle session is never left without the timer that ends it: a packet
\* re-arms it, the handler re-arms it, and only destroy() takes it away.
THEOREM TimerAlways == Spec => []TimerKept
<1>1. TimerKept /\ NeverOutlives => TimerKept
  OBVIOUS
<1> QED
  BY <1>1, IdleSessionsEnd, PTL
=============================================================================
