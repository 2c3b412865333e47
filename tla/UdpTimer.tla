------------------------------ MODULE UdpTimer ------------------------------
(***************************************************************************)
(* The idle timer of a UDP session (Session::udp_timer_async_wait).  Every *)
(* packet calls it; only the first call arms the asio timer, the others    *)
(* note the time in udp_gc_timer_checker, and the handler of the timer     *)
(* compares the two: it re-arms the timer for the time that is left, or    *)
(* destroys the session.                                                   *)
(*                                                                         *)
(* Time is in seconds, as time(nullptr) is.  The event loop is prompt: no  *)
(* second passes while a timer is due or its handler is queued.  A packet  *)
(* of the same second may still be handled before or after either.         *)
(***************************************************************************)
EXTENDS Integers, Sequences

CONSTANTS Timeout,  \* get_udp_timer_timeout_val()
          MaxTime   \* bound on the clock

ASSUME TimeoutAssumption == Timeout \in Nat \ {0}
ASSUME TimeAssumption == MaxTime \in Nat \ {0}

VARIABLES now,      \* time(nullptr); 1 is the second the session starts in
          checker,  \* udp_gc_timer_checker, 0 when unset
          armed,    \* udp_gc_timer: at most one wait, with its captured timeout
          queued,   \* expired waits whose handlers wait in the event loop
          end,      \* why the session was destroyed
          lastUse,  \* when the last packet was handled (history)
          endTime   \* when the session was destroyed (history)

vars == <<now, checker, armed, queued, end, lastUse, endTime>>

Wait == [at : Nat, timeout : Nat]

TypeOK ==
  /\ now \in Nat /\ checker \in Nat /\ lastUse \in Nat /\ endTime \in Nat
  /\ armed \subseteq Wait
  /\ queued \in Seq(Nat)
  /\ end \in {"open", "timeout", "other"}

Init ==
  /\ now = 1 /\ checker = 0 /\ armed = {} /\ queued = <<>>
  /\ end = "open" /\ lastUse = 0 /\ endTime = 0

\* cancel, expires_after, async_wait: a handler that is queued already stays.
Arm(t) == armed' = {[at |-> now + t, timeout |-> t]}

\* udp_timer_async_wait() on a packet, the first one included.
UseCancels ==
  /\ end = "open" /\ lastUse' = now
  /\ checker' = now /\ armed' = {}
  /\ UNCHANGED <<now, queued, end, endTime>>
Use ==
  /\ end = "open" /\ lastUse' = now
  /\ \/ /\ checker # 0 /\ now - checker < Timeout
        /\ checker' = now
        /\ UNCHANGED armed
     \/ /\ ~(checker # 0 /\ now - checker < Timeout)
        /\ checker' = IF checker = 0 THEN now ELSE checker
        /\ Arm(Timeout)
  /\ UNCHANGED <<now, queued, end, endTime>>

\* The timer expires: its handler is queued, and cancel is too late for it.
Expire ==
  \E w \in armed : /\ now >= w.at
                   /\ armed' = {} /\ queued' = Append(queued, w.timeout)
                   /\ UNCHANGED <<now, checker, end, lastUse, endTime>>

\* destroy(), with udp_timer_cancel.
Destroy(why) ==
  /\ end' = IF end = "open" THEN why ELSE end
  /\ endTime' = IF end = "open" THEN now ELSE endTime
  /\ armed' = IF end = "open" /\ checker # 0 THEN {} ELSE armed

\* The handler, which asks for the rest of its own timeout.
Rest(t) == t - (now - checker)
RearmFull(t) == Arm(Timeout)
Rearm(t) == Arm(Rest(t))

Handler ==
  /\ queued # <<>>
  /\ queued' = Tail(queued)
  /\ \/ /\ now - checker < Head(queued)
        /\ checker' = now
        /\ Rearm(Head(queued))
        /\ UNCHANGED <<end, endTime>>
     \/ /\ ~(now - checker < Head(queued))
        /\ Destroy("timeout")
        /\ UNCHANGED checker
  /\ UNCHANGED <<now, lastUse>>

\* The session is destroyed for another reason.
OtherEnd ==
  /\ end = "open" /\ Destroy("other")
  /\ UNCHANGED <<now, checker, queued, lastUse>>

Due == queued # <<>> \/ \E w \in armed : now >= w.at

Tick ==
  /\ ~Due /\ now < MaxTime /\ now' = now + 1
  /\ UNCHANGED <<checker, armed, queued, end, lastUse, endTime>>

Next == Use \/ Expire \/ Handler \/ OtherEnd \/ Tick

Spec == Init /\ [][Next]_vars

-----------------------------------------------------------------------------
(* Properties.                                                               *)

Started == lastUse # 0

\* A session that is in use always has a timer that will look at it: it is
\* never left without one, so an idle session cannot stay for ever.
TimerKept == Started /\ end = "open" => armed # {} \/ queued # <<>>

\* No session outlives its timeout: udp_timeout seconds after its last packet
\* it is gone, however the packets and the re-arming were interleaved.
NeverOutlives == Started /\ end = "open" => now - lastUse <= Timeout

\* docs/config.md: udp_timeout "controls how long (in seconds) a UDP session
\* will last in idle": a session is not timed out earlier than that.  (A
\* packet of the very second of the timeout may come too late.)
LastsWhenIdle ==
  end = "timeout" /\ endTime # lastUse => endTime - lastUse >= Timeout
=============================================================================
