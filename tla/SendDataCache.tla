---------------------------- MODULE SendDataCache ----------------------------
(***************************************************************************)
(* The SendDataCache of a pipeline: two buffers with their two vectors of  *)
(* sent handlers.  Sessions push frames into the current pair while the    *)
(* other pair is written to the TLS socket; the pairs are swapped when a   *)
(* write starts.  The owner is the Pipeline of a client, which is not      *)
(* connected at first and inserts its password before anything else, or    *)
(* the PipelineSession of a server, which is connected from the start.     *)
(*                                                                         *)
(* A step is one callback of the event loop.  A frame is its number in the *)
(* order of the pushes, and its handler has the same number.               *)
(***************************************************************************)
EXTENDS Integers, Sequences, SequencesExt, FiniteSets

CONSTANTS MaxPush,       \* bound on the frames pushed
          MaxReentrant   \* bound on the frames pushed by handlers of one batch

ASSUME BoundAssumption == MaxPush \in Nat /\ MaxReentrant \in Nat

Slot == {1, 2}           \* 1: handler_queue, data_queue; 2: the _other pair
Other(i) == 3 - i
Password == 0
Owners == {"Pipeline", "PipelineSession"}

VARIABLES owner,          \* what the cache is a part of
          dataQueue,      \* data_queue and data_queue_other
          handlerQueue,   \* handler_queue and handler_queue_other
          current,        \* current_recv_queue and current_recv_handler
          isAsyncSending, \* is_async_sending
          destroyed,      \* destroyed
          connected,      \* Pipeline::connected
          writing,        \* the pair an async_write of the owner uses, or 0
          wire,           \* what the TLS stream has accepted
          calls,          \* the handler calls made so far, with their error
          pushed          \* number of pushes so far

cache == <<dataQueue, handlerQueue, current, isAsyncSending, destroyed>>
vars == <<owner, dataQueue, handlerQueue, current, isAsyncSending, destroyed,
          connected, writing, wire, calls, pushed>>

Call == [id : Nat, ok : BOOLEAN]

TypeOK ==
  /\ owner \in Owners
  /\ dataQueue \in [Slot -> Seq(Nat)]
  /\ handlerQueue \in [Slot -> Seq(Nat)]
  /\ current \in Slot
  /\ isAsyncSending \in BOOLEAN /\ destroyed \in BOOLEAN /\ connected \in BOOLEAN
  /\ writing \in Slot \cup {0}
  /\ wire \in Seq(Nat)
  /\ calls \in Seq(Call)
  /\ pushed \in 0..MaxPush

Init ==
  /\ owner \in Owners
  /\ dataQueue = [i \in Slot |-> <<>>]
  /\ handlerQueue = [i \in Slot |-> <<>>]
  /\ current = 1
  /\ isAsyncSending = FALSE /\ destroyed = FALSE
  /\ connected = (owner = "PipelineSession")
  /\ writing = 0 /\ wire = <<>> /\ calls = <<>> /\ pushed = 0

-----------------------------------------------------------------------------
\* async_send in a step that leaves is_async_sending at busy and the write w
\* in flight: it starts a write of the current pair and swaps the pairs, or
\* does nothing.
AsyncSendWithoutSwap(busy, w) ==
  IF dataQueue'[current] = <<>> \/ ~connected' \/ busy \/ destroyed
  THEN isAsyncSending' = busy /\ writing' = w /\ UNCHANGED current
  ELSE isAsyncSending' = TRUE /\ writing' = current /\ UNCHANGED current
AsyncSendWhileBusy(busy, w) ==
  IF dataQueue'[current] = <<>> \/ ~connected' \/ destroyed
  THEN isAsyncSending' = busy /\ writing' = w /\ UNCHANGED current
  ELSE isAsyncSending' = TRUE /\ writing' = current /\ current' = Other(current)
AsyncSend(busy, w) ==
  IF dataQueue'[current] = <<>> \/ ~connected' \/ busy \/ destroyed
  THEN isAsyncSending' = busy /\ writing' = w /\ UNCHANGED current
  ELSE isAsyncSending' = TRUE /\ writing' = current /\ current' = Other(current)

CallsOf(ids, good) == [i \in 1..Len(ids) |-> [id |-> ids[i], ok |-> good]]

\* push_data from outside a handler
Push ==
  /\ pushed < MaxPush
  /\ pushed' = pushed + 1
  /\ UNCHANGED connected
  /\ \/ /\ destroyed
        /\ calls' = Append(calls, [id |-> pushed + 1, ok |-> FALSE])
        /\ UNCHANGED <<cache, writing>>
     \/ /\ ~destroyed
        /\ dataQueue' = [dataQueue EXCEPT ![current] = Append(@, pushed + 1)]
        /\ handlerQueue' = [handlerQueue EXCEPT ![current] = Append(@, pushed + 1)]
        /\ AsyncSend(isAsyncSending, writing)
        /\ UNCHANGED <<destroyed, calls>>
  /\ UNCHANGED <<owner, wire>>

\* The data insert_data leaves in the current buffer: the password first.
InsertData(d) == <<Password>> \o d

\* The handler of Pipeline::start: connected, insert_data of the password.
Connected ==
  /\ ~connected
  /\ connected' = TRUE
  /\ \/ /\ destroyed
        /\ UNCHANGED <<cache, writing>>
     \/ /\ ~destroyed
        /\ dataQueue' = [dataQueue EXCEPT ![current] = InsertData(@)]
        /\ AsyncSend(isAsyncSending, writing)
        /\ UNCHANGED <<handlerQueue, destroyed>>
  /\ UNCHANGED <<owner, wire, calls, pushed>>

\* The end of the completion: is_async_sending is reset, then async_send.
ResendForgotten == isAsyncSending' = FALSE /\ writing' = 0 /\ UNCHANGED current
Resend == AsyncSend(FALSE, 0)

\* A pair of buffers or vectors after the handlers pushed new and the written
\* one was emptied.
Completed(q, new) ==
  [i \in Slot |-> IF i = writing THEN <<>> ELSE IF i = current THEN q[i] \o new ELSE q[i]]

\* The completion of a write without error: every handler of the pair is
\* called, and may push more into the other pair; then the pair is emptied
\* and the other one is sent.
WriteDone ==
  /\ writing # 0
  /\ UNCHANGED <<owner, destroyed, connected>>
  /\ \E n \in 0..MaxReentrant :
       LET new == [i \in 1..n |-> pushed + i] IN
       /\ pushed + n <= MaxPush /\ (n > 0 => handlerQueue[writing] # <<>>)
       /\ pushed' = pushed + n
       /\ dataQueue' = Completed(dataQueue, new)
       /\ handlerQueue' = Completed(handlerQueue, new)
  /\ wire' = wire \o dataQueue[writing]
  /\ calls' = calls \o CallsOf(handlerQueue[writing], TRUE)
  /\ Resend

\* SendDataCache::destroy: every handler left is called with broken_pipe,
\* those of handler_queue_other first.
DestroyWithoutClear ==
  /\ destroyed' = TRUE
  /\ UNCHANGED handlerQueue
  /\ IF destroyed
     THEN UNCHANGED calls
     ELSE calls' = calls \o CallsOf(handlerQueue[2] \o handlerQueue[1], FALSE)
Destroy ==
  /\ destroyed' = TRUE
  /\ IF destroyed
     THEN UNCHANGED <<handlerQueue, calls>>
     ELSE /\ calls' = calls \o CallsOf(handlerQueue[2] \o handlerQueue[1], FALSE)
          /\ handlerQueue' = [i \in Slot |-> <<>>]

\* The completion of a write with an error, some of it written: both owners
\* destroy themselves, the Pipeline also runs the completion of async_send.
WriteFailed ==
  /\ writing # 0
  /\ \E n \in 0..Len(dataQueue[writing]) :
       wire' = wire \o SubSeq(dataQueue[writing], 1, n)
  /\ Destroy
  /\ IF owner = "Pipeline"
     THEN /\ dataQueue' = [dataQueue EXCEPT ![writing] = <<>>]
          /\ isAsyncSending' = FALSE
     ELSE UNCHANGED <<dataQueue, isAsyncSending>>
  /\ writing' = 0
  /\ UNCHANGED <<owner, current, connected, pushed>>

\* The owner is destroyed for another reason (a read error, a bad frame, a
\* failed connect, the password timer, Service::stop), a write in flight or not.
OwnerDestroyed ==
  /\ ~destroyed
  /\ Destroy
  /\ UNCHANGED <<owner, dataQueue, current, isAsyncSending, connected, writing,
                 wire, pushed>>

Next == Push \/ Connected \/ WriteDone \/ WriteFailed \/ OwnerDestroyed

\* A connect or a write that was started ends, well or badly.
Fairness ==
  /\ WF_vars(~connected /\ (Connected \/ OwnerDestroyed))
  /\ WF_vars(WriteDone \/ WriteFailed)

Spec == Init /\ [][Next]_vars
FairSpec == Spec /\ Fairness

-----------------------------------------------------------------------------
(* Properties.                                                               *)

Called(id) == Cardinality({i \in DOMAIN calls : calls[i].id = id})
Held(id) == Cardinality({p \in Slot \X (1..MaxPush) :
                           p[2] <= Len(handlerQueue[p[1]]) /\ handlerQueue[p[1]][p[2]] = id})

\* Every handler is called exactly once or is still held, and none is held
\* once the cache is destroyed: a session is never told twice, never told
\* "sent" for a frame that is not on the wire, and never forgotten, whatever
\* the order of write completion, write error and destruction.
ExactlyOnce ==
  /\ \A id \in 1..pushed : Called(id) + Held(id) = 1
  /\ destroyed => \A i \in Slot : handlerQueue[i] = <<>>
  /\ \A i \in DOMAIN calls : calls[i].ok => \E j \in DOMAIN wire : wire[j] = calls[i].id

\* async_write reads the buffer of the pair being written until it completes:
\* no step may append to it, prepend to it or clear it in the meantime.
BufferStable ==
  [][writing # 0 /\ writing' = writing => dataQueue'[writing] = dataQueue[writing]]_vars

\* At most one write is in flight, and it is the pair pushes do not go to.
SwapInv ==
  /\ writing # 0 => isAsyncSending /\ current # writing
  /\ isAsyncSending /\ ~destroyed => writing # 0

\* Every frame pushed is answered, sent or broken: a push during a write, or
\* before the connection, is not left behind.
EveryPushAnswered ==
  \A id \in 1..MaxPush : (pushed >= id) ~> (Called(id) = 1)

\* What is accepted and not yet written, in the order it will be written.
Backlog ==
  IF writing = 0 THEN dataQueue[current]
                 ELSE dataQueue[writing] \o dataQueue[Other(writing)]

Sender == INSTANCE OrderedSender WITH
            Frames <- 1..MaxPush, Greeting <- Password,
            submitted <- pushed,
            queue <- Backlog, open <- connected, closed <- destroyed,
            confirmed <- {calls[i].id : i \in {j \in DOMAIN calls : calls[j].ok}},
            refused <- {calls[i].id : i \in {j \in DOMAIN calls : ~calls[j].ok}}

\* The two swapped buffers behave as one queue.
ImplementsOrderedSender == Sender!SenderSpec
=============================================================================
