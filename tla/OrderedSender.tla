---------------------------- MODULE OrderedSender ----------------------------
(***************************************************************************)
(* What the sending side of a pipeline promises to the sessions that use   *)
(* it, without its buffers: a first-in first-out stream, which starts with *)
(* the password when it has to be opened first, and one answer for every   *)
(* frame, "sent" or "broken".                                              *)
(* PipelineFlow and the sessions rely on exactly this.                     *)
(***************************************************************************)
EXTENDS Naturals, Sequences, Functions

CONSTANTS Frames,    \* the frames sessions may submit: 1..n
          Greeting   \* the password line of a client, not a frame

VARIABLES submitted,  \* frames handed in so far
          queue,      \* accepted and not yet written
          wire,       \* written to the TLS stream
          confirmed,  \* frames whose sender was told "sent"
          refused,    \* frames whose sender was told "broken"
          open,       \* connected, the stream may carry data
          closed      \* destroyed

svars == <<submitted, queue, wire, confirmed, refused, open, closed>>

FrameSet(q) == Range(q) \ {Greeting}

\* k frames in a row, numbered after the last one
Fresh(k) == [i \in 1..k |-> submitted + i]
CanSubmit(k) == submitted + k \in Frames \cup {0}

SenderInit ==
  /\ submitted = 0 /\ queue = <<>> /\ wire = <<>>
  /\ confirmed = {} /\ refused = {}
  /\ open \in BOOLEAN /\ closed = FALSE

Submit ==
  /\ CanSubmit(1)
  /\ submitted' = submitted + 1
  /\ IF closed
     THEN refused' = refused \cup {submitted + 1} /\ UNCHANGED queue
     ELSE queue' = Append(queue, submitted + 1) /\ UNCHANGED refused
  /\ UNCHANGED <<wire, confirmed, open, closed>>

Open ==
  /\ ~open /\ open' = TRUE
  /\ queue' = IF closed THEN queue ELSE <<Greeting>> \o queue
  /\ UNCHANGED <<submitted, wire, confirmed, refused, closed>>

\* A batch is written and its senders are told, who may submit more at once.
Deliver ==
  /\ open /\ ~closed
  /\ \E n \in 1..Len(queue), k \in Frames \cup {0} :
       LET batch == SubSeq(queue, 1, n) IN
       /\ CanSubmit(k)
       /\ wire' = wire \o batch
       /\ confirmed' = confirmed \cup FrameSet(batch)
       /\ queue' = SubSeq(queue, n + 1, Len(queue)) \o Fresh(k)
       /\ submitted' = submitted + k
  /\ UNCHANGED <<refused, open, closed>>

\* The stream breaks, possibly in the middle of a batch.
Break ==
  /\ ~closed /\ closed' = TRUE
  /\ refused' = refused \cup FrameSet(queue)
  /\ \E n \in 0..Len(queue), m \in 0..Len(queue) :
       /\ n <= m /\ wire' = wire \o SubSeq(queue, 1, n)
       /\ queue' = SubSeq(queue, m + 1, Len(queue))
  /\ UNCHANGED <<submitted, confirmed, open>>

\* Bytes that were being written when it broke may still leave.
Drain ==
  /\ closed
  /\ \E n \in 0..Len(queue), m \in 0..Len(queue) :
       /\ n <= m /\ wire' = wire \o SubSeq(queue, 1, n)
       /\ queue' = SubSeq(queue, m + 1, Len(queue))
  /\ UNCHANGED <<submitted, confirmed, refused, open, closed>>

SenderNext == Submit \/ Open \/ Deliver \/ Break \/ Drain

SenderSpec == SenderInit /\ [][SenderNext]_svars
=============================================================================
