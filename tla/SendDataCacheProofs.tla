------------------------- MODULE SendDataCacheProofs -------------------------
(***************************************************************************)
(* Proofs about SendDataCache for every number of pushes, for both owners: *)
(* the swap discipline of async_send is an inductive invariant, and from   *)
(* it the buffer given to async_write is never touched while it is written;*)
(* every handler is called once; and the two swapped buffers implement the *)
(* one queue of OrderedSender.                                             *)
(***************************************************************************)
EXTENDS SendDataCache, SequenceTheorems, FiniteSetTheorems, TLAPS

\* A run of frame numbers is a sequence of frames.
LEMMA FreshType ==
  ASSUME NEW p \in Nat, NEW n \in Nat
  PROVE  [i \in 1..n |-> p + i] \in Seq(Nat)
  OBVIOUS

\* Sequences of one type concatenate.
LEMMA ConcatType ==
  ASSUME NEW S, NEW a \in Seq(S), NEW b \in Seq(S)
  PROVE  a \o b \in Seq(S)
  OBVIOUS

\* The completion of a write leaves well-typed buffers and vectors.
LEMMA CompletedType ==
  ASSUME NEW q \in [Slot -> Seq(Nat)], NEW new \in Seq(Nat)
  PROVE  Completed(q, new) \in [Slot -> Seq(Nat)]
<1>1. \A i \in Slot : q[i] \in Seq(Nat) /\ q[i] \o new \in Seq(Nat)
  BY ConcatType
<1>2. <<>> \in Seq(Nat)
  OBVIOUS
<1> QED
  BY <1>1, <1>2 DEF Completed

\* The handler calls of a vector are calls.
LEMMA CallsOfType ==
  ASSUME NEW ids \in Seq(Nat), NEW good \in BOOLEAN
  PROVE  CallsOf(ids, good) \in Seq(Call)
<1>1. \A i \in 1..Len(ids) : [id |-> ids[i], ok |-> good] \in Call
  BY DEF Call
<1> QED
  BY <1>1 DEF CallsOf

\* SendDataCache::destroy leaves well-typed state.
LEMMA DestroyType ==
  ASSUME TypeOK, Destroy
  PROVE  /\ handlerQueue' \in [Slot -> Seq(Nat)]
         /\ calls' \in Seq(Call)
         /\ destroyed' = TRUE
<1> USE DEF TypeOK
<1>1. handlerQueue[2] \o handlerQueue[1] \in Seq(Nat)
  BY DEF Slot
<1>2. CallsOf(handlerQueue[2] \o handlerQueue[1], FALSE) \in Seq(Call)
  BY <1>1, CallsOfType
<1>3. calls \o CallsOf(handlerQueue[2] \o handlerQueue[1], FALSE) \in Seq(Call)
  BY <1>2, ConcatType
<1>4. [i \in Slot |-> <<>>] \in [Slot -> Seq(Nat)]
  OBVIOUS
<1>5. CASE destroyed
  BY <1>5 DEF Destroy
<1>6. CASE ~destroyed
  BY <1>3, <1>4, <1>6 DEF Destroy
<1> QED
  BY <1>5, <1>6

\* async_send starts a write only when none is in flight, on the pair pushes
\* stop going to: the facts about it every operation needs.
LEMMA AsyncSendFacts ==
  ASSUME current \in Slot, NEW busy \in BOOLEAN, NEW w \in Slot \cup {0},
         AsyncSend(busy, w)
  PROVE  /\ current' \in Slot
         /\ isAsyncSending' \in BOOLEAN
         /\ writing' \in Slot \cup {0}
         /\ \/ isAsyncSending' = busy /\ writing' = w /\ current' = current
            \/ ~busy /\ isAsyncSending' = TRUE /\ writing' = current /\ current' # current
<1>1. Other(current) \in Slot /\ Other(current) # current
  BY DEF Other, Slot
<1>2. current \in Slot \cup {0}
  OBVIOUS
<1>3. CASE dataQueue'[current] = <<>> \/ ~connected' \/ busy \/ destroyed
  <2>1. isAsyncSending' = busy /\ writing' = w /\ current' = current
    BY <1>3 DEF AsyncSend
  <2> QED
    BY <2>1
<1>4. CASE ~(dataQueue'[current] = <<>> \/ ~connected' \/ busy \/ destroyed)
  <2>1. isAsyncSending' = TRUE /\ writing' = current /\ current' = Other(current)
    BY <1>4 DEF AsyncSend
  <2> QED
    BY <1>1, <1>2, <1>4, <2>1
<1> QED
  BY <1>3, <1>4

\* Every step of the cache keeps the types.
LEMMA TypeStep ==
  ASSUME TypeOK, [Next]_vars
  PROVE  TypeOK'
<1> USE DEF TypeOK
<1>1. pushed \in Nat /\ MaxPush \in Nat
  BY BoundAssumption
<1>2. CASE Push
  <2>1. /\ pushed' \in 0..MaxPush /\ connected' \in BOOLEAN
        /\ wire' \in Seq(Nat) /\ owner' = owner
    BY <1>1, <1>2 DEF Push
  <2>2. CASE destroyed
    <3>1. [id |-> pushed + 1, ok |-> FALSE] \in Call
      BY <1>1 DEF Call
    <3>2. calls' = Append(calls, [id |-> pushed + 1, ok |-> FALSE])
          /\ UNCHANGED <<cache, writing>>
      BY <1>2, <2>2 DEF Push
    <3>3. calls' \in Seq(Call)
      BY <3>1, <3>2
    <3> QED
      BY <2>1, <3>2, <3>3 DEF cache
  <2>3. CASE ~destroyed
    <3>1. /\ dataQueue' = [dataQueue EXCEPT ![current] = Append(@, pushed + 1)]
          /\ handlerQueue' = [handlerQueue EXCEPT ![current] = Append(@, pushed + 1)]
          /\ AsyncSend(isAsyncSending, writing)
          /\ UNCHANGED <<destroyed, calls>>
      BY <1>2, <2>3 DEF Push
    <3>2. pushed + 1 \in Nat
      BY <1>1
    <3>3. dataQueue' \in [Slot -> Seq(Nat)] /\ handlerQueue' \in [Slot -> Seq(Nat)]
      BY <3>1, <3>2
    <3> QED
      BY <2>1, <3>1, <3>3, AsyncSendFacts
  <2> QED
    BY <2>2, <2>3
<1>3. CASE Connected
  <2>1. connected' \in BOOLEAN /\ UNCHANGED <<owner, wire, calls, pushed>>
    BY <1>3 DEF Connected
  <2>2. CASE destroyed
    BY <1>3, <2>1, <2>2 DEF Connected, cache
  <2>3. CASE ~destroyed
    <3>1. /\ dataQueue' = [dataQueue EXCEPT ![current] = InsertData(@)]
          /\ AsyncSend(isAsyncSending, writing)
          /\ UNCHANGED <<handlerQueue, destroyed>>
      BY <1>3, <2>3 DEF Connected
    <3>2. \A d \in Seq(Nat) : InsertData(d) \in Seq(Nat)
      BY DEF InsertData, Password
    <3>3. dataQueue' \in [Slot -> Seq(Nat)]
      BY <3>1, <3>2
    <3> QED
      BY <2>1, <3>1, <3>3, AsyncSendFacts
  <2> QED
    BY <2>2, <2>3
<1>4. CASE WriteDone
  <2>1. writing \in Slot
    BY <1>4 DEF WriteDone
  <2>2. PICK n \in 0..MaxReentrant :
          LET new == [i \in 1..n |-> pushed + i] IN
          /\ pushed + n <= MaxPush /\ (n > 0 => handlerQueue[writing] # <<>>)
          /\ pushed' = pushed + n
          /\ dataQueue' = Completed(dataQueue, new)
          /\ handlerQueue' = Completed(handlerQueue, new)
    BY <1>4 DEF WriteDone
  <2>3. n \in Nat
    BY BoundAssumption
  <2>4. [i \in 1..n |-> pushed + i] \in Seq(Nat)
    BY <1>1, <2>3, FreshType
  <2>5. pushed' \in 0..MaxPush
    BY <1>1, <2>2, <2>3
  <2>6. dataQueue' \in [Slot -> Seq(Nat)] /\ handlerQueue' \in [Slot -> Seq(Nat)]
    BY <2>2, <2>4, CompletedType
  <2>7. wire' \in Seq(Nat)
    BY <1>4, <2>1 DEF WriteDone
  <2>8. CallsOf(handlerQueue[writing], TRUE) \in Seq(Call)
    BY <2>1, CallsOfType
  <2>9. calls' \in Seq(Call)
    BY <1>4, <2>8, ConcatType DEF WriteDone
  <2>10. AsyncSend(FALSE, 0) /\ UNCHANGED <<owner, destroyed, connected>>
    BY <1>4 DEF WriteDone, Resend
  <2>11. 0 \in Slot \cup {0}
    OBVIOUS
  <2>12. current' \in Slot /\ isAsyncSending' \in BOOLEAN /\ writing' \in Slot \cup {0}
    BY <2>10, <2>11, AsyncSendFacts
  <2> QED
    BY <2>5, <2>6, <2>7, <2>9, <2>10, <2>12
<1>5. CASE WriteFailed
  <2>1. writing \in Slot
    BY <1>5 DEF WriteFailed
  <2>2. PICK n \in 0..Len(dataQueue[writing]) :
          wire' = wire \o SubSeq(dataQueue[writing], 1, n)
    BY <1>5 DEF WriteFailed
  <2>3. dataQueue[writing] \in Seq(Nat)
    BY <2>1
  <2>4. SubSeq(dataQueue[writing], 1, n) \in Seq(Nat)
    BY <2>3
  <2>5. wire' \in Seq(Nat)
    BY <2>2, <2>4
  <2>6. dataQueue' \in [Slot -> Seq(Nat)] /\ isAsyncSending' \in BOOLEAN
    <3>1. CASE owner = "Pipeline"
      <4>1. <<>> \in Seq(Nat)
        OBVIOUS
      <4>2. dataQueue' = [dataQueue EXCEPT ![writing] = <<>>] /\ isAsyncSending' = FALSE
        BY <1>5, <3>1 DEF WriteFailed
      <4> QED
        BY <4>1, <4>2
    <3>2. CASE owner # "Pipeline"
      BY <1>5, <3>2 DEF WriteFailed
    <3> QED
      BY <3>1, <3>2
  <2>7. UNCHANGED <<current, connected, pushed>> /\ writing' \in Slot \cup {0}
    BY <1>5 DEF WriteFailed
  <2> QED
    BY <1>5, <2>5, <2>6, <2>7, DestroyType DEF WriteFailed
<1>6. CASE OwnerDestroyed
  BY <1>6, DestroyType DEF OwnerDestroyed
<1>7. CASE UNCHANGED vars
  BY <1>7 DEF vars
<1> QED
  BY <1>2, <1>3, <1>4, <1>5, <1>6, <1>7 DEF Next

\* The state of SendDataCache and of its owner keeps its type: the two
\* buffers hold frames, the handler vectors hold handlers, the pair being
\* written is one of the two.
THEOREM CacheTypeCorrect == Spec => []TypeOK
<1>1. Init => TypeOK
  <2> SUFFICES ASSUME Init PROVE TypeOK
    OBVIOUS
  <2>1. <<>> \in Seq(Nat) /\ <<>> \in Seq(Call)
    OBVIOUS
  <2>2. dataQueue \in [Slot -> Seq(Nat)] /\ handlerQueue \in [Slot -> Seq(Nat)]
    BY <2>1 DEF Init
  <2>3. pushed \in 0..MaxPush
    BY BoundAssumption DEF Init
  <2>4. current \in Slot /\ writing \in Slot \cup {0}
    BY DEF Init, Slot
  <2>5. isAsyncSending \in BOOLEAN /\ destroyed \in BOOLEAN /\ connected \in BOOLEAN
    BY DEF Init
  <2> QED
    BY <2>1, <2>2, <2>3, <2>4, <2>5 DEF Init, TypeOK
<1> QED
  BY <1>1, TypeStep, PTL DEF Spec

\* Every step of the cache keeps the swap discipline.
LEMMA SwapStep ==
  ASSUME TypeOK, SwapInv, [Next]_vars
  PROVE  SwapInv'
<1> USE DEF TypeOK, SwapInv
<1>1. CASE Push
  <2>1. CASE destroyed
    BY <1>1, <2>1 DEF Push, cache
  <2>2. CASE ~destroyed
    <3>1. AsyncSend(isAsyncSending, writing) /\ UNCHANGED destroyed
      BY <1>1, <2>2 DEF Push
    <3>2. \/ isAsyncSending' = isAsyncSending /\ writing' = writing /\ current' = current
          \/ ~isAsyncSending /\ isAsyncSending' = TRUE /\ writing' = current /\ current' # current
      BY <3>1, AsyncSendFacts
    <3>3. current # 0
      BY DEF Slot
    <3> QED
      BY <3>1, <3>2, <3>3
  <2> QED
    BY <2>1, <2>2
<1>2. CASE Connected
  <2>1. CASE destroyed
    BY <1>2, <2>1 DEF Connected, cache
  <2>2. CASE ~destroyed
    <3>1. AsyncSend(isAsyncSending, writing) /\ UNCHANGED destroyed
      BY <1>2, <2>2 DEF Connected
    <3>2. \/ isAsyncSending' = isAsyncSending /\ writing' = writing /\ current' = current
          \/ ~isAsyncSending /\ isAsyncSending' = TRUE /\ writing' = current /\ current' # current
      BY <3>1, AsyncSendFacts
    <3>3. current # 0
      BY DEF Slot
    <3> QED
      BY <3>1, <3>2, <3>3
  <2> QED
    BY <2>1, <2>2
<1>3. CASE WriteDone
  <2>1. AsyncSend(FALSE, 0) /\ UNCHANGED destroyed
    BY <1>3 DEF WriteDone, Resend
  <2>2. 0 \in Slot \cup {0}
    OBVIOUS
  <2>3. \/ isAsyncSending' = FALSE /\ writing' = 0 /\ current' = current
        \/ isAsyncSending' = TRUE /\ writing' = current /\ current' # current
    BY <2>1, <2>2, AsyncSendFacts
  <2>4. current # 0
    BY DEF Slot
  <2> QED
    BY <2>1, <2>3, <2>4
<1>4. CASE WriteFailed
  BY <1>4 DEF WriteFailed, Destroy
<1>5. CASE OwnerDestroyed
  BY <1>5 DEF OwnerDestroyed, Destroy
<1>6. CASE UNCHANGED vars
  BY <1>6 DEF vars
<1> QED
  BY <1>1, <1>2, <1>3, <1>4, <1>5, <1>6 DEF Next

\* At most one async_write of the owner is in flight, and pushes go to the
\* other pair meanwhile: swap_recv and is_async_sending stay in step through
\* re-entrant pushes, insert_data, write errors and destroy.
THEOREM SwapDiscipline == Spec => []SwapInv
<1>1. Init => SwapInv
  BY DEF Init, SwapInv
<1> QED
  BY <1>1, CacheTypeCorrect, SwapStep, PTL DEF Spec

\* A step that leaves a write in flight does not touch its buffer.
LEMMA StableStep ==
  ASSUME TypeOK, SwapInv, [Next]_vars, writing # 0, writing' = writing
  PROVE  dataQueue'[writing] = dataQueue[writing]
<1> USE DEF TypeOK, SwapInv
<1>1. CASE Push
  BY <1>1 DEF Push, cache
<1>2. CASE Connected
  BY <1>2 DEF Connected, cache
<1>3. CASE WriteDone
  <2>1. AsyncSend(FALSE, 0)
    BY <1>3 DEF WriteDone, Resend
  <2>2. 0 \in Slot \cup {0}
    OBVIOUS
  <2>3. writing' = 0 \/ writing' = current
    BY <2>1, <2>2, AsyncSendFacts
  <2> QED
    BY <2>3
<1>4. CASE WriteFailed
  BY <1>4 DEF WriteFailed
<1>5. CASE OwnerDestroyed
  BY <1>5 DEF OwnerDestroyed
<1>6. CASE UNCHANGED vars
  BY <1>6 DEF vars
<1> QED
  BY <1>1, <1>2, <1>3, <1>4, <1>5, <1>6 DEF Next

\* The streambuf an async_write reads from is neither appended to, prepended
\* to nor consumed until the write completes: no push_data, insert_data or
\* destroy of any interleaving moves the memory the TLS layer is reading.
THEOREM BufferNeverTouched == Spec => BufferStable
<1>1. TypeOK /\ SwapInv /\ [Next]_vars
      => [writing # 0 /\ writing' = writing => dataQueue'[writing] = dataQueue[writing]]_vars
  BY StableStep
<1> QED
  BY <1>1, CacheTypeCorrect, SwapDiscipline, PTL DEF Spec, BufferStable

-----------------------------------------------------------------------------
(* Sequences of frames, handlers and calls.                                  *)

\* What a concatenation holds, and where.
LEMMA ConcatAt ==
  ASSUME NEW S, NEW a \in Seq(S), NEW b \in Seq(S)
  PROVE  /\ a \o b \in Seq(S)
         /\ Len(a \o b) = Len(a) + Len(b)
         /\ \A i \in 1..Len(a) : (a \o b)[i] = a[i]
         /\ \A i \in 1..Len(b) : (a \o b)[Len(a) + i] = b[i]
         /\ \A i \in 1..Len(a \o b) :
              \/ i \in 1..Len(a)
              \/ \E j \in 1..Len(b) : i = Len(a) + j
<1>1. a \o b \in Seq(S) /\ Len(a \o b) = Len(a) + Len(b)
  OBVIOUS
<1>2. \A i \in 1..Len(a) : (a \o b)[i] = a[i]
  OBVIOUS
<1>3. \A i \in 1..Len(b) : (a \o b)[Len(a) + i] = b[i]
  OBVIOUS
<1>4. ASSUME NEW i \in 1..Len(a \o b), i \notin 1..Len(a)
      PROVE  \E j \in 1..Len(b) : i = Len(a) + j
  <2>1. i - Len(a) \in 1..Len(b) /\ i = Len(a) + (i - Len(a))
    BY <1>1, <1>4
  <2> QED
    BY <2>1
<1> QED
  BY <1>1, <1>2, <1>3, <1>4

\* What an appended sequence holds, and where.
LEMMA AppendAt ==
  ASSUME NEW S, NEW a \in Seq(S), NEW x \in S
  PROVE  /\ Append(a, x) \in Seq(S)
         /\ Len(Append(a, x)) = Len(a) + 1
         /\ \A i \in 1..Len(a) : Append(a, x)[i] = a[i]
         /\ Append(a, x)[Len(a) + 1] = x
         /\ DOMAIN Append(a, x) = 1..(Len(a) + 1)
  OBVIOUS

\* The elements of a concatenation.
LEMMA RangeConcat ==
  ASSUME NEW S, NEW a \in Seq(S), NEW b \in Seq(S)
  PROVE  Range(a \o b) = Range(a) \cup Range(b)
<1> DEFINE c == a \o b
<1>1. /\ c \in Seq(S)
      /\ Len(c) = Len(a) + Len(b)
      /\ \A i \in 1..Len(a) : c[i] = a[i]
      /\ \A i \in 1..Len(b) : c[Len(a) + i] = b[i]
      /\ \A i \in 1..Len(c) : i \in 1..Len(a) \/ \E j \in 1..Len(b) : i = Len(a) + j
  BY ConcatAt
<1>2. DOMAIN a = 1..Len(a) /\ DOMAIN b = 1..Len(b) /\ DOMAIN c = 1..Len(c)
  BY <1>1
<1> HIDE DEF c
<1>3. ASSUME NEW x \in Range(c)
      PROVE  x \in Range(a) \cup Range(b)
  <2>1. PICK i \in 1..Len(c) : x = c[i]
    BY <1>2 DEF Range
  <2>2. CASE i \in 1..Len(a)
    BY <1>1, <1>2, <2>1, <2>2 DEF Range
  <2>3. CASE \E j \in 1..Len(b) : i = Len(a) + j
    BY <1>1, <1>2, <2>1, <2>3 DEF Range
  <2> QED
    BY <1>1, <2>2, <2>3
<1>4. ASSUME NEW x \in Range(a)
      PROVE  x \in Range(c)
  <2>1. PICK i \in 1..Len(a) : x = a[i]
    BY <1>2 DEF Range
  <2>2. i \in 1..Len(c)
    BY <1>1
  <2> QED
    BY <1>1, <1>2, <2>1, <2>2 DEF Range
<1>5. ASSUME NEW x \in Range(b)
      PROVE  x \in Range(c)
  <2>1. PICK i \in 1..Len(b) : x = b[i]
    BY <1>2 DEF Range
  <2>2. Len(a) + i \in 1..Len(c)
    BY <1>1
  <2> QED
    BY <1>1, <1>2, <2>1, <2>2 DEF Range
<1> QED
  BY <1>3, <1>4, <1>5 DEF c

\* A single element is a sequence.
LEMMA OneType ==
  ASSUME NEW S, NEW x \in S
  PROVE  <<x>> \in Seq(S)
  OBVIOUS

\* The elements of the empty sequence and of a single one.
LEMMA RangeOne ==
  ASSUME NEW x
  PROVE  Range(<<x>>) = {x} /\ Range(<<>>) = {}
  BY DEF Range

\* Cutting a concatenation where it was joined gives the two parts back.
LEMMA CutConcat ==
  ASSUME NEW S, NEW a \in Seq(S), NEW b \in Seq(S)
  PROVE  /\ \A n \in 0..Len(a) : SubSeq(a \o b, 1, n) = SubSeq(a, 1, n)
         /\ SubSeq(a \o b, 1, Len(a)) = a
         /\ SubSeq(a \o b, Len(a) + 1, Len(a \o b)) = b
         /\ SubSeq(a, 1, 0) = <<>> /\ SubSeq(a, 1, Len(a)) = a
         /\ a \o <<>> = a /\ <<>> \o a = a
<1>1. a \o b \in Seq(S) /\ Len(a \o b) = Len(a) + Len(b)
  BY ConcatAt
<1>2. ASSUME NEW n \in 0..Len(a)
      PROVE  SubSeq(a \o b, 1, n) = SubSeq(a, 1, n)
  <2>1. SubSeq(a \o b, 1, n) \in Seq(S) /\ Len(SubSeq(a \o b, 1, n)) = n
    BY <1>1, SubSeqProperties
  <2>2. SubSeq(a, 1, n) \in Seq(S) /\ Len(SubSeq(a, 1, n)) = n
    BY SubSeqProperties
  <2>3. \A i \in 1..n : SubSeq(a \o b, 1, n)[i] = SubSeq(a, 1, n)[i]
    OBVIOUS
  <2> QED
    BY <2>1, <2>2, <2>3, SeqEqual
<1>3. SubSeq(a, 1, Len(a)) = a
  OBVIOUS
<1>4. SubSeq(a \o b, Len(a) + 1, Len(a \o b)) = b
  <2> DEFINE d == SubSeq(a \o b, Len(a) + 1, Len(a) + Len(b))
  <2>1. d \in Seq(S) /\ Len(d) = Len(b)
    BY <1>1, SubSeqProperties
  <2>2. \A i \in 1..Len(b) : d[i] = b[i]
    OBVIOUS
  <2>3. d = b
    BY <2>1, <2>2, SeqEqual
  <2> QED
    BY <1>1, <2>3
<1>5. SubSeq(a, 1, 0) = <<>>
  OBVIOUS
<1>6. a \o <<>> = a /\ <<>> \o a = a
  OBVIOUS
<1>7. Len(a) \in 0..Len(a)
  OBVIOUS
<1> QED
  BY <1>2, <1>3, <1>4, <1>5, <1>6, <1>7

\* The frames whose handlers were told "sent", and those told "broken".
Confirmed(c) == {c[i].id : i \in {j \in DOMAIN c : c[j].ok}}
Refused(c) == {c[i].id : i \in {j \in DOMAIN c : ~c[j].ok}}

\* The calls a batch of handlers makes: one for each handler, in its order.
LEMMA CallsAt ==
  ASSUME NEW ids \in Seq(Nat)
  PROVE  /\ CallsOf(ids, TRUE) \in Seq(Call) /\ CallsOf(ids, FALSE) \in Seq(Call)
         /\ Len(CallsOf(ids, TRUE)) = Len(ids) /\ Len(CallsOf(ids, FALSE)) = Len(ids)
         /\ \A i \in 1..Len(ids) : /\ CallsOf(ids, TRUE)[i].id = ids[i]
                                   /\ CallsOf(ids, FALSE)[i].id = ids[i]
                                   /\ CallsOf(ids, TRUE)[i].ok
                                   /\ ~CallsOf(ids, FALSE)[i].ok
<1>1. CallsOf(ids, TRUE) \in Seq(Call) /\ CallsOf(ids, FALSE) \in Seq(Call)
  BY CallsOfType
<1> QED
  BY <1>1 DEF CallsOf

\* The answers of a batch: all "sent", or all "broken".
LEMMA AnswersOfCalls ==
  ASSUME NEW ids \in Seq(Nat)
  PROVE  /\ Confirmed(CallsOf(ids, TRUE)) = Range(ids) /\ Refused(CallsOf(ids, TRUE)) = {}
         /\ Refused(CallsOf(ids, FALSE)) = Range(ids) /\ Confirmed(CallsOf(ids, FALSE)) = {}
<1> DEFINE a == CallsOf(ids, TRUE)
           b == CallsOf(ids, FALSE)
<1>1. /\ a \in Seq(Call) /\ b \in Seq(Call)
      /\ Len(a) = Len(ids) /\ Len(b) = Len(ids)
      /\ \A i \in 1..Len(ids) : a[i].id = ids[i] /\ b[i].id = ids[i] /\ a[i].ok /\ ~b[i].ok
  BY CallsAt
<1> HIDE DEF a, b
<1>2. /\ DOMAIN a = 1..Len(ids) /\ DOMAIN b = 1..Len(ids) /\ DOMAIN ids = 1..Len(ids)
  BY <1>1
<1>3. Confirmed(a) = Range(ids) /\ Refused(a) = {}
  BY <1>1, <1>2 DEF Confirmed, Refused, Range
<1>4. Refused(b) = Range(ids) /\ Confirmed(b) = {}
  BY <1>1, <1>2 DEF Confirmed, Refused, Range
<1> QED
  BY <1>3, <1>4 DEF a, b

\* The answers of two batches are the answers of each.
LEMMA AnswersOfBoth ==
  ASSUME NEW a \in Seq(Call), NEW b \in Seq(Call)
  PROVE  /\ Confirmed(a \o b) = Confirmed(a) \cup Confirmed(b)
         /\ Refused(a \o b) = Refused(a) \cup Refused(b)
<1> DEFINE c == a \o b
<1>1. /\ c \in Seq(Call)
      /\ Len(c) = Len(a) + Len(b)
      /\ \A i \in 1..Len(a) : c[i] = a[i]
      /\ \A i \in 1..Len(b) : c[Len(a) + i] = b[i]
      /\ \A i \in 1..Len(c) : i \in 1..Len(a) \/ \E j \in 1..Len(b) : i = Len(a) + j
  BY ConcatAt
<1> HIDE DEF c
<1>2. DOMAIN a = 1..Len(a) /\ DOMAIN b = 1..Len(b) /\ DOMAIN c = 1..Len(c)
  BY <1>1
<1>3. \A i \in 1..Len(a) : i \in 1..Len(c)
  BY <1>1
<1>4. \A i \in 1..Len(b) : Len(a) + i \in 1..Len(c)
  BY <1>1
<1>5. \A i \in 1..Len(a) : c[i].id = a[i].id /\ (c[i].ok <=> a[i].ok)
  BY <1>1, Zenon
<1>6. \A i \in 1..Len(b) : c[Len(a) + i].id = b[i].id /\ (c[Len(a) + i].ok <=> b[i].ok)
  BY <1>1, Zenon
<1>7. \A x : x \in Confirmed(c) <=> \E i \in 1..Len(c) : c[i].id = x /\ c[i].ok
  BY <1>2 DEF Confirmed
<1>8. \A x : x \in Refused(c) <=> \E i \in 1..Len(c) : c[i].id = x /\ ~c[i].ok
  BY <1>2 DEF Refused
<1>9. \A x : x \in Confirmed(a) <=> \E i \in 1..Len(a) : a[i].id = x /\ a[i].ok
  BY <1>2 DEF Confirmed
<1>10. \A x : x \in Refused(a) <=> \E i \in 1..Len(a) : a[i].id = x /\ ~a[i].ok
  BY <1>2 DEF Refused
<1>11. \A x : x \in Confirmed(b) <=> \E i \in 1..Len(b) : b[i].id = x /\ b[i].ok
  BY <1>2 DEF Confirmed
<1>12. \A x : x \in Refused(b) <=> \E i \in 1..Len(b) : b[i].id = x /\ ~b[i].ok
  BY <1>2 DEF Refused
<1>13. ASSUME NEW x \in Confirmed(c)
       PROVE  x \in Confirmed(a) \cup Confirmed(b)
  <2>1. PICK i \in 1..Len(c) : c[i].id = x /\ c[i].ok
    BY <1>7
  <2>2. CASE i \in 1..Len(a)
    BY <1>5, <1>9, <2>1, <2>2
  <2>3. CASE \E j \in 1..Len(b) : i = Len(a) + j
    BY <1>6, <1>11, <2>1, <2>3
  <2> QED
    BY <1>1, <2>2, <2>3
<1>14. ASSUME NEW x \in Confirmed(a)
       PROVE  x \in Confirmed(c)
  <2>1. PICK i \in 1..Len(a) : a[i].id = x /\ a[i].ok
    BY <1>9
  <2>2. i \in 1..Len(c) /\ c[i].id = x /\ c[i].ok
    BY <1>3, <1>5, <2>1
  <2> QED
    BY <1>7, <2>2
<1>15. ASSUME NEW x \in Confirmed(b)
       PROVE  x \in Confirmed(c)
  <2>1. PICK i \in 1..Len(b) : b[i].id = x /\ b[i].ok
    BY <1>11
  <2>2. (Len(a) + i) \in 1..Len(c) /\ c[(Len(a) + i)].id = x /\ c[(Len(a) + i)].ok
    BY <1>4, <1>6, <2>1
  <2> QED
    BY <1>7, <2>2
<1>16. ASSUME NEW x \in Refused(c)
       PROVE  x \in Refused(a) \cup Refused(b)
  <2>1. PICK i \in 1..Len(c) : c[i].id = x /\ ~c[i].ok
    BY <1>8
  <2>2. CASE i \in 1..Len(a)
    BY <1>5, <1>10, <2>1, <2>2
  <2>3. CASE \E j \in 1..Len(b) : i = Len(a) + j
    BY <1>6, <1>12, <2>1, <2>3
  <2> QED
    BY <1>1, <2>2, <2>3
<1>17. ASSUME NEW x \in Refused(a)
       PROVE  x \in Refused(c)
  <2>1. PICK i \in 1..Len(a) : a[i].id = x /\ ~a[i].ok
    BY <1>10
  <2>2. i \in 1..Len(c) /\ c[i].id = x /\ ~c[i].ok
    BY <1>3, <1>5, <2>1
  <2> QED
    BY <1>8, <2>2
<1>18. ASSUME NEW x \in Refused(b)
       PROVE  x \in Refused(c)
  <2>1. PICK i \in 1..Len(b) : b[i].id = x /\ ~b[i].ok
    BY <1>12
  <2>2. (Len(a) + i) \in 1..Len(c) /\ c[(Len(a) + i)].id = x /\ ~c[(Len(a) + i)].ok
    BY <1>4, <1>6, <2>1
  <2> QED
    BY <1>8, <2>2
<1> QED
  BY <1>13, <1>14, <1>15, <1>16, <1>17, <1>18 DEF c

-----------------------------------------------------------------------------
(* The invariant: while the cache lives, the frames answered, those of the   *)
(* pair written first and those of the other pair are numbered in a row; the *)
(* destruction answers exactly the rest.                                     *)

\* q holds the numbers after a, in order.
RunFrom(q, a) == \A k \in 1..Len(q) : q[k] = a + k

\* The pair that is being written, or will be written first.
First == IF writing = 0 THEN current ELSE writing

\* A vector holds the handlers of exactly the frames of a buffer.
PairOf(h, d) == Range(h) = Range(d) \ {Password}
Paired == \A i \in Slot : PairOf(handlerQueue[i], dataQueue[i])

\* Answered, first pair, other pair: the frames in the order of the pushes.
InTurn ==
  /\ \A k \in 1..Len(calls) : calls[k].id = k
  /\ RunFrom(handlerQueue[First], Len(calls))
  /\ RunFrom(handlerQueue[Other(First)], Len(calls) + Len(handlerQueue[First]))
  /\ pushed = Len(calls) + Len(handlerQueue[First]) + Len(handlerQueue[Other(First)])

\* Without a write in flight the pair pushes do not go to is empty.
Alone ==
  writing = 0 => dataQueue[Other(current)] = <<>> /\ handlerQueue[Other(current)] = <<>>

\* A write was started on an open stream, with something to write.
Started == writing # 0 => connected /\ dataQueue[writing] # <<>>

\* Who was told "sent" has its frame on the wire.
SentOnly == Confirmed(calls) \subseteq Range(wire)

\* A destroyed cache holds no handler and has called each one once.
OncePerId(f, n) ==
  /\ \A i, j \in 1..n : f[i].id = f[j].id => i = j
  /\ \A i \in 1..n : f[i].id \in 1..n
  /\ \A id \in 1..n : \E i \in 1..n : f[i].id = id
AllTold ==
  /\ \A i \in Slot : handlerQueue[i] = <<>>
  /\ Len(calls) = pushed /\ OncePerId(calls, pushed)

CacheInv ==
  /\ Started
  /\ SentOnly
  /\ ~destroyed => Paired /\ InTurn /\ Alone
  /\ destroyed => AllTold

\* Frames pushed with their handlers keep a pair a pair.
LEMMA PairConcat ==
  ASSUME NEW h \in Seq(Nat), NEW d \in Seq(Nat), NEW new \in Seq(Nat),
         PairOf(h, d), \A i \in 1..Len(new) : new[i] # Password
  PROVE  PairOf(h \o new, d \o new)
<1>1. Range(h \o new) = Range(h) \cup Range(new) /\ Range(d \o new) = Range(d) \cup Range(new)
  BY RangeConcat
<1>2. Password \notin Range(new)
  <2>1. DOMAIN new = 1..Len(new)
    OBVIOUS
  <2> QED
    BY <2>1 DEF Range
<1> QED
  BY <1>1, <1>2 DEF PairOf

\* One frame pushed with its handler.
LEMMA PairAppend ==
  ASSUME NEW h \in Seq(Nat), NEW d \in Seq(Nat), NEW x \in Nat, PairOf(h, d), x # Password
  PROVE  PairOf(Append(h, x), Append(d, x))
<1>1. Append(h, x) = h \o <<x>> /\ Append(d, x) = d \o <<x>>
  BY AppendIsConcat
<1>2. <<x>> \in Seq(Nat)
  BY OneType
<1>3. Len(<<x>>) = 1 /\ \A i \in 1..1 : <<x>>[i] = x
  OBVIOUS
<1>4. \A i \in 1..Len(<<x>>) : <<x>>[i] # Password
  BY <1>3
<1>5. PairOf(h \o <<x>>, d \o <<x>>)
  BY <1>2, <1>4, PairConcat
<1> QED
  BY <1>1, <1>5

\* The password has no handler.
LEMMA PairInsert ==
  ASSUME NEW h \in Seq(Nat), NEW d \in Seq(Nat), PairOf(h, d)
  PROVE  PairOf(h, InsertData(d))
<1>1. <<Password>> \in Seq(Nat)
  BY DEF Password
<1>2. Range(<<Password>> \o d) = Range(<<Password>>) \cup Range(d)
  BY <1>1, RangeConcat
<1>3. Range(<<Password>>) = {Password}
  BY RangeOne
<1> QED
  BY <1>2, <1>3 DEF PairOf, InsertData

\* An emptied pair is a pair.
LEMMA PairEmpty == PairOf(<<>>, <<>>)
  BY DEF PairOf, Range

\* The two slots of the cache.
LEMMA Slots ==
  ASSUME NEW i \in Slot
  PROVE  /\ Other(i) \in Slot /\ Other(i) # i /\ Other(Other(i)) = i /\ i # 0
         /\ \A j \in Slot : j = i \/ j = Other(i)
  BY DEF Slot, Other

\* Whether async_send starts a write or not.
LEMMA AsyncSendCases ==
  ASSUME NEW busy \in BOOLEAN, NEW w \in Slot \cup {0}, AsyncSend(busy, w)
  PROVE  \/ isAsyncSending' = busy /\ writing' = w /\ current' = current
         \/ /\ ~busy /\ ~destroyed /\ connected' /\ dataQueue'[current] # <<>>
            /\ isAsyncSending' = TRUE /\ writing' = current /\ current' = Other(current)
<1>1. CASE dataQueue'[current] = <<>> \/ ~connected' \/ busy \/ destroyed
  BY <1>1 DEF AsyncSend
<1>2. CASE ~(dataQueue'[current] = <<>> \/ ~connected' \/ busy \/ destroyed)
  BY <1>2 DEF AsyncSend
<1> QED
  BY <1>1, <1>2

\* A living cache that writes nothing is not sending; one that writes uses
\* the pair pushes do not go to.
LEMMA Idle ==
  ASSUME TypeOK, SwapInv, ~destroyed
  PROVE  /\ writing = 0 => ~isAsyncSending
         /\ writing # 0 => /\ isAsyncSending /\ writing \in Slot
                           /\ current = Other(writing) /\ writing = Other(current)
         /\ First \in Slot
<1>1. current \in Slot /\ writing \in Slot \cup {0}
  BY DEF TypeOK
<1>2. writing # 0 => isAsyncSending /\ current # writing
  BY DEF SwapInv
<1>3. writing = 0 => ~isAsyncSending
  BY DEF SwapInv
<1>4. writing # 0 => current = Other(writing) /\ writing = Other(current)
  BY <1>1, <1>2, Slots
<1> QED
  BY <1>1, <1>2, <1>3, <1>4 DEF First

\* The next number continues a run.
LEMMA RunAppend ==
  ASSUME NEW q \in Seq(Nat), NEW a \in Nat, NEW x \in Nat, RunFrom(q, a), x = a + Len(q) + 1
  PROVE  RunFrom(Append(q, x), a)
<1>1. Len(Append(q, x)) = Len(q) + 1 /\ Append(q, x)[Len(q) + 1] = x
      /\ \A k \in 1..Len(q) : Append(q, x)[k] = q[k]
  BY AppendAt
<1>2. ASSUME NEW k \in 1..Len(Append(q, x))
      PROVE  Append(q, x)[k] = a + k
  <2>1. CASE k = Len(q) + 1
    BY <1>1, <2>1
  <2>2. CASE k # Len(q) + 1
    <3>1. k \in 1..Len(q)
      BY <1>1, <1>2, <2>2
    <3> QED
      BY <1>1, <3>1 DEF RunFrom
  <2> QED
    BY <2>1, <2>2
<1> QED
  BY <1>2 DEF RunFrom

\* The call that refuses one frame is a batch of one.
LEMMA OneCall ==
  ASSUME NEW c \in Seq(Call), NEW x \in Nat
  PROVE  Append(c, [id |-> x, ok |-> FALSE]) = c \o CallsOf(<<x>>, FALSE)
<1> DEFINE r == [id |-> x, ok |-> FALSE]
<1>1. r \in Call
  BY DEF Call
<1>2. CallsOf(<<x>>, FALSE) = [i \in 1..1 |-> r]
  <2>1. Len(<<x>>) = 1 /\ \A i \in 1..1 : <<x>>[i] = x
    OBVIOUS
  <2> QED
    BY <2>1 DEF CallsOf
<1> HIDE DEF r
<1>3. [i \in 1..1 |-> r] = <<r>>
  OBVIOUS
<1>4. Append(c, r) = c \o <<r>>
  BY <1>1
<1> QED
  BY <1>2, <1>3, <1>4 DEF r

\* A push into a living cache keeps the invariant.
LEMMA PushInv ==
  ASSUME TypeOK, TypeOK', SwapInv, CacheInv, ~destroyed, Push
  PROVE  CacheInv'
<1>1. /\ pushed' = pushed + 1 /\ connected' = connected /\ wire' = wire
      /\ dataQueue' = [dataQueue EXCEPT ![current] = Append(@, pushed + 1)]
      /\ handlerQueue' = [handlerQueue EXCEPT ![current] = Append(@, pushed + 1)]
      /\ AsyncSend(isAsyncSending, writing)
      /\ destroyed' = destroyed /\ calls' = calls
  BY DEF Push
<1> DEFINE c == current
           o == Other(current)
           x == pushed + 1
<1>2. /\ c \in Slot /\ o \in Slot /\ o # c /\ c # 0 /\ o # 0 /\ Other(o) = c
      /\ \A j \in Slot : j = c \/ j = o
  BY Slots DEF TypeOK
<1>3. pushed \in Nat /\ x \in Nat
  BY BoundAssumption DEF TypeOK
<1>4. calls \in Seq(Call) /\ Len(calls) \in Nat
  BY DEF TypeOK
<1>5. isAsyncSending \in BOOLEAN /\ writing \in Slot \cup {0}
  BY DEF TypeOK
<1>6. dataQueue \in [Slot -> Seq(Nat)] /\ handlerQueue \in [Slot -> Seq(Nat)]
  BY DEF TypeOK
<1>7. /\ dataQueue'[c] = Append(dataQueue[c], x) /\ dataQueue'[o] = dataQueue[o]
      /\ handlerQueue'[c] = Append(handlerQueue[c], x)
      /\ handlerQueue'[o] = handlerQueue[o]
  BY <1>1, <1>2, <1>6
<1>8. /\ dataQueue[c] \in Seq(Nat) /\ dataQueue[o] \in Seq(Nat)
      /\ handlerQueue[c] \in Seq(Nat) /\ handlerQueue[o] \in Seq(Nat)
  BY <1>2, <1>6
<1>9. pushed' = x
  BY <1>1
<1>10. Len(handlerQueue[c]) \in Nat /\ Len(handlerQueue[o]) \in Nat
  BY <1>8
<1>11. \/ isAsyncSending' = isAsyncSending /\ writing' = writing /\ current' = c
      \/ /\ ~isAsyncSending /\ connected' /\ dataQueue'[c] # <<>>
         /\ writing' = c /\ current' = o
  BY <1>1, <1>5, AsyncSendCases
<1>12. writing = 0 => ~isAsyncSending
  BY Idle
<1>13. writing # 0 => isAsyncSending /\ writing = o
  BY Idle
<1> HIDE DEF c, o, x
<1>14. First' = First
  <2>1. CASE writing = 0
    BY <1>2, <1>11, <2>1 DEF First, c
  <2>2. CASE writing # 0
    BY <1>2, <1>11, <1>13, <2>2 DEF First, c
  <2> QED
    BY <2>1, <2>2
<1>15. Started'
  BY <1>2, <1>7, <1>11, <1>13, <1>1 DEF Started, CacheInv
<1>16. SentOnly'
  BY <1>1 DEF SentOnly, CacheInv
<1>17. Paired'
  <2>1. PairOf(handlerQueue[c], dataQueue[c]) /\ PairOf(handlerQueue[o], dataQueue[o])
    BY <1>2 DEF CacheInv, Paired
  <2>2. x # Password
    BY <1>3 DEF Password, x
  <2>3. PairOf(Append(handlerQueue[c], x), Append(dataQueue[c], x))
    BY <1>3, <1>8, <2>1, <2>2, PairAppend
  <2>4. PairOf(handlerQueue'[c], dataQueue'[c]) /\ PairOf(handlerQueue'[o], dataQueue'[o])
    BY <1>7, <2>1, <2>3
  <2> QED
    BY <1>2, <2>4 DEF Paired
<1>18. InTurn'
  <2>1. /\ \A k \in 1..Len(calls) : calls[k].id = k
        /\ RunFrom(handlerQueue[First], Len(calls))
        /\ RunFrom(handlerQueue[Other(First)], Len(calls) + Len(handlerQueue[First]))
        /\ pushed = Len(calls) + Len(handlerQueue[First]) + Len(handlerQueue[Other(First)])
    BY DEF CacheInv, InTurn
  <2>2. Len(handlerQueue'[c]) = Len(handlerQueue[c]) + 1
    BY <1>3, <1>7, <1>8, AppendAt
  <2>3. Len(calls) \in Nat
    BY <1>4
  <2>4. CASE writing = 0
    <3>1. First = c /\ Other(First) = o
      BY <2>4 DEF First, c, o
    <3>2. handlerQueue[o] = <<>> /\ Len(handlerQueue[o]) = 0
      BY <2>4 DEF CacheInv, Alone, o
    <3>3. x = Len(calls) + Len(handlerQueue[c]) + 1
      BY <1>4, <1>10, <2>1, <3>1, <3>2 DEF x
    <3>4. RunFrom(handlerQueue'[c], Len(calls))
      BY <1>3, <1>7, <1>8, <1>4, <2>1, <3>1, <3>3, RunAppend
    <3>5. RunFrom(handlerQueue'[o], Len(calls) + Len(handlerQueue'[c]))
      BY <1>7, <3>2 DEF RunFrom
    <3>6. pushed' = Len(calls) + Len(handlerQueue'[c]) + Len(handlerQueue'[o])
      BY <1>7, <1>4, <1>9, <1>10, <2>2, <3>2, <3>3
    <3> QED
      BY <1>1, <1>14, <2>1, <3>1, <3>4, <3>5, <3>6 DEF InTurn
  <2>5. CASE writing # 0
    <3>1. First = o /\ Other(First) = c
      BY <1>2, <1>13, <2>5 DEF First
    <3>2. Len(calls) + Len(handlerQueue[o]) \in Nat
      BY <1>4, <1>10
    <3>3. x = (Len(calls) + Len(handlerQueue[o])) + Len(handlerQueue[c]) + 1
      BY <1>4, <1>10, <2>1, <3>1 DEF x
    <3>4. RunFrom(handlerQueue'[c], Len(calls) + Len(handlerQueue[o]))
      BY <1>3, <1>7, <1>8, <2>1, <3>1, <3>2, <3>3, RunAppend
    <3>5. pushed' = Len(calls) + Len(handlerQueue[o]) + Len(handlerQueue'[c])
      <4> DEFINE l == Len(calls)
                 m == Len(handlerQueue[o])
                 n == Len(handlerQueue[c])
                 k == Len(handlerQueue'[c])
      <4>1. l \in Nat /\ m \in Nat /\ n \in Nat /\ k = n + 1 /\ x = (l + m) + n + 1
        BY <1>10, <2>2, <2>3, <3>3
      <4> HIDE DEF l, m, n, k
      <4>2. x = l + m + k
        BY <4>1
      <4> QED
        BY <1>9, <4>2 DEF l, m, k
    <3> QED
      BY <1>1, <1>7, <1>14, <2>1, <3>1, <3>4, <3>5 DEF InTurn
  <2> QED
    BY <2>4, <2>5
<1>19. Alone'
  <2> SUFFICES ASSUME writing' = 0
               PROVE  dataQueue'[Other(current')] = <<>> /\ handlerQueue'[Other(current')] = <<>>
    BY DEF Alone
  <2>1. writing = 0 /\ current' = current
    BY <1>2, <1>11 DEF c
  <2> QED
    BY <1>7, <2>1 DEF CacheInv, Alone, o
<1> QED
  BY <1>1, <1>15, <1>16, <1>17, <1>18, <1>19 DEF CacheInv

\* The password enters a living cache: the invariant holds after it.
LEMMA ConnectedInv ==
  ASSUME TypeOK, TypeOK', SwapInv, CacheInv, ~destroyed, Connected
  PROVE  CacheInv'
<1>1. /\ ~connected /\ connected'
      /\ dataQueue' = [dataQueue EXCEPT ![current] = InsertData(@)]
      /\ AsyncSend(isAsyncSending, writing)
      /\ destroyed' = destroyed /\ handlerQueue' = handlerQueue
      /\ wire' = wire /\ calls' = calls /\ pushed' = pushed
  BY DEF Connected
<1> DEFINE c == current
           o == Other(current)
<1>2. /\ c \in Slot /\ o \in Slot /\ o # c /\ c # 0
      /\ \A j \in Slot : j = c \/ j = o
  BY Slots DEF TypeOK
<1>3. isAsyncSending \in BOOLEAN /\ writing \in Slot \cup {0}
  BY DEF TypeOK
<1>4. dataQueue \in [Slot -> Seq(Nat)] /\ handlerQueue \in [Slot -> Seq(Nat)]
  BY DEF TypeOK
<1>5. dataQueue'[c] = InsertData(dataQueue[c]) /\ dataQueue'[o] = dataQueue[o]
  BY <1>1, <1>2, <1>4
<1>6. writing = 0
  BY <1>1 DEF CacheInv, Started
<1>7. \/ writing' = 0 /\ current' = c
      \/ connected' /\ dataQueue'[c] # <<>> /\ writing' = c /\ current' = o
  BY <1>1, <1>3, <1>6, AsyncSendCases
<1> HIDE DEF c, o
<1>8. First' = First
  BY <1>2, <1>6, <1>7 DEF First, c
<1>9. Started'
  BY <1>7 DEF Started
<1>10. SentOnly'
  BY <1>1 DEF SentOnly, CacheInv
<1>11. Paired'
  <2>1. PairOf(handlerQueue[c], dataQueue[c]) /\ PairOf(handlerQueue[o], dataQueue[o])
    BY <1>2 DEF CacheInv, Paired
  <2>2. handlerQueue[c] \in Seq(Nat) /\ dataQueue[c] \in Seq(Nat)
    BY <1>2, <1>4
  <2>3. PairOf(handlerQueue[c], InsertData(dataQueue[c]))
    BY <2>1, <2>2, PairInsert
  <2>4. PairOf(handlerQueue'[c], dataQueue'[c]) /\ PairOf(handlerQueue'[o], dataQueue'[o])
    BY <1>1, <1>5, <2>1, <2>3
  <2> QED
    BY <1>2, <2>4 DEF Paired
<1>12. InTurn'
  BY <1>1, <1>8 DEF CacheInv, InTurn
<1>13. Alone'
  <2> SUFFICES ASSUME writing' = 0
               PROVE  dataQueue'[Other(current')] = <<>> /\ handlerQueue'[Other(current')] = <<>>
    BY DEF Alone
  <2>1. current' = current
    BY <1>2, <1>7 DEF c
  <2> QED
    BY <1>1, <1>5, <1>6, <2>1 DEF CacheInv, Alone, o
<1> QED
  BY <1>1, <1>9, <1>10, <1>11, <1>12, <1>13 DEF CacheInv

\* The numbers of the frames pushed by handlers continue a run.
LEMMA RunConcat ==
  ASSUME NEW q \in Seq(Nat), NEW a \in Nat, NEW new \in Seq(Nat), NEW b \in Nat,
         RunFrom(q, a), RunFrom(new, b), b = a + Len(q)
  PROVE  RunFrom(q \o new, a) /\ Len(q \o new) = Len(q) + Len(new)
<1>1. /\ Len(q \o new) = Len(q) + Len(new)
      /\ \A i \in 1..Len(q) : (q \o new)[i] = q[i]
      /\ \A i \in 1..Len(new) : (q \o new)[Len(q) + i] = new[i]
      /\ \A i \in 1..Len(q \o new) : i \in 1..Len(q) \/ \E j \in 1..Len(new) : i = Len(q) + j
  BY ConcatAt
<1>2. ASSUME NEW i \in 1..Len(q \o new)
      PROVE  (q \o new)[i] = a + i
  <2>1. CASE i \in 1..Len(q)
    BY <1>1, <2>1 DEF RunFrom
  <2>2. CASE \E j \in 1..Len(new) : i = Len(q) + j
    <3>1. PICK j \in 1..Len(new) : i = Len(q) + j
      BY <2>2
    <3>2. (q \o new)[i] = new[j]
      BY <1>1, <3>1
    <3>3. new[j] = b + j
      BY <3>1 DEF RunFrom
    <3> QED
      BY <3>1, <3>2, <3>3
  <2> QED
    BY <1>1, <2>1, <2>2
<1> QED
  BY <1>1, <1>2 DEF RunFrom

\* The buffers and vectors after a completion, pair by pair.
LEMMA CompletedAt ==
  ASSUME NEW q \in [Slot -> Seq(Nat)], NEW new \in Seq(Nat),
         writing \in Slot, current = Other(writing)
  PROVE  Completed(q, new)[writing] = <<>> /\ Completed(q, new)[current] = q[current] \o new
<1>1. current \in Slot /\ current # writing
  BY Slots
<1> QED
  BY <1>1 DEF Completed

\* A completed write of a living cache keeps the invariant.
LEMMA WriteDoneInv ==
  ASSUME TypeOK, TypeOK', SwapInv, CacheInv, ~destroyed, WriteDone
  PROVE  CacheInv'
<1> DEFINE w == writing
           c == current
<1>1. w \in Slot /\ c = Other(w) /\ w = Other(c) /\ c \in Slot /\ w # 0 /\ c # 0 /\ c # w
      /\ \A j \in Slot : j = c \/ j = w
  BY Idle, Slots DEF WriteDone, TypeOK
<1>2. /\ destroyed' = destroyed /\ connected' = connected
      /\ wire' = wire \o dataQueue[w]
      /\ calls' = calls \o CallsOf(handlerQueue[w], TRUE)
      /\ AsyncSend(FALSE, 0)
  BY DEF WriteDone, Resend
<1>3. PICK n \in 0..MaxReentrant :
        LET new == [i \in 1..n |-> pushed + i] IN
        /\ pushed' = pushed + n
        /\ dataQueue' = Completed(dataQueue, new)
        /\ handlerQueue' = Completed(handlerQueue, new)
  BY DEF WriteDone
<1> DEFINE new == [i \in 1..n |-> pushed + i]
<1>4. n \in Nat /\ pushed \in Nat
  BY BoundAssumption DEF TypeOK
<1>5. new \in Seq(Nat) /\ Len(new) = n /\ RunFrom(new, pushed)
      /\ \A i \in 1..Len(new) : new[i] # Password
  <2>1. new \in Seq(Nat)
    BY <1>4, FreshType
  <2>2. Len(new) = n
    BY <1>4
  <2>3. \A i \in 1..n : new[i] = pushed + i
    OBVIOUS
  <2>4. RunFrom(new, pushed)
    BY <2>2, <2>3 DEF RunFrom
  <2>5. \A i \in 1..n : pushed + i # 0
    BY <1>4
  <2> QED
    BY <2>1, <2>2, <2>3, <2>4, <2>5 DEF Password
<1>6. dataQueue \in [Slot -> Seq(Nat)] /\ handlerQueue \in [Slot -> Seq(Nat)]
  BY DEF TypeOK
<1>7. pushed' = pushed + n /\ dataQueue' = Completed(dataQueue, new)
      /\ handlerQueue' = Completed(handlerQueue, new)
  BY <1>3
<1> HIDE DEF new
<1>8. /\ dataQueue'[w] = <<>> /\ dataQueue'[c] = dataQueue[c] \o new
      /\ handlerQueue'[w] = <<>> /\ handlerQueue'[c] = handlerQueue[c] \o new
  BY <1>1, <1>5, <1>6, <1>7, CompletedAt
<1>9. /\ dataQueue[c] \in Seq(Nat) /\ dataQueue[w] \in Seq(Nat)
      /\ handlerQueue[c] \in Seq(Nat) /\ handlerQueue[w] \in Seq(Nat)
  BY <1>1, <1>6
<1>10. calls \in Seq(Call) /\ wire \in Seq(Nat)
  BY DEF TypeOK
<1>11. 0 \in Slot \cup {0} /\ FALSE \in BOOLEAN
  OBVIOUS
<1>12. \/ writing' = 0 /\ current' = c
       \/ connected' /\ dataQueue'[c] # <<>> /\ writing' = c /\ current' = w
  BY <1>1, <1>2, <1>11, AsyncSendCases
<1> HIDE DEF w, c
<1>13. First' = c /\ Other(c) = w
  BY <1>1, <1>12 DEF First
<1>14. Started'
  BY <1>12 DEF Started
<1>15. SentOnly'
  <2> DEFINE b == CallsOf(handlerQueue[w], TRUE)
  <2>1. Confirmed(b) = Range(handlerQueue[w])
    BY <1>9, AnswersOfCalls
  <2>2. b \in Seq(Call)
    BY <1>9, CallsAt
  <2> HIDE DEF b
  <2>3. Confirmed(calls \o b) = Confirmed(calls) \cup Confirmed(b)
    BY <1>10, <2>2, AnswersOfBoth
  <2>4. Confirmed(calls \o b) = Confirmed(calls) \cup Range(handlerQueue[w])
    BY <2>1, <2>3
  <2>5. Range(wire \o dataQueue[w]) = Range(wire) \cup Range(dataQueue[w])
    BY <1>9, <1>10, RangeConcat
  <2>6. Range(handlerQueue[w]) \subseteq Range(dataQueue[w])
    BY <1>1 DEF CacheInv, Paired, PairOf
  <2>7. Confirmed(calls) \subseteq Range(wire)
    BY DEF CacheInv, SentOnly
  <2>8. Confirmed(calls \o b) \subseteq Range(wire \o dataQueue[w])
    BY <2>4, <2>5, <2>6, <2>7
  <2>9. calls' = calls \o b /\ wire' = wire \o dataQueue[w]
    BY <1>2 DEF b
  <2> QED
    BY <2>8, <2>9 DEF SentOnly
<1>16. Paired'
  <2>1. PairOf(handlerQueue[c], dataQueue[c])
    BY <1>1 DEF CacheInv, Paired
  <2>2. PairOf(handlerQueue[c] \o new, dataQueue[c] \o new)
    BY <1>5, <1>9, <2>1, PairConcat
  <2>3. PairOf(handlerQueue'[c], dataQueue'[c]) /\ PairOf(handlerQueue'[w], dataQueue'[w])
    BY <1>8, <2>2, PairEmpty
  <2> QED
    BY <1>1, <2>3 DEF Paired
<1>17. InTurn'
  <2> DEFINE h == handlerQueue[w]
             q == handlerQueue[c]
             l == Len(calls)
             m == Len(calls')
  <2>1. First = w /\ Other(First) = c
    BY <1>1 DEF First, w
  <2>2. /\ \A k \in 1..l : calls[k].id = k
        /\ RunFrom(h, l) /\ RunFrom(q, l + Len(h))
        /\ pushed = l + Len(h) + Len(q)
    BY <2>1 DEF CacheInv, InTurn
  <2>3. l \in Nat /\ Len(h) \in Nat /\ Len(q) \in Nat
    BY <1>9, <1>10
  <2>4. m = l + Len(h) /\ m \in Nat /\ \A k \in 1..m : calls'[k].id = k
    <3> DEFINE b == CallsOf(h, TRUE)
    <3>1. b \in Seq(Call) /\ Len(b) = Len(h) /\ \A i \in 1..Len(h) : b[i].id = h[i]
      BY <1>9, CallsAt
    <3>2. calls' = calls \o b
      BY <1>2
    <3> HIDE DEF b, h
    <3>3. calls \in Seq(Call) /\ b \in Seq(Call)
      BY <1>10, <3>1
    <3>4. /\ Len(calls \o b) = l + Len(b)
          /\ \A i \in 1..l : (calls \o b)[i] = calls[i]
          /\ \A i \in 1..Len(b) : (calls \o b)[l + i] = b[i]
          /\ \A i \in 1..Len(calls \o b) : i \in 1..l \/ \E j \in 1..Len(b) : i = l + j
      BY <3>3, ConcatAt
    <3>5. m = l + Len(h) /\ m \in Nat
      BY <2>3, <3>1, <3>2, <3>4
    <3>6. ASSUME NEW k \in 1..m
          PROVE  calls'[k].id = k
      <4>1. CASE k \in 1..l
        BY <2>2, <3>2, <3>4, <4>1
      <4>2. CASE \E j \in 1..Len(b) : k = l + j
        <5>1. PICK j \in 1..Len(b) : k = l + j
          BY <4>2
        <5>2. calls'[k].id = h[j]
          BY <3>1, <3>2, <3>4, <5>1
        <5>3. h[j] = l + j
          BY <2>2, <3>1, <5>1 DEF RunFrom
        <5> QED
          BY <5>1, <5>2, <5>3
      <4> QED
        BY <3>2, <3>4, <4>1, <4>2
    <3> QED
      BY <3>5, <3>6
  <2>5. RunFrom(q \o new, m) /\ Len(q \o new) = Len(q) + n
    <3>1. pushed = m + Len(q)
      BY <2>2, <2>3, <2>4
    <3>2. RunFrom(q, m)
      BY <2>2, <2>4
    <3> QED
      BY <1>4, <1>5, <1>9, <2>4, <3>1, <3>2, RunConcat
  <2>6. RunFrom(handlerQueue'[c], m) /\ Len(handlerQueue'[c]) = Len(q) + n
    BY <1>8, <2>5
  <2>7. Len(handlerQueue'[w]) = 0 /\ RunFrom(handlerQueue'[w], m + Len(handlerQueue'[c]))
    BY <1>8 DEF RunFrom
  <2>8. pushed' = m + Len(handlerQueue'[c]) + Len(handlerQueue'[w])
    <3> HIDE DEF h, q, l, m
    <3> QED
      BY <1>4, <1>7, <2>2, <2>3, <2>4, <2>6, <2>7
  <2> QED
    BY <1>13, <2>4, <2>6, <2>7, <2>8 DEF InTurn
<1>18. Alone'
  BY <1>1, <1>8, <1>12 DEF Alone
<1> QED
  BY <1>2, <1>14, <1>15, <1>16, <1>17, <1>18 DEF CacheInv

\* The calls of a destroyed cache when l were made before, then those of the
\* a younger handlers, then those of the b older ones.
InThreeRuns(f, n, l, a, b) ==
  \A k \in 1..n : f[k].id = IF k <= l THEN k ELSE IF k <= l + a THEN k + b ELSE k - a

\* Calling the younger pair first leaves no number out and calls none twice.
LEMMA Rearranged ==
  ASSUME NEW f, NEW l \in Nat, NEW a \in Nat, NEW b \in Nat, NEW n \in Nat,
         n = l + a + b, InThreeRuns(f, n, l, a, b)
  PROVE  OncePerId(f, n)
<1>1. \A i, j \in 1..n : f[i].id = f[j].id => i = j
  BY DEF InThreeRuns
<1>2. \A i \in 1..n : f[i].id \in 1..n
  BY DEF InThreeRuns
<1>3. ASSUME NEW id \in 1..n
      PROVE  \E i \in 1..n : f[i].id = id
  <2>1. CASE id <= l
    BY <2>1 DEF InThreeRuns
  <2>2. CASE id > l /\ id <= l + b
    <3>1. id + a \in 1..n /\ f[id + a].id = id
      BY <2>2 DEF InThreeRuns
    <3> QED
      BY <3>1
  <2>3. CASE id > l + b
    <3>1. id - b \in 1..n /\ f[id - b].id = id
      BY <2>3 DEF InThreeRuns
    <3> QED
      BY <3>1
  <2> QED
    BY <2>1, <2>2, <2>3
<1> QED
  BY <1>1, <1>2, <1>3 DEF OncePerId

\* destroy answers every handler left, each once.
LEMMA DestroyTells ==
  ASSUME TypeOK, SwapInv, CacheInv, ~destroyed, Destroy, pushed' = pushed
  PROVE  AllTold'
<1> DEFINE a == handlerQueue[2]
           b == handlerQueue[1]
           q == a \o b
           d == CallsOf(q, FALSE)
           l == Len(calls)
<1>1. calls' = calls \o d /\ handlerQueue' = [i \in Slot |-> <<>>]
  BY DEF Destroy
<1>2. a \in Seq(Nat) /\ b \in Seq(Nat)
  BY DEF TypeOK, Slot
<1>3. calls \in Seq(Call)
  BY DEF TypeOK
<1>4. l \in Nat /\ Len(a) \in Nat /\ Len(b) \in Nat
  BY <1>2, <1>3
<1>5. First = 1 \/ First = 2
  BY Idle DEF Slot
<1>6. Other(1) = 2 /\ Other(2) = 1
  BY DEF Other
<1>7. /\ \A k \in 1..l : calls[k].id = k
      /\ RunFrom(handlerQueue[First], l)
      /\ RunFrom(handlerQueue[Other(First)], l + Len(handlerQueue[First]))
      /\ pushed = l + Len(handlerQueue[First]) + Len(handlerQueue[Other(First)])
  BY DEF CacheInv, InTurn
<1> HIDE DEF a, b
<1>8. /\ q \in Seq(Nat) /\ Len(q) = Len(a) + Len(b)
      /\ \A i \in 1..Len(a) : q[i] = a[i]
      /\ \A i \in 1..Len(b) : q[Len(a) + i] = b[i]
  BY <1>2, ConcatAt
<1> HIDE DEF q
<1>9. d \in Seq(Call) /\ Len(d) = Len(q) /\ \A i \in 1..Len(q) : d[i].id = q[i]
  BY <1>8, CallsAt
<1> HIDE DEF d
<1>10. d \in Seq(Call)
  BY <1>9
<1>11. /\ Len(calls \o d) = l + Len(d)
       /\ \A i \in 1..l : (calls \o d)[i] = calls[i]
       /\ \A i \in 1..Len(d) : (calls \o d)[l + i] = d[i]
  BY <1>3, <1>10, ConcatAt
<1>12. pushed = l + Len(a) + Len(b) /\ Len(calls') = pushed /\ pushed \in Nat
  <2>1. pushed = l + Len(a) + Len(b)
    <3>1. CASE First = 1
      <4>1. pushed = l + Len(b) + Len(a)
        BY <1>6, <1>7, <3>1 DEF a, b
      <4> QED
        BY <1>4, <4>1
    <3>2. CASE First = 2
      BY <1>4, <1>6, <1>7, <3>2 DEF a, b
    <3> QED
      BY <1>5, <3>1, <3>2
  <2>2. Len(calls') = l + (Len(a) + Len(b))
    BY <1>1, <1>8, <1>9, <1>11
  <2> QED
    BY <1>4, <2>1, <2>2
<1>13. ASSUME NEW k \in 1..Len(a)
       PROVE  calls'[l + k].id = a[k]
  <2>1. k \in 1..Len(q) /\ k \in 1..Len(d)
    BY <1>4, <1>8, <1>9
  <2> QED
    BY <1>1, <1>8, <1>9, <1>11, <2>1
<1>14. ASSUME NEW k \in 1..Len(b), NEW i \in Nat, i = Len(a) + k
       PROVE  calls'[l + i].id = b[k]
  <2>1. i \in 1..Len(q) /\ i \in 1..Len(d)
    BY <1>4, <1>8, <1>9, <1>14
  <2>2. q[i] = b[k]
    BY <1>8, <1>14
  <2> QED
    BY <1>1, <1>9, <1>11, <2>1, <2>2
<1>15. \A k \in 1..l : calls'[k].id = k
  BY <1>1, <1>7, <1>11
<1>16. \A k \in 1..pushed : \/ k \in 1..l
                            \/ \E j \in 1..Len(a) : k = l + j
                            \/ \E j \in 1..Len(b) : k = l + (Len(a) + j)
  <2> SUFFICES ASSUME NEW k \in 1..pushed, k \notin 1..l, k > l + Len(a)
                      \/ k <= l + Len(a)
               PROVE  \/ \E j \in 1..Len(a) : k = l + j
                      \/ \E j \in 1..Len(b) : k = l + (Len(a) + j)
    BY <1>4, <1>12
  <2>1. CASE k <= l + Len(a)
    <3>1. k - l \in 1..Len(a) /\ k = l + (k - l)
      BY <1>4, <1>12, <2>1
    <3> QED
      BY <3>1
  <2>2. CASE k > l + Len(a)
    <3>1. k - l - Len(a) \in 1..Len(b) /\ k = l + (Len(a) + (k - l - Len(a)))
      BY <1>4, <1>12, <2>2
    <3> QED
      BY <3>1
  <2> QED
    BY <2>1, <2>2
<1>17. OncePerId(calls', pushed)
  <2>1. CASE First = 2
    <3>1. RunFrom(a, l) /\ RunFrom(b, l + Len(a))
      BY <1>6, <1>7, <2>1 DEF a, b
    <3>2. ASSUME NEW k \in 1..pushed
          PROVE  calls'[k].id = k
      <4>1. CASE k \in 1..l
        BY <1>15, <4>1
      <4>2. CASE \E j \in 1..Len(a) : k = l + j
        BY <1>13, <3>1, <4>2 DEF RunFrom
      <4>3. CASE \E j \in 1..Len(b) : k = l + (Len(a) + j)
        <5>1. PICK j \in 1..Len(b) : k = l + (Len(a) + j)
          BY <4>3
        <5>2. Len(a) + j \in Nat
          BY <1>4
        <5>3. calls'[k].id = b[j]
          BY <1>14, <5>1, <5>2
        <5>4. b[j] = l + Len(a) + j
          BY <3>1 DEF RunFrom
        <5>5. l + Len(a) + j = k
          BY <1>4, <5>1
        <5> QED
          BY <5>3, <5>4, <5>5
      <4> QED
        BY <1>16, <4>1, <4>2, <4>3
    <3> QED
      BY <3>2 DEF OncePerId
  <2>2. CASE First = 1
    <3>1. RunFrom(b, l) /\ RunFrom(a, l + Len(b))
      BY <1>6, <1>7, <2>2 DEF a, b
    <3>2. ASSUME NEW k \in 1..pushed
          PROVE  calls'[k].id = IF k <= l THEN k
                                ELSE IF k <= l + Len(a) THEN k + Len(b) ELSE k - Len(a)
      <4>1. CASE k \in 1..l
        BY <1>15, <4>1
      <4>2. CASE \E j \in 1..Len(a) : k = l + j
        <5>1. PICK j \in 1..Len(a) : k = l + j
          BY <4>2
        <5>2. calls'[k].id = a[j] /\ a[j] = l + Len(b) + j
          BY <1>13, <3>1, <5>1 DEF RunFrom
        <5>3. ~(k <= l) /\ k <= l + Len(a) /\ l + Len(b) + j = k + Len(b)
          BY <1>4, <5>1
        <5> QED
          BY <5>2, <5>3
      <4>3. CASE \E j \in 1..Len(b) : k = l + (Len(a) + j)
        <5>1. PICK j \in 1..Len(b) : k = l + (Len(a) + j)
          BY <4>3
        <5>2. Len(a) + j \in Nat
          BY <1>4
        <5>3. calls'[k].id = b[j]
          BY <1>14, <5>1, <5>2
        <5>4. b[j] = l + j
          BY <3>1 DEF RunFrom
        <5>5. ~(k <= l) /\ ~(k <= l + Len(a)) /\ l + j = k - Len(a)
          BY <1>4, <5>1
        <5> QED
          BY <5>3, <5>4, <5>5
      <4> QED
        BY <1>16, <4>1, <4>2, <4>3
    <3> DEFINE f == calls'
               x == Len(a)
               y == Len(b)
    <3>3. /\ l \in Nat /\ x \in Nat /\ y \in Nat /\ pushed \in Nat
          /\ pushed = l + x + y
          /\ InThreeRuns(f, pushed, l, x, y)
      BY <1>4, <1>12, <3>2 DEF InThreeRuns
    <3> HIDE DEF l, f, x, y
    <3>4. OncePerId(f, pushed)
      BY <3>3, Rearranged
    <3> QED
      BY <3>4 DEF f
  <2> QED
    BY <1>5, <2>1, <2>2
<1> QED
  BY <1>1, <1>12, <1>17 DEF AllTold

\* destroy tells nobody "sent".
LEMMA DestroyRefuses ==
  ASSUME TypeOK, Destroy
  PROVE  /\ Confirmed(calls') = Confirmed(calls)
         /\ destroyed => Refused(calls') = Refused(calls)
         /\ ~destroyed => Refused(calls') = Refused(calls)
                                            \cup (Range(handlerQueue[1]) \cup Range(handlerQueue[2]))
<1>1. CASE destroyed
  BY <1>1 DEF Destroy
<1>2. CASE ~destroyed
  <2> DEFINE q == handlerQueue[2] \o handlerQueue[1]
             d == CallsOf(q, FALSE)
  <2>1. handlerQueue[2] \in Seq(Nat) /\ handlerQueue[1] \in Seq(Nat)
    BY DEF TypeOK, Slot
  <2>2. q \in Seq(Nat)
    BY <2>1, ConcatAt
  <2>3. Range(q) = Range(handlerQueue[2]) \cup Range(handlerQueue[1])
    BY <2>1, RangeConcat
  <2>4. calls' = calls \o d
    BY <1>2 DEF Destroy
  <2> HIDE DEF q
  <2>5. d \in Seq(Call)
    BY <2>2, CallsAt
  <2>6. Refused(d) = Range(q) /\ Confirmed(d) = {}
    BY <2>2, AnswersOfCalls
  <2> HIDE DEF d
  <2>7. calls \in Seq(Call)
    BY DEF TypeOK
  <2>8. /\ Confirmed(calls \o d) = Confirmed(calls) \cup Confirmed(d)
        /\ Refused(calls \o d) = Refused(calls) \cup Refused(d)
    BY <2>5, <2>7, AnswersOfBoth
  <2>9. /\ Confirmed(calls \o d) = Confirmed(calls)
        /\ Refused(calls \o d) = Refused(calls)
                                 \cup (Range(handlerQueue[1]) \cup Range(handlerQueue[2]))
    BY <2>3, <2>6, <2>8
  <2> QED
    BY <1>2, <2>4, <2>9
<1> QED
  BY <1>1, <1>2

\* A failed write and a destruction keep the invariant.
LEMMA DestroyInv ==
  ASSUME TypeOK, SwapInv, CacheInv, Destroy, pushed' = pushed,
         Range(wire) \subseteq Range(wire'), Started'
  PROVE  CacheInv'
<1>1. destroyed' = TRUE
  BY DEF Destroy
<1>2. SentOnly'
  BY DestroyRefuses DEF CacheInv, SentOnly
<1>3. AllTold'
  <2>1. CASE destroyed
    BY <2>1 DEF Destroy, CacheInv, AllTold
  <2>2. CASE ~destroyed
    BY <2>2, DestroyTells
  <2> QED
    BY <2>1, <2>2
<1> QED
  BY <1>1, <1>2, <1>3 DEF CacheInv

\* A push that a destroyed cache refuses is one more refused frame.
LEMMA RefusedPush ==
  ASSUME TypeOK, destroyed, Push
  PROVE  /\ Confirmed(calls') = Confirmed(calls)
         /\ Refused(calls') = Refused(calls) \cup {pushed + 1}
<1> DEFINE x == pushed + 1
           d == CallsOf(<<x>>, FALSE)
<1>1. x \in Nat
  BY BoundAssumption DEF TypeOK
<1>2. calls \in Seq(Call)
  BY DEF TypeOK
<1>3. calls' = Append(calls, [id |-> x, ok |-> FALSE])
  BY DEF Push
<1> HIDE DEF x
<1>4. <<x>> \in Seq(Nat)
  BY <1>1, OneType
<1>5. calls' = calls \o d
  BY <1>1, <1>2, <1>3, OneCall
<1>6. d \in Seq(Call)
  BY <1>4, CallsAt
<1>7. Refused(d) = Range(<<x>>) /\ Confirmed(d) = {}
  BY <1>4, AnswersOfCalls
<1> HIDE DEF d
<1>8. Range(<<x>>) = {x}
  BY RangeOne
<1>9. /\ Confirmed(calls \o d) = Confirmed(calls) \cup Confirmed(d)
      /\ Refused(calls \o d) = Refused(calls) \cup Refused(d)
  BY <1>2, <1>6, AnswersOfBoth
<1>10. Confirmed(calls \o d) = Confirmed(calls) /\ Refused(calls \o d) = Refused(calls) \cup {x}
  BY <1>7, <1>8, <1>9
<1> QED
  BY <1>5, <1>10 DEF x

\* A refused push keeps the invariant.
LEMMA RefusedPushInv ==
  ASSUME TypeOK, CacheInv, destroyed, Push
  PROVE  CacheInv'
<1>1. /\ calls' = Append(calls, [id |-> pushed + 1, ok |-> FALSE]) /\ pushed' = pushed + 1
      /\ UNCHANGED <<cache, writing, connected, wire>>
  BY DEF Push
<1>2. pushed \in Nat
  BY BoundAssumption DEF TypeOK
<1>3. calls \in Seq(Call)
  BY DEF TypeOK
<1>4. [id |-> pushed + 1, ok |-> FALSE] \in Call
  BY <1>2 DEF Call
<1>5. /\ Len(calls') = Len(calls) + 1
      /\ \A i \in 1..Len(calls) : calls'[i] = calls[i]
      /\ calls'[Len(calls) + 1].id = pushed + 1
  BY <1>1, <1>3, <1>4, AppendAt
<1>6. Len(calls) = pushed /\ OncePerId(calls, pushed)
  BY DEF CacheInv, AllTold
<1>7. /\ \A i \in 1..pushed : calls'[i].id = calls[i].id /\ calls[i].id \in 1..pushed
      /\ calls'[pushed + 1].id = pushed + 1
  BY <1>5, <1>6 DEF OncePerId
<1>8. OncePerId(calls', pushed + 1)
  <2>1. ASSUME NEW i \in 1..(pushed + 1), NEW j \in 1..(pushed + 1), calls'[i].id = calls'[j].id
        PROVE  i = j
    <3>1. CASE i \in 1..pushed /\ j \in 1..pushed
      BY <1>6, <1>7, <2>1, <3>1 DEF OncePerId
    <3>2. CASE i = pushed + 1 \/ j = pushed + 1
      BY <1>2, <1>7, <2>1, <3>2
    <3> QED
      BY <1>2, <3>1, <3>2
  <2>2. \A i \in 1..(pushed + 1) : calls'[i].id \in 1..(pushed + 1)
    BY <1>2, <1>7
  <2>3. ASSUME NEW id \in 1..(pushed + 1)
        PROVE  \E i \in 1..(pushed + 1) : calls'[i].id = id
    <3>1. CASE id = pushed + 1
      BY <1>2, <1>7, <3>1
    <3>2. CASE id \in 1..pushed
      <4>1. PICK i \in 1..pushed : calls[i].id = id
        BY <1>6, <3>2 DEF OncePerId
      <4>2. i \in 1..(pushed + 1)
        BY <1>2
      <4> QED
        BY <1>7, <4>1, <4>2
    <3> QED
      BY <1>2, <3>1, <3>2
  <2> QED
    BY <2>1, <2>2, <2>3 DEF OncePerId
<1>9. AllTold'
  BY <1>1, <1>5, <1>6, <1>8 DEF AllTold, CacheInv, cache
<1>10. SentOnly'
  BY <1>1, RefusedPush DEF SentOnly, CacheInv
<1>11. Started' /\ destroyed'
  BY <1>1 DEF Started, CacheInv, cache
<1> QED
  BY <1>9, <1>10, <1>11 DEF CacheInv

\* The pair of a write and the pair of pushes are the two pairs.
LEMMA WritingPair ==
  ASSUME TypeOK, SwapInv, writing # 0
  PROVE  /\ writing \in Slot /\ current \in Slot
         /\ current = Other(writing) /\ writing = Other(current)
         /\ \A j \in Slot : j = current \/ j = writing
<1>1. writing \in Slot /\ current \in Slot /\ current # writing
  BY DEF TypeOK, SwapInv
<1> QED
  BY <1>1, Slots

\* A write that completes after the destruction calls no handler and starts
\* nothing.
LEMMA LateWriteDone ==
  ASSUME TypeOK, SwapInv, CacheInv, destroyed, WriteDone
  PROVE  /\ writing' = 0 /\ current' = current /\ destroyed' /\ connected' = connected
         /\ calls' = calls /\ pushed' = pushed /\ wire' = wire \o dataQueue[writing]
         /\ handlerQueue' = handlerQueue /\ dataQueue'[current] = dataQueue[current]
<1>1. /\ writing # 0 /\ destroyed' = destroyed /\ connected' = connected
      /\ wire' = wire \o dataQueue[writing]
      /\ calls' = calls \o CallsOf(handlerQueue[writing], TRUE)
      /\ AsyncSend(FALSE, 0)
  BY DEF WriteDone, Resend
<1>2. PICK n \in 0..MaxReentrant :
        LET new == [i \in 1..n |-> pushed + i] IN
        /\ (n > 0 => handlerQueue[writing] # <<>>)
        /\ pushed' = pushed + n
        /\ dataQueue' = Completed(dataQueue, new)
        /\ handlerQueue' = Completed(handlerQueue, new)
  BY DEF WriteDone
<1>3. /\ writing \in Slot /\ current \in Slot
      /\ current = Other(writing) /\ writing = Other(current)
      /\ \A j \in Slot : j = current \/ j = writing
  BY <1>1, WritingPair
<1>4. \A i \in Slot : handlerQueue[i] = <<>>
  BY DEF CacheInv, AllTold
<1>5. n = 0
  BY <1>2, <1>3, <1>4, BoundAssumption
<1>6. pushed \in Nat /\ calls \in Seq(Call)
  BY BoundAssumption DEF TypeOK
<1>7. dataQueue \in [Slot -> Seq(Nat)] /\ handlerQueue \in [Slot -> Seq(Nat)]
  BY DEF TypeOK
<1>8. [i \in 1..n |-> pushed + i] = <<>>
  BY <1>5
<1>9. pushed' = pushed /\ dataQueue' = Completed(dataQueue, <<>>)
      /\ handlerQueue' = Completed(handlerQueue, <<>>)
  BY <1>2, <1>5, <1>6, <1>8
<1>10. <<>> \in Seq(Nat)
  OBVIOUS
<1>11. /\ dataQueue'[current] = dataQueue[current] \o <<>>
       /\ handlerQueue'[current] = handlerQueue[current] \o <<>> /\ handlerQueue'[writing] = <<>>
  BY <1>3, <1>7, <1>9, <1>10, CompletedAt
<1>12. dataQueue[current] \o <<>> = dataQueue[current]
  BY <1>3, <1>7, CutConcat
<1>13. <<>> \o <<>> = <<>>
  OBVIOUS
<1>14. handlerQueue'[current] = <<>>
  BY <1>3, <1>4, <1>11, <1>13
<1>15. handlerQueue' \in [Slot -> Seq(Nat)]
  BY <1>7, <1>9, <1>10, CompletedType
<1>16. handlerQueue' = handlerQueue
  <2>1. \A i \in Slot : handlerQueue'[i] = handlerQueue[i]
    BY <1>3, <1>4, <1>11, <1>14
  <2> QED
    BY <1>7, <1>15, <2>1
<1>17. CallsOf(<<>>, TRUE) = <<>>
  BY DEF CallsOf
<1>18. calls' = calls
  <2>1. calls' = calls \o <<>>
    BY <1>1, <1>3, <1>4, <1>17
  <2> QED
    BY <1>6, <2>1, CutConcat
<1>19. writing' = 0 /\ current' = current
  BY <1>1 DEF AsyncSend
<1> QED
  BY <1>1, <1>9, <1>11, <1>12, <1>16, <1>18, <1>19

\* What a stream has taken stays on it.
LEMMA WireGrows ==
  ASSUME NEW a \in Seq(Nat), NEW b \in Seq(Nat)
  PROVE  Range(a) \subseteq Range(a \o b)
  BY RangeConcat

\* A failed write leaves on the wire what was there before.
LEMMA FailedWire ==
  ASSUME TypeOK, WriteFailed
  PROVE  Range(wire) \subseteq Range(wire')
<1>1. writing \in Slot
  BY DEF TypeOK, WriteFailed
<1>2. dataQueue[writing] \in Seq(Nat) /\ wire \in Seq(Nat)
  BY <1>1 DEF TypeOK
<1>3. PICK n \in 0..Len(dataQueue[writing]) : wire' = wire \o SubSeq(dataQueue[writing], 1, n)
  BY DEF WriteFailed
<1>4. SubSeq(dataQueue[writing], 1, n) \in Seq(Nat)
  BY <1>2
<1> QED
  BY <1>2, <1>3, <1>4, WireGrows

\* Every step of the cache and of its owner keeps the invariant.
LEMMA CacheStep ==
  ASSUME TypeOK, TypeOK', SwapInv, CacheInv, [Next]_vars
  PROVE  CacheInv'
<1>1. CASE Push
  <2>1. CASE destroyed
    BY <1>1, <2>1, RefusedPushInv
  <2>2. CASE ~destroyed
    BY <1>1, <2>2, PushInv
  <2> QED
    BY <2>1, <2>2
<1>2. CASE Connected
  <2>1. CASE destroyed
    <3>1. UNCHANGED <<cache, writing, wire, calls, pushed>> /\ connected' = TRUE
      BY <1>2, <2>1 DEF Connected
    <3>2. Started' /\ SentOnly'
      BY <3>1 DEF cache, CacheInv, Started, SentOnly
    <3>3. AllTold'
      BY <2>1, <3>1 DEF cache, CacheInv, AllTold
    <3> QED
      BY <2>1, <3>1, <3>2, <3>3 DEF CacheInv, cache
  <2>2. CASE ~destroyed
    BY <1>2, <2>2, ConnectedInv
  <2> QED
    BY <2>1, <2>2
<1>3. CASE WriteDone
  <2>1. CASE destroyed
    <3>1. /\ writing' = 0 /\ destroyed' /\ calls' = calls /\ pushed' = pushed
          /\ wire' = wire \o dataQueue[writing] /\ handlerQueue' = handlerQueue
      BY <1>3, <2>1, LateWriteDone
    <3>2. wire \in Seq(Nat) /\ dataQueue[writing] \in Seq(Nat)
      BY <1>3 DEF TypeOK, WriteDone
    <3>3. SentOnly'
      BY <3>1, <3>2, WireGrows DEF CacheInv, SentOnly
    <3>4. AllTold'
      BY <2>1, <3>1 DEF CacheInv, AllTold
    <3>5. Started'
      BY <3>1 DEF Started
    <3> QED
      BY <3>1, <3>3, <3>4, <3>5 DEF CacheInv
  <2>2. CASE ~destroyed
    BY <1>3, <2>2, WriteDoneInv
  <2> QED
    BY <2>1, <2>2
<1>4. CASE WriteFailed
  <2>1. Destroy /\ writing' = 0 /\ pushed' = pushed
    BY <1>4 DEF WriteFailed
  <2>2. Started'
    BY <2>1 DEF Started
  <2>3. Range(wire) \subseteq Range(wire')
    BY <1>4, FailedWire
  <2> QED
    BY <2>1, <2>2, <2>3, DestroyInv
<1>5. CASE OwnerDestroyed
  <2>1. Destroy /\ UNCHANGED <<dataQueue, connected, writing, wire, pushed>>
    BY <1>5 DEF OwnerDestroyed
  <2>2. Started'
    BY <2>1 DEF Started, CacheInv
  <2>3. Range(wire) \subseteq Range(wire')
    BY <2>1
  <2> QED
    BY <2>1, <2>2, <2>3, DestroyInv
<1>6. CASE UNCHANGED vars
  BY <1>6 DEF vars, CacheInv, Started, SentOnly, Paired, InTurn, Alone, AllTold, First
<1> QED
  BY <1>1, <1>2, <1>3, <1>4, <1>5, <1>6 DEF Next

\* The invariant holds from the start.
LEMMA CacheInvariant == Spec => []CacheInv
<1>1. Init => CacheInv
  <2> SUFFICES ASSUME Init PROVE CacheInv
    OBVIOUS
  <2>1. writing = 0 /\ ~destroyed /\ calls = <<>> /\ pushed = 0 /\ current = 1
        /\ \A i \in Slot : dataQueue[i] = <<>> /\ handlerQueue[i] = <<>>
    BY DEF Init
  <2>2. Started
    BY <2>1 DEF Started
  <2>3. SentOnly
    BY <2>1 DEF SentOnly, Confirmed
  <2>4. Paired
    BY <2>1, PairEmpty DEF Paired
  <2>5. First = 1 /\ 1 \in Slot /\ Other(1) = 2 /\ 2 \in Slot
    BY <2>1 DEF First, Other, Slot
  <2>6. Len(calls) = 0 /\ Len(handlerQueue[1]) = 0 /\ Len(handlerQueue[2]) = 0
    BY <2>1, <2>5
  <2>7. InTurn
    BY <2>1, <2>5, <2>6 DEF InTurn, RunFrom
  <2>8. Alone
    BY <2>1, <2>5 DEF Alone
  <2> QED
    BY <2>1, <2>2, <2>3, <2>4, <2>7, <2>8 DEF CacheInv
<1>2. TypeOK /\ TypeOK' /\ SwapInv /\ CacheInv /\ [Next]_vars => CacheInv'
  BY CacheStep
<1> QED
  BY <1>1, <1>2, CacheTypeCorrect, SwapDiscipline, PTL DEF Spec

\* In a living cache a number has one place among the calls and the vectors.
LEMMA CountLiving ==
  ASSUME TypeOK, SwapInv, CacheInv, ~destroyed, NEW id \in 1..pushed
  PROVE  Called(id) + Held(id) = 1
<1> DEFINE l == Len(calls)
           f == First
           g == Other(First)
           hf == handlerQueue[f]
           hg == handlerQueue[g]
           C == {i \in DOMAIN calls : calls[i].id = id}
           H == {p \in Slot \X (1..MaxPush) :
                   p[2] <= Len(handlerQueue[p[1]]) /\ handlerQueue[p[1]][p[2]] = id}
<1>1. Called(id) = Cardinality(C) /\ Held(id) = Cardinality(H)
  BY DEF Called, Held
<1>2. f \in Slot /\ g \in Slot /\ f # g /\ \A j \in Slot : j = f \/ j = g
  BY Idle, Slots
<1>3. /\ \A k \in 1..l : calls[k].id = k
      /\ RunFrom(hf, l) /\ RunFrom(hg, l + Len(hf)) /\ pushed = l + Len(hf) + Len(hg)
  BY DEF CacheInv, InTurn
<1>4. l \in Nat /\ DOMAIN calls = 1..l
  BY DEF TypeOK
<1>5. hf \in Seq(Nat) /\ hg \in Seq(Nat)
  BY <1>2 DEF TypeOK
<1>6. Len(hf) \in Nat /\ Len(hg) \in Nat
  BY <1>5
<1>7. pushed \in Nat /\ pushed <= MaxPush /\ MaxPush \in Nat
  BY BoundAssumption DEF TypeOK
<1>8. \A p \in H : \/ p[1] = f /\ p[2] \in 1..Len(hf) /\ id = l + p[2]
                   \/ p[1] = g /\ p[2] \in 1..Len(hg) /\ id = l + Len(hf) + p[2]
  <2> SUFFICES ASSUME NEW p \in H
               PROVE  \/ p[1] = f /\ p[2] \in 1..Len(hf) /\ id = l + p[2]
                      \/ p[1] = g /\ p[2] \in 1..Len(hg) /\ id = l + Len(hf) + p[2]
    OBVIOUS
  <2>1. p[1] \in Slot /\ p[2] \in 1..MaxPush /\ p[2] <= Len(handlerQueue[p[1]])
        /\ handlerQueue[p[1]][p[2]] = id
    OBVIOUS
  <2> HIDE DEF H, f, g
  <2>2. CASE p[1] = f
    <3>1. p[2] \in 1..Len(hf) /\ hf[p[2]] = id
      BY <1>6, <1>7, <2>1, <2>2
    <3> QED
      BY <1>3, <2>2, <3>1 DEF RunFrom
  <2>3. CASE p[1] = g
    <3>1. p[2] \in 1..Len(hg) /\ hg[p[2]] = id
      BY <1>6, <1>7, <2>1, <2>3
    <3> QED
      BY <1>3, <2>3, <3>1 DEF RunFrom
  <2> QED
    BY <1>2, <2>1, <2>2, <2>3
<1>9. ASSUME NEW i \in Slot, NEW k \in 1..MaxPush, k <= Len(handlerQueue[i]), handlerQueue[i][k] = id
      PROVE  <<i, k>> \in H
  BY <1>9
<1>10. \A p \in H : p = <<p[1], p[2]>>
  OBVIOUS
<1>11. id \in Nat /\ id >= 1 /\ id <= pushed
  BY <1>7
<1>12. \A i : i \in C <=> i \in 1..l /\ calls[i].id = id
  BY <1>4
<1> HIDE DEF C, H, f, g, hf, hg, l
<1>13. CASE id <= l
  <2>1. C = {id}
    BY <1>3, <1>4, <1>11, <1>13, <1>12
  <2>2. H = {}
    BY <1>4, <1>6, <1>8, <1>11, <1>13
  <2> QED
    <3>1. Cardinality(C) = 1 /\ Cardinality(H) = 0
      BY <2>1, <2>2, FS_EmptySet, FS_Singleton
    <3> QED
      BY <1>1, <3>1
<1>14. CASE id > l /\ id <= l + Len(hf)
  <2> DEFINE k == id - l
  <2>1. C = {}
    BY <1>3, <1>4, <1>12, <1>11, <1>14
  <2>2. k \in 1..Len(hf) /\ k \in 1..MaxPush /\ k <= Len(hf) /\ l + k = id
    BY <1>3, <1>4, <1>6, <1>7, <1>11, <1>14
  <2>3. hf[k] = id
    BY <1>3, <2>2 DEF RunFrom
  <2>4. \A p \in H : p[1] = f /\ p[2] = k
    BY <1>4, <1>6, <1>8, <1>11, <1>14
  <2> HIDE DEF k
  <2>5. <<f, k>> \in H
    BY <1>2, <1>9, <2>2, <2>3 DEF hf
  <2>6. H = {<<f, k>>}
    BY <1>10, <2>4, <2>5
  <2> QED
    <3>1. Cardinality(C) = 0 /\ Cardinality(H) = 1
      BY <2>1, <2>6, FS_EmptySet, FS_Singleton
    <3> QED
      BY <1>1, <3>1
<1>15. CASE id > l + Len(hf)
  <2> DEFINE k == id - (l + Len(hf))
  <2>1. C = {}
    BY <1>3, <1>4, <1>12, <1>6, <1>11, <1>15
  <2>2. k \in 1..Len(hg) /\ k \in 1..MaxPush /\ k <= Len(hg) /\ (l + Len(hf)) + k = id
    BY <1>3, <1>4, <1>6, <1>7, <1>11, <1>15
  <2>3. hg[k] = id
    BY <1>3, <2>2 DEF RunFrom
  <2>4. \A p \in H : p[1] = g /\ p[2] = k
    BY <1>4, <1>6, <1>8, <1>11, <1>15
  <2> HIDE DEF k
  <2>5. <<g, k>> \in H
    BY <1>2, <1>9, <2>2, <2>3 DEF hg
  <2>6. H = {<<g, k>>}
    BY <1>10, <2>4, <2>5
  <2> QED
    <3>1. Cardinality(C) = 0 /\ Cardinality(H) = 1
      BY <2>1, <2>6, FS_EmptySet, FS_Singleton
    <3> QED
      BY <1>1, <3>1
<1> QED
  BY <1>4, <1>6, <1>11, <1>13, <1>14, <1>15

\* In a destroyed cache a number has one place among the calls.
LEMMA CountDestroyed ==
  ASSUME TypeOK, CacheInv, destroyed, NEW id \in 1..pushed
  PROVE  Called(id) + Held(id) = 1
<1> DEFINE C == {i \in DOMAIN calls : calls[i].id = id}
           H == {p \in Slot \X (1..MaxPush) :
                   p[2] <= Len(handlerQueue[p[1]]) /\ handlerQueue[p[1]][p[2]] = id}
<1>1. Called(id) = Cardinality(C) /\ Held(id) = Cardinality(H)
  BY DEF Called, Held
<1>2. Len(calls) = pushed /\ OncePerId(calls, pushed) /\ \A i \in Slot : handlerQueue[i] = <<>>
  BY DEF CacheInv, AllTold
<1>3. DOMAIN calls = 1..pushed
  BY <1>2 DEF TypeOK
<1>4. H = {}
  <2> SUFFICES ASSUME NEW p \in Slot \X (1..MaxPush), p[2] <= Len(handlerQueue[p[1]])
               PROVE  FALSE
    OBVIOUS
  <2>1. p[1] \in Slot /\ p[2] \in 1..MaxPush
    OBVIOUS
  <2>2. Len(handlerQueue[p[1]]) = 0
    BY <1>2, <2>1
  <2> QED
    BY <2>1, <2>2
<1>5. PICK i \in 1..pushed : calls[i].id = id
  BY <1>2 DEF OncePerId
<1>6. \A j : j \in C <=> j \in 1..pushed /\ calls[j].id = id
  BY <1>3
<1>7. \A j \in 1..pushed : calls[j].id = calls[i].id => j = i
  BY <1>2, <1>5 DEF OncePerId
<1> HIDE DEF C, H
<1>8. C = {i}
  BY <1>5, <1>6, <1>7
<1>9. Cardinality(C) = 1 /\ Cardinality(H) = 0
  BY <1>4, <1>8, FS_EmptySet, FS_Singleton
<1> QED
  BY <1>1, <1>9

\* Every handler given to push_data is called exactly once, or is still held
\* and then the cache is not destroyed; "sent" is only told of a frame the
\* TLS stream has taken.  It holds for re-entrant pushes of any number, for
\* both owners, and whichever of completion, error and destruction comes first.
THEOREM HandlersOnce == Spec => []ExactlyOnce
<1>1. TypeOK /\ SwapInv /\ CacheInv => ExactlyOnce
  <2> SUFFICES ASSUME TypeOK, SwapInv, CacheInv PROVE ExactlyOnce
    OBVIOUS
  <2>1. \A id \in 1..pushed : Called(id) + Held(id) = 1
    BY CountLiving, CountDestroyed
  <2>2. destroyed => \A i \in Slot : handlerQueue[i] = <<>>
    BY DEF CacheInv, AllTold
  <2>3. \A i \in DOMAIN calls : calls[i].ok => \E j \in DOMAIN wire : wire[j] = calls[i].id
    BY DEF CacheInv, SentOnly, Confirmed, Range
  <2> QED
    BY <2>1, <2>2, <2>3 DEF ExactlyOnce
<1> QED
  BY <1>1, CacheTypeCorrect, SwapDiscipline, CacheInvariant, PTL

-----------------------------------------------------------------------------
(* The refinement: the two swapped buffers are one queue.                    *)

\* Without a write in flight the backlog is the current buffer; with one it
\* is the buffer written, then the current one.
LEMMA BacklogIs ==
  ASSUME TypeOK, SwapInv
  PROVE  /\ writing = 0 => Backlog = dataQueue[current]
         /\ writing # 0 => Backlog = dataQueue[writing] \o dataQueue[current]
         /\ Backlog \in Seq(Nat)
<1>1. CASE writing = 0
  BY <1>1 DEF Backlog, TypeOK
<1>2. CASE writing # 0
  <2>1. writing \in Slot /\ current \in Slot /\ current = Other(writing)
    BY <1>2, WritingPair
  <2>2. dataQueue[writing] \in Seq(Nat) /\ dataQueue[current] \in Seq(Nat)
    BY <2>1 DEF TypeOK
  <2>3. Backlog = dataQueue[writing] \o dataQueue[current]
    BY <1>2, <2>1 DEF Backlog
  <2>4. dataQueue[writing] \o dataQueue[current] \in Seq(Nat)
    BY <2>2, ConcatAt
  <2> QED
    BY <1>2, <2>3, <2>4
<1> QED
  BY <1>1, <1>2

\* async_send moves the start of the backlog, not the backlog.
LEMMA BacklogAfterSend ==
  ASSUME current \in Slot, NEW busy \in BOOLEAN, NEW w \in Slot \cup {0}, AsyncSend(busy, w),
         dataQueue' \in [Slot -> Seq(Nat)], w = 0, dataQueue'[Other(current)] = <<>>
  PROVE  Backlog' = dataQueue'[current]
<1>1. \/ writing' = 0 /\ current' = current
      \/ writing' = current /\ current' = Other(current)
  BY AsyncSendCases
<1>2. current # 0 /\ dataQueue'[current] \in Seq(Nat)
  BY Slots
<1>3. CASE writing' = 0 /\ current' = current
  BY <1>3 DEF Backlog
<1>4. CASE writing' = current /\ current' = Other(current)
  <2>1. Backlog' = dataQueue'[current] \o <<>>
    BY <1>2, <1>4 DEF Backlog
  <2>2. dataQueue'[current] \o <<>> = dataQueue'[current]
    BY <1>2, CutConcat
  <2> QED
    BY <2>1, <2>2
<1> QED
  BY <1>1, <1>3, <1>4

\* A push appends its frame to the backlog.
LEMMA BacklogPush ==
  ASSUME TypeOK, TypeOK', SwapInv, CacheInv, ~destroyed, Push
  PROVE  Backlog' = Append(Backlog, pushed + 1)
<1> DEFINE x == pushed + 1
<1>1. /\ dataQueue' = [dataQueue EXCEPT ![current] = Append(@, x)]
      /\ AsyncSend(isAsyncSending, writing)
  BY DEF Push
<1>2. /\ current \in Slot /\ Other(current) \in Slot /\ Other(current) # current
      /\ isAsyncSending \in BOOLEAN /\ writing \in Slot \cup {0}
  BY Slots DEF TypeOK
<1>3. dataQueue \in [Slot -> Seq(Nat)] /\ dataQueue' \in [Slot -> Seq(Nat)]
  BY DEF TypeOK
<1>4. x \in Nat
  BY BoundAssumption DEF TypeOK
<1>5. dataQueue'[current] = Append(dataQueue[current], x)
      /\ dataQueue'[Other(current)] = dataQueue[Other(current)]
  BY <1>1, <1>2, <1>3
<1> HIDE DEF x
<1>6. CASE writing = 0
  <2>1. dataQueue'[Other(current)] = <<>>
    BY <1>5, <1>6 DEF CacheInv, Alone
  <2>2. Backlog' = dataQueue'[current]
    BY <1>1, <1>2, <1>3, <1>6, <2>1, BacklogAfterSend
  <2>3. Backlog = dataQueue[current]
    BY <1>6, BacklogIs
  <2> QED
    BY <1>5, <2>2, <2>3 DEF x
<1>7. CASE writing # 0
  <2>1. isAsyncSending /\ writing = Other(current) /\ current = Other(writing)
    BY <1>7, Idle
  <2>2. writing' = writing
    BY <1>1, <1>2, <2>1, AsyncSendCases
  <2>3. Backlog' = dataQueue[writing] \o Append(dataQueue[current], x)
    BY <1>5, <1>7, <2>1, <2>2 DEF Backlog
  <2>4. Backlog = dataQueue[writing] \o dataQueue[current]
    BY <1>7, BacklogIs
  <2> DEFINE a == dataQueue[writing]
             b == dataQueue[current]
  <2>5. a \in Seq(Nat) /\ b \in Seq(Nat)
    BY <1>2, <1>3, <2>1
  <2> HIDE DEF a, b
  <2>6. a \o Append(b, x) = Append(a \o b, x)
    BY <1>4, <2>5
  <2> QED
    BY <2>3, <2>4, <2>6 DEF a, b, x
<1> QED
  BY <1>6, <1>7

\* push_data is a submission to the ordered sender.
LEMMA SubmitStep ==
  ASSUME TypeOK, TypeOK', SwapInv, CacheInv, Push
  PROVE  Sender!Submit
<1>1. /\ pushed < MaxPush /\ pushed' = pushed + 1 /\ connected' = connected /\ wire' = wire
      /\ destroyed' = destroyed
  BY DEF Push, cache
<1>2. pushed + 1 \in 1..MaxPush
  BY <1>1, BoundAssumption DEF TypeOK
<1>3. Sender!CanSubmit(1)
  BY <1>2 DEF Sender!CanSubmit
<1>4. CASE destroyed
  <2>1. calls' = Append(calls, [id |-> pushed + 1, ok |-> FALSE]) /\ UNCHANGED <<cache, writing>>
    BY <1>4 DEF Push
  <2>2. Backlog' = Backlog
    BY <2>1 DEF Backlog, cache
  <2>3. Confirmed(calls') = Confirmed(calls) /\ Refused(calls') = Refused(calls) \cup {pushed + 1}
    BY <1>4, RefusedPush
  <2> QED
    BY <1>1, <1>3, <1>4, <2>2, <2>3 DEF Sender!Submit, Confirmed, Refused
<1>5. CASE ~destroyed
  <2>1. calls' = calls
    BY <1>5 DEF Push
  <2>2. Backlog' = Append(Backlog, pushed + 1)
    BY <1>5, BacklogPush
  <2> QED
    BY <1>1, <1>3, <1>5, <2>1, <2>2 DEF Sender!Submit
<1> QED
  BY <1>4, <1>5

\* The frames of a buffer are its elements but the password.
LEMMA FramesOf ==
  ASSUME NEW q
  PROVE  Sender!FrameSet(q) = Range(q) \ {Password}
  BY DEF Sender!FrameSet, Range, Sender!Range

\* The handler of Pipeline::start opens the ordered sender.
LEMMA OpenStep ==
  ASSUME TypeOK, TypeOK', SwapInv, CacheInv, Connected
  PROVE  Sender!Open
<1>1. /\ ~connected /\ connected' = TRUE /\ wire' = wire /\ calls' = calls /\ pushed' = pushed
      /\ destroyed' = destroyed
  BY DEF Connected, cache
<1>2. CASE destroyed
  <2>1. Backlog' = Backlog
    BY <1>2 DEF Connected, Backlog, cache
  <2> QED
    BY <1>1, <1>2, <2>1 DEF Sender!Open
<1>3. CASE ~destroyed
  <2>1. /\ dataQueue' = [dataQueue EXCEPT ![current] = InsertData(@)]
        /\ AsyncSend(isAsyncSending, writing)
    BY <1>3 DEF Connected
  <2>2. /\ current \in Slot /\ Other(current) \in Slot /\ Other(current) # current
        /\ isAsyncSending \in BOOLEAN /\ writing \in Slot \cup {0}
    BY Slots DEF TypeOK
  <2>3. dataQueue \in [Slot -> Seq(Nat)] /\ dataQueue' \in [Slot -> Seq(Nat)]
    BY DEF TypeOK
  <2>4. dataQueue'[current] = <<Password>> \o dataQueue[current]
        /\ dataQueue'[Other(current)] = dataQueue[Other(current)]
    BY <2>1, <2>2, <2>3 DEF InsertData
  <2>5. writing = 0
    BY <1>1 DEF CacheInv, Started
  <2>6. dataQueue'[Other(current)] = <<>>
    BY <1>3, <2>4, <2>5 DEF CacheInv, Alone
  <2>7. Backlog' = dataQueue'[current]
    BY <2>1, <2>2, <2>3, <2>5, <2>6, BacklogAfterSend
  <2>8. Backlog = dataQueue[current]
    BY <2>5, BacklogIs
  <2>9. Backlog' = <<Password>> \o Backlog
    BY <2>4, <2>7, <2>8
  <2> QED
    BY <1>1, <1>3, <2>9 DEF Sender!Open
<1> QED
  BY <1>2, <1>3

\* A completed write delivers the buffer written.
LEMMA DeliverStep ==
  ASSUME TypeOK, TypeOK', SwapInv, CacheInv, ~destroyed, WriteDone
  PROVE  Sender!Deliver
<1> DEFINE w == writing
           c == current
           W == dataQueue[w]
           Q == dataQueue[c]
<1>1. /\ w \in Slot /\ c = Other(w) /\ w = Other(c) /\ c \in Slot /\ w # 0
      /\ \A j \in Slot : j = c \/ j = w
  BY WritingPair DEF WriteDone
<1>2. /\ destroyed' = destroyed /\ connected' = connected
      /\ wire' = wire \o W
      /\ calls' = calls \o CallsOf(handlerQueue[w], TRUE)
      /\ AsyncSend(FALSE, 0)
  BY DEF WriteDone, Resend
<1>3. PICK n \in 0..MaxReentrant :
        LET new == [i \in 1..n |-> pushed + i] IN
        /\ pushed + n <= MaxPush
        /\ pushed' = pushed + n
        /\ dataQueue' = Completed(dataQueue, new)
  BY DEF WriteDone
<1> DEFINE new == [i \in 1..n |-> pushed + i]
<1>4. n \in Nat /\ pushed \in Nat /\ MaxPush \in Nat
  BY BoundAssumption DEF TypeOK
<1>5. new \in Seq(Nat) /\ new = Sender!Fresh(n)
  BY <1>4, FreshType DEF Sender!Fresh
<1>6. dataQueue \in [Slot -> Seq(Nat)] /\ dataQueue' \in [Slot -> Seq(Nat)]
  BY DEF TypeOK
<1>7. pushed' = pushed + n /\ pushed + n <= MaxPush /\ dataQueue' = Completed(dataQueue, new)
  BY <1>3
<1> HIDE DEF new
<1>8. dataQueue'[w] = <<>> /\ dataQueue'[c] = Q \o new
  BY <1>1, <1>5, <1>6, <1>7, CompletedAt
<1>9. W \in Seq(Nat) /\ Q \in Seq(Nat) /\ W # <<>> /\ connected
  BY <1>1, <1>6 DEF CacheInv, Started
<1>10. Backlog = W \o Q
  BY <1>1, BacklogIs
<1>11. Backlog' = Q \o new
  <2>1. 0 \in Slot \cup {0} /\ FALSE \in BOOLEAN
    OBVIOUS
  <2>2. Backlog' = dataQueue'[c]
    BY <1>1, <1>2, <1>6, <1>8, <2>1, BacklogAfterSend
  <2> QED
    BY <1>8, <2>2
<1>12. Confirmed(calls') = Confirmed(calls) \cup Sender!FrameSet(W) /\ Refused(calls') = Refused(calls)
  <2> DEFINE h == handlerQueue[w]
             b == CallsOf(h, TRUE)
  <2>1. h \in Seq(Nat) /\ calls \in Seq(Call)
    BY <1>1 DEF TypeOK
  <2>2. b \in Seq(Call)
    BY <2>1, CallsAt
  <2>3. Confirmed(b) = Range(h) /\ Refused(b) = {}
    BY <2>1, AnswersOfCalls
  <2>4. calls' = calls \o b
    BY <1>2
  <2> HIDE DEF b
  <2>5. /\ Confirmed(calls \o b) = Confirmed(calls) \cup Confirmed(b)
        /\ Refused(calls \o b) = Refused(calls) \cup Refused(b)
    BY <2>1, <2>2, AnswersOfBoth
  <2>6. Range(h) = Sender!FrameSet(W)
    BY <1>1, FramesOf DEF CacheInv, Paired, PairOf
  <2>7. Confirmed(calls \o b) = Confirmed(calls) \cup Sender!FrameSet(W)
        /\ Refused(calls \o b) = Refused(calls)
    BY <2>3, <2>5, <2>6
  <2> QED
    BY <2>4, <2>7
<1> HIDE DEF w, c, W, Q
<1>13. /\ SubSeq(Backlog, 1, Len(W)) = W
       /\ SubSeq(Backlog, Len(W) + 1, Len(Backlog)) = Q
       /\ Len(Backlog) = Len(W) + Len(Q)
  BY <1>9, <1>10, CutConcat, ConcatAt
<1>14. Len(W) \in 1..Len(Backlog)
  BY <1>9, <1>13
<1>15. n \in (1..MaxPush) \cup {0} /\ Sender!CanSubmit(n)
  BY <1>4, <1>7 DEF Sender!CanSubmit
<1>16. \E m \in 1..Len(Backlog), k \in (1..MaxPush) \cup {0} :
         /\ Sender!CanSubmit(k)
         /\ wire' = wire \o SubSeq(Backlog, 1, m)
         /\ Confirmed(calls') = Confirmed(calls) \cup Sender!FrameSet(SubSeq(Backlog, 1, m))
         /\ Backlog' = SubSeq(Backlog, m + 1, Len(Backlog)) \o Sender!Fresh(k)
         /\ pushed' = pushed + k
  <2>1. /\ wire' = wire \o SubSeq(Backlog, 1, Len(W))
        /\ Confirmed(calls') = Confirmed(calls) \cup Sender!FrameSet(SubSeq(Backlog, 1, Len(W)))
        /\ Backlog' = SubSeq(Backlog, Len(W) + 1, Len(Backlog)) \o Sender!Fresh(n)
    BY <1>2, <1>5, <1>11, <1>12, <1>13
  <2> QED
    BY <1>7, <1>14, <1>15, <2>1
<1> QED
  BY <1>2, <1>9, <1>12, <1>16 DEF Sender!Deliver, Confirmed, Refused

\* The handlers a living cache holds are those of the backlog's frames.
LEMMA HeldIsBacklog ==
  ASSUME TypeOK, SwapInv, CacheInv, ~destroyed
  PROVE  Range(handlerQueue[1]) \cup Range(handlerQueue[2]) = Sender!FrameSet(Backlog)
<1> DEFINE c == current
           o == Other(current)
<1>1. c \in Slot /\ o \in Slot /\ ((c = 1 /\ o = 2) \/ (c = 2 /\ o = 1))
  <2>1. c \in {1, 2}
    BY DEF TypeOK, Slot
  <2> QED
    BY <2>1 DEF Slot, Other
<1>2. /\ Range(handlerQueue[c]) = Range(dataQueue[c]) \ {Password}
      /\ Range(handlerQueue[o]) = Range(dataQueue[o]) \ {Password}
  BY <1>1 DEF CacheInv, Paired, PairOf
<1>3. dataQueue[c] \in Seq(Nat) /\ dataQueue[o] \in Seq(Nat)
  BY <1>1 DEF TypeOK
<1>4. Sender!FrameSet(Backlog) = Range(Backlog) \ {Password}
  BY FramesOf
<1>5. Range(Backlog) = Range(dataQueue[c]) \cup Range(dataQueue[o])
  <2>1. CASE writing = 0
    <3>1. Backlog = dataQueue[c] /\ dataQueue[o] = <<>>
      BY <2>1, BacklogIs DEF CacheInv, Alone
    <3>2. Range(dataQueue[o]) = {}
      BY <3>1, RangeOne
    <3> QED
      BY <3>1, <3>2
  <2>2. CASE writing # 0
    <3>1. Backlog = dataQueue[o] \o dataQueue[c]
      BY <2>2, BacklogIs, WritingPair
    <3> HIDE DEF c, o
    <3>2. Range(dataQueue[o] \o dataQueue[c]) = Range(dataQueue[o]) \cup Range(dataQueue[c])
      BY <1>3, RangeConcat
    <3> QED
      BY <3>1, <3>2
  <2> QED
    BY <2>1, <2>2
<1> HIDE DEF c, o
<1>6. Range(handlerQueue[c]) \cup Range(handlerQueue[o]) = Sender!FrameSet(Backlog)
  BY <1>2, <1>4, <1>5
<1> QED
  BY <1>1, <1>6

\* What a step that ends the sender does to its stream: a part of the backlog
\* is written, and at least that part leaves the backlog.
CutBacklog(q, r, v, u) ==
  \E n \in 0..Len(q), m \in 0..Len(q) :
    n <= m /\ u = v \o SubSeq(q, 1, n) /\ r = SubSeq(q, m + 1, Len(q))

\* A failed write cuts the backlog, in the middle of the buffer or not.
LEMMA FailedCut ==
  ASSUME TypeOK, TypeOK', SwapInv, WriteFailed
  PROVE  CutBacklog(Backlog, Backlog', wire, wire')
<1> DEFINE W == dataQueue[writing]
           Q == dataQueue[current]
<1>1. writing # 0 /\ writing' = 0 /\ current' = current
  BY DEF WriteFailed
<1>2. writing \in Slot /\ current \in Slot /\ current = Other(writing) /\ current # writing
  BY <1>1, WritingPair, Slots
<1>3. W \in Seq(Nat) /\ Q \in Seq(Nat)
  BY <1>2 DEF TypeOK
<1>4. Backlog = W \o Q
  BY <1>1, BacklogIs
<1>5. Backlog' = Q
  <2>1. dataQueue'[current] = Q
    BY <1>2 DEF WriteFailed, TypeOK
  <2> QED
    BY <1>1, <2>1 DEF Backlog
<1>6. PICK n \in 0..Len(W) : wire' = wire \o SubSeq(W, 1, n)
  BY DEF WriteFailed
<1> HIDE DEF W, Q
<1>7. /\ Len(Backlog) = Len(W) + Len(Q) /\ SubSeq(Backlog, Len(W) + 1, Len(Backlog)) = Q
      /\ SubSeq(Backlog, 1, n) = SubSeq(W, 1, n)
  BY <1>3, <1>4, CutConcat, ConcatAt
<1>8. n \in 0..Len(Backlog) /\ Len(W) \in 0..Len(Backlog) /\ n <= Len(W)
  BY <1>3, <1>7
<1>9. n <= Len(W) /\ wire' = wire \o SubSeq(Backlog, 1, n)
      /\ Backlog' = SubSeq(Backlog, Len(W) + 1, Len(Backlog))
  BY <1>5, <1>6, <1>7, <1>8
<1> QED
  BY <1>8, <1>9 DEF CutBacklog

\* A step that leaves the buffers alone cuts nothing.
LEMMA NoCut ==
  ASSUME NEW q \in Seq(Nat), NEW v \in Seq(Nat)
  PROVE  CutBacklog(q, q, v, v)
<1>1. SubSeq(q, 1, 0) = <<>> /\ SubSeq(q, 1, Len(q)) = q /\ v \o <<>> = v
  BY CutConcat
<1>2. 0 \in 0..Len(q) /\ 0 <= 0 /\ 0 + 1 = 1
  OBVIOUS
<1>3. v = v \o SubSeq(q, 1, 0) /\ q = SubSeq(q, 0 + 1, Len(q))
  BY <1>1, <1>2
<1> QED
  BY <1>2, <1>3 DEF CutBacklog

\* The destruction breaks the ordered sender; what is left of a write that
\* was in flight drains.
LEMMA BreakStep ==
  ASSUME TypeOK, SwapInv, CacheInv, Destroy, pushed' = pushed, connected' = connected,
         CutBacklog(Backlog, Backlog', wire, wire')
  PROVE  Sender!Break \/ Sender!Drain
<1>1. destroyed' = TRUE
  BY DEF Destroy
<1>2. CASE ~destroyed
  <2>1. Range(handlerQueue[1]) \cup Range(handlerQueue[2]) = Sender!FrameSet(Backlog)
    BY <1>2, HeldIsBacklog
  <2>2. Confirmed(calls') = Confirmed(calls)
    BY DestroyRefuses
  <2>3. Refused(calls') = Refused(calls) \cup Sender!FrameSet(Backlog)
    BY <1>2, <2>1, DestroyRefuses
  <2>4. Sender!Break
    BY <1>1, <1>2, <2>2, <2>3 DEF Sender!Break, CutBacklog, Confirmed, Refused
  <2> QED
    BY <2>4
<1>3. CASE destroyed
  <2>1. calls' = calls /\ destroyed' = destroyed
    BY <1>1, <1>3 DEF Destroy, TypeOK
  <2>2. Sender!Drain
    BY <1>3, <2>1 DEF Sender!Drain, CutBacklog
  <2> QED
    BY <2>2
<1> QED
  BY <1>2, <1>3

\* A write that completes after the destruction drains.
LEMMA DrainStep ==
  ASSUME TypeOK, SwapInv, CacheInv, destroyed, WriteDone
  PROVE  Sender!Drain
<1> DEFINE W == dataQueue[writing]
           Q == dataQueue[current]
<1>1. /\ writing' = 0 /\ current' = current /\ destroyed' /\ connected' = connected
      /\ calls' = calls /\ pushed' = pushed /\ wire' = wire \o W
      /\ dataQueue'[current] = Q
  BY LateWriteDone
<1>2. writing # 0
  BY DEF WriteDone
<1>3. W \in Seq(Nat) /\ Q \in Seq(Nat)
  BY <1>2, WritingPair DEF TypeOK
<1>4. Backlog = W \o Q
  BY <1>2, BacklogIs
<1>5. Backlog' = Q
  BY <1>1 DEF Backlog
<1>6. destroyed' = destroyed
  BY DEF WriteDone
<1> HIDE DEF W, Q
<1>7. /\ Len(Backlog) = Len(W) + Len(Q) /\ SubSeq(Backlog, Len(W) + 1, Len(Backlog)) = Q
      /\ SubSeq(Backlog, 1, Len(W)) = W
  BY <1>3, <1>4, CutConcat, ConcatAt
<1>8. Len(W) \in 0..Len(Backlog) /\ Len(W) <= Len(W)
  BY <1>3, <1>7
<1>9. wire' = wire \o SubSeq(Backlog, 1, Len(W))
      /\ Backlog' = SubSeq(Backlog, Len(W) + 1, Len(Backlog))
  BY <1>1, <1>5, <1>7
<1>10. CutBacklog(Backlog, Backlog', wire, wire')
  BY <1>8, <1>9 DEF CutBacklog
<1> QED
  BY <1>1, <1>6, <1>10 DEF Sender!Drain, CutBacklog

\* The two buffers, swapped by async_send and filled by push_data from inside
\* and outside of handlers, are one first-in first-out queue to the sessions:
\* every step of the cache is a step of OrderedSender or changes nothing it
\* shows, through write errors and destruction in the middle of a buffer.
THEOREM CacheRefinesSender == Spec => ImplementsOrderedSender
<1>1. Init => Sender!SenderInit
  <2> SUFFICES ASSUME Init PROVE Sender!SenderInit
    OBVIOUS
  <2>1. /\ pushed = 0 /\ wire = <<>> /\ calls = <<>> /\ destroyed = FALSE
        /\ writing = 0 /\ connected \in BOOLEAN
    BY DEF Init
  <2>2. Backlog = <<>>
    BY DEF Init, Backlog, Slot
  <2> QED
    BY <2>1, <2>2 DEF Sender!SenderInit
<1>2. TypeOK /\ TypeOK' /\ SwapInv /\ CacheInv /\ [Next]_vars => [Sender!SenderNext]_Sender!svars
  <2> SUFFICES ASSUME TypeOK, TypeOK', SwapInv, CacheInv, [Next]_vars
               PROVE  [Sender!SenderNext]_Sender!svars
    OBVIOUS
  <2>1. CASE Push
    BY <2>1, SubmitStep DEF Sender!SenderNext
  <2>2. CASE Connected
    BY <2>2, OpenStep DEF Sender!SenderNext
  <2>3. CASE WriteDone
    BY <2>3, DeliverStep, DrainStep DEF Sender!SenderNext
  <2>4. CASE WriteFailed
    <3>1. Destroy /\ pushed' = pushed /\ connected' = connected
      BY <2>4 DEF WriteFailed
    <3>2. CutBacklog(Backlog, Backlog', wire, wire')
      BY <2>4, FailedCut
    <3> QED
      BY <3>1, <3>2, BreakStep DEF Sender!SenderNext
  <2>5. CASE OwnerDestroyed
    <3>1. Destroy /\ UNCHANGED <<dataQueue, current, connected, writing, wire, pushed>>
      BY <2>5 DEF OwnerDestroyed
    <3>2. Backlog' = Backlog
      BY <3>1 DEF Backlog
    <3>3. Backlog \in Seq(Nat) /\ wire \in Seq(Nat)
      BY BacklogIs DEF TypeOK
    <3>4. CutBacklog(Backlog, Backlog, wire, wire)
      BY <3>3, NoCut
    <3>5. CutBacklog(Backlog, Backlog', wire, wire')
      BY <3>1, <3>2, <3>4
    <3> QED
      BY <3>1, <3>5, BreakStep DEF Sender!SenderNext
  <2>6. CASE UNCHANGED vars
    BY <2>6 DEF vars, Sender!svars, Backlog
  <2> QED
    BY <2>1, <2>2, <2>3, <2>4, <2>5, <2>6 DEF Next
<1> QED
  BY <1>1, <1>2, CacheTypeCorrect, SwapDiscipline, CacheInvariant, PTL
     DEF Spec, ImplementsOrderedSender, Sender!SenderSpec
====
