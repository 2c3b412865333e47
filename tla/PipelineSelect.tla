--------------------------- MODULE PipelineSelect ---------------------------
(***************************************************************************)
(* The pipelines of a client's Service: the list of weak pointers, its     *)
(* repair and arrangement by prepare_pipelines, and the choice of a        *)
(* pipeline for a new session by start_session.                            *)
(*                                                                         *)
(* A pipeline is its configuration (0 is the main one, the others are the  *)
(* load-balance ones) and its state.  "dead" is destroyed after it was     *)
(* connected, "failed" before; callbacks keep such a Pipeline alive until  *)
(* it is "expired".  Pipeline::connected is never reset.                   *)
(***************************************************************************)
EXTENDS Integers, Sequences, SequencesExt, FiniteSets

CONSTANTS Configs,      \* number of configurations, load-balance ones included
          PipelineNum,  \* pipeline_num: pipelines per configuration
          MaxPipelines  \* bound on the pipelines ever created

ASSUME ConfigsAssumption == Configs \in Nat \ {0}
ASSUME PipelineNumAssumption == PipelineNum \in Nat \ {0}
ASSUME MaxPipelinesAssumption == MaxPipelines \in Nat

VARIABLES list,     \* pipelines
          idx,      \* pipeline_select_idx
          created,  \* how many pipelines were created
          pick      \* position of the pipeline a session was just started on, or 0

vars == <<list, idx, created, pick>>

Config == 0..(Configs - 1)
States == {"connecting", "connected", "failed", "dead", "expired"}

\* wait: sessions started since the pipeline was chosen or anything changed
Pipe == [cfg : Config, st : States, wait : Nat]

TypeOK ==
  /\ list \in Seq(Pipe) /\ idx \in Nat /\ created \in 0..MaxPipelines
  /\ pick \in 0..Len(list)

Init == list = <<>> /\ idx = 0 /\ created = 0 /\ pick = 0

IsConnected(p) == p.st \in {"connected", "dead"}
Count(l, c) == Cardinality({i \in DOMAIN l : l[i].cfg = c})
Settled(l) == [i \in DOMAIN l |-> [l[i] EXCEPT !.wait = 0]]

-----------------------------------------------------------------------------
(* prepare_pipelines.                                                        *)

Present(l) == SelectSeq(l, LAMBDA p : p.st # "expired")

NewPipe(c) == [cfg |-> c, st |-> "connecting", wait |-> 0]
MissingAnyConfig(l) ==
  IF Len(l) >= PipelineNum THEN <<>>
  ELSE FlattenSeq([c \in 1..Configs |->
                     [k \in 1..(PipelineNum - Len(l)) |-> NewPipe(c - 1)]])
Missing(l) ==
  FlattenSeq([c \in 1..Configs |->
                [k \in 1..(PipelineNum - Count(l, c - 1)) |-> NewPipe(c - 1)]])

Swap(l, i, j) == [l EXCEPT ![i] = l[j], ![j] = l[i]]

\* One turn of the outer loop: position i gets the next later pipeline of the
\* wanted configuration, if there is one.
ArrangeAt(a, i) ==
  LET later == {j \in (i + 1)..Len(a.l) : a.l[j].cfg = a.want}
      j     == CHOOSE k \in later : \A m \in later : k <= m
  IN  IF later = {} THEN a
      ELSE [l |-> Swap(a.l, i, j), want |-> (a.want + 1) % Configs]
Arrange(l) ==
  FoldLeft(ArrangeAt, [l |-> l, want |-> 0], [i \in 1..Len(l) |-> i]).l

Prepared ==
  LET present == Present(list)
      missing == Missing(present)
      full    == present \o missing
  IN  IF present = list /\ missing = <<>> THEN list
      ELSE Settled(IF Configs > 1 THEN Arrange(full) ELSE full)

Created == Len(Missing(Present(list)))

-----------------------------------------------------------------------------
(* start_session.                                                            *)

SelectFirst(l) == [pos |-> 1, idx |-> 0]
Select(l) ==
  LET from  == IF idx >= Len(l) THEN 0 ELSE idx
      later == {i \in (from + 1)..Len(l) : IsConnected(l[i])}
      next  == CHOOSE k \in later : \A m \in later : k <= m
  IN  IF idx >= Len(l) /\ IsConnected(l[1]) THEN [pos |-> 1, idx |-> 0]
      ELSE IF later = {} THEN [pos |-> 1, idx |-> Len(l) + 1]
      ELSE [pos |-> next, idx |-> next]

Waited(l, p) ==
  [i \in DOMAIN l |-> [l[i] EXCEPT !.wait = IF i = p \/ ~IsConnected(l[i]) THEN 0 ELSE @ + 1]]

StartSession ==
  LET l == Prepared
      s == Select(l)
  IN
  /\ created + Created <= MaxPipelines
  /\ created' = created + Created
  /\ list' = Waited(l, s.pos)
  /\ idx' = s.idx /\ pick' = s.pos

\* search_default_pipeline, for an ICMP packet, prepares the list too.
SendIcmp ==
  /\ created + Created <= MaxPipelines
  /\ created' = created + Created
  /\ list' = Prepared /\ list' # list
  /\ pick' = 0
  /\ UNCHANGED idx

-----------------------------------------------------------------------------
(* What happens to the pipelines meanwhile.                                  *)

Becomes(i, s) ==
  /\ list' = Settled([list EXCEPT ![i].st = s])
  /\ pick' = 0
  /\ UNCHANGED <<idx, created>>

Connects(i) == list[i].st = "connecting" /\ Becomes(i, "connected")
Destroyed(i) ==
  \/ list[i].st = "connecting" /\ Becomes(i, "failed")
  \/ list[i].st = "connected" /\ Becomes(i, "dead")
Expires(i) == list[i].st \in {"failed", "dead"} /\ Becomes(i, "expired")

\* session_async_send_to_pipeline and session_destroy_in_pipeline drop the
\* expired entries in front of the pipeline they look for, or all of them.
PurgeExpired ==
  /\ \E k \in 1..Len(list) :
       list' = Settled(Present(SubSeq(list, 1, k)) \o SubSeq(list, k + 1, Len(list)))
  /\ Len(list') < Len(list)
  /\ pick' = 0
  /\ UNCHANGED <<idx, created>>

Next ==
  \/ StartSession \/ SendIcmp \/ PurgeExpired
  \/ \E i \in DOMAIN list : Connects(i) \/ Destroyed(i) \/ Expires(i)

Spec == Init /\ [][Next]_vars

-----------------------------------------------------------------------------
(* Properties.                                                               *)

\* A session is started on a pipeline that still exists, and the list is
\* then complete: PipelineNum pipelines of every configuration, none expired,
\* whatever was lost, purged or repaired before.
PickSound ==
  pick # 0 => /\ \A i \in DOMAIN list : list[i].st # "expired"
              /\ \A c \in Config : Count(list, c) = PipelineNum

\* Polling starves nobody: while nothing changes, a connected pipeline is
\* chosen at least once in Len(list) + 1 sessions.
NoStarvation == \A i \in DOMAIN list : list[i].wait <= Len(list)
=============================================================================
