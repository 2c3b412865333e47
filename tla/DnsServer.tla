----------------------------- MODULE DnsServer -----------------------------
(***************************************************************************)
(* The DNS server of a client: queries of local endpoints are answered     *)
(* from a cache, or given to a forwarder, which asks an upstream server    *)
(* through the proxy (UDPForwardSession, for the domains of the list) or   *)
(* directly (UDPLocalForwarder).  TUNDev asks the cache whether a          *)
(* connection to an address is to be proxied (route type gfwlist).         *)
(*                                                                         *)
(* A step is one callback.  Abstractions: a query has its number as ID;    *)
(* the A records of an answer are a function from addresses to TTLs;       *)
(* enable_cached is set, without it nothing is stored and no address is    *)
(* ever known.  A TTL has the width of MaxTtl instead of 32 bits.  The     *)
(* upstream servers are external: they may answer late, out of order,      *)
(* twice or not at all.  A live UDPForwardSession sends what it takes, see *)
(* UdpForward.                                                             *)
(***************************************************************************)
EXTENDS Integers, Sequences, SequencesExt, FiniteSetsExt

CONSTANTS Endpoints,   \* local endpoints that send queries
          Domains,     \* the names that are asked for
          Listed,      \* those that _gfwlist_matcher matches
          Remote,      \* those that are a remote_addr of the configuration
          QTypes,      \* the QTYPEs: "A", "AAAA" or any other
          Addrs,       \* IP addresses
          MaxTtl,      \* numeric_limits<uint32_t>::max()
          Ttls,        \* the TTLs of A records
          MaxTime, MaxQueries, MaxAnswers    \* bounds

ASSUME DomainsAssumption == Listed \subseteq Domains /\ Remote \subseteq Domains
ASSUME BoundsAssumption ==
  MaxTtl \in Nat /\ Ttls \subseteq 0..MaxTtl /\ {MaxTime, MaxQueries, MaxAnswers} \subseteq Nat

Kind == {"proxy", "direct"}

VARIABLES piped,      \* start_session needs a CONNECT frame to be sent
          now,        \* time(nullptr), in seconds
          cache,      \* m_dns_cache
          fwd,        \* the forwarders ever made
          lists,      \* m_proxy_forwarders and m_forwarders, weak pointers
          queries,    \* number of queries received
          answers,    \* number of answers received
          reply,      \* what the last step sent to an endpoint, or none (history)
          until       \* until[a]: end of the last valid answer with address a
                      \* that came through the proxy (history)

vars == <<piped, now, cache, fwd, lists, queries, answers, reply, until>>

Query == [id : 1..MaxQueries, ep : Endpoints, dom : Domains, type : QTypes]
Entry == [dom : Domains, addrs : SUBSET Addrs, ttl : Int, at : Nat, proxyed : BOOLEAN,
          id : 1..MaxQueries]     \* the ID in the bytes of answer_data
\* starting: given to start_session; dead: destroyed and still held by a
\* callback; gone: released, its weak pointers have expired.
Forwarder == [kind : Kind, ep : Endpoints,
              state : {"starting", "live", "dead", "gone"},
              wait : SUBSET Query,   \* the query start_udp will be called with
              out : SUBSET Query]    \* what it sent, while its answers are read

TypeOK ==
  /\ piped \in BOOLEAN /\ now \in 0..MaxTime
  /\ queries \in 0..MaxQueries /\ answers \in 0..MaxAnswers
  /\ cache \in Seq(Entry) /\ fwd \in Seq(Forwarder)
  /\ lists \in [Kind -> Seq(DOMAIN fwd)]
  /\ reply \in Seq([to : Endpoints, id : 1..MaxQueries, dom : Domains, left : Int,
                   of : Query])
  /\ until \in [Addrs -> Nat]

Init ==
  /\ piped \in BOOLEAN /\ now = 0
  /\ cache = <<>> /\ fwd = <<>> /\ lists = [k \in Kind |-> <<>>]
  /\ queries = 0 /\ answers = 0 /\ reply = <<>>
  /\ until = [a \in Addrs |-> 0]

-----------------------------------------------------------------------------
(* The cache.                                                                *)

\* What a loop that erases members leaves of a list, as in clear_weak_ptr_list:
\* those in S, in their order.
Sift(s, S) ==
  LET kept[i \in 0..Len(s)] ==
        IF i = 0 THEN <<>>
        ELSE IF s[i] \in S THEN Append(kept[i - 1], s[i]) ELSE kept[i - 1]
  IN  kept[Len(s)]

\* is_interest_dns_msg of a question.
Interest(q) == q.type \in {"A", "AAAA"}

Expired(c) == now - c.at >= c.ttl
Unexpired == Sift(cache, {c \in Entry : ~Expired(c)})

\* send_to_local: an answer to query q; left is what remains of the TTL, 1 for
\* an answer that has just come.
SendToLocal(ep, id, dom, left, q) ==
  reply' = <<[to |-> ep, id |-> id, dom |-> dom, left |-> left, of |-> q]>>

\* find_in_dns_cache: the first entry of the domain, whatever the type, is
\* sent with the ID of the query written over its own.
FindInCacheOldId(q, i) ==
  LET c == Unexpired[i] IN
  /\ cache' = Unexpired
  /\ SendToLocal(q.ep, c.id, c.dom, c.ttl - (now - c.at), q)
FindInCache(q, i) ==
  LET c == Unexpired[i] IN
  /\ cache' = [Unexpired EXCEPT ![i].id = q.id]
  /\ SendToLocal(q.ep, q.id, c.dom, c.ttl - (now - c.at), q)

\* The lowest TTL of the A records recs, MaxTtl when there is none.
LowestTtl(recs) == Min({recs[a] : a \in DOMAIN recs} \cup {MaxTtl})

\* The uint32_t t as an int: the upper half is negative.
ToInt(t) == IF 2 * t > MaxTtl THEN t - (MaxTtl + 1) ELSE t

\* store_in_dns_cache: answers that hold an A record are added at the end,
\* next to the entries the domain already has.
NewEntry(q, recs, proxyed) ==
  [dom |-> q.dom, addrs |-> DOMAIN recs, ttl |-> ToInt(LowestTtl(recs)), at |-> now,
   proxyed |-> proxyed, id |-> q.id]
StoreInCacheOnce(q, recs, proxyed) ==
  IF ~Interest(q) \/ LowestTtl(recs) = MaxTtl THEN cache
  ELSE Append(SelectSeq(cache, LAMBDA c : c.dom # q.dom), NewEntry(q, recs, proxyed))
StoreInCache(q, recs, proxyed) ==
  IF ~Interest(q) \/ LowestTtl(recs) = MaxTtl THEN cache
  ELSE Append(cache, NewEntry(q, recs, proxyed))

\* is_ip_in_gfwlist, and proxy_by_route for an address of no other list.
IsIpInGfwlist(a) == \E i \in DOMAIN cache : cache[i].proxyed /\ a \in cache[i].addrs
ProxyByRoute(a) == IsIpInGfwlist(a)

-----------------------------------------------------------------------------
(* Finding or making a forwarder.                                            *)

\* What in_recved decides for a query that is not in the cache.
Proxy(q) == Interest(q) /\ q.dom \in Listed \ Remote

\* clear_weak_ptr_list
Held == [k \in Kind |-> Sift(lists[k], {f \in DOMAIN fwd : fwd[f].state # "gone"})]
Mine(k, q) == Sift(Held[k], {f \in DOMAIN fwd : fwd[f].ep = q.ep})

Sends(f, q) == [f EXCEPT !.out = @ \cup {q}]
Dead(f) == [f EXCEPT !.state = "dead", !.out = {}]

\* UDPForwardSession::process answers true also when it is destroyed.
ByProxySession(q) ==
  LET f == Head(Mine("proxy", q)) IN
  /\ Mine("proxy", q) # <<>>
  /\ fwd' = IF fwd[f].state = "live" THEN [fwd EXCEPT ![f] = Sends(@, q)] ELSE fwd

\* UDPLocalForwarder::process answers false when it is destroyed, or when
\* send_to fails, which destroys it: then the next one is tried.  Of those of
\* the endpoint that live, the first k fail.
Usable(q) == Sift(Mine("direct", q), {f \in DOMAIN fwd : fwd[f].state = "live"})
Failing(q, k) ==
  [f \in DOMAIN fwd |-> IF \E i \in 1..k : Usable(q)[i] = f THEN Dead(fwd[f]) ELSE fwd[f]]
ByLocalForwarder(q, k) ==
  fwd' = [Failing(q, k) EXCEPT ![Usable(q)[k + 1]] = Sends(@, q)]

\* try_to_find_existed.  When all direct forwarders fail a new one is made.
TryExistedDirectFirst(q, k) ==
  \/ k < Len(Usable(q)) /\ ByLocalForwarder(q, k)
  \/ Usable(q) = <<>> /\ k = 0 /\ ByProxySession(q)
TryExisted(q, k) ==
  \/ k = 0 /\ ByProxySession(q)
  \/ Mine("proxy", q) = <<>> /\ k < Len(Usable(q)) /\ ByLocalForwarder(q, k)

\* start() of a local forwarder, whose socket may fail.
Opened(f) == {f, Dead(f)}

\* The rest of in_recved: a forwarder is made, and is listed when it has sent
\* the query.  A session that needs a CONNECT frame waits for it.
Create(q, k) ==
  LET kind == IF Proxy(q) THEN "proxy" ELSE "direct"
      new  == [kind |-> kind, ep |-> q.ep, state |-> "live", wait |-> {}, out |-> {q}]
      Add(f) == fwd' = Append(Failing(q, k), f)
  IN
  \/ /\ kind = "proxy" /\ ~piped
     /\ Add(new) /\ lists' = [Held EXCEPT !["proxy"] = Append(@, Len(fwd) + 1)]
  \/ /\ kind = "proxy" /\ piped
     /\ Add([new EXCEPT !.state = "starting", !.wait = {q}, !.out = {}])
     /\ lists' = Held
  \/ /\ kind = "direct"
     /\ \E f \in Opened(new) :
          /\ Add(f)
          /\ lists' = IF f.state = "live"
                      THEN [Held EXCEPT !["direct"] = Append(@, Len(fwd) + 1)] ELSE Held

\* A query arrives: in_recved.  What does not parse, or is not a query, is
\* dropped without any effect.
InRecved(ep, dom, type) ==
  LET q   == [id |-> queries + 1, ep |-> ep, dom |-> dom, type |-> type]
      c   == Unexpired
      hit == {i \in DOMAIN c : c[i].dom = dom}
  IN
  /\ queries < MaxQueries /\ queries' = queries + 1
  /\ \/ /\ Interest(q) /\ hit # {}
        /\ FindInCache(q, Min(hit))
        /\ UNCHANGED <<fwd, lists>>
     \/ /\ ~Interest(q) \/ hit = {}
        /\ cache' = IF Interest(q) THEN c ELSE cache
        /\ \/ \E k \in 0..Len(Usable(q)) : TryExisted(q, k) /\ lists' = Held
           \/ Mine("proxy", q) = <<>> /\ Create(q, Len(Usable(q)))
        /\ reply' = <<>>
  /\ UNCHANGED <<piped, now, answers, until>>

\* The handler of start_session.
Started(f) ==
  /\ fwd[f].state = "starting"
  /\ \/ /\ fwd' = [fwd EXCEPT ![f].state = "live", ![f].out = fwd[f].wait, ![f].wait = {}]
        /\ lists' = [lists EXCEPT !["proxy"] = Append(@, f)]
     \/ /\ fwd' = [fwd EXCEPT ![f].state = "gone", ![f].wait = {}]
        /\ UNCHANGED lists
  /\ reply' = <<>>
  /\ UNCHANGED <<piped, now, cache, queries, answers, until>>

-----------------------------------------------------------------------------
(* Answers, and the end of forwarders.                                       *)

\* What the answer to q may hold when it is parsed: only the A records of the
\* answer section count.
Records(q) == UNION {[S -> Ttls] : S \in IF q.type = "A" THEN SUBSET Addrs ELSE {{}}}

\* How long an answer is valid: the lowest TTL, where one with the top bit set
\* counts as 0 (RFC 2181, section 8).
Validity(recs) == IF 2 * LowestTtl(recs) > MaxTtl THEN 0 ELSE LowestTtl(recs)

\* recv_up_stream_data: an answer to query q reaches the forwarder f.
RecvUpStream(f, q, recs) ==
  LET proxyed == fwd[f].kind = "proxy" IN
  /\ answers < MaxAnswers /\ answers' = answers + 1
  /\ SendToLocal(fwd[f].ep, q.id, q.dom, 1, q)
  /\ cache' = StoreInCache(q, recs, proxyed)
  /\ until' = [a \in Addrs |-> IF proxyed /\ a \in DOMAIN recs
                               THEN Max({until[a], now + Validity(recs)}) ELSE until[a]]
  /\ UNCHANGED <<piped, now, fwd, lists, queries>>

\* destroy() of a forwarder: its idle timer, a failed read, the end of its
\* connection or pipeline.
ForwarderEnds(f) ==
  /\ fwd[f].state = "live"
  /\ fwd' = [fwd EXCEPT ![f] = Dead(@)]
  /\ reply' = <<>>
  /\ UNCHANGED <<piped, now, cache, lists, queries, answers, until>>

\* The last callback that holds it is gone.
Released(f) ==
  /\ fwd[f].state = "dead"
  /\ fwd' = [fwd EXCEPT ![f].state = "gone"]
  /\ reply' = <<>>
  /\ UNCHANGED <<piped, now, cache, lists, queries, answers, until>>

\* DNSServer::destroy
Destroy ==
  /\ \E k \in Kind : Held[k] # <<>>
  /\ fwd' = [f \in DOMAIN fwd |->
               IF \E k \in Kind : Contains(Held[k], f)
               THEN Dead(fwd[f]) ELSE fwd[f]]
  /\ lists' = [k \in Kind |-> <<>>]
  /\ reply' = <<>>
  /\ UNCHANGED <<piped, now, cache, queries, answers, until>>

Tick ==
  /\ now < MaxTime /\ now' = now + 1
  /\ reply' = <<>>
  /\ UNCHANGED <<piped, cache, fwd, lists, queries, answers, until>>

Next ==
  \/ \E ep \in Endpoints, dom \in Domains, type \in QTypes : InRecved(ep, dom, type)
  \/ \E f \in DOMAIN fwd : Started(f) \/ ForwarderEnds(f) \/ Released(f)
  \/ \E f \in DOMAIN fwd : \E q \in fwd[f].out : \E recs \in Records(q) :
       RecvUpStream(f, q, recs)
  \/ Destroy \/ Tick

Spec == Init /\ [][Next]_vars

-----------------------------------------------------------------------------
(* Properties.                                                               *)

\* Every answer carries the ID and the domain of a query of the endpoint that
\* gets it, whoever asked first and filled the cache, and a record in it is
\* not older than its TTL.
AnswersFit ==
  \A i \in DOMAIN reply :
    /\ reply[i].to = reply[i].of.ep /\ reply[i].id = reply[i].of.id
    /\ reply[i].dom = reply[i].of.dom
    /\ reply[i].left > 0

\* An address that came through the proxy is proxied for as long as one of
\* its answers is valid, however many answers for the same domain or the same
\* address come by either way, are looked up or expire meanwhile.
StaysProxied == \A a \in Addrs : now < until[a] => ProxyByRoute(a)

\* The name of a listed domain leaves the proxy only through a direct
\* forwarder that its endpoint had before and that lives, and only when the
\* endpoint has no forwarder through the proxy.
NoLeak ==
  [][\A f \in DOMAIN fwd' : \A q \in fwd'[f].out :
       fwd'[f].kind = "direct" /\ Proxy(q) /\ q.id > queries =>
         /\ f \in DOMAIN fwd /\ fwd[f].state = "live"
         /\ Mine("proxy", q) = <<>>]_vars
=============================================================================
