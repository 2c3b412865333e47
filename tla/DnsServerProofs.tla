--------------------------- MODULE DnsServerProofs ---------------------------
(***************************************************************************)
(* The theorems about DnsServer.  The invariant DnsInv says that a         *)
(* forwarder holds only queries of its own endpoint, that each list has    *)
(* forwarders of its kind, and that for every address that has to be       *)
(* proxied the cache still has the entry that holds its longest TTL.       *)
(* What Sift leaves of a list is found by induction along the list, with   *)
(* the least place as witness.                                             *)
(***************************************************************************)
EXTENDS DnsServer, SequenceTheorems, WellFoundedInduction, TLAPS

-----------------------------------------------------------------------------
(* Induction over the numbers, and what Sift leaves.                         *)

\* A set of numbers has a least one.
LEMMA LeastNumber ==
  ASSUME NEW T \in SUBSET Nat, T # {}
  PROVE  \E n \in T : \A m \in T : ~(m < n)
<1> DEFINE R == OpToRel(<, Nat)
<1>1. IsWellFoundedOn(R, Nat)
  BY NatLessThanWellFounded
<1>2. \A x, y \in Nat : <<y, x>> \in R <=> y < x
  BY DEF OpToRel
<1> HIDE DEF R
<1>3. \E x \in T : \A y \in T : ~(<<y, x>> \in R)
  BY <1>1, WFMin
<1> QED
  BY <1>2, <1>3

\* A set of numbers with 0 and every successor has them all.
LEMMA AllNumbers ==
  ASSUME NEW S \in SUBSET Nat, 0 \in S, \A n \in S : n + 1 \in S
  PROVE  S = Nat
<1> SUFFICES ASSUME Nat \ S # {} PROVE FALSE
  OBVIOUS
<1>1. PICK n \in Nat \ S : \A m \in Nat \ S : ~(m < n)
  BY LeastNumber
<1>2. n # 0 /\ n - 1 \in Nat /\ n - 1 < n /\ (n - 1) + 1 = n
  BY <1>1
<1>3. n - 1 \in S
  BY <1>1, <1>2
<1> QED
  BY <1>1, <1>2, <1>3

\* An interval that starts with 1 tells its end.
LEMMA SameBound ==
  ASSUME NEW a \in Nat, NEW b \in Nat, 1..a = 1..b
  PROVE  a = b
<1>1. CASE a < b
  <2>1. b \in 1..b /\ b \notin 1..a
    BY <1>1
  <2> QED BY <2>1
<1>2. CASE b < a
  <2>1. a \in 1..a /\ a \notin 1..b
    BY <1>2
  <2> QED BY <2>1
<1> QED BY <1>1, <1>2

\* f is the function that Sift computes along s up to place n.
Sifts(f, s, S, n) ==
  f = [i \in 0..n |-> IF i = 0 THEN <<>>
                      ELSE IF s[i] \in S THEN Append(f[i - 1], s[i]) ELSE f[i - 1]]

\* There is such a function for every place.
LEMMA SiftsExist ==
  ASSUME NEW s, NEW S
  PROVE  \A n \in Nat : \E f : Sifts(f, s, S, n)
<1> DEFINE N == {n \in Nat : \E f : Sifts(f, s, S, n)}
<1>1. 0 \in N
  <2> DEFINE f == [i \in 0..0 |-> <<>>]
  <2>1. Sifts(f, s, S, 0)
    BY DEF Sifts
  <2> QED
    BY <2>1
<1>2. ASSUME NEW n \in N PROVE n + 1 \in N
  <2>1. PICK f : Sifts(f, s, S, n)
    BY <1>2
  <2> DEFINE last == IF s[n + 1] \in S THEN Append(f[n], s[n + 1]) ELSE f[n]
             g == [i \in 0..n + 1 |-> IF i = n + 1 THEN last ELSE f[i]]
             h == [i \in 0..n + 1 |-> IF i = 0 THEN <<>>
                      ELSE IF s[i] \in S THEN Append(g[i - 1], s[i]) ELSE g[i - 1]]
  <2>2. n \in Nat
    BY <1>2
  <2>3. ASSUME NEW i \in 0..n + 1 PROVE g[i] = h[i]
    <3>1. CASE i = n + 1
      <4>1. i # 0 /\ i - 1 = n /\ n \in 0..n + 1 /\ n # n + 1
        BY <2>2, <3>1
      <4>2. g[i - 1] = f[n] /\ g[i] = last
        BY <3>1, <4>1
      <4> QED
        BY <3>1, <4>1, <4>2
    <3>2. CASE i # n + 1
      <4>1. i \in 0..n /\ g[i] = f[i]
        BY <2>2, <2>3, <3>2
      <4>2. f[i] = IF i = 0 THEN <<>>
                   ELSE IF s[i] \in S THEN Append(f[i - 1], s[i]) ELSE f[i - 1]
        BY <2>1, <4>1 DEF Sifts
      <4>3. i # 0 => i - 1 \in 0..n + 1 /\ i - 1 # n + 1
        BY <2>2, <4>1
      <4>4. i # 0 => g[i - 1] = f[i - 1]
        BY <4>3
      <4>5. h[i] = IF i = 0 THEN <<>>
                   ELSE IF s[i] \in S THEN Append(g[i - 1], s[i]) ELSE g[i - 1]
        BY <2>3
      <4> HIDE DEF g, h
      <4> QED
        BY <4>1, <4>2, <4>4, <4>5
    <3> QED
      BY <3>1, <3>2
  <2>4. g = h
    BY <2>3
  <2>5. Sifts(g, s, S, n + 1)
    BY <2>4 DEF Sifts
  <2> QED
    BY <2>2, <2>5
<1> HIDE DEF N
<1>3. N = Nat
  <2>1. N \in SUBSET Nat
    BY DEF N
  <2> QED
    BY <1>1, <1>2, <2>1, AllNumbers
<1> QED
  BY <1>3 DEF N

\* The members of p are members of s up to place n and of S, and p has all
\* of those.
Part(p, s, S, T, n) ==
  /\ p \in Seq(T)
  /\ \A i \in 1..Len(p) : p[i] \in S /\ \E j \in 1..n : p[i] = s[j]
  /\ \A j \in 1..n : s[j] \in S => \E i \in 1..Len(p) : p[i] = s[j]

\* One more place.
LEMMA PartNext ==
  ASSUME NEW T, NEW s \in Seq(T), NEW S, NEW n \in Nat, n + 1 <= Len(s), NEW p,
         Part(p, s, S, T, n)
  PROVE  Part(IF s[n + 1] \in S THEN Append(p, s[n + 1]) ELSE p, s, S, T, n + 1)
<1> DEFINE e == s[n + 1]
           q == Append(p, e)
<1>1. n + 1 \in 1..(n + 1) /\ e \in T /\ p \in Seq(T)
      /\ \A j \in 1..(n + 1) : j \in 1..n \/ j = n + 1
  BY DEF Part
<1>2. \A j \in 1..n : j \in 1..(n + 1)
  OBVIOUS
<1>3. CASE e \notin S
  <2>1. Part(p, s, S, T, n + 1)
    BY <1>1, <1>2, <1>3 DEF Part
  <2> QED BY <1>3, <2>1
<1>4. CASE e \in S
  <2>1. /\ q \in Seq(T) /\ Len(p) \in Nat /\ Len(q) = Len(p) + 1
        /\ (\A i \in 1..Len(p) : q[i] = p[i]) /\ q[Len(p) + 1] = e
    BY <1>1, AppendProperties
  <2>2. e = s[n + 1]
    OBVIOUS
  <2> HIDE DEF q, e
  <2>3. \A i \in 1..Len(q) : i \in 1..Len(p) \/ i = Len(p) + 1
    BY <2>1
  <2>4. (\A i \in 1..Len(p) : i \in 1..Len(q)) /\ Len(p) + 1 \in 1..Len(q)
    BY <2>1
  <2>5. ASSUME NEW i \in 1..Len(q) PROVE q[i] \in S /\ \E j \in 1..(n + 1) : q[i] = s[j]
    <3>1. CASE i = Len(p) + 1
      BY <1>1, <1>4, <2>1, <2>2, <3>1
    <3>2. CASE i \in 1..Len(p)
      <4>1. p[i] \in S /\ \E j \in 1..n : p[i] = s[j]
        BY <3>2 DEF Part
      <4> QED BY <1>2, <2>1, <3>2, <4>1
    <3> QED BY <2>3, <3>1, <3>2
  <2>6. ASSUME NEW j \in 1..(n + 1), s[j] \in S PROVE \E i \in 1..Len(q) : q[i] = s[j]
    <3>1. CASE j = n + 1
      BY <2>1, <2>2, <2>4, <3>1
    <3>2. CASE j \in 1..n
      <4>1. PICK i \in 1..Len(p) : p[i] = s[j]
        BY <2>6, <3>2 DEF Part
      <4> QED BY <2>1, <2>4, <4>1
    <3> QED BY <1>1, <3>1, <3>2
  <2>7. Part(q, s, S, T, n + 1)
    BY <2>1, <2>5, <2>6 DEF Part
  <2> QED BY <1>4, <2>7 DEF q, e
<1> QED BY <1>3, <1>4

\* Sift leaves the members of s that are in S, and no others.
LEMMA SiftFacts ==
  ASSUME NEW T, NEW s \in Seq(T), NEW S
  PROVE  Part(Sift(s, S), s, S, T, Len(s))
<1> DEFINE f == CHOOSE f : Sifts(f, s, S, Len(s))
           N == {n \in Nat : n <= Len(s) => Part(f[n], s, S, T, n)}
<1>1. Len(s) \in Nat /\ Sifts(f, s, S, Len(s))
  BY SiftsExist
<1>2. Sift(s, S) = f[Len(s)]
  BY DEF Sift, Sifts
<1> HIDE DEF f
<1>3. 0 \in N
  <2>1. 0 \in 0..Len(s)
    BY <1>1
  <2>2. \A i \in 0..Len(s) : i = 0 => f[i] = <<>>
    BY <1>1 DEF Sifts
  <2>3. <<>> \in Seq(T) /\ 1..Len(<<>>) = {} /\ 1..0 = {}
    OBVIOUS
  <2>4. Part(<<>>, s, S, T, 0)
    BY <2>3 DEF Part
  <2> QED BY <2>1, <2>2, <2>4
<1>4. ASSUME NEW n \in N PROVE n + 1 \in N
  <2>1. n \in Nat /\ n + 1 \in Nat /\ (n <= Len(s) => Part(f[n], s, S, T, n))
    BY <1>4
  <2>2. ASSUME n + 1 <= Len(s) PROVE Part(f[n + 1], s, S, T, n + 1)
    <3>1. n <= Len(s) /\ n + 1 \in 0..Len(s) /\ n + 1 # 0 /\ (n + 1) - 1 = n
      BY <1>1, <2>1, <2>2
    <3>2. f[n + 1] = IF s[n + 1] \in S THEN Append(f[n], s[n + 1]) ELSE f[n]
      BY <1>1, <3>1 DEF Sifts
    <3> QED BY <2>1, <2>2, <3>1, <3>2, PartNext
  <2> QED BY <2>1, <2>2
<1> HIDE DEF N
<1>5. N = Nat
  <2>1. N \in SUBSET Nat
    BY DEF N
  <2> QED BY <1>3, <1>4, <2>1, AllNumbers
<1>6. Part(f[Len(s)], s, S, T, Len(s))
  BY <1>1, <1>5 DEF N
<1> QED BY <1>2, <1>6

\* The least member of a set of numbers.
LEMMA MinFacts ==
  ASSUME NEW S \in SUBSET Nat, S # {}
  PROVE  Min(S) \in S
<1>1. PICK n \in S : \A m \in S : ~(m < n)
  BY LeastNumber
<1>2. \A m \in S : n <= m
  BY <1>1
<1> QED BY <1>1, <1>2 DEF Min

\* The greater one of two numbers.
LEMMA MaxFacts ==
  ASSUME NEW a \in Nat, NEW b \in Nat
  PROVE  LET m == Max({a, b}) IN m \in Nat /\ (m = a \/ m = b) /\ a <= m /\ b <= m
<1>1. \E x \in {a, b} : \A y \in {a, b} : x >= y
  OBVIOUS
<1> DEFINE m == Max({a, b})
<1>2. m \in {a, b} /\ \A y \in {a, b} : m >= y
  BY <1>1 DEF Max
<1> HIDE DEF m
<1>3. m \in Nat /\ (m = a \/ m = b) /\ a <= m /\ b <= m
  BY <1>2
<1> QED BY <1>3 DEF m

-----------------------------------------------------------------------------
(* The invariant.                                                            *)

\* A forwarder has only queries of its endpoint, which are among the first n;
\* only a session through the proxy waits for its start.
Fit(f, n) ==
  /\ \A q \in f.wait \cup f.out : q.ep = f.ep /\ q.id <= n
  /\ f.state = "starting" => f.kind = "proxy"

\* Forwarders F and lists L after n queries: each list has forwarders of its
\* kind.
Ok(F, L, n) ==
  /\ F \in Seq(Forwarder) /\ L \in [Kind -> Seq(DOMAIN F)]
  /\ \A f \in DOMAIN F : Fit(F[f], n)
  /\ \A k \in Kind : \A i \in 1..Len(L[k]) : F[L[k][i]].kind = k

\* The entry c keeps address a proxied until time u.
Keeps(c, a, u) == c.proxyed /\ a \in c.addrs /\ u <= c.at + c.ttl

\* The cache c has, at time t, such an entry for every address a that must be
\* proxied until u[a].
Covers(c, t, u) ==
  /\ c \in Seq(Entry)
  /\ \A a \in Addrs : t < u[a] => \E i \in 1..Len(c) : Keeps(c[i], a, u[a])

\* What is sent to an endpoint, see AnswersFit.
Reply == [to : Endpoints, id : 1..MaxQueries, dom : Domains, left : Int, of : Query]
Answered(r) ==
  /\ r \in Seq(Reply)
  /\ \A i \in DOMAIN r : /\ r[i].to = r[i].of.ep /\ r[i].id = r[i].of.id
                         /\ r[i].dom = r[i].of.dom /\ r[i].left > 0

\* The variables that no other part is about.
Counters ==
  /\ piped \in BOOLEAN /\ now \in 0..MaxTime
  /\ queries \in 0..MaxQueries /\ answers \in 0..MaxAnswers
  /\ until \in [Addrs -> Nat]

DnsInv ==
  Counters /\ Ok(fwd, lists, queries) /\ Covers(cache, now, until) /\ Answered(reply)

\* Types of the parts of the state.
LEMMA Types ==
  ASSUME DnsInv
  PROVE  /\ fwd \in Seq(Forwarder) /\ DOMAIN fwd = 1..Len(fwd) /\ Len(fwd) \in Nat
         /\ \A k \in Kind : lists[k] \in Seq(DOMAIN fwd)
         /\ \A f \in DOMAIN fwd : fwd[f] \in Forwarder /\ Fit(fwd[f], queries)
         /\ cache \in Seq(Entry) /\ now \in Nat /\ queries \in Nat
         /\ \A a \in Addrs : until[a] \in Nat
<1>1. fwd \in Seq(Forwarder) /\ cache \in Seq(Entry)
  BY DEF DnsInv, Ok, Covers
<1>2. now \in Nat /\ queries \in Nat /\ \A a \in Addrs : until[a] \in Nat
  BY BoundsAssumption DEF DnsInv, Counters
<1>3. \A k \in Kind : lists[k] \in Seq(DOMAIN fwd)
  BY DEF DnsInv, Ok
<1>4. \A f \in DOMAIN fwd : fwd[f] \in Forwarder /\ Fit(fwd[f], queries)
  BY <1>1 DEF DnsInv, Ok
<1> QED BY <1>1, <1>2, <1>3, <1>4

\* What clear_weak_ptr_list leaves, and the search of a list for the endpoint
\* of a query: forwarders of the kind of the list, of the endpoint.
LEMMA FoundMine ==
  ASSUME DnsInv, NEW q, NEW k \in Kind
  PROVE  /\ Held[k] \in Seq(DOMAIN fwd)
         /\ \A i \in 1..Len(Held[k]) : fwd[Held[k][i]].kind = k
         /\ Mine(k, q) \in Seq(DOMAIN fwd)
         /\ \A i \in 1..Len(Mine(k, q)) : /\ fwd[Mine(k, q)[i]].kind = k
                                          /\ fwd[Mine(k, q)[i]].ep = q.ep
<1> DEFINE D == DOMAIN fwd
           R == {f \in D : fwd[f].state # "gone"}
           E == {f \in D : fwd[f].ep = q.ep}
           l == lists[k]
           h == Held[k]
           m == Mine(k, q)
<1>1. l \in Seq(D) /\ \A j \in 1..Len(l) : fwd[l[j]].kind = k
  BY Types DEF DnsInv, Ok
<1>2. h = Sift(l, R) /\ m = Sift(h, E)
  BY DEF Held, Mine
<1> HIDE DEF l, h, m, R, E, D
<1>3. Part(h, l, R, D, Len(l))
  BY <1>1, <1>2, SiftFacts
<1>4. h \in Seq(D) /\ \A i \in 1..Len(h) : fwd[h[i]].kind = k
  BY <1>1, <1>3 DEF Part
<1>5. Part(m, h, E, D, Len(h))
  BY <1>2, <1>4, SiftFacts
<1>6. m \in Seq(D) /\ \A i \in 1..Len(m) : fwd[m[i]].kind = k /\ m[i] \in E
  BY <1>4, <1>5 DEF Part
<1>7. \A f \in E : fwd[f].ep = q.ep
  BY DEF E
<1> QED BY <1>4, <1>6, <1>7 DEF h, m, D

\* The direct forwarders that may take the query: live ones of its endpoint.
LEMMA FoundUsable ==
  ASSUME DnsInv, NEW q
  PROVE  /\ Usable(q) \in Seq(DOMAIN fwd)
         /\ \A i \in 1..Len(Usable(q)) : /\ fwd[Usable(q)[i]].kind = "direct"
                                         /\ fwd[Usable(q)[i]].ep = q.ep
                                         /\ fwd[Usable(q)[i]].state = "live"
<1> DEFINE D == DOMAIN fwd
           L == {f \in D : fwd[f].state = "live"}
           m == Mine("direct", q)
           u == Usable(q)
<1>1. "direct" \in Kind
  BY DEF Kind
<1>2. m \in Seq(D) /\ \A i \in 1..Len(m) : fwd[m[i]].kind = "direct" /\ fwd[m[i]].ep = q.ep
  BY <1>1, FoundMine
<1>3. u = Sift(m, L)
  BY DEF Usable
<1> HIDE DEF u, m, L, D
<1>4. Part(u, m, L, D, Len(m))
  BY <1>2, <1>3, SiftFacts
<1>5. u \in Seq(D) /\ \A i \in 1..Len(u) : /\ fwd[u[i]].kind = "direct"
                                           /\ fwd[u[i]].ep = q.ep /\ u[i] \in L
  BY <1>2, <1>4 DEF Part
<1>6. \A f \in L : fwd[f].state = "live"
  BY DEF L
<1> QED BY <1>5, <1>6 DEF u, D

-----------------------------------------------------------------------------
(* Changes of the forwarders and of their lists.                             *)

\* v may take the place of the forwarder f.
Follows(v, f, n) == v \in Forwarder /\ v.kind = f.kind /\ Fit(v, n)

\* A query that was received from ep, the last one being number n.
Asked(q, ep, n) == q \in Query /\ q.ep = ep /\ q.id <= n

\* A forwarder that sends one more query of its endpoint.
LEMMA SendsFollows ==
  ASSUME NEW n \in Nat, NEW f \in Forwarder, Fit(f, n), NEW q, Asked(q, f.ep, n)
  PROVE  Follows(Sends(f, q), f, n) /\ Sends(f, q).out = f.out \cup {q}
<1> DEFINE v == Sends(f, q)
<1>1. /\ v.kind = f.kind /\ v.ep = f.ep /\ v.state = f.state /\ v.wait = f.wait
      /\ v.out = f.out \cup {q} /\ v \in Forwarder
  BY DEF Sends, Forwarder, Asked
<1> HIDE DEF v
<1>2. Fit(v, n)
  BY <1>1 DEF Fit, Asked
<1> QED BY <1>1, <1>2 DEF Follows, v

\* A forwarder that is destroyed.
LEMMA DeadFollows ==
  ASSUME NEW n \in Nat, NEW f \in Forwarder, Fit(f, n)
  PROVE  Follows(Dead(f), f, n) /\ Dead(f).out = {}
<1> DEFINE v == Dead(f)
<1>1. /\ v.kind = f.kind /\ v.ep = f.ep /\ v.state = "dead" /\ v.wait = f.wait
      /\ v.out = {} /\ v \in Forwarder
  BY DEF Dead, Forwarder
<1> HIDE DEF v
<1>2. Fit(v, n)
  BY <1>1 DEF Fit
<1> QED BY <1>1, <1>2 DEF Follows, v

\* More queries may have been received.
LEMMA MoreQueries ==
  ASSUME NEW n \in Nat, NEW m \in Nat, n <= m, NEW F, NEW L, Ok(F, L, n)
  PROVE  Ok(F, L, m)
<1>1. ASSUME NEW f \in DOMAIN F PROVE Fit(F[f], m)
  <2>1. F[f] \in Forwarder /\ Fit(F[f], n)
    BY DEF Ok
  <2>2. \A q \in F[f].wait \cup F[f].out : q.id \in Nat
    BY <2>1, BoundsAssumption DEF Forwarder, Query
  <2> QED BY <2>1, <2>2 DEF Fit
<1> QED BY <1>1 DEF Ok

\* Forwarders take the places of others.
LEMMA Replaced ==
  ASSUME NEW n, NEW F, NEW L, Ok(F, L, n), NEW G, G = [f \in DOMAIN F |-> G[f]],
         \A f \in DOMAIN F : Follows(G[f], F[f], n)
  PROVE  Ok(G, L, n)
<1>1. F \in Seq(Forwarder) /\ DOMAIN F = 1..Len(F) /\ Len(F) \in Nat
  BY DEF Ok
<1>2. DOMAIN G = DOMAIN F /\ G \in Seq(Forwarder)
  BY <1>1 DEF Follows
<1>3. L \in [Kind -> Seq(DOMAIN G)]
  BY <1>2 DEF Ok
<1>4. \A f \in DOMAIN G : Fit(G[f], n)
  BY <1>2 DEF Follows
<1>5. ASSUME NEW k \in Kind, NEW i \in 1..Len(L[k]) PROVE G[L[k][i]].kind = k
  <2>1. L[k] \in Seq(DOMAIN F) /\ F[L[k][i]].kind = k
    BY DEF Ok
  <2>2. L[k][i] \in DOMAIN F
    BY <2>1
  <2> QED BY <2>1, <2>2 DEF Follows
<1> QED BY <1>2, <1>3, <1>4, <1>5 DEF Ok

\* One of them does.
LEMMA ReplacedOne ==
  ASSUME NEW n, NEW F, NEW L, Ok(F, L, n), NEW g \in DOMAIN F, NEW v, Follows(v, F[g], n)
  PROVE  Ok([F EXCEPT ![g] = v], L, n)
<1> DEFINE G == [F EXCEPT ![g] = v]
<1>1. G = [f \in DOMAIN F |-> G[f]]
  OBVIOUS
<1>2. ASSUME NEW f \in DOMAIN F PROVE Follows(G[f], F[f], n)
  <2>1. f # g => G[f] = F[f]
    OBVIOUS
  <2>2. f = g => G[f] = v
    OBVIOUS
  <2>3. Follows(F[f], F[f], n)
    <3>1. F[f] \in Forwarder
      BY DEF Ok
    <3> QED BY <3>1 DEF Ok, Follows
  <2> QED BY <2>1, <2>2, <2>3
<1> HIDE DEF G
<1>3. Ok(G, L, n)
  BY <1>1, <1>2, Replaced
<1> QED BY <1>3 DEF G

\* A forwarder is made.
LEMMA Made ==
  ASSUME NEW n, NEW F, NEW L, Ok(F, L, n), NEW v, Follows(v, v, n)
  PROVE  /\ Ok(Append(F, v), L, n) /\ Len(F) + 1 \in DOMAIN Append(F, v)
         /\ Append(F, v)[Len(F) + 1] = v
<1> DEFINE G == Append(F, v)
<1>1. F \in Seq(Forwarder) /\ v \in Forwarder
  BY DEF Ok, Follows
<1>2. /\ G \in Seq(Forwarder) /\ Len(F) \in Nat /\ Len(G) = Len(F) + 1
      /\ (\A i \in 1..Len(F) : G[i] = F[i]) /\ G[Len(F) + 1] = v
  BY <1>1, AppendProperties
<1>3. DOMAIN F = 1..Len(F) /\ DOMAIN G = 1..Len(G)
  BY <1>1, <1>2
<1> HIDE DEF G
<1>4. DOMAIN F \subseteq DOMAIN G /\ Len(F) + 1 \in DOMAIN G
      /\ \A f \in DOMAIN G : f \in DOMAIN F \/ f = Len(F) + 1
  BY <1>2, <1>3
<1>5. L \in [Kind -> Seq(DOMAIN G)]
  <2>1. \A s \in Seq(DOMAIN F) : s \in Seq(DOMAIN G)
    BY <1>4
  <2> QED BY <2>1 DEF Ok
<1>6. ASSUME NEW f \in DOMAIN G PROVE Fit(G[f], n)
  BY <1>2, <1>3, <1>4 DEF Ok, Follows
<1>7. ASSUME NEW k \in Kind, NEW i \in 1..Len(L[k]) PROVE G[L[k][i]].kind = k
  <2>1. L[k] \in Seq(DOMAIN F) /\ F[L[k][i]].kind = k
    BY DEF Ok
  <2>2. L[k][i] \in DOMAIN F
    BY <2>1
  <2> QED BY <1>2, <1>3, <2>1, <2>2
<1>8. Ok(G, L, n)
  BY <1>2, <1>5, <1>6, <1>7 DEF Ok
<1> QED BY <1>2, <1>4, <1>8 DEF G

\* A forwarder is put at the end of the list of its kind.
LEMMA Listing ==
  ASSUME NEW n, NEW F, NEW L, Ok(F, L, n), NEW f \in DOMAIN F, NEW k \in Kind, F[f].kind = k
  PROVE  Ok(F, [L EXCEPT ![k] = Append(@, f)], n)
<1> DEFINE l == Append(L[k], f)
           M == [L EXCEPT ![k] = l]
<1>1. L \in [Kind -> Seq(DOMAIN F)] /\ L[k] \in Seq(DOMAIN F)
  BY DEF Ok
<1>2. /\ l \in Seq(DOMAIN F) /\ Len(L[k]) \in Nat /\ Len(l) = Len(L[k]) + 1
      /\ (\A i \in 1..Len(L[k]) : l[i] = L[k][i]) /\ l[Len(L[k]) + 1] = f
  BY <1>1, AppendProperties
<1> HIDE DEF l
<1>3. M \in [Kind -> Seq(DOMAIN F)] /\ M[k] = l /\ \A j \in Kind : j # k => M[j] = L[j]
  BY <1>1, <1>2
<1> HIDE DEF M
<1>4. ASSUME NEW i \in 1..Len(l) PROVE F[l[i]].kind = k
  <2>1. i \in 1..Len(L[k]) \/ i = Len(L[k]) + 1
    BY <1>2
  <2> QED BY <1>2, <2>1 DEF Ok
<1>5. ASSUME NEW j \in Kind, NEW i \in 1..Len(M[j]) PROVE F[M[j][i]].kind = j
  <2>1. CASE j = k
    BY <1>3, <1>4, <2>1
  <2>2. CASE j # k
    BY <1>3, <2>2 DEF Ok
  <2> QED BY <2>1, <2>2
<1>6. Ok(F, M, n)
  BY <1>3, <1>5 DEF Ok
<1> QED BY <1>6 DEF M, l

\* Other lists of forwarders of their kind.
LEMMA Relisted ==
  ASSUME NEW n, NEW F, NEW L, Ok(F, L, n), NEW M, M = [k \in Kind |-> M[k]],
         \A k \in Kind : /\ M[k] \in Seq(DOMAIN F)
                         /\ \A i \in 1..Len(M[k]) : F[M[k][i]].kind = k
  PROVE  Ok(F, M, n)
<1>1. M \in [Kind -> Seq(DOMAIN F)]
  OBVIOUS
<1> QED BY <1>1 DEF Ok

\* The lists after clear_weak_ptr_list.
LEMMA HeldOk ==
  ASSUME DnsInv
  PROVE  Ok(fwd, Held, queries)
<1>1. Held = [k \in Kind |-> Held[k]]
  BY DEF Held
<1>2. \A k \in Kind : /\ Held[k] \in Seq(DOMAIN fwd)
                      /\ \A i \in 1..Len(Held[k]) : fwd[Held[k][i]].kind = k
  BY FoundMine
<1> QED BY <1>1, <1>2, Relisted DEF DnsInv

-----------------------------------------------------------------------------
(* Answers and the cache.                                                    *)

\* Nothing is sent.
LEMMA NoReply == Answered(<<>>)
<1>1. <<>> \in Seq(Reply) /\ DOMAIN <<>> = {}
  OBVIOUS
<1> QED BY <1>1 DEF Answered

\* An answer to q is sent, with something left of the TTL.
LEMMA OneReply ==
  ASSUME NEW q \in Query, NEW left \in Int, left > 0,
         SendToLocal(q.ep, q.id, q.dom, left, q)
  PROVE  Answered(reply')
<1> DEFINE r == [to |-> q.ep, id |-> q.id, dom |-> q.dom, left |-> left, of |-> q]
<1>1. reply' = <<r>>
  BY DEF SendToLocal
<1>2. /\ r \in Reply /\ r.to = r.of.ep /\ r.id = r.of.id /\ r.dom = r.of.dom
      /\ r.left > 0
  BY DEF Reply, Query
<1> HIDE DEF r
<1>3. <<r>> \in Seq(Reply) /\ DOMAIN <<r>> = {1} /\ <<r>>[1] = r
  BY <1>2
<1> QED BY <1>1, <1>2, <1>3 DEF Answered

\* What find_in_dns_cache leaves: the entries whose TTL has not run out.  Those
\* that keep an address proxied are among them.
LEMMA UnexpiredCovers ==
  ASSUME DnsInv
  PROVE  /\ Covers(Unexpired, now, until)
         /\ \A i \in 1..Len(Unexpired) : ~Expired(Unexpired[i])
<1> DEFINE S == {c \in Entry : ~Expired(c)}
           u == Unexpired
<1>1. u = Sift(cache, S) /\ cache \in Seq(Entry) /\ now \in Nat
  BY Types DEF Unexpired
<1>2. \A c \in S : ~Expired(c)
  OBVIOUS
<1>3. ASSUME NEW i \in 1..Len(cache), NEW a \in Addrs, now < until[a],
             Keeps(cache[i], a, until[a])
      PROVE  cache[i] \in S
  <2>1. cache[i] \in Entry
    BY <1>1
  <2>2. cache[i].at \in Nat /\ cache[i].ttl \in Int
    BY <2>1 DEF Entry
  <2>3. until[a] \in Nat /\ until[a] <= cache[i].at + cache[i].ttl
    BY <1>3, Types DEF Keeps
  <2>4. ~Expired(cache[i])
    BY <1>1, <1>3, <2>2, <2>3 DEF Expired
  <2> QED BY <2>1, <2>4
<1> HIDE DEF S, u
<1>4. Part(u, cache, S, Entry, Len(cache))
  BY <1>1, SiftFacts
<1>5. u \in Seq(Entry) /\ \A i \in 1..Len(u) : ~Expired(u[i])
  BY <1>2, <1>4 DEF Part
<1>6. ASSUME NEW a \in Addrs, now < until[a]
      PROVE  \E i \in 1..Len(u) : Keeps(u[i], a, until[a])
  <2>1. PICK j \in 1..Len(cache) : Keeps(cache[j], a, until[a])
    BY <1>6 DEF DnsInv, Covers
  <2>2. PICK i \in 1..Len(u) : u[i] = cache[j]
    BY <1>3, <1>4, <1>6, <2>1 DEF Part
  <2> QED BY <2>1, <2>2
<1> QED BY <1>5, <1>6 DEF Covers, u

\* The ID in the bytes of an entry does not matter.
LEMMA NewId ==
  ASSUME NEW c, NEW t, NEW u, Covers(c, t, u), NEW i \in 1..Len(c), NEW n \in 1..MaxQueries
  PROVE  Covers([c EXCEPT ![i].id = n], t, u)
<1> DEFINE e == [c[i] EXCEPT !.id = n]
           d == [c EXCEPT ![i] = e]
<1>1. c \in Seq(Entry) /\ c[i] \in Entry /\ Len(c) \in Nat /\ i \in DOMAIN c
      /\ DOMAIN c = 1..Len(c)
  BY DEF Covers
<1>2. /\ e \in Entry /\ e.proxyed = c[i].proxyed /\ e.addrs = c[i].addrs
      /\ e.at = c[i].at /\ e.ttl = c[i].ttl
  BY <1>1 DEF Entry
<1>3. \A a, v : Keeps(c[i], a, v) => Keeps(e, a, v)
  BY <1>2 DEF Keeps
<1>4. [c EXCEPT ![i].id = n] = d
  OBVIOUS
<1> HIDE DEF e
<1>5. /\ d \in Seq(Entry) /\ Len(d) = Len(c) /\ d[i] = e
      /\ \A j \in 1..Len(c) : j # i => d[j] = c[j]
  BY <1>1, <1>2
<1> HIDE DEF d
<1>6. ASSUME NEW a \in Addrs, t < u[a] PROVE \E j \in 1..Len(d) : Keeps(d[j], a, u[a])
  <2>1. PICK j \in 1..Len(c) : Keeps(c[j], a, u[a])
    BY <1>6 DEF Covers
  <2>2. CASE j = i
    BY <1>3, <1>5, <2>1, <2>2
  <2>3. CASE j # i
    BY <1>5, <2>1, <2>3
  <2> QED BY <2>2, <2>3
<1>7. Covers(d, t, u)
  BY <1>5, <1>6 DEF Covers
<1> QED BY <1>4, <1>7

\* find_in_dns_cache answers the query, and the cache keeps what it has to.
LEMMA HitFound ==
  ASSUME DnsInv, NEW q \in Query, NEW i \in 1..Len(Unexpired), Unexpired[i].dom = q.dom,
         FindInCache(q, i)
  PROVE  Covers(cache', now, until) /\ Answered(reply')
<1> DEFINE c == Unexpired[i]
           left == c.ttl - (now - c.at)
<1>1. Covers(Unexpired, now, until) /\ ~Expired(c) /\ now \in Nat
  BY UnexpiredCovers, Types
<1>2. c \in Entry
  BY <1>1 DEF Covers
<1>3. c.ttl \in Int /\ c.at \in Nat
  BY <1>2 DEF Entry
<1>4. left \in Int /\ left > 0
  BY <1>1, <1>3 DEF Expired
<1>5. SendToLocal(q.ep, q.id, q.dom, left, q)
  BY DEF FindInCache
<1>6. Answered(reply')
  BY <1>4, <1>5, OneReply
<1>7. q.id \in 1..MaxQueries
  BY DEF Query
<1>8. Covers(cache', now, until)
  BY <1>1, <1>7, NewId DEF FindInCache
<1> QED BY <1>6, <1>8

\* store_in_dns_cache adds an entry at the end.
LEMMA Stored ==
  ASSUME NEW c, NEW t, NEW u, Covers(c, t, u), NEW e \in Entry
  PROVE  /\ Covers(Append(c, e), t, u) /\ Len(c) + 1 \in 1..Len(Append(c, e))
         /\ Append(c, e)[Len(c) + 1] = e
<1> DEFINE d == Append(c, e)
<1>1. c \in Seq(Entry)
  BY DEF Covers
<1>2. /\ d \in Seq(Entry) /\ Len(c) \in Nat /\ Len(d) = Len(c) + 1
      /\ (\A i \in 1..Len(c) : d[i] = c[i]) /\ d[Len(c) + 1] = e
  BY <1>1, AppendProperties
<1> HIDE DEF d
<1>3. (\A i \in 1..Len(c) : i \in 1..Len(d)) /\ Len(c) + 1 \in 1..Len(d)
  BY <1>2
<1>4. ASSUME NEW a \in Addrs, t < u[a] PROVE \E j \in 1..Len(d) : Keeps(d[j], a, u[a])
  <2>1. PICK j \in 1..Len(c) : Keeps(c[j], a, u[a])
    BY <1>4 DEF Covers
  <2> QED BY <1>2, <1>3, <2>1
<1>5. Covers(d, t, u)
  BY <1>2, <1>4 DEF Covers
<1> QED BY <1>2, <1>3, <1>5 DEF d

-----------------------------------------------------------------------------
(* The steps.                                                                *)

\* A step that changes only forwarders and lists, and sends no answer.
LEMMA OnlyForwarders ==
  ASSUME DnsInv, Ok(fwd', lists', queries), reply' = <<>>,
         UNCHANGED <<piped, now, cache, queries, answers, until>>
  PROVE  DnsInv'
<1>1. Answered(reply')
  BY NoReply
<1>2. Counters'
  BY DEF DnsInv, Counters
<1> QED BY <1>1, <1>2 DEF DnsInv

\* The handler of start_session.
LEMMA StartedStep ==
  ASSUME DnsInv, NEW f \in DOMAIN fwd, Started(f)
  PROVE  DnsInv'
<1> DEFINE o == fwd[f]
           v == [o EXCEPT !.state = "live", !.out = o.wait, !.wait = {}]
           w == [o EXCEPT !.state = "gone", !.wait = {}]
<1>1. /\ o \in Forwarder /\ Fit(o, queries) /\ Ok(fwd, lists, queries)
      /\ o.state = "starting"
  BY Types DEF DnsInv, Started
<1>2. Follows(v, o, queries)
  <2>1. v \in Forwarder /\ v.kind = o.kind /\ v.ep = o.ep /\ v.state = "live"
        /\ v.out = o.wait /\ v.wait = {}
    BY <1>1 DEF Forwarder
  <2> HIDE DEF v, o
  <2>2. Fit(v, queries)
    BY <1>1, <2>1 DEF Fit
  <2> QED BY <2>1, <2>2 DEF Follows
<1>3. Follows(w, o, queries)
  <2>1. w \in Forwarder /\ w.kind = o.kind /\ w.ep = o.ep /\ w.state = "gone"
        /\ w.out = o.out /\ w.wait = {}
    BY <1>1 DEF Forwarder
  <2> HIDE DEF w, o
  <2>2. Fit(w, queries)
    BY <1>1, <2>1 DEF Fit
  <2> QED BY <2>1, <2>2 DEF Follows
<1>4. o.kind = "proxy" /\ "proxy" \in Kind /\ v.kind = "proxy"
  BY <1>1, <1>2 DEF Fit, Kind, Follows
<1>5. Ok([fwd EXCEPT ![f] = v], lists, queries) /\ Ok([fwd EXCEPT ![f] = w], lists, queries)
  BY <1>1, <1>2, <1>3, ReplacedOne
<1>6. [fwd EXCEPT ![f].state = "live", ![f].out = fwd[f].wait, ![f].wait = {}]
        = [fwd EXCEPT ![f] = v]
  OBVIOUS
<1>7. [fwd EXCEPT ![f].state = "gone", ![f].wait = {}] = [fwd EXCEPT ![f] = w]
  OBVIOUS
<1>8. f \in DOMAIN [fwd EXCEPT ![f] = v] /\ [fwd EXCEPT ![f] = v][f] = v
  OBVIOUS
<1> HIDE DEF v, w, o
<1>9. Ok(fwd', lists', queries)
  <2>1. CASE /\ fwd' = [fwd EXCEPT ![f] = v]
             /\ lists' = [lists EXCEPT !["proxy"] = Append(@, f)]
    <3> DEFINE G == [fwd EXCEPT ![f] = v]
    <3>1. Ok(G, lists, queries) /\ f \in DOMAIN G /\ G[f].kind = "proxy"
      BY <1>4, <1>5, <1>8
    <3> HIDE DEF G
    <3>2. Ok(G, [lists EXCEPT !["proxy"] = Append(@, f)], queries)
      BY <1>4, <3>1, Listing
    <3> QED BY <2>1, <3>2 DEF G
  <2>2. CASE fwd' = [fwd EXCEPT ![f] = w] /\ lists' = lists
    BY <1>5, <2>2
  <2> QED BY <1>6, <1>7, <2>1, <2>2 DEF Started
<1> QED BY <1>9, OnlyForwarders DEF Started

\* A forwarder is destroyed.
LEMMA ForwarderEndsStep ==
  ASSUME DnsInv, NEW f \in DOMAIN fwd, ForwarderEnds(f)
  PROVE  DnsInv'
<1>1. fwd[f] \in Forwarder /\ Fit(fwd[f], queries) /\ Ok(fwd, lists, queries)
      /\ queries \in Nat
  BY Types DEF DnsInv
<1>2. Follows(Dead(fwd[f]), fwd[f], queries)
  BY <1>1, DeadFollows
<1>3. fwd' = [fwd EXCEPT ![f] = Dead(fwd[f])] /\ lists' = lists
  BY DEF ForwarderEnds
<1>4. Ok(fwd', lists', queries)
  BY <1>1, <1>2, <1>3, ReplacedOne
<1> QED BY <1>4, OnlyForwarders DEF ForwarderEnds

\* A forwarder is released.
LEMMA ReleasedStep ==
  ASSUME DnsInv, NEW f \in DOMAIN fwd, Released(f)
  PROVE  DnsInv'
<1> DEFINE o == fwd[f]
           w == [o EXCEPT !.state = "gone"]
<1>1. o \in Forwarder /\ Fit(o, queries) /\ Ok(fwd, lists, queries)
  BY Types DEF DnsInv
<1>2. Follows(w, o, queries)
  <2>1. w \in Forwarder /\ w.kind = o.kind /\ w.ep = o.ep /\ w.state = "gone"
        /\ w.out = o.out /\ w.wait = o.wait
    BY <1>1 DEF Forwarder
  <2> HIDE DEF w, o
  <2>2. Fit(w, queries)
    BY <1>1, <2>1 DEF Fit
  <2> QED BY <2>1, <2>2 DEF Follows
<1>3. fwd' = [fwd EXCEPT ![f] = w] /\ lists' = lists
  BY DEF Released
<1> HIDE DEF w, o
<1>4. Ok(fwd', lists', queries)
  BY <1>1, <1>2, <1>3, ReplacedOne DEF o
<1> QED BY <1>4, OnlyForwarders DEF Released

\* DNSServer::destroy
LEMMA DestroyStep ==
  ASSUME DnsInv, Destroy
  PROVE  DnsInv'
<1>1. Ok(fwd, lists, queries) /\ queries \in Nat
      /\ \A f \in DOMAIN fwd : fwd[f] \in Forwarder /\ Fit(fwd[f], queries)
  BY Types DEF DnsInv
<1>2. \A f \in DOMAIN fwd : Follows(Dead(fwd[f]), fwd[f], queries)
                         /\ Follows(fwd[f], fwd[f], queries)
  BY <1>1, DeadFollows DEF Follows
<1>3. \A f \in DOMAIN fwd : fwd'[f] = Dead(fwd[f]) \/ fwd'[f] = fwd[f]
  BY DEF Destroy
<1>4. fwd' = [f \in DOMAIN fwd |-> fwd'[f]]
  BY DEF Destroy
<1>5. \A f \in DOMAIN fwd : Follows(fwd'[f], fwd[f], queries)
  BY <1>2, <1>3
<1>6. Ok(fwd', lists, queries)
  BY <1>1, <1>4, <1>5, Replaced
<1>7. \A k \in Kind : lists'[k] = <<>>
  BY DEF Destroy
<1>8. lists' = [k \in Kind |-> lists'[k]]
  BY DEF Destroy
<1>9. \A k \in Kind : /\ lists'[k] \in Seq(DOMAIN fwd')
                      /\ \A i \in 1..Len(lists'[k]) : fwd'[lists'[k][i]].kind = k
  <2>1. <<>> \in Seq(DOMAIN fwd') /\ 1..Len(<<>>) = {}
    OBVIOUS
  <2> QED BY <1>7, <2>1
<1>10. Ok(fwd', lists', queries)
  BY <1>6, <1>8, <1>9, Relisted
<1> QED BY <1>10, OnlyForwarders DEF Destroy

\* Time passes: what must be proxied later had to be before.
LEMMA TickStep ==
  ASSUME DnsInv, Tick
  PROVE  DnsInv'
<1>1. Counters' /\ now' = now + 1 /\ now \in Nat /\ \A a \in Addrs : until[a] \in Nat
  BY Types, BoundsAssumption DEF DnsInv, Counters, Tick
<1>2. Answered(reply')
  BY NoReply DEF Tick
<1>3. \A a \in Addrs : now' < until[a] => now < until[a]
  BY <1>1
<1>4. Covers(cache', now', until')
  BY <1>3 DEF DnsInv, Covers, Tick
<1> QED BY <1>1, <1>2, <1>4 DEF DnsInv, Tick

\* The lowest TTL of an answer, as the entry has it and as it is valid.
LEMMA TtlFacts ==
  ASSUME NEW recs \in UNION {[S -> Ttls] : S \in SUBSET Addrs}
  PROVE  /\ DOMAIN recs \subseteq Addrs
         /\ ToInt(LowestTtl(recs)) \in Int /\ Validity(recs) \in Nat
         /\ Validity(recs) > 0 => /\ LowestTtl(recs) # MaxTtl
                                  /\ Validity(recs) = ToInt(LowestTtl(recs))
<1> DEFINE T == {recs[a] : a \in DOMAIN recs} \cup {MaxTtl}
           t == LowestTtl(recs)
<1>1. PICK S \in SUBSET Addrs : recs \in [S -> Ttls]
  OBVIOUS
<1>2. \A x \in Ttls : x \in Nat /\ x <= MaxTtl
  BY BoundsAssumption
<1>3. MaxTtl \in Nat
  BY BoundsAssumption
<1>4. T \in SUBSET Nat /\ T # {} /\ \A x \in T : x <= MaxTtl
  BY <1>1, <1>2, <1>3
<1>5. t \in T
  BY <1>4, MinFacts DEF LowestTtl
<1> HIDE DEF T, t
<1>6. t \in Nat /\ t <= MaxTtl
  BY <1>4, <1>5
<1>7. DOMAIN recs \subseteq Addrs
  BY <1>1
<1>8. /\ ToInt(t) \in Int /\ Validity(recs) \in Nat
      /\ Validity(recs) > 0 => t # MaxTtl /\ Validity(recs) = ToInt(t)
  BY <1>3, <1>6 DEF ToInt, Validity, t
<1> QED BY <1>7, <1>8 DEF t

\* An answer comes: it goes to the endpoint that asked, and when it is stored
\* the new entry covers its addresses for as long as it is valid.
LEMMA RecvUpStreamStep ==
  ASSUME DnsInv, NEW f \in DOMAIN fwd, NEW q \in fwd[f].out, NEW recs \in Records(q),
         RecvUpStream(f, q, recs)
  PROVE  DnsInv'
<1>1. /\ fwd[f] \in Forwarder /\ Fit(fwd[f], queries) /\ now \in Nat
      /\ Covers(cache, now, until) /\ Ok(fwd, lists, queries)
      /\ \A a \in Addrs : until[a] \in Nat
  BY Types DEF DnsInv
<1>2. q \in Query /\ q.ep = fwd[f].ep
  BY <1>1 DEF Forwarder, Fit
<1>3. Answered(reply')
  <2>1. SendToLocal(q.ep, q.id, q.dom, 1, q)
    BY <1>2 DEF RecvUpStream
  <2> QED BY <1>2, <2>1, OneReply
<1> DEFINE proxyed == fwd[f].kind = "proxy"
           e == NewEntry(q, recs, proxyed)
           low == LowestTtl(recs)
           v == Validity(recs)
           d == Append(cache, e)
<1>4. recs \in UNION {[S -> Ttls] : S \in SUBSET Addrs} /\ (DOMAIN recs # {} => Interest(q))
  <2>1. CASE q.type = "A"
    BY <2>1 DEF Records, Interest
  <2>2. CASE q.type # "A"
    <3>1. Records(q) = UNION {[S -> Ttls] : S \in {{}}}
      BY <2>2 DEF Records
    <3>2. recs \in [{} -> Ttls] /\ {} \in SUBSET Addrs
      BY <3>1
    <3> QED BY <3>2
  <2> QED BY <2>1, <2>2
<1>5. /\ DOMAIN recs \subseteq Addrs /\ ToInt(low) \in Int /\ v \in Nat
      /\ v > 0 => low # MaxTtl /\ v = ToInt(low)
  BY <1>4, TtlFacts
<1>6. e \in Entry
  <2>1. q.dom \in Domains /\ q.id \in 1..MaxQueries /\ proxyed \in BOOLEAN
    BY <1>2 DEF Query
  <2> HIDE DEF proxyed
  <2> QED BY <1>1, <1>5, <2>1, Zenon DEF Entry, NewEntry
<1>7. /\ e.proxyed = proxyed /\ e.addrs = DOMAIN recs /\ e.at = now /\ e.ttl = ToInt(low)
  <2> HIDE DEF proxyed
  <2> QED BY Zenon DEF NewEntry
<1>8. cache' = IF ~Interest(q) \/ low = MaxTtl THEN cache ELSE d
  BY DEF RecvUpStream, StoreInCache
<1>9. until' = [a \in Addrs |-> IF proxyed /\ a \in DOMAIN recs
                                THEN Max({until[a], now + v}) ELSE until[a]]
  BY DEF RecvUpStream
<1>10. /\ Covers(d, now, until) /\ Len(cache) + 1 \in 1..Len(d) /\ d[Len(cache) + 1] = e
  <2> HIDE DEF e
  <2> QED BY <1>1, <1>6, Stored
<1> HIDE DEF e, proxyed, low, v, d
<1>11. until' \in [Addrs -> Nat]
  <2>1. ASSUME NEW a \in Addrs PROVE Max({until[a], now + v}) \in Nat
    <3>1. until[a] \in Nat /\ now + v \in Nat
      BY <1>1, <1>5
    <3> QED BY <3>1, MaxFacts
  <2> QED BY <1>1, <1>9, <2>1
<1>12. Covers(cache', now, until)
  BY <1>1, <1>8, <1>10
<1>13. ASSUME NEW a \in Addrs, now < until'[a]
       PROVE  \E i \in 1..Len(cache') : Keeps(cache'[i], a, until'[a])
  <2>1. CASE until'[a] = until[a]
    BY <1>12, <1>13, <2>1 DEF Covers
  <2>2. CASE until'[a] # until[a]
    <3>1. proxyed /\ a \in DOMAIN recs /\ until'[a] = Max({until[a], now + v})
      BY <1>9, <2>2
    <3>2. until[a] \in Nat /\ now + v \in Nat
      BY <1>1, <1>5
    <3>3. until'[a] = now + v
      BY <2>2, <3>1, <3>2, MaxFacts
    <3>4. v > 0
      BY <1>1, <1>5, <1>13, <3>3
    <3>5. cache' = d
      BY <1>4, <1>5, <1>8, <3>1, <3>4
    <3>6. until'[a] <= e.at + e.ttl
      BY <1>1, <1>5, <1>7, <3>3, <3>4
    <3>7. Keeps(e, a, until'[a])
      BY <1>7, <3>1, <3>6 DEF Keeps
    <3> QED BY <1>10, <3>5, <3>7
  <2> QED BY <2>1, <2>2
<1>14. Covers(cache', now, until')
  BY <1>12, <1>13 DEF Covers
<1>15. Counters'
  BY <1>11, BoundsAssumption DEF DnsInv, Counters, RecvUpStream
<1> QED BY <1>1, <1>3, <1>14, <1>15 DEF DnsInv, RecvUpStream

-----------------------------------------------------------------------------
(* A query arrives.                                                          *)

\* Of the direct forwarders in G only such a one has a query that was not
\* there before: the query is q, and if its domain is listed the forwarder
\* was alive and the endpoint has none through the proxy.
Guarded(G, q) ==
  \A f \in DOMAIN G : \A p \in G[f].out :
    G[f].kind = "direct" /\ p.id > queries =>
      /\ p = q
      /\ Proxy(q) => /\ f \in DOMAIN fwd /\ fwd[f].state = "live"
                     /\ Mine("proxy", q) = <<>>

\* The query that arrives.
NewQuery(q) == q \in Query /\ q.id = queries + 1

\* Queries that a forwarder already has are not new.
LEMMA OldQueries ==
  ASSUME NEW n \in Nat, NEW F, NEW L, Ok(F, L, n)
  PROVE  \A f \in DOMAIN F : \A p \in F[f].out : ~(p.id > n)
<1> SUFFICES ASSUME NEW f \in DOMAIN F, NEW p \in F[f].out
             PROVE  ~(p.id > n)
  OBVIOUS
<1>1. F[f] \in Forwarder /\ Fit(F[f], n)
  BY DEF Ok
<1>2. p.id \in Nat /\ p.id <= n
  BY <1>1, BoundsAssumption DEF Forwarder, Query, Fit
<1> QED BY <1>2

\* The state before, with one more query counted.
LEMMA Before ==
  ASSUME DnsInv, NEW q, NewQuery(q)
  PROVE  /\ queries \in Nat /\ queries + 1 \in Nat /\ Asked(q, q.ep, queries + 1)
         /\ Ok(fwd, Held, queries + 1) /\ Ok(fwd, lists, queries + 1)
         /\ Guarded(fwd, q)
<1>1. queries \in Nat /\ queries + 1 \in Nat /\ queries <= queries + 1
      /\ queries + 1 <= queries + 1
  BY Types
<1>2. Ok(fwd, Held, queries) /\ Ok(fwd, lists, queries)
  BY HeldOk DEF DnsInv
<1>3. Ok(fwd, Held, queries + 1) /\ Ok(fwd, lists, queries + 1)
  BY <1>1, <1>2, MoreQueries
<1>4. Guarded(fwd, q)
  BY <1>1, <1>2, OldQueries DEF Guarded
<1>5. Asked(q, q.ep, queries + 1)
  BY <1>1 DEF Asked, NewQuery
<1> QED BY <1>1, <1>3, <1>4, <1>5

\* try_to_find_existed finds a session through the proxy.
LEMMA ByProxySessionStep ==
  ASSUME DnsInv, NEW q, NewQuery(q), ByProxySession(q), lists' = Held
  PROVE  Ok(fwd', lists', queries + 1) /\ Guarded(fwd', q)
<1> DEFINE m == Mine("proxy", q)
           f == Head(m)
           v == Sends(fwd[f], q)
           n == queries + 1
<1>1. /\ n \in Nat /\ Asked(q, q.ep, n) /\ Ok(fwd, Held, n) /\ Guarded(fwd, q)
  BY Before
<1>2. /\ m \in Seq(DOMAIN fwd)
      /\ \A i \in 1..Len(m) : fwd[m[i]].kind = "proxy" /\ fwd[m[i]].ep = q.ep
  <2>1. "proxy" \in Kind
    BY DEF Kind
  <2> QED BY <2>1, FoundMine
<1>3. m # <<>> /\ fwd' = IF fwd[f].state = "live" THEN [fwd EXCEPT ![f] = v] ELSE fwd
  BY DEF ByProxySession
<1> HIDE DEF m
<1>4. 1 \in 1..Len(m) /\ f = m[1] /\ f \in DOMAIN fwd
  BY <1>2, <1>3
<1>5. fwd[f].kind = "proxy" /\ fwd[f].ep = q.ep
  BY <1>2, <1>4
<1> HIDE DEF f
<1>6. fwd[f] \in Forwarder /\ Fit(fwd[f], n)
  BY <1>1, <1>4, Types DEF Ok
<1> HIDE DEF n
<1>7. Follows(v, fwd[f], n)
  BY <1>1, <1>5, <1>6, SendsFollows
<1> HIDE DEF v
<1>8. Ok([fwd EXCEPT ![f] = v], Held, n)
  BY <1>1, <1>4, <1>7, ReplacedOne
<1>9. Guarded([fwd EXCEPT ![f] = v], q)
  <2> DEFINE G == [fwd EXCEPT ![f] = v]
  <2>1. DOMAIN G = DOMAIN fwd /\ G[f] = v /\ \A g \in DOMAIN fwd : g # f => G[g] = fwd[g]
    BY <1>4
  <2>2. v.kind # "direct"
    BY <1>5, <1>7 DEF Follows
  <2> HIDE DEF G
  <2>3. Guarded(G, q)
    BY <1>1, <2>1, <2>2 DEF Guarded
  <2> QED BY <2>3 DEF G
<1>10. CASE fwd[f].state = "live"
  BY <1>3, <1>8, <1>9, <1>10 DEF n
<1>11. CASE fwd[f].state # "live"
  BY <1>1, <1>3, <1>11 DEF n
<1> QED BY <1>10, <1>11

\* The direct forwarders whose send_to fails.
LEMMA FailingOk ==
  ASSUME DnsInv, NEW q, NewQuery(q), NEW k \in Nat
  PROVE  LET G == Failing(q, k) IN
         /\ Ok(G, Held, queries + 1) /\ Guarded(G, q) /\ DOMAIN G = DOMAIN fwd
         /\ Len(G) = Len(fwd)
         /\ \A f \in DOMAIN fwd : /\ G[f] \in Forwarder /\ Fit(G[f], queries + 1)
                                  /\ G[f].kind = fwd[f].kind /\ G[f].ep = fwd[f].ep
<1> DEFINE G == Failing(q, k)
           n == queries + 1
<1>1. n \in Nat /\ Ok(fwd, Held, n) /\ Guarded(fwd, q)
  BY Before
<1>2. \A f \in DOMAIN fwd : fwd[f] \in Forwarder /\ Fit(fwd[f], n)
  BY <1>1, Types DEF Ok
<1>3. G = [f \in DOMAIN fwd |-> G[f]]
      /\ \A f \in DOMAIN fwd : G[f] = Dead(fwd[f]) \/ G[f] = fwd[f]
  BY DEF Failing
<1> HIDE DEF G, n
<1>4. ASSUME NEW f \in DOMAIN fwd
      PROVE  /\ Follows(Dead(fwd[f]), fwd[f], n) /\ Dead(fwd[f]).out = {}
             /\ Dead(fwd[f]).ep = fwd[f].ep
  <2>1. fwd[f] \in Forwarder /\ Fit(fwd[f], n)
    BY <1>2
  <2>2. Dead(fwd[f]).ep = fwd[f].ep
    BY <2>1 DEF Dead, Forwarder
  <2> QED BY <1>1, <2>1, <2>2, DeadFollows
<1>5. ASSUME NEW f \in DOMAIN fwd
      PROVE  Follows(G[f], fwd[f], n) /\ G[f].ep = fwd[f].ep
             /\ (G[f].out = {} \/ G[f] = fwd[f])
  BY <1>2, <1>3, <1>4 DEF Follows
<1>6. Ok(G, Held, n)
  BY <1>1, <1>3, <1>5, Replaced
<1>7. DOMAIN G = DOMAIN fwd
  BY <1>3
<1>8. Len(G) = Len(fwd)
  <2>1. G \in Seq(Forwarder) /\ fwd \in Seq(Forwarder)
    BY <1>1, <1>6 DEF Ok
  <2>2. DOMAIN G = 1..Len(G) /\ DOMAIN fwd = 1..Len(fwd) /\ Len(G) \in Nat /\ Len(fwd) \in Nat
    BY <2>1
  <2>3. 1..Len(G) = 1..Len(fwd)
    BY <1>7, <2>2
  <2> QED BY <2>2, <2>3, SameBound
<1>9. Guarded(G, q)
  BY <1>1, <1>5, <1>7 DEF Guarded
<1> QED BY <1>5, <1>6, <1>7, <1>8, <1>9 DEF Follows, G, n

\* try_to_find_existed finds a direct forwarder.
LEMMA ByLocalForwarderStep ==
  ASSUME DnsInv, NEW q, NewQuery(q), NEW k \in Nat, k < Len(Usable(q)),
         Mine("proxy", q) = <<>>, ByLocalForwarder(q, k), lists' = Held
  PROVE  Ok(fwd', lists', queries + 1) /\ Guarded(fwd', q)
<1> DEFINE F == Failing(q, k)
           f == Usable(q)[k + 1]
           v == Sends(F[f], q)
           n == queries + 1
           G == [F EXCEPT ![f] = v]
<1>1. /\ Ok(F, Held, n) /\ Guarded(F, q) /\ DOMAIN F = DOMAIN fwd
      /\ \A g \in DOMAIN fwd : /\ F[g] \in Forwarder /\ Fit(F[g], n)
                               /\ F[g].kind = fwd[g].kind /\ F[g].ep = fwd[g].ep
  BY FailingOk
<1>2. n \in Nat /\ Asked(q, q.ep, n)
  BY Before
<1>3. f \in DOMAIN fwd /\ fwd[f].ep = q.ep /\ fwd[f].state = "live"
  <2> DEFINE u == Usable(q)
  <2>1. u \in Seq(DOMAIN fwd) /\ \A i \in 1..Len(u) : fwd[u[i]].ep = q.ep
                                                   /\ fwd[u[i]].state = "live"
    BY FoundUsable
  <2>2. k + 1 \in 1..Len(u)
    BY <2>1
  <2> HIDE DEF u
  <2>3. u[k + 1] \in DOMAIN fwd
    BY <2>1, <2>2
  <2> QED BY <2>1, <2>2, <2>3 DEF u
<1>4. fwd' = G
  BY DEF ByLocalForwarder
<1> HIDE DEF F, f, n
<1>5. Follows(v, F[f], n) /\ v.out = F[f].out \cup {q}
  BY <1>1, <1>2, <1>3, SendsFollows
<1> HIDE DEF v
<1>6. Ok(G, Held, n)
  BY <1>1, <1>3, <1>5, ReplacedOne
<1>7. DOMAIN G = DOMAIN F /\ G[f] = v /\ \A g \in DOMAIN F : g # f => G[g] = F[g]
  BY <1>1, <1>3
<1> HIDE DEF G
<1>8. ASSUME NEW g \in DOMAIN G, NEW p \in G[g].out, G[g].kind = "direct", p.id > queries
      PROVE  /\ p = q
             /\ Proxy(q) => /\ g \in DOMAIN fwd /\ fwd[g].state = "live"
                            /\ Mine("proxy", q) = <<>>
  <2>1. CASE p \in F[g].out
    <3>1. F[g].kind = "direct"
      BY <1>5, <1>7, <1>8 DEF Follows
    <3> QED BY <1>1, <1>7, <1>8, <2>1, <3>1 DEF Guarded
  <2>2. CASE p \notin F[g].out
    <3>1. g = f /\ p = q
      BY <1>5, <1>7, <1>8, <2>2
    <3> QED BY <1>3, <3>1
  <2> QED BY <2>1, <2>2
<1>9. Guarded(G, q)
  BY <1>8 DEF Guarded
<1> QED BY <1>4, <1>6, <1>9 DEF n

\* A forwarder that may be made for q: through the proxy, or for a domain
\* that is not listed.
Fresh(v, q) ==
  /\ Follows(v, v, queries + 1) /\ v.out \subseteq {q}
  /\ v.kind = "direct" => ~Proxy(q)

\* It is made, whether it is listed at once or not.
LEMMA FreshMade ==
  ASSUME DnsInv, NEW q, NewQuery(q), NEW k \in Nat, NEW v, Fresh(v, q),
         fwd' = Append(Failing(q, k), v), NEW j \in Kind, j = v.kind,
         lists' = Held \/ lists' = [Held EXCEPT ![j] = Append(@, Len(fwd) + 1)]
  PROVE  Ok(fwd', lists', queries + 1) /\ Guarded(fwd', q)
<1> DEFINE F == Failing(q, k)
           n == queries + 1
           G == Append(F, v)
<1>1. /\ Ok(F, Held, n) /\ Guarded(F, q) /\ DOMAIN F = DOMAIN fwd /\ Len(F) = Len(fwd)
  BY FailingOk
<1>2. fwd' = G /\ Follows(v, v, n)
  BY DEF Fresh
<1> HIDE DEF F, n
<1>3. Ok(G, Held, n) /\ Len(F) + 1 \in DOMAIN G /\ G[Len(F) + 1] = v
  BY <1>1, <1>2, Made
<1>4. F \in Seq(Forwarder) /\ v \in Forwarder
  BY <1>1, <1>2 DEF Ok, Follows
<1>5. \A f \in DOMAIN G : f = Len(F) + 1 \/ (f \in DOMAIN F /\ G[f] = F[f])
  <2>1. /\ G \in Seq(Forwarder) /\ Len(F) \in Nat /\ Len(G) = Len(F) + 1
        /\ (\A i \in 1..Len(F) : G[i] = F[i])
    BY <1>4, AppendProperties
  <2>2. DOMAIN F = 1..Len(F) /\ DOMAIN G = 1..Len(G)
    BY <1>4, <2>1
  <2> HIDE DEF G
  <2> QED BY <2>1, <2>2
<1> HIDE DEF G
<1>6. ASSUME NEW f \in DOMAIN G, NEW p \in G[f].out, G[f].kind = "direct", p.id > queries
      PROVE  /\ p = q
             /\ Proxy(q) => /\ f \in DOMAIN fwd /\ fwd[f].state = "live"
                            /\ Mine("proxy", q) = <<>>
  <2>1. CASE f = Len(F) + 1
    BY <1>3, <1>6, <2>1 DEF Fresh
  <2>2. CASE f \in DOMAIN F /\ G[f] = F[f]
    BY <1>1, <1>6, <2>2 DEF Guarded
  <2> QED BY <1>5, <2>1, <2>2
<1>7. Guarded(G, q)
  BY <1>6 DEF Guarded
<1>8. Ok(G, [Held EXCEPT ![j] = Append(@, Len(F) + 1)], n)
  BY <1>3, Listing
<1>9. Ok(G, lists', n)
  BY <1>1, <1>3, <1>8
<1> QED BY <1>2, <1>7, <1>9 DEF n

\* The rest of in_recved.
LEMMA CreateStep ==
  ASSUME DnsInv, NEW q, NewQuery(q), NEW k \in Nat, Create(q, k)
  PROVE  Ok(fwd', lists', queries + 1) /\ Guarded(fwd', q)
<1> DEFINE kind == IF Proxy(q) THEN "proxy" ELSE "direct"
           new == [kind |-> kind, ep |-> q.ep, state |-> "live", wait |-> {}, out |-> {q}]
           late == [new EXCEPT !.state = "starting", !.wait = {q}, !.out = {}]
           n == queries + 1
<1>1. Asked(q, q.ep, n) /\ n \in Nat
  BY Before
<1>2. q \in Query /\ q.ep \in Endpoints /\ q.id <= n
  BY <1>1 DEF Asked, Query
<1>3. kind \in Kind /\ (kind = "direct" => ~Proxy(q)) /\ (kind = "proxy" \/ kind = "direct")
  BY DEF Kind
<1> HIDE DEF kind, n
<1>4. Fresh(new, q) /\ new \in Forwarder /\ Fit(new, n)
  <2>1. /\ new \in Forwarder /\ new.kind = kind /\ new.out = {q} /\ new.wait = {}
        /\ new.ep = q.ep /\ new.state = "live"
    BY <1>2, <1>3 DEF Forwarder
  <2> HIDE DEF new
  <2>2. Fit(new, n)
    BY <1>2, <2>1 DEF Fit
  <2> QED BY <1>3, <2>1, <2>2 DEF Fresh, Follows, n
<1>5. kind = "proxy" => Fresh(late, q)
  <2>1. /\ late \in Forwarder /\ late.kind = kind /\ late.out = {} /\ late.wait = {q}
        /\ late.ep = q.ep /\ late.state = "starting"
    BY <1>2, <1>3 DEF Forwarder
  <2> HIDE DEF late
  <2>2. kind = "proxy" => Fit(late, n)
    BY <1>2, <2>1 DEF Fit
  <2> QED BY <1>3, <2>1, <2>2 DEF Fresh, Follows, n
<1>6. Fresh(Dead(new), q) /\ Dead(new).state = "dead"
  <2>1. Follows(Dead(new), new, n) /\ Dead(new).out = {}
    BY <1>1, <1>4, DeadFollows
  <2>2. new.kind = kind
    OBVIOUS
  <2>3. Dead(new).state = "dead"
    BY DEF Dead
  <2> QED BY <1>3, <2>1, <2>2, <2>3 DEF Fresh, Follows, n
<1>7. new.kind = kind /\ late.kind = kind /\ Dead(new).kind = kind /\ new.state = "live"
  BY DEF Dead
<1>8. \/ /\ kind = "proxy" /\ fwd' = Append(Failing(q, k), new)
         /\ lists' = [Held EXCEPT !["proxy"] = Append(@, Len(fwd) + 1)]
      \/ kind = "proxy" /\ fwd' = Append(Failing(q, k), late) /\ lists' = Held
      \/ /\ kind = "direct"
         /\ \E f \in {new, Dead(new)} :
              /\ fwd' = Append(Failing(q, k), f)
              /\ lists' = IF f.state = "live"
                          THEN [Held EXCEPT !["direct"] = Append(@, Len(fwd) + 1)] ELSE Held
  BY DEF Create, Opened, kind
<1> HIDE DEF new, late
<1>9. CASE /\ kind = "proxy" /\ fwd' = Append(Failing(q, k), new)
           /\ lists' = [Held EXCEPT !["proxy"] = Append(@, Len(fwd) + 1)]
  BY <1>3, <1>4, <1>7, <1>9, FreshMade
<1>10. CASE kind = "proxy" /\ fwd' = Append(Failing(q, k), late) /\ lists' = Held
  BY <1>3, <1>5, <1>7, <1>10, FreshMade
<1>11. CASE /\ kind = "direct"
            /\ \E f \in {new, Dead(new)} :
                 /\ fwd' = Append(Failing(q, k), f)
                 /\ lists' = IF f.state = "live"
                             THEN [Held EXCEPT !["direct"] = Append(@, Len(fwd) + 1)] ELSE Held
  <2>1. PICK f \in {new, Dead(new)} :
                 /\ fwd' = Append(Failing(q, k), f)
                 /\ lists' = IF f.state = "live"
                             THEN [Held EXCEPT !["direct"] = Append(@, Len(fwd) + 1)] ELSE Held
    BY <1>11
  <2>2. Fresh(f, q) /\ f.kind = "direct" /\ "direct" \in Kind
    BY <1>3, <1>4, <1>6, <1>7, <1>11
  <2>3. lists' = Held \/ lists' = [Held EXCEPT !["direct"] = Append(@, Len(fwd) + 1)]
    BY <2>1
  <2>4. fwd' = Append(Failing(q, k), f)
    BY <2>1
  <2> QED BY <2>2, <2>3, <2>4, FreshMade
<1> QED BY <1>8, <1>9, <1>10, <1>11

\* The whole of in_recved.
LEMMA InRecvedStep ==
  ASSUME DnsInv, NEW ep \in Endpoints, NEW dom \in Domains, NEW type \in QTypes,
         InRecved(ep, dom, type)
  PROVE  DnsInv' /\ \E q : Guarded(fwd', q)
<1> DEFINE q == [id |-> queries + 1, ep |-> ep, dom |-> dom, type |-> type]
           c == Unexpired
           hit == {i \in DOMAIN c : c[i].dom = dom}
<1>1. queries \in 0..MaxQueries /\ MaxQueries \in Nat /\ queries < MaxQueries
  BY BoundsAssumption DEF DnsInv, Counters, InRecved
<1>2. queries + 1 \in 1..MaxQueries /\ queries + 1 \in 0..MaxQueries
  BY <1>1
<1>3. q \in Query /\ NewQuery(q) /\ q.dom = dom
  BY <1>2 DEF NewQuery, Query
<1>4. queries' = queries + 1 /\ UNCHANGED <<piped, now, answers, until>>
  BY DEF InRecved
<1>5. Counters'
  BY <1>2, <1>4 DEF DnsInv, Counters
<1>6. \/ /\ hit # {} /\ FindInCache(q, Min(hit)) /\ UNCHANGED <<fwd, lists>>
      \/ /\ cache' = c \/ cache' = cache
         /\ \/ \E k \in 0..Len(Usable(q)) : TryExisted(q, k) /\ lists' = Held
            \/ Mine("proxy", q) = <<>> /\ Create(q, Len(Usable(q)))
         /\ reply' = <<>>
  BY DEF InRecved
<1>7. Covers(c, now, until) /\ Covers(cache, now, until)
  BY UnexpiredCovers DEF DnsInv
<1>8. hit \subseteq 1..Len(c) /\ hit \in SUBSET Nat /\ \A i \in hit : c[i].dom = q.dom
  BY <1>3, <1>7 DEF Covers
<1>9. Len(Usable(q)) \in Nat
  <2>1. Usable(q) \in Seq(DOMAIN fwd)
    BY FoundUsable
  <2> QED BY <2>1
<1> HIDE DEF q, hit
<1>10. CASE hit # {} /\ FindInCache(q, Min(hit)) /\ UNCHANGED <<fwd, lists>>
  <2>1. Min(hit) \in hit
    BY <1>8, <1>10, MinFacts
  <2>2. Min(hit) \in 1..Len(Unexpired) /\ Unexpired[Min(hit)].dom = q.dom
    BY <1>8, <2>1
  <2>3. Covers(cache', now, until) /\ Answered(reply')
    BY <1>3, <1>10, <2>2, HitFound
  <2>4. Ok(fwd', lists', queries') /\ Guarded(fwd', q)
    BY <1>3, <1>4, <1>10, Before
  <2> QED BY <1>4, <1>5, <2>3, <2>4 DEF DnsInv
<1>11. CASE /\ cache' = c \/ cache' = cache
            /\ \/ \E k \in 0..Len(Usable(q)) : TryExisted(q, k) /\ lists' = Held
               \/ Mine("proxy", q) = <<>> /\ Create(q, Len(Usable(q)))
            /\ reply' = <<>>
  <2>1. Covers(cache', now, until) /\ Answered(reply')
    BY <1>7, <1>11, NoReply
  <2>2. Ok(fwd', lists', queries + 1) /\ Guarded(fwd', q)
    <3>1. ASSUME NEW k \in 0..Len(Usable(q)), TryExisted(q, k), lists' = Held
          PROVE  Ok(fwd', lists', queries + 1) /\ Guarded(fwd', q)
      <4>1. CASE ByProxySession(q)
        BY <1>3, <3>1, <4>1, ByProxySessionStep
      <4>2. CASE Mine("proxy", q) = <<>> /\ k < Len(Usable(q)) /\ ByLocalForwarder(q, k)
        <5>1. k \in Nat
          BY <1>9, <3>1
        <5> QED BY <1>3, <3>1, <4>2, <5>1, ByLocalForwarderStep
      <4> QED BY <3>1, <4>1, <4>2 DEF TryExisted
    <3>2. CASE Create(q, Len(Usable(q)))
      BY <1>3, <1>9, <3>2, CreateStep
    <3> QED BY <1>11, <3>1, <3>2
  <2> QED BY <1>4, <1>5, <2>1, <2>2 DEF DnsInv
<1> QED BY <1>6, <1>10, <1>11

-----------------------------------------------------------------------------
(* The invariant, and what follows from it.                                  *)

\* It holds at the start.
LEMMA InitDns == Init => DnsInv
<1> SUFFICES ASSUME Init PROVE DnsInv
  OBVIOUS
<1>1. Counters
  BY BoundsAssumption DEF Init, Counters
<1>2. Ok(fwd, lists, queries)
  <2>1. fwd = <<>> /\ DOMAIN fwd = {} /\ fwd \in Seq(Forwarder)
    BY DEF Init
  <2>2. \A k \in Kind : lists[k] = <<>>
    BY DEF Init
  <2>3. <<>> \in Seq(DOMAIN fwd) /\ 1..Len(<<>>) = {}
    OBVIOUS
  <2>4. lists \in [Kind -> Seq(DOMAIN fwd)]
    BY <2>3 DEF Init
  <2> QED BY <2>1, <2>2, <2>3, <2>4 DEF Ok
<1>3. Covers(cache, now, until)
  <2>1. cache \in Seq(Entry) /\ now = 0 /\ \A a \in Addrs : until[a] = 0
    BY DEF Init
  <2> QED BY <2>1 DEF Covers
<1>4. Answered(reply)
  BY NoReply DEF Init
<1> QED BY <1>1, <1>2, <1>3, <1>4 DEF DnsInv

\* Every step keeps it, and only in_recved counts a query.
LEMMA NextDns ==
  ASSUME DnsInv, [Next]_vars
  PROVE  DnsInv' /\ (queries' = queries \/ \E q : Guarded(fwd', q))
<1>1. CASE \E ep \in Endpoints, dom \in Domains, type \in QTypes : InRecved(ep, dom, type)
  BY <1>1, InRecvedStep
<1>2. ASSUME NEW f \in DOMAIN fwd, Started(f) PROVE DnsInv' /\ queries' = queries
  BY <1>2, StartedStep DEF Started
<1>3. ASSUME NEW f \in DOMAIN fwd, ForwarderEnds(f) PROVE DnsInv' /\ queries' = queries
  BY <1>3, ForwarderEndsStep DEF ForwarderEnds
<1>4. ASSUME NEW f \in DOMAIN fwd, Released(f) PROVE DnsInv' /\ queries' = queries
  BY <1>4, ReleasedStep DEF Released
<1>5. ASSUME NEW f \in DOMAIN fwd, NEW q \in fwd[f].out, NEW recs \in Records(q),
             RecvUpStream(f, q, recs)
      PROVE  DnsInv' /\ queries' = queries
  BY <1>5, RecvUpStreamStep DEF RecvUpStream
<1>6. CASE Destroy
  BY <1>6, DestroyStep DEF Destroy
<1>7. CASE Tick
  BY <1>7, TickStep DEF Tick
<1>8. CASE UNCHANGED vars
  BY <1>8 DEF vars, DnsInv, Counters
<1> QED BY <1>1, <1>2, <1>3, <1>4, <1>5, <1>6, <1>7, <1>8 DEF Next

\* It always holds.
LEMMA AlwaysDns == Spec => []DnsInv
<1>1. DnsInv /\ [Next]_vars => DnsInv'
  BY NextDns
<1> QED BY <1>1, InitDns, PTL DEF Spec

\* The variables have their types.
THEOREM DnsTypeCorrect == Spec => []TypeOK
<1>1. DnsInv => TypeOK
  BY DEF DnsInv, Counters, Ok, Covers, Answered, Reply, TypeOK
<1> QED BY <1>1, AlwaysDns, PTL

\* Whoever asked first and filled the cache, an endpoint gets an answer with
\* the ID and the domain of a query of its own, of which something is left of
\* the TTL: for any number of endpoints, domains, forwarders and TTLs.
THEOREM AnswersMatch == Spec => []AnswersFit
<1>1. DnsInv => AnswersFit
  BY DEF DnsInv, Answered, AnswersFit
<1> QED BY <1>1, AlwaysDns, PTL

\* An address that came through the proxy stays in the cache, and is proxied,
\* until the last of its answers is no longer valid: what find_in_dns_cache
\* erases has expired, and the entry of that answer is not erased before,
\* whatever A records and TTLs the answers have.
THEOREM AddressesStayProxied == Spec => []StaysProxied
<1>1. DnsInv => StaysProxied
  <2> SUFFICES ASSUME DnsInv, NEW a \in Addrs, now < until[a] PROVE ProxyByRoute(a)
    BY DEF StaysProxied
  <2>1. cache \in Seq(Entry)
    BY DEF DnsInv, Covers
  <2>2. PICK i \in 1..Len(cache) : Keeps(cache[i], a, until[a])
    BY DEF DnsInv, Covers
  <2>3. i \in DOMAIN cache
    BY <2>1, <2>2
  <2> QED BY <2>2, <2>3 DEF ProxyByRoute, IsIpInGfwlist, Keeps
<1> QED BY <1>1, AlwaysDns, PTL

\* in_recved sends the name of a listed domain past the proxy only through a
\* live direct forwarder that the endpoint already had, and only if it has
\* none through the proxy; no other step sends a query that was not sent.
THEOREM NamesDoNotLeak == Spec => NoLeak
<1> DEFINE Step == \A f \in DOMAIN fwd' : \A q \in fwd'[f].out :
                     fwd'[f].kind = "direct" /\ Proxy(q) /\ q.id > queries =>
                       /\ f \in DOMAIN fwd /\ fwd[f].state = "live"
                       /\ Mine("proxy", q) = <<>>
<1>1. ASSUME DnsInv, [Next]_vars PROVE Step
  <2>1. DnsInv' /\ (queries' = queries \/ \E q : Guarded(fwd', q))
    BY <1>1, NextDns
  <2>2. CASE \E q : Guarded(fwd', q)
    <3>1. PICK q : Guarded(fwd', q)
      BY <2>2
    <3> QED BY <3>1 DEF Guarded
  <2>3. CASE queries' = queries
    <3>1. \A f \in DOMAIN fwd' : \A p \in fwd'[f].out : ~(p.id > queries')
      <4>1. Ok(fwd', lists', queries') /\ queries \in Nat
        BY <1>1, <2>1, Types DEF DnsInv
      <4> QED BY <2>3, <4>1, OldQueries
    <3> QED BY <2>3, <3>1
  <2> QED BY <2>1, <2>2, <2>3
<1>2. DnsInv /\ [Next]_vars => [Step]_vars
  BY <1>1
<1> QED BY <1>2, AlwaysDns, PTL DEF Spec, NoLeak
=============================================================================
