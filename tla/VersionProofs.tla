---------------------------- MODULE VersionProofs ----------------------------
(***************************************************************************)
(* The safety properties of the version proxy and of the version gate, for *)
(* all numbers of requests, documents, constraints and countries and for   *)
(* all times: what the proxy serves is recent, the loop over the           *)
(* constraints finds the most severe violation, and the program starts or  *)
(* exits for a reason.                                                     *)
(***************************************************************************)
EXTENDS VersionGate, TLAPS

-----------------------------------------------------------------------------
(***************************************************************************)
(* The proxy                                                               *)
(***************************************************************************)

\* What is in the cache was at the origin when its request came, or later.
CacheIsRecent ==
  cachedResponse # None =>
    /\ cachedResponse.timestamp <= now
    /\ OnlineSince(cachedResponse.data, cachedResponse.timestamp)

\* Only an answered request has been answered, and what it has in hand is a
\* document; one that has fetched holds what the origin had since it came.
RequestsInOrder ==
  \A r \in Requests : LET q == request[r] IN
    /\ q.now <= now
    /\ q.stage # "answered" => q.cached = "none"
    /\ q.stage = "fetched" =>
         /\ q.data \in Documents /\ q.maxAge \in MaxAges
         /\ OnlineSince(q.data, q.now)
    /\ q.cached \in {"HIT", "MISS", "STALE"} => q.data \in Documents
    /\ q.cached = "HIT" => q.maxAge > 0

ProxyInv == ProxyTypeOK /\ origin <= main /\ CacheIsRecent /\ RequestsInOrder /\ AnswersAreRecent

-----------------------------------------------------------------------------

LEMMA OnlineEarlier ==
  ASSUME ProxyTypeOK, NEW d \in Documents, NEW m \in Int, NEW k \in Int, k <= m,
         OnlineSince(d, m)
  PROVE  OnlineSince(d, k)
BY DEF OnlineSince, ProxyTypeOK

LEMMA MaxAgeType ==
  ASSUME NEW age \in MaxAges \cup {0}
  PROVE  age \in Nat
<1>1. CASE age \in MaxAges
  BY <1>1, ProxyAssumption, Zenon
<1>2. CASE age = 0
  BY <1>2
<1> QED
  BY <1>1, <1>2

LEMMA RequestType ==
  ASSUME ProxyTypeOK, NEW r \in Requests
  PROVE  now \in Nat /\ request[r].now \in Nat /\ request[r].maxAge \in Nat
<1>1. request[r] \in Request
  BY DEF ProxyTypeOK
<1>2. request[r].maxAge \in MaxAges \cup {0} /\ request[r].now \in 0..MaxTime
  BY <1>1 DEF Request
<1>3. request[r].maxAge \in Nat
  BY <1>2, MaxAgeType
<1> QED
  BY <1>2, <1>3, ProxyAssumption DEF ProxyTypeOK

\* A document that is replaced now was there until now.
LEMMA OnlineAfterDeploy ==
  ASSUME ProxyTypeOK, NEW d \in Documents, NEW m \in Int, m <= now,
         NEW e \in Documents, Deploy(e), OnlineSince(d, m)
  PROVE  OnlineSince(d, m)'
<1>1. replaced'[d] = IF origin <= d /\ d < e THEN now ELSE replaced[d]
  BY DEF Deploy
<1>2. now \in Nat /\ now # None /\ origin < e /\ origin' = e
  BY ProxyAssumption DEF ProxyTypeOK, Deploy
<1>3. CASE d = origin
  BY <1>1, <1>2, <1>3 DEF OnlineSince, ProxyTypeOK, Documents
<1>4. CASE d # origin
  BY <1>1, <1>2, <1>4 DEF OnlineSince, ProxyTypeOK, Documents
<1> QED
  BY <1>3, <1>4

LEMMA InitProxy == ProxyInit /\ main = 1 => ProxyInv
<1> SUFFICES ASSUME ProxyInit, main = 1 PROVE ProxyInv
  OBVIOUS
<1>1. 1 \in Documents /\ 0 \in 0..MaxTime
  BY ProxyAssumption DEF Documents
<1>2. Idle \in Request /\ Idle.now = 0 /\ Idle.stage = "idle" /\ Idle.cached = "none"
  BY <1>1 DEF Idle, Request
<1>3. \A r \in Requests : request[r] = Idle
  BY DEF ProxyInit
<1>4. ProxyTypeOK
  BY <1>1, <1>2 DEF ProxyInit, ProxyTypeOK
<1>5. CacheIsRecent
  BY DEF ProxyInit, CacheIsRecent
<1>6. RequestsInOrder /\ AnswersAreRecent
  BY <1>2, <1>3 DEF ProxyInit, RequestsInOrder, AnswersAreRecent
<1>7. origin <= main
  BY DEF ProxyInit
<1> QED
  BY <1>4, <1>5, <1>6, <1>7 DEF ProxyInv

\* The program has its document, and the world is forgotten.
LEMMA FetchedProxy ==
  ASSUME ProxyInv, NEW d, Fetched(d)
  PROVE  ProxyInv'
<1>1. 1 \in Documents /\ now \in Nat
  BY ProxyAssumption DEF Documents, ProxyInv, ProxyTypeOK
<1>2. Idle \in Request /\ Idle.now = 0 /\ Idle.stage = "idle" /\ Idle.cached = "none"
  BY <1>1, ProxyAssumption DEF Idle, Request
<1>3. \A r \in Requests : request'[r] = Idle
  BY DEF Fetched
<1>4. ProxyTypeOK'
  BY <1>1, <1>2 DEF Fetched, ProxyInv, ProxyTypeOK
<1>5. CacheIsRecent'
  BY DEF Fetched, CacheIsRecent
<1>6. RequestsInOrder' /\ AnswersAreRecent'
  BY <1>1, <1>2, <1>3 DEF Fetched, RequestsInOrder, AnswersAreRecent
<1>7. (origin <= main)'
  BY DEF Fetched
<1> QED
  BY <1>4, <1>5, <1>6, <1>7 DEF ProxyInv

-----------------------------------------------------------------------------

LEMMA TickProxy ==
  ASSUME ProxyInv, Tick, UNCHANGED main
  PROVE  ProxyInv'
<1> USE DEF ProxyInv
<1>1. /\ now \in Nat /\ now' = now + 1 /\ now' \in 0..MaxTime
      /\ UNCHANGED <<origin, replaced, cachedResponse, request>>
  BY ProxyAssumption DEF Tick, cache, ProxyTypeOK
<1>2. ProxyTypeOK' /\ AnswersAreRecent' /\ (origin <= main)'
  BY <1>1 DEF ProxyTypeOK, AnswersAreRecent, OnlineSince
<1>3. CacheIsRecent'
  BY <1>1 DEF CacheIsRecent, OnlineSince, ProxyTypeOK, CachedResponse
<1>4. RequestsInOrder'
  <2> SUFFICES ASSUME NEW r \in Requests PROVE request[r].now <= now'
    BY <1>1 DEF RequestsInOrder, OnlineSince
  <2>1. request[r].now \in Nat /\ request[r].now <= now
    BY DEF ProxyTypeOK, Request, RequestsInOrder
  <2> QED
    BY <1>1, <2>1
<1> QED
  BY <1>2, <1>3, <1>4

LEMMA DeployProxy ==
  ASSUME ProxyInv, main \in Documents, Deploy(main), UNCHANGED main
  PROVE  ProxyInv'
<1> USE DEF ProxyInv
<1>1. /\ UNCHANGED <<now, cachedResponse, request>>
      /\ origin' = main
      /\ replaced' = [d \in Documents |-> IF origin <= d /\ d < main THEN now ELSE replaced[d]]
  BY DEF Deploy, cache
<1>2. ProxyTypeOK' /\ (origin <= main)'
  BY <1>1 DEF ProxyTypeOK, Documents
<1>3. CacheIsRecent'
  <2> SUFFICES ASSUME cachedResponse # None
               PROVE  OnlineSince(cachedResponse.data, cachedResponse.timestamp)'
    BY <1>1 DEF CacheIsRecent
  <2>1. cachedResponse.data \in Documents /\ cachedResponse.timestamp \in Int
    BY DEF ProxyTypeOK, CachedResponse
  <2> DEFINE d == cachedResponse.data
             m == cachedResponse.timestamp
  <2>2. m <= now /\ OnlineSince(d, m)
    BY DEF CacheIsRecent
  <2>3. d' = d /\ m' = m
    BY <1>1
  <2> HIDE DEF d, m
  <2>4. d \in Documents /\ m \in Int
    BY <2>1 DEF d, m
  <2>5. d = origin' \/ (replaced'[d] # None /\ replaced'[d] >= m)
    BY <2>2, <2>4, OnlineAfterDeploy DEF OnlineSince
  <2> QED
    BY <2>3, <2>5 DEF OnlineSince, d, m
<1>4. ASSUME NEW r \in Requests, NEW m \in Int, m <= now, request[r].data \in Documents,
             OnlineSince(request[r].data, m)
      PROVE  request[r].data = origin' \/ (replaced'[request[r].data] # None
                                           /\ replaced'[request[r].data] >= m)
  <2> DEFINE d == request[r].data
  <2> HIDE DEF d
  <2>1. d \in Documents /\ OnlineSince(d, m)
    BY <1>4 DEF d
  <2>2. d = origin' \/ (replaced'[d] # None /\ replaced'[d] >= m)
    BY <1>4, <2>1, OnlineAfterDeploy DEF OnlineSince
  <2> QED
    BY <2>2 DEF d
<1>5. \A r \in Requests : request[r].now \in Nat /\ request[r].maxAge \in Nat /\ now \in Nat
  BY RequestType
<1>6. RequestsInOrder'
  <2> SUFFICES ASSUME NEW r \in Requests, request[r].stage = "fetched"
               PROVE  OnlineSince(request[r].data, request[r].now)'
    BY <1>1 DEF RequestsInOrder
  <2>1. /\ request[r].data \in Documents /\ request[r].now <= now
        /\ OnlineSince(request[r].data, request[r].now)
    BY DEF RequestsInOrder
  <2> QED
    BY <1>1, <1>4, <1>5, <2>1 DEF OnlineSince
<1>7. AnswersAreRecent'
  <2> SUFFICES ASSUME NEW r \in Requests
               PROVE  /\ request[r].cached = "HIT" =>
                           OnlineSince(request[r].data, request[r].now - request[r].maxAge + 1)'
                      /\ request[r].cached = "MISS" =>
                           OnlineSince(request[r].data, request[r].now)'
    BY <1>1 DEF AnswersAreRecent
  <2>1. CASE request[r].cached = "HIT"
    <3>1. /\ request[r].data \in Documents
          /\ request[r].now - request[r].maxAge + 1 <= now
          /\ request[r].now - request[r].maxAge + 1 \in Int
      BY <1>5, <2>1 DEF RequestsInOrder
    <3> QED
      BY <1>1, <1>4, <2>1, <3>1 DEF AnswersAreRecent, OnlineSince
  <2>2. CASE request[r].cached = "MISS"
    <3>1. request[r].data \in Documents /\ request[r].now <= now /\ request[r].now \in Int
      BY <1>5, <2>2 DEF RequestsInOrder
    <3> QED
      BY <1>1, <1>4, <2>2, <3>1 DEF AnswersAreRecent, OnlineSince
  <2> QED
    BY <2>1, <2>2
<1> QED
  BY <1>2, <1>3, <1>6, <1>7

-----------------------------------------------------------------------------

LEMMA SameCache ==
  ASSUME ProxyInv, UNCHANGED <<now, origin, replaced, cachedResponse>>
  PROVE  cachedResponse' \in CachedResponse \cup {None} /\ CacheIsRecent'
BY DEF ProxyInv, ProxyTypeOK, CacheIsRecent, OnlineSince

\* What an action does to one request and to the cache is enough.
LEMMA OneRequest ==
  ASSUME ProxyInv, UNCHANGED <<now, origin, replaced, main>>,
         cachedResponse' \in CachedResponse \cup {None}, CacheIsRecent',
         NEW r \in Requests, NEW q \in Request, request' = [request EXCEPT ![r] = q],
         q.now <= now,
         q.stage # "answered" => q.cached = "none",
         q.stage = "fetched" => /\ q.data \in Documents /\ q.maxAge \in MaxAges
                                /\ OnlineSince(q.data, q.now),
         q.cached \in {"HIT", "MISS", "STALE"} => q.data \in Documents,
         q.cached = "HIT" => q.maxAge > 0 /\ OnlineSince(q.data, q.now - q.maxAge + 1),
         q.cached = "MISS" => OnlineSince(q.data, q.now)
  PROVE  ProxyInv'
<1> USE DEF ProxyInv
<1>1. \A s \in Requests : request'[s] = IF s = r THEN q ELSE request[s]
  BY DEF ProxyTypeOK
<1>2. ProxyTypeOK' /\ (origin <= main)'
  BY DEF ProxyTypeOK
<1>3. RequestsInOrder'
  <2> SUFFICES ASSUME NEW s \in Requests
               PROVE  LET p == IF s = r THEN q ELSE request[s] IN
                      /\ p.now <= now
                      /\ p.stage # "answered" => p.cached = "none"
                      /\ p.stage = "fetched" =>
                           /\ p.data \in Documents /\ p.maxAge \in MaxAges
                           /\ OnlineSince(p.data, p.now)
                      /\ p.cached \in {"HIT", "MISS", "STALE"} => p.data \in Documents
                      /\ p.cached = "HIT" => p.maxAge > 0
    BY <1>1 DEF RequestsInOrder, OnlineSince
  <2>1. CASE s = r
    BY <2>1
  <2>2. CASE s # r
    BY <2>2 DEF RequestsInOrder
  <2> QED
    BY <2>1, <2>2
<1>4. AnswersAreRecent'
  <2> SUFFICES ASSUME NEW s \in Requests
               PROVE  LET p == IF s = r THEN q ELSE request[s] IN
                      /\ p.cached = "HIT"  => OnlineSince(p.data, p.now - p.maxAge + 1)
                      /\ p.cached = "MISS" => OnlineSince(p.data, p.now)
    BY <1>1 DEF AnswersAreRecent, OnlineSince
  <2>1. CASE s = r
    BY <2>1
  <2>2. CASE s # r
    BY <2>2 DEF AnswersAreRecent
  <2> QED
    BY <2>1, <2>2
<1> QED
  BY <1>2, <1>3, <1>4

LEMMA HitProxy ==
  ASSUME ProxyInv, NEW r \in Requests, Hit(r), UNCHANGED main
  PROVE  ProxyInv'
<1> DEFINE q == [stage |-> "answered", now |-> now, data |-> cachedResponse.data,
                 maxAge |-> cachedResponse.maxAge, cached |-> "HIT"]
<1>1. /\ cachedResponse # None /\ now - cachedResponse.timestamp < cachedResponse.maxAge
      /\ request' = [request EXCEPT ![r] = q]
      /\ UNCHANGED <<now, origin, replaced, cachedResponse>>
  BY DEF Hit, Valid
<1>2. /\ cachedResponse.data \in Documents /\ cachedResponse.timestamp \in 0..MaxTime
      /\ cachedResponse.maxAge \in MaxAges \ {0} /\ now \in 0..MaxTime
  BY <1>1 DEF ProxyInv, ProxyTypeOK, CachedResponse
<1>3. cachedResponse.maxAge \in Nat /\ cachedResponse.maxAge > 0
  BY <1>2, MaxAgeType
<1>4. q \in Request
  BY <1>2 DEF Request
<1>5. OnlineSince(cachedResponse.data, now - cachedResponse.maxAge + 1)
  BY <1>1, <1>2, <1>3, OnlineEarlier DEF ProxyInv, CacheIsRecent
<1>6. /\ q.now = now /\ q.stage = "answered" /\ q.cached = "HIT"
      /\ q.data = cachedResponse.data /\ q.maxAge = cachedResponse.maxAge
  OBVIOUS
<1>7. now <= now
  BY <1>2
<1> HIDE DEF q
<1> QED
  BY <1>1, <1>2, <1>3, <1>4, <1>5, <1>6, <1>7, SameCache, OneRequest

LEMMA MissProxy ==
  ASSUME ProxyInv, NEW r \in Requests, Miss(r), UNCHANGED main
  PROVE  ProxyInv'
<1> DEFINE q == [request[r] EXCEPT !.stage = "fetching", !.now = now]
<1>1. /\ request[r].stage = "idle"
      /\ request' = [request EXCEPT ![r] = q]
      /\ UNCHANGED <<now, origin, replaced, cachedResponse>>
  BY DEF Miss, At
<1>2. request[r] \in Request /\ now \in 0..MaxTime
  BY DEF ProxyInv, ProxyTypeOK
<1>3. /\ q \in Request /\ q.stage = "fetching" /\ q.now = now
      /\ q.cached = request[r].cached
  BY <1>2 DEF Request
<1>4. request[r].cached = "none"
  BY <1>1 DEF ProxyInv, RequestsInOrder
<1>5. now <= now
  BY <1>2
<1> HIDE DEF q
<1> QED
  BY <1>1, <1>3, <1>4, <1>5, SameCache, OneRequest

LEMMA OriginProxy ==
  ASSUME ProxyInv, NEW r \in Requests, NEW age \in MaxAges, OriginAnswers(r, age),
         UNCHANGED main
  PROVE  ProxyInv'
<1> DEFINE q == [request[r] EXCEPT !.stage = "fetched", !.data = origin, !.maxAge = age]
<1>1. /\ request[r].stage = "fetching"
      /\ request' = [request EXCEPT ![r] = q]
      /\ UNCHANGED <<now, origin, replaced, cachedResponse>>
  BY DEF OriginAnswers, At
<1>2. request[r] \in Request /\ origin \in Documents
  BY DEF ProxyInv, ProxyTypeOK
<1>3. /\ q \in Request /\ q.stage = "fetched" /\ q.now = request[r].now
      /\ q.data = origin /\ q.maxAge = age /\ q.cached = request[r].cached
  BY <1>2 DEF Request
<1>4. request[r].cached = "none" /\ request[r].now <= now
  BY <1>1 DEF ProxyInv, RequestsInOrder
<1>5. OnlineSince(origin, request[r].now)
  BY DEF OnlineSince
<1> HIDE DEF q
<1> QED
  BY <1>1, <1>2, <1>3, <1>4, <1>5, SameCache, OneRequest

\* The cache takes what the request has fetched.
LEMMA ReturnsProxy ==
  ASSUME ProxyInv, NEW r \in Requests, FetchReturns(r), UNCHANGED main
  PROVE  ProxyInv'
<1> DEFINE q == [request[r] EXCEPT !.stage = "answered", !.cached = "MISS",
                                   !.data = request[r].data, !.maxAge = request[r].maxAge]
<1>1. /\ request[r].stage = "fetched"
      /\ cachedResponse' = Stored(request[r])
      /\ request' = [request EXCEPT ![r] = q]
      /\ UNCHANGED <<now, origin, replaced>>
  BY DEF FetchReturns, At, Answer
<1>2. request[r] \in Request
  BY DEF ProxyInv, ProxyTypeOK
<1>3. /\ q \in Request /\ q.stage = "answered" /\ q.now = request[r].now
      /\ q.data = request[r].data /\ q.cached = "MISS"
  BY <1>2 DEF Request
<1>4. /\ request[r].data \in Documents /\ request[r].maxAge \in MaxAges
      /\ request[r].now <= now /\ request[r].now \in 0..MaxTime
      /\ OnlineSince(request[r].data, request[r].now)
  BY <1>1, <1>2 DEF ProxyInv, RequestsInOrder, Request
<1> HIDE DEF q
<1>5. CASE cachedResponse' = cachedResponse
  BY <1>1, <1>3, <1>4, <1>5, SameCache, OneRequest
<1>6. CASE request[r].maxAge > 0 /\ cachedResponse' = Stamped(request[r])
  <2>1. /\ cachedResponse' \in CachedResponse
        /\ cachedResponse'.data = request[r].data
        /\ cachedResponse'.timestamp = request[r].now
    BY <1>4, <1>6, ProxyAssumption DEF Stamped, CachedResponse
  <2>2. CacheIsRecent'
    BY <1>1, <1>4, <2>1 DEF CacheIsRecent, OnlineSince
  <2> QED
    BY <1>1, <1>3, <1>4, <2>1, <2>2, OneRequest
<1> QED
  BY <1>1, <1>5, <1>6 DEF Stored

LEMMA FailsProxy ==
  ASSUME ProxyInv, NEW r \in Requests, FetchFails(r), UNCHANGED main
  PROVE  ProxyInv'
<1>1. request[r] \in Request /\ request[r].now <= now
  BY DEF ProxyInv, ProxyTypeOK, RequestsInOrder
<1>2. UNCHANGED <<now, origin, replaced, cachedResponse>>
  BY DEF FetchFails
<1>3. ASSUME NEW status \in {"STALE", "unavailable"}, NEW d \in Documents \cup {None},
             status = "STALE" => d \in Documents, Answer(r, status, d, 0)
      PROVE  ProxyInv'
  <2> DEFINE q == [request[r] EXCEPT !.stage = "answered", !.cached = status,
                                     !.data = d, !.maxAge = 0]
  <2>1. request' = [request EXCEPT ![r] = q]
    BY <1>3 DEF Answer
  <2>2. /\ q \in Request /\ q.stage = "answered" /\ q.now = request[r].now
        /\ q.data = d /\ q.cached = status
    BY <1>1 DEF Request
  <2> HIDE DEF q
  <2> QED
    BY <1>1, <1>2, <1>3, <2>1, <2>2, SameCache, OneRequest
<1>4. cachedResponse # None => cachedResponse.data \in Documents
  BY DEF ProxyInv, ProxyTypeOK, CachedResponse
<1> QED
  BY <1>3, <1>4 DEF FetchFails

LEMMA FinishProxy ==
  ASSUME ProxyInv, NEW r \in Requests, Finish(r), UNCHANGED main
  PROVE  ProxyInv'
<1>1. 0 \in 0..MaxTime /\ now >= 0
  BY ProxyAssumption DEF ProxyInv, ProxyTypeOK
<1>2. Idle \in Request /\ Idle.now = 0 /\ Idle.stage = "idle" /\ Idle.cached = "none"
  BY <1>1 DEF Idle, Request
<1> QED
  BY <1>1, <1>2, SameCache, OneRequest DEF Finish

LEMMA RecycleProxy ==
  ASSUME ProxyInv, Recycle, UNCHANGED main
  PROVE  ProxyInv'
BY DEF Recycle, ProxyInv, ProxyTypeOK, CacheIsRecent, RequestsInOrder, AnswersAreRecent,
       OnlineSince

LEMMA SameProxy ==
  ASSUME ProxyInv, UNCHANGED proxyVars, main' \in {main, main + 1}, main \in Documents
  PROVE  ProxyInv'
<1>1. UNCHANGED <<now, origin, replaced, cachedResponse, request>>
  BY DEF proxyVars, cache
<1>2. (origin <= main)'
  BY <1>1 DEF ProxyInv, ProxyTypeOK, Documents
<1> QED
  BY <1>1, <1>2
     DEF ProxyInv, ProxyTypeOK, CacheIsRecent, RequestsInOrder, AnswersAreRecent, OnlineSince

-----------------------------------------------------------------------------
(***************************************************************************)
(* The gate                                                                *)
(***************************************************************************)

Before == Sources \cup {"cloudflare", "ipinfo", "ofac"}

GateTypeOK ==
  /\ main \in Documents
  /\ gate \in Before \cup {"constraints", "decided"}
  /\ failed \subseteq Sources
  /\ document \in Documents \cup {None}
  /\ country \in Countries \cup {None}
  /\ restricted \subseteq Countries
  /\ read \in Seq(Constraints) /\ Len(read) <= MaxConstraints
  /\ worst \in 0..Len(read)
  /\ verdict \in {"none", "start", "blocked", "restricted", "no_clock", "unparsable",
                  "unverified"}

\* What has been passed on the way to where the gate is.
GateInOrder ==
  /\ gate \in Before => read = <<>>
  /\ gate = "cache" => "primary" \in failed
  /\ gate = "github" => {"primary", "cache"} \subseteq failed
  /\ gate \in {"cloudflare", "ipinfo", "ofac", "constraints"} => document # None
  /\ gate \in Sources => document = None
  /\ gate = "constraints" =>
       /\ country \notin restricted
       /\ \A i \in 1..Len(read) : ~Unparsable(i)
  /\ gate # "decided" => verdict = "none"

GateInv == GateTypeOK /\ GateInOrder /\ MostSevereFound /\ VerdictJustified

Inv == ProxyInv /\ GateInv

-----------------------------------------------------------------------------

LEMMA NothingRead ==
  ASSUME read = <<>>
  PROVE  Len(read) = 0 /\ Violated = {}
BY DEF Violated

LEMMA InitGate == Init => GateInv
<1> SUFFICES ASSUME Init PROVE GateInv
  OBVIOUS
<1>1. 1 \in Documents
  BY ProxyAssumption DEF Documents
<1>2. Len(read) = 0 /\ Violated = {}
  BY NothingRead DEF Init
<1>3. GateTypeOK
  BY <1>1, <1>2, GateAssumption DEF Init, GateTypeOK, Before, Sources
<1>4. GateInOrder /\ MostSevereFound /\ VerdictJustified
  BY <1>2 DEF Init, GateInOrder, MostSevereFound, VerdictJustified, Before, Sources
<1> QED
  BY <1>3, <1>4 DEF GateInv

\* Before the constraints: nothing has been read, and nothing is started.
LEMMA BeforeInv ==
  ASSUME GateInv, GateTypeOK', GateInOrder', gate \in Before, UNCHANGED <<read, worst>>,
         \/ verdict' = "none"
         \/ verdict' = "restricted" /\ document' # None /\ country' \in restricted'
         \/ verdict' = "unverified" /\ document' = None /\ failed' = Sources
  PROVE  GateInv'
<1>1. read = <<>> /\ read' = <<>>
  BY DEF GateInv, GateInOrder
<1>2. Len(read) = 0 /\ Len(read') = 0 /\ Violated' = {}
  BY <1>1 DEF Violated
<1>3. worst' = 0
  BY <1>2 DEF GateInv, GateTypeOK
<1>4. MostSevereFound' /\ VerdictJustified'
  BY <1>2, <1>3 DEF MostSevereFound, VerdictJustified
<1> QED
  BY <1>4 DEF GateInv

LEMMA FailsInv ==
  ASSUME GateInv, NEW source \in Sources, Fails(source)
  PROVE  GateInv'
<1> USE DEF GateInv
<1>1. /\ gate = source /\ failed' = failed \cup {source}
      /\ UNCHANGED <<main, document, country, restricted, read, worst>>
  BY DEF Fails
<1>2. \/ source = "github" /\ gate' = "decided" /\ verdict' = "unverified"
      \/ source = "primary" /\ gate' = "cache" /\ verdict' = verdict
      \/ source = "cache" /\ gate' = "github" /\ verdict' = verdict
  BY DEF Fails, Sources
<1>3. GateTypeOK'
  BY <1>1, <1>2 DEF GateTypeOK, Before, Sources
<1>4. GateInOrder'
  BY <1>1, <1>2 DEF GateInOrder, Before, Sources
<1>5. source = "github" => failed' = Sources
  BY <1>1 DEF GateInOrder, GateTypeOK, Sources
<1>6. verdict = "none" /\ document = None
  BY <1>1 DEF GateInOrder, Sources
<1> QED
  BY <1>1, <1>2, <1>3, <1>4, <1>5, <1>6, BeforeInv DEF Before

LEMMA FetchedInv ==
  ASSUME GateInv, NEW d \in Documents, gate \in Sources, Fetched(d)
  PROVE  GateInv'
<1> USE DEF GateInv
<1>1. /\ document' = d /\ gate' = "cloudflare" /\ main' = 1
      /\ UNCHANGED <<failed, country, restricted, read, worst, verdict>>
  BY DEF Fetched
<1>2. 1 \in Documents /\ d # None
  BY ProxyAssumption DEF Documents
<1>3. verdict = "none" /\ gate \in Before
  BY DEF GateInOrder, Sources, Before
<1>4. GateTypeOK'
  BY <1>1, <1>2 DEF GateTypeOK, Before
<1>5. GateInOrder'
  BY <1>1, <1>2, <1>3 DEF GateInOrder, Before, Sources
<1> QED
  BY <1>1, <1>3, <1>4, <1>5, BeforeInv

LEMMA CountryInv ==
  ASSUME GateInv, DetectCountry
  PROVE  GateInv'
<1> USE DEF GateInv
<1>1. /\ gate \in {"cloudflare", "ipinfo"} /\ gate' \in {"ipinfo", "ofac"}
      /\ country' \in Countries \cup {None}
      /\ UNCHANGED <<main, failed, document, restricted, read, worst, verdict>>
  BY GateAssumption DEF DetectCountry, Detected, GateTypeOK
<1>2. verdict = "none"
  BY <1>1 DEF GateInOrder
<1>3. GateTypeOK' /\ GateInOrder'
  BY <1>1, <1>2 DEF GateTypeOK, GateInOrder, Before, Sources
<1> QED
  BY <1>1, <1>2, <1>3, BeforeInv DEF Before

LEMMA RestrictedInv ==
  ASSUME GateInv, NEW listed \in SUBSET Countries, CheckCountry(listed)
  PROVE  GateInv'
<1> USE DEF GateInv
<1>1. /\ gate = "ofac" /\ restricted' = listed
      /\ \/ gate' = "decided" /\ verdict' = "restricted"
         \/ gate' = "constraints" /\ verdict' = verdict /\ country \notin listed
      /\ UNCHANGED <<main, failed, document, country, read, worst>>
      /\ verdict' = "restricted" => country \in listed
      /\ document # None
  BY DEF CheckCountry, GateInOrder
<1>2. verdict = "none" /\ read = <<>> /\ Len(read') = 0
  BY <1>1 DEF GateInOrder, Before
<1>3. GateTypeOK'
  BY <1>1 DEF GateTypeOK
<1>4. GateInOrder'
  BY <1>1, <1>2 DEF GateInOrder, Before, Sources
<1> QED
  BY <1>1, <1>2, <1>3, <1>4, BeforeInv DEF Before

-----------------------------------------------------------------------------

LEMMA Severities ==
  Severity["blocking"] = 3 /\ Severity["warning"] = 2 /\ Severity["notice"] = 1
BY DEF Severity

LEMMA ConstraintType ==
  ASSUME GateTypeOK, NEW i \in 1..Len(read)
  PROVE  read[i].type \in {"blocking", "warning", "notice"}
<1>1. read[i] \in Constraints
  BY DEF GateTypeOK
<1> QED
  BY <1>1, GateAssumption

\* What the loop sees of one more constraint.
LEMMA OneMore ==
  ASSUME GateTypeOK, NEW c \in Constraints, CheckConstraint(c)
  PROVE  /\ Len(read) \in Nat /\ Len(read') = Len(read) + 1
         /\ \A i \in 1..Len(read) : read'[i] = read[i]
         /\ read'[Len(read) + 1] = c
         /\ now' = now
         /\ Violated' = Violated \cup
              IF Active(c) /\ c.version # None /\ Current < c.version
              THEN {Len(read) + 1} ELSE {}
<1>1. /\ Len(read) \in Nat /\ Len(read') = Len(read) + 1
      /\ \A i \in 1..Len(read) : read'[i] = read[i]
      /\ read'[Len(read) + 1] = c
  BY DEF CheckConstraint, GateTypeOK
<1>2. now' = now
  BY DEF CheckConstraint, proxyVars
<1>3. \A i \in 1..Len(read') : i \in 1..Len(read) \/ i = Len(read) + 1
  BY <1>1
<1>4. \A i : i \in 1..Len(read) \/ i = Len(read) + 1 => i \in 1..Len(read')
  BY <1>1
<1>5. ASSUME NEW i
      PROVE  i \in Violated' <=>
               \/ i \in Violated
               \/ i = Len(read) + 1 /\ Active(c) /\ c.version # None /\ Current < c.version
  <2>1. CASE i \in 1..Len(read)
    <3>1. i # Len(read) + 1 /\ i \in 1..Len(read') /\ read'[i] = read[i]
      BY <1>1, <1>4, <2>1
    <3> QED
      BY <1>2, <2>1, <3>1 DEF Violated, Active
  <2>2. CASE i = Len(read) + 1
    <3>1. i \notin 1..Len(read) /\ i \in 1..Len(read') /\ read'[i] = c
      BY <1>1, <1>4, <2>2
    <3> QED
      BY <1>2, <2>2, <3>1 DEF Violated, Active
  <2>3. CASE i \notin 1..Len(read) /\ i # Len(read) + 1
    BY <1>3, <2>3 DEF Violated
  <2> QED
    BY <2>1, <2>2, <2>3
<1> QED
  BY <1>1, <1>2, <1>5

\* Outranks, in any sequence of constraints.
OutranksIn(seq, i, j) ==
  \/ Severity[seq[i].type] > Severity[seq[j].type]
  \/ /\ seq[i].type = seq[j].type
     /\ IF seq[i].type = "warning" THEN i < j ELSE i > j

LEMMA MostSevereNext ==
  ASSUME IF Violated' = {} THEN worst' = 0
         ELSE worst' \in Violated' /\ \A i \in Violated' \ {worst'} : OutranksIn(read', worst', i)
  PROVE  MostSevereFound'
BY DEF MostSevereFound, Outranks, OutranksIn

LEMMA CheckMostSevere ==
  ASSUME GateTypeOK, MostSevereFound, NEW c \in Constraints, CheckConstraint(c)
  PROVE  MostSevereFound'
<1> DEFINE n == Len(read) + 1
           hit == Active(c) /\ c.version # None /\ Current < c.version
<1>1. /\ Len(read) \in Nat /\ read'[n] = c
      /\ \A i \in 1..Len(read) : read'[i] = read[i]
      /\ Violated' = Violated \cup IF hit THEN {n} ELSE {}
  BY OneMore
<1>2. worst' = IF hit /\ ShouldReplace(c) THEN n ELSE worst
  BY DEF CheckConstraint
<1>3. Violated \subseteq 1..Len(read)
  BY DEF Violated
<1>4. \A i \in Violated : i < n /\ i # n /\ i # 0 /\ i \in Nat
  BY <1>1, <1>3
<1>5. n # 0
  BY <1>1
<1>6. c.type \in {"blocking", "warning", "notice"}
  BY GateAssumption
<1>7. \A i \in Violated : read[i].type \in {"blocking", "warning", "notice"}
  BY <1>3, ConstraintType
<1> HIDE DEF n, hit
<1>8. CASE ~hit
  <2>1. Violated' = Violated /\ worst' = worst
    BY <1>1, <1>2, <1>8
  <2>2. \A i \in Violated : read'[i] = read[i]
    BY <1>1, <1>3
  <2> QED
    BY <2>1, <2>2 DEF MostSevereFound, Outranks
<1>9. CASE hit /\ Violated = {}
  <2>1. worst = 0
    BY <1>9 DEF MostSevereFound
  <2>2. Violated' = {n} /\ worst' = n
    BY <1>1, <1>2, <1>9, <2>1 DEF ShouldReplace
  <2> QED
    BY <2>2, MostSevereNext
<1>10. CASE hit /\ Violated # {}
  <2>1. worst \in Violated /\ \A i \in Violated \ {worst} : Outranks(worst, i)
    BY <1>10 DEF MostSevereFound
  <2>2. Violated' = Violated \cup {n}
    BY <1>1, <1>10
  <2>3. \A i \in Violated : read'[i] = read[i]
    BY <1>1, <1>3
  <2>4. CASE ShouldReplace(c)
    <3>1. worst' = n
      BY <1>2, <1>10, <2>4
    <3>2. c.type = "blocking" \/ (c.type # "blocking" /\ read[worst].type = "notice")
      BY <1>4, <2>1, <2>4 DEF ShouldReplace
    <3>3. ASSUME NEW i \in Violated PROVE OutranksIn(read', n, i)
      <4>1. CASE c.type = "blocking"
        BY <4>1, <1>1, <1>4, <1>7, <2>3, <3>3, Severities DEF OutranksIn
      <4>2. CASE read[worst].type = "notice" /\ c.type # "blocking"
        <5>1. read[i].type = "notice"
          BY <4>2, <1>7, <2>1, <3>3, Severities DEF Outranks
        <5> QED
          BY <4>2, <5>1, <1>1, <1>4, <1>6, <2>3, <3>3, Severities DEF OutranksIn
      <4> QED
        BY <3>2, <4>1, <4>2
    <3> QED
      BY <2>1, <2>2, <3>1, <3>3, MostSevereNext
  <2>5. CASE ~ShouldReplace(c)
    <3>1. worst' = worst
      BY <1>2, <2>5
    <3>2. c.type \in {"warning", "notice"} /\ read[worst].type \in {"blocking", "warning"}
      BY <1>6, <1>7, <2>1, <2>5 DEF ShouldReplace
    <3>3. OutranksIn(read', worst, n)
      BY <1>1, <1>4, <2>1, <2>3, <3>2, Severities DEF OutranksIn
    <3>4. ASSUME NEW i \in Violated \ {worst} PROVE OutranksIn(read', worst, i)
      BY <2>1, <2>3, <3>4 DEF Outranks, OutranksIn
    <3> QED
      BY <2>1, <2>2, <3>1, <3>3, <3>4, MostSevereNext
  <2> QED
    BY <2>4, <2>5
<1> QED
  BY <1>8, <1>9, <1>10

LEMMA CheckInv ==
  ASSUME GateInv, NEW c \in Constraints, CheckConstraint(c)
  PROVE  GateInv'
<1> USE DEF GateInv
<1>1. /\ gate = "constraints" /\ Len(read) < MaxConstraints /\ read' = Append(read, c)
      /\ \/ Active(c) /\ c.version = None /\ gate' = "decided" /\ verdict' = "unparsable"
            /\ worst' = worst
         \/ ~(Active(c) /\ c.version = None) /\ gate' = gate /\ verdict' = verdict
            /\ worst' \in {worst, Len(read) + 1}
      /\ UNCHANGED <<main, failed, document, country, restricted>>
  BY DEF CheckConstraint
<1>2. /\ Len(read) \in Nat /\ Len(read') = Len(read) + 1
      /\ \A i \in 1..Len(read) : read'[i] = read[i]
      /\ read'[Len(read) + 1] = c /\ now' = now
  BY OneMore
<1>3. verdict = "none"
  BY <1>1 DEF GateInOrder
<1>4. GateTypeOK'
  BY <1>1, <1>2, GateAssumption DEF GateTypeOK
<1>5. gate' = "constraints" => \A i \in 1..Len(read') : ~Unparsable(i)'
  <2> SUFFICES ASSUME gate' = "constraints", NEW i \in 1..Len(read'), Active(read[i])'
               PROVE  read'[i].version # None
    BY DEF Unparsable
  <2>1. i \in 1..Len(read) \/ i = Len(read) + 1
    BY <1>2
  <2>2. CASE i \in 1..Len(read)
    BY <1>1, <1>2, <2>2 DEF GateInOrder, Unparsable, Active
  <2>3. CASE i = Len(read) + 1
    BY <1>1, <1>2, <2>3 DEF Active
  <2> QED
    BY <2>1, <2>2, <2>3
<1>6. GateInOrder'
  BY <1>1, <1>3, <1>5 DEF GateInOrder, Before, Sources
<1>7. MostSevereFound'
  BY CheckMostSevere
<1>8. verdict' = "unparsable" => \E i \in 1..Len(read') : Unparsable(i)'
  BY <1>1, <1>2, <1>3 DEF Unparsable, Active
<1>9. document # None /\ country \notin restricted
  BY <1>1 DEF GateInOrder
<1>10. VerdictJustified'
  BY <1>1, <1>3, <1>8, <1>9 DEF VerdictJustified
<1> QED
  BY <1>4, <1>6, <1>7, <1>10

LEMMA ClockInv ==
  ASSUME GateInv, ClockFails
  PROVE  GateInv'
<1> USE DEF GateInv
<1>1. /\ gate = "constraints" /\ gate' = "decided" /\ verdict' = "no_clock" /\ read = <<>>
      /\ UNCHANGED <<now, main, failed, document, country, restricted, read, worst>>
  BY DEF ClockFails, proxyVars
<1>2. GateTypeOK' /\ GateInOrder'
  BY <1>1 DEF GateTypeOK, GateInOrder, Before, Sources
<1>3. MostSevereFound'
  BY <1>1 DEF MostSevereFound, Violated, Active, Outranks
<1>4. VerdictJustified'
  BY <1>1 DEF VerdictJustified, GateInOrder
<1> QED
  BY <1>2, <1>3, <1>4

\* If the worst violation is not blocking, none is.
LEMMA WorstDecides ==
  ASSUME GateTypeOK, MostSevereFound, NEW i \in Violated, read[i].type = "blocking"
  PROVE  worst # 0 /\ read[worst].type = "blocking"
<1>1. Violated \subseteq 1..Len(read) /\ Len(read) \in Nat
  BY DEF Violated, GateTypeOK
<1>2. worst \in Violated /\ (i # worst => Outranks(worst, i))
  BY DEF MostSevereFound
<1>3. read[worst].type \in {"blocking", "warning", "notice"} /\ worst # 0
  BY <1>1, <1>2, ConstraintType
<1> QED
  BY <1>2, <1>3, Severities DEF Outranks

LEMMA ConcludeInv ==
  ASSUME GateInv, Conclude
  PROVE  GateInv'
<1> USE DEF GateInv
<1>1. /\ gate = "constraints" /\ gate' = "decided"
      /\ verdict' = IF worst # 0 /\ read[worst].type = "blocking" THEN "blocked" ELSE "start"
      /\ UNCHANGED <<now, main, failed, document, country, restricted, read, worst>>
  BY DEF Conclude, proxyVars
<1>2. Violated' = Violated
  BY <1>1 DEF Violated, Active
<1>3. MostSevereFound'
  BY <1>1, <1>2 DEF MostSevereFound, Outranks
<1>4. GateTypeOK' /\ GateInOrder'
  BY <1>1 DEF GateTypeOK, GateInOrder, Before, Sources
<1>5. verdict' = "start" => \A i \in Violated : read[i].type # "blocking"
  BY <1>1, WorstDecides
<1>6. verdict' = "blocked" => \E i \in Violated : read[i].type = "blocking"
  <2>1. worst # 0 => worst \in Violated
    BY DEF MostSevereFound
  <2> QED
    BY <1>1, <2>1
<1>7. VerdictJustified'
  BY <1>1, <1>2, <1>5, <1>6 DEF VerdictJustified, GateInOrder, Unparsable, Active
<1> QED
  BY <1>3, <1>4, <1>7

\* The world moves only while nothing has been read.
LEMMA WorldInv ==
  ASSUME GateInv, gate \in Sources, UNCHANGED gateVars, main' \in Documents
  PROVE  GateInv'
<1> USE DEF GateInv
<1>1. UNCHANGED <<gate, failed, document, country, restricted, read, worst, verdict>>
  BY DEF gateVars
<1>2. gate \in Before /\ verdict = "none"
  BY DEF GateInOrder, Before, Sources
<1>3. GateTypeOK'
  BY <1>1 DEF GateTypeOK
<1>4. GateInOrder'
  BY <1>1 DEF GateInOrder, Before, Sources
<1> QED
  BY <1>1, <1>2, <1>3, <1>4, BeforeInv

-----------------------------------------------------------------------------

LEMMA GateStepInv ==
  ASSUME Inv, Gate
  PROVE  Inv'
<1> USE DEF Inv
<1>1. ASSUME NEW source \in Sources, Fails(source) PROVE Inv'
  <2>1. UNCHANGED proxyVars /\ main' = main
    BY <1>1 DEF Fails
  <2> QED
    BY <1>1, <2>1, SameProxy, FailsInv DEF GateInv, GateTypeOK
<1>2. CASE PrimaryAnswers \/ CacheAnswers \/ GithubAnswers
  <2>1. PICK d \in Documents : gate \in Sources /\ Fetched(d)
    <3>1. CASE PrimaryAnswers
      BY <3>1 DEF PrimaryAnswers, ProxyInv, ProxyTypeOK, Sources
    <3>2. CASE CacheAnswers
      BY <3>2, GateAssumption DEF CacheAnswers, ProxyInv, RequestsInOrder, Sources
    <3>3. CASE GithubAnswers
      BY <3>3 DEF GithubAnswers, GateInv, GateTypeOK, Sources
    <3> QED
      BY <1>2, <3>1, <3>2, <3>3
  <2> QED
    BY <2>1, FetchedProxy, FetchedInv
<1>3. CASE DetectCountry
  <2>1. UNCHANGED proxyVars /\ main' = main
    BY <1>3 DEF DetectCountry, Detected
  <2> QED
    BY <1>3, <2>1, SameProxy, CountryInv DEF GateInv, GateTypeOK
<1>4. ASSUME NEW listed \in SUBSET Countries, CheckCountry(listed) PROVE Inv'
  <2>1. UNCHANGED proxyVars /\ main' = main
    BY <1>4 DEF CheckCountry
  <2> QED
    BY <1>4, <2>1, SameProxy, RestrictedInv DEF GateInv, GateTypeOK
<1>5. ASSUME NEW c \in Constraints, CheckConstraint(c) PROVE Inv'
  <2>1. UNCHANGED proxyVars /\ main' = main
    BY <1>5 DEF CheckConstraint
  <2> QED
    BY <1>5, <2>1, SameProxy, CheckInv DEF GateInv, GateTypeOK
<1>6. CASE ClockFails
  <2>1. UNCHANGED proxyVars /\ main' = main
    BY <1>6 DEF ClockFails
  <2> QED
    BY <1>6, <2>1, SameProxy, ClockInv DEF GateInv, GateTypeOK
<1>7. CASE Conclude
  <2>1. UNCHANGED proxyVars /\ main' = main
    BY <1>7 DEF Conclude
  <2> QED
    BY <1>7, <2>1, SameProxy, ConcludeInv DEF GateInv, GateTypeOK
<1> QED
  BY <1>1, <1>2, <1>3, <1>4, <1>5, <1>6, <1>7 DEF Gate

LEMMA WorldStepInv ==
  ASSUME Inv, World
  PROVE  Inv'
<1> USE DEF Inv
<1>1. gate \in Sources /\ main \in Documents
  BY DEF World, Fetching, GateInv, GateTypeOK
<1>2. CASE Merge
  <2>1. UNCHANGED proxyVars /\ UNCHANGED gateVars /\ main' = main + 1 /\ main' \in Documents
    BY <1>1, <1>2, ProxyAssumption DEF Merge, Documents
  <2> QED
    BY <1>1, <2>1, SameProxy, WorldInv
<1>3. ASSUME UNCHANGED <<main, gateVars>>,
             \/ Tick \/ Deploy(main) \/ Recycle
             \/ \E r \in Requests : Hit(r) \/ Miss(r) \/ Handle(r) \/ Finish(r)
      PROVE  Inv'
  <2>1. GateInv'
    BY <1>1, <1>3, WorldInv
  <2>2. ProxyInv'
    BY <1>1, <1>3, TickProxy, DeployProxy, RecycleProxy, HitProxy, MissProxy, OriginProxy,
       ReturnsProxy, FailsProxy, FinishProxy DEF Handle
  <2> QED
    BY <2>1, <2>2
<1> QED
  BY <1>2, <1>3 DEF World

LEMMA StepInv == Inv /\ [Next]_vars => Inv'
<1> SUFFICES ASSUME Inv, [Next]_vars PROVE Inv'
  OBVIOUS
<1>1. CASE UNCHANGED vars
  <2>1. UNCHANGED <<proxyVars, main, now, gate, failed, document, country, restricted, read,
                    worst, verdict>>
    BY <1>1 DEF vars, gateVars, proxyVars
  <2>2. ProxyInv'
    BY <2>1, SameProxy DEF Inv, GateInv, GateTypeOK
  <2>3. GateInv'
    BY <2>1 DEF Inv, GateInv, GateTypeOK, GateInOrder, MostSevereFound, VerdictJustified,
                Violated, Unparsable, Active, Outranks
  <2> QED
    BY <2>2, <2>3 DEF Inv
<1> QED
  BY <1>1, GateStepInv, WorldStepInv DEF Next

-----------------------------------------------------------------------------

LEMMA Invariance == Spec => []Inv
<1>1. Init => Inv
  BY InitProxy, InitGate DEF Init, Inv
<1> QED
  BY <1>1, StepInv, PTL DEF Spec

\* Every variable of the proxy and of the gate keeps its type.
THEOREM VersionTypeCorrect == Spec => []TypeOK
<1>1. Inv => TypeOK
  BY DEF Inv, ProxyInv, GateInv, GateTypeOK, TypeOK, Before
<1> QED
  BY <1>1, Invariance, PTL

\* The proxy serves nothing from its cache that the origin had given up longer
\* ago than the max-age allows, however many requests overtake each other.
THEOREM ProxyIsRecent == Spec => []AnswersAreRecent
<1>1. Inv => AnswersAreRecent
  BY DEF Inv, ProxyInv
<1> QED
  BY <1>1, Invariance, PTL

\* The loop over the constraints has the most severe violation of those it has
\* looked at, whatever their number and order.
THEOREM WorstIsMostSevere == Spec => []MostSevereFound
<1>1. Inv => MostSevereFound
  BY DEF Inv, GateInv
<1> QED
  BY <1>1, Invariance, PTL

\* The program starts only if nothing it read forbids it, and exits only for the
\* reason it gives, whatever the document holds and whichever source it is from.
THEOREM VerdictHasReason == Spec => []VerdictJustified
<1>1. Inv => VerdictJustified
  BY DEF Inv, GateInv
<1> QED
  BY <1>1, Invariance, PTL
=============================================================================
