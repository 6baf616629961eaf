---------------------------- MODULE VersionProxy ----------------------------
(***************************************************************************)
(* functions/src/index.ts: the cloud function that answers for the version *)
(* document of the origin from a cache of one response.  Requests run side *)
(* by side in one instance and wait for the origin; the clock is in whole  *)
(* seconds and is read once, when a request comes in.  Documents are       *)
(* numbered in the order of their publication.                             *)
(***************************************************************************)
EXTENDS Integers

CONSTANTS
  Requests,
  MaxAges,       \* what the origin may say in Cache-Control, zero for nothing
  MaxDocuments,  \* bound: documents published
  MaxTime,       \* bound: the clock
  None

ASSUME ProxyAssumption ==
  /\ MaxAges \subseteq Nat
  /\ MaxDocuments \in Nat \ {0} /\ MaxTime \in Nat
  /\ None \notin Nat

VARIABLES
  now,
  origin,    \* the document at the origin
  replaced,  \* history: when a document was replaced there
  cachedResponse,
  request    \* of each: where it is, its `now', the document it has in hand, for
             \* how long that may be kept, and how it was answered

cache == <<cachedResponse, request>>
proxyVars == <<now, origin, replaced, cache>>

Documents == 1..MaxDocuments

CachedResponse == [data : Documents, timestamp : 0..MaxTime, maxAge : MaxAges \ {0}]

Request == [stage  : {"idle", "fetching", "fetched", "answered"},
            now    : 0..MaxTime,
            data   : Documents \cup {None},
            maxAge : MaxAges \cup {0},
            cached : {"none", "HIT", "MISS", "STALE", "unavailable"}]

Idle == [stage |-> "idle", now |-> 0, data |-> None, maxAge |-> 0, cached |-> "none"]

ProxyTypeOK ==
  /\ now \in 0..MaxTime
  /\ origin \in Documents
  /\ replaced \in [Documents -> (0..MaxTime) \cup {None}]
  /\ cachedResponse \in CachedResponse \cup {None}
  /\ request \in [Requests -> Request]

ProxyInit ==
  /\ now = 0
  /\ origin = 1
  /\ replaced = [d \in Documents |-> None]
  /\ cachedResponse = None
  /\ request = [r \in Requests |-> Idle]

-----------------------------------------------------------------------------

Tick ==
  /\ now < MaxTime
  /\ now' = now + 1
  /\ UNCHANGED <<origin, replaced, cache>>

Deploy(document) ==
  /\ origin < document
  /\ origin' = document
  /\ replaced' = [d \in Documents |-> IF origin <= d /\ d < document THEN now ELSE replaced[d]]
  /\ UNCHANGED <<now, cache>>

At(r, stage) == request[r].stage = stage

\* The request is answered with this document.
Answer(r, cached, document, age) ==
  request' = [request EXCEPT ![r].stage = "answered", ![r].cached = cached,
                             ![r].data = document, ![r].maxAge = age]

Valid == cachedResponse # None /\ now - cachedResponse.timestamp < cachedResponse.maxAge

Hit(r) ==
  /\ At(r, "idle")
  /\ Valid
  /\ request' = [request EXCEPT ![r] =
       [stage |-> "answered", now |-> now, data |-> cachedResponse.data,
        maxAge |-> cachedResponse.maxAge, cached |-> "HIT"]]
  /\ UNCHANGED <<now, origin, replaced, cachedResponse>>

Miss(r) ==
  /\ At(r, "idle")
  /\ ~Valid
  /\ request' = [request EXCEPT ![r].stage = "fetching", ![r].now = now]
  /\ UNCHANGED <<now, origin, replaced, cachedResponse>>

\* The origin answers with what it has at that moment.
OriginAnswers(r, age) ==
  /\ At(r, "fetching")
  /\ request' = [request EXCEPT ![r].stage = "fetched", ![r].data = origin, ![r].maxAge = age]
  /\ UNCHANGED <<now, origin, replaced, cachedResponse>>

\* A fault: the age of a response counts from when it is stored.
StampedLate(q) == [data |-> q.data, timestamp |-> now, maxAge |-> q.maxAge]

\* The timestamp is the clock when the request came in.
Stamped(q) == [data |-> q.data, timestamp |-> q.now, maxAge |-> q.maxAge]

\* A fault: what must not be kept is kept.
StoredAlways(q) == Stamped(q)

\* Whatever another request has stored in the meantime is replaced.
Stored(q) == IF q.maxAge > 0 THEN Stamped(q) ELSE cachedResponse

FetchReturns(r) ==
  /\ At(r, "fetched")
  /\ cachedResponse' = Stored(request[r])
  /\ Answer(r, "MISS", request[r].data, request[r].maxAge)
  /\ UNCHANGED <<now, origin, replaced>>

\* An error of the origin or its timeout: the cache serves at any age.
FetchFails(r) ==
  /\ At(r, "fetching") \/ At(r, "fetched")
  /\ \/ cachedResponse # None /\ Answer(r, "STALE", cachedResponse.data, 0)
     \/ cachedResponse = None /\ Answer(r, "unavailable", None, 0)
  /\ UNCHANGED <<now, origin, replaced, cachedResponse>>

\* The answer has gone out.
Finish(r) ==
  /\ At(r, "answered")
  /\ request' = [request EXCEPT ![r] = Idle]
  /\ UNCHANGED <<now, origin, replaced, cachedResponse>>

\* The instance is stopped for want of requests, and its memory is gone.
Recycle ==
  /\ \A r \in Requests : At(r, "idle")
  /\ cachedResponse # None
  /\ cachedResponse' = None
  /\ UNCHANGED <<now, origin, replaced, request>>

Handle(r) ==
  \/ \E age \in MaxAges : OriginAnswers(r, age)
  \/ FetchReturns(r)
  \/ FetchFails(r)

-----------------------------------------------------------------------------
(***************************************************************************)
(* Properties                                                              *)
(***************************************************************************)

\* The document was at the origin at this moment or after it.
OnlineSince(document, moment) ==
  document = origin \/ (replaced[document] # None /\ replaced[document] >= moment)

\* An answer from the cache was at the origin less than its max-age before the
\* request came, and an answer past the cache since the request came, however the
\* requests overtake each other.
AnswersAreRecent ==
  \A r \in Requests : LET q == request[r] IN
    /\ q.cached = "HIT"  => OnlineSince(q.data, q.now - q.maxAge + 1)
    /\ q.cached = "MISS" => OnlineSince(q.data, q.now)
=============================================================================
