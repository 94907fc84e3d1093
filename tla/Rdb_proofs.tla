----------------------------- MODULE Rdb_proofs -----------------------------
(***************************************************************************)
(* A batch of host requests keeps the promise of HostAcquisition, for any  *)
(* hosts, entries, requests and configuration.                             *)
(***************************************************************************)
EXTENDS Rdb, FiniteSetTheorems, TLAPS

\* the hosts a cache line may hold: those that match its key
Matching(r) == {h \in Hosts \ (Locked \cup Invalid) : AclMatch(r, h) /\ LabelMatch(r, h)}

\* a request still to be validated holds its host provisionally; when the host is
\* leased already, a request validated earlier has it
TodoInv ==
    /\ phase # "validate" => todo = {}
    /\ \A r \in todo : /\ response[r] = {r.host} /\ r.host \in Hosts \ Locked
                       /\ r.host \in leased =>
                             \E s \in Requests \ todo : r.host \in response[s]

\* every other response is leased, suits its request and is nobody else's
ResponseInv ==
    /\ phase = "get" => \A r \in Requests : response[r] = {}
    /\ \A r \in Requests \ todo : response[r] \subseteq leased \cap Suits(r)
    /\ \A r, s \in Requests \ todo : r # s => response[r] \cap response[s] = {}

\* the accountant only deals with requests that name no host
OrderInv == \A i \in DOMAIN order : order[i] \in Acquire

CacheInv == \A r \in Requests : cache[Key(r)] \subseteq Matching(r)

ReplyInv ==
    /\ phase # "reply" => waiting = Entries
    /\ \A e \in waiting : answer[e] = None

BatchInv == TypeOK /\ TodoInv /\ ResponseInv /\ OrderInv /\ CacheInv /\ ReplyInv
            /\ CacheHidesNothing /\ phase # "raised"

-----------------------------------------------------------------------------
(* Facts about the operators.                                              *)

\* Find and Suits speak of the hosts that match a request.
LEMMA FindMatching ==
    ASSUME NEW r \in Requests
    PROVE  /\ FindHosts(r) = Matching(r) \ leased
           /\ r.host = None => Suits(r) = Matching(r)
  BY DEF FindHosts, Matching, Suits, Available

\* Hosts match a request through its cache key.
LEMMA SameKey ==
    ASSUME NEW r \in Requests, NEW s \in Requests, Key(r) = Key(s)
    PROVE  Matching(r) = Matching(s)
  <1>1. r.deps = s.deps /\ r.acls = s.acls
    BY DEF Key
  <1> QED BY <1>1 DEF Matching, AclMatch, LabelMatch

\* A batch has finitely many requests, made by finitely many entries each.
LEMMA FiniteBatch ==
    ASSUME TypeOK
    PROVE  /\ Cardinality(Acquire) \in Nat
           /\ \A r \in Requests : Cardinality(Asking(r)) \in Nat
  <1>1. \A r \in Requests : Asking(r) \subseteq Entries
    BY DEF Asking
  <1>2. IsFiniteSet(Distinct)
    <2>1. request \in Surjection(Entries, Distinct)
      BY DEF TypeOK, Distinct, Surjection
    <2> QED BY <2>1, RdbAssumption, FS_Surjection
  <1>3. Acquire \subseteq Distinct
    BY DEF Acquire
  <1> QED BY <1>1, <1>2, <1>3, RdbAssumption, FS_Subset, FS_CardinalityType

\* The requests of the batch are among those that may be made.
LEMMA RequestsOfBatch ==
    ASSUME TypeOK
    PROVE  /\ Distinct \subseteq Requests
           /\ Acquire \subseteq Requests /\ \A r \in Acquire : r.host = None
           /\ Validation \subseteq Requests /\ \A r \in Validation : r.host \in Hosts
           /\ \A r \in Requests : Key(r) \in Keys /\ r.parent \in Parents
  BY RdbAssumption DEF TypeOK, Distinct, Acquire, Validation, Keys, Key, Parents

\* _acquire_hosts leases new hosts for its request and no other.
LEMMA AcquireHostsStep ==
    ASSUME BatchInv, todo = {}, todo' = {},
           NEW r \in Requests, r.host = None, NEW n, AcquireHosts(r, n),
           UNCHANGED <<request, useCache>>
    PROVE  /\ leased' \subseteq Hosts
           /\ response' \in [Requests -> SUBSET Hosts]
           /\ cache' \in [Keys -> SUBSET Hosts]
           /\ \A s \in Requests : response'[s] \subseteq leased' \cap Suits(s)
           /\ \A s, t \in Requests : s # t => response'[s] \cap response'[t] = {}
           /\ CacheInv' /\ CacheHidesNothing'
           /\ leased' \ InTransit' = leased \ InTransit
  <1> USE DEF BatchInv
  <1>1. PICK try \in FirstHosts(r, n) :
           /\ leased' = leased \cup try
           /\ response' = [response EXCEPT ![r] = @ \cup (try \ leased)]
           /\ cache' = IF useCache THEN [cache EXCEPT ![Key(r)] = Line(r) \ try] ELSE cache
    BY DEF AcquireHosts, LeaseHosts, SetLine
  <1>2. try \subseteq Line(r) /\ Line(r) \subseteq Matching(r) /\ Matching(r) \subseteq Hosts
    BY FindMatching DEF FirstHosts, Line, CacheInv, Matching
  <1>3. Key(r) \in Keys
    BY RequestsOfBatch
  <1>4. leased' \subseteq Hosts
    BY <1>1, <1>2 DEF TypeOK
  <1>5. /\ response' \in [Requests -> SUBSET Hosts]
        /\ response'[r] = response[r] \cup (try \ leased)
        /\ \A s \in Requests \ {r} : response'[s] = response[s]
    BY <1>1, <1>2 DEF TypeOK
  <1>6. cache' \in [Keys -> SUBSET Hosts]
    BY <1>1, <1>2, <1>3 DEF TypeOK
  <1>7. \A s \in Requests : response[s] \subseteq leased \cap Suits(s)
    BY DEF ResponseInv
  <1>8. \A s \in Requests : response'[s] \subseteq leased' \cap Suits(s)
    BY <1>1, <1>2, <1>5, <1>7, FindMatching
  <1>9. \A s, t \in Requests : s # t => response'[s] \cap response'[t] = {}
    BY <1>5, <1>7 DEF ResponseInv
  <1>10. \A s \in Requests : cache'[Key(s)] = cache[Key(s)]
                             \/ (Key(s) = Key(r) /\ cache'[Key(s)] = Line(r) \ try)
    BY <1>1, <1>3 DEF TypeOK
  <1>11. CacheInv'
    <2> SUFFICES ASSUME NEW s \in Requests
                 PROVE  cache'[Key(s)] \subseteq Matching(s)
      BY DEF CacheInv, Matching, AclMatch, LabelMatch, Key
    <2> QED BY <1>2, <1>10, SameKey DEF CacheInv
  <1>12. CacheHidesNothing'
    <2> SUFFICES ASSUME NEW s \in Requests, cache'[Key(s)] # {}
                 PROVE  FindHosts(s)' \subseteq cache'[Key(s)]
      BY DEF CacheHidesNothing, Key
    <2>1. FindHosts(s)' = Matching(s) \ leased'
      BY DEF FindHosts, Matching, Available, AclMatch, LabelMatch
    <2>2. FindHosts(s) = Matching(s) \ leased
      BY FindMatching
    <2>3. CASE cache'[Key(s)] = cache[Key(s)]
      BY <1>1, <2>1, <2>2, <2>3 DEF CacheHidesNothing
    <2>4. CASE Key(s) = Key(r) /\ cache'[Key(s)] = Line(r) \ try
      <3>1. Matching(s) \ leased \subseteq Line(r)
        BY <2>2, <2>4, FindMatching, SameKey DEF Line, CacheHidesNothing
      <3> QED BY <1>1, <2>1, <2>4, <3>1
    <2> QED BY <1>10, <2>3, <2>4
  <1>13. leased' \ InTransit' = leased \ InTransit
    <2>1. InTransit' = InTransit \cup (try \ leased)
      BY <1>5 DEF InTransit
    <2> QED BY <1>1, <2>1
  <1> QED BY <1>4, <1>5, <1>6, <1>8, <1>9, <1>11, <1>12, <1>13

-----------------------------------------------------------------------------
(* Every step preserves the invariant, and none but Reply shows outside.   *)

LEMMA InitBatchInv == Init => BatchInv
  <1> SUFFICES ASSUME Init PROVE BatchInv
    OBVIOUS
  <1>1. TypeOK
    BY RdbAssumption DEF Init, TypeOK
  <1>2. TodoInv /\ ResponseInv /\ OrderInv /\ ReplyInv
    BY DEF Init, TodoInv, ResponseInv, OrderInv, ReplyInv
  <1>3. CacheInv /\ CacheHidesNothing
    BY RdbAssumption DEF Init, CacheInv, CacheHidesNothing, Keys, Key
  <1> QED BY <1>1, <1>2, <1>3 DEF BatchInv, Init

LEMMA BatchGetHostsStep ==
    ASSUME BatchInv, BatchGetHosts
    PROVE  BatchInv' /\ (leased \ InTransit)' = leased \ InTransit
  <1> USE DEF BatchInv
  <1>1. \A r \in Validation : r \in Requests /\ r.host \in Hosts
    BY RequestsOfBatch
  <1>2. /\ Validation' = Validation /\ Acquire' = Acquire
        /\ todo' = {r \in Validation : r.host \in Hosts \ (leased \cup Locked)}
        /\ \A r \in Requests : response'[r] = IF r \in todo' THEN {r.host} ELSE {}
    BY <1>1 DEF BatchGetHosts, Validation, Acquire, Distinct, Available
  <1>3. TypeOK'
    BY <1>1, <1>2 DEF BatchGetHosts, TypeOK, accVars, Available
  <1>4. TodoInv' /\ ResponseInv' /\ OrderInv' /\ ReplyInv'
    BY <1>1, <1>2 DEF BatchGetHosts, TodoInv, ResponseInv, OrderInv, ReplyInv, accVars
  <1>5. CacheInv' /\ CacheHidesNothing'
    BY DEF BatchGetHosts, CacheInv, CacheHidesNothing, Matching, FindHosts, Available,
           AclMatch, LabelMatch, Key
  <1>6. (leased \ InTransit)' = leased \ InTransit
    <2>1. InTransit = {}
      BY DEF BatchGetHosts, ResponseInv, InTransit
    <2>2. \A r \in Requests : response'[r] \cap leased = {}
      BY <1>2
    <2>3. InTransit' \cap leased = {}
      BY <2>2 DEF InTransit
    <2> QED BY <2>1, <2>3 DEF BatchGetHosts
  <1> QED BY <1>3, <1>4, <1>5, <1>6 DEF BatchGetHosts

LEMMA BatchValidateHostsStep ==
    ASSUME BatchInv, NEW r \in Requests, BatchValidateHosts(r)
    PROVE  BatchInv' /\ (leased \ InTransit)' = leased \ InTransit
  <1> USE DEF BatchInv
  <1>1. /\ r \in todo /\ r \in Validation /\ r.host \in Hosts \ Locked /\ r.host # None
        /\ response[r] = {r.host} /\ todo' = todo \ {r}
    BY RdbAssumption DEF BatchValidateHosts, TypeOK, TodoInv
  <1>2. Validation' = Validation /\ Acquire' = Acquire
    BY DEF BatchValidateHosts, Validation, Acquire, Distinct
  <1>3. CASE ValidHostAssignment(r)
    <2>1. leased' = leased \cup {r.host} /\ response' = response
      BY <1>3 DEF BatchValidateHosts
    <2>2. r.host \notin leased /\ {r.host} \subseteq Suits(r)
      BY <1>1, <1>3 DEF ValidHostAssignment, Suits
    <2>3. TypeOK'
      BY <1>1, <1>2, <2>1 DEF BatchValidateHosts, TypeOK, accVars
    <2>4. \A s \in Requests \ todo : r.host \notin response[s]
      BY <2>2 DEF ResponseInv
    <2>5. TodoInv'
      BY <1>1, <2>1 DEF BatchValidateHosts, TodoInv
    <2>6. ResponseInv'
      <3>1. \A s \in Requests : Suits(s)' = Suits(s)
        BY DEF Suits, AclMatch, LabelMatch
      <3>2. \A s \in Requests \ todo' : s = r \/ s \in Requests \ todo
        BY <1>1
      <3>3. \A s \in Requests \ todo' : response'[s] \subseteq leased' \cap Suits(s)
        BY <1>1, <2>1, <2>2, <3>2 DEF ResponseInv
      <3>4. \A s, t \in Requests \ todo' : s # t => response'[s] \cap response'[t] = {}
        BY <1>1, <2>1, <2>4, <3>2 DEF ResponseInv
      <3> QED BY <3>1, <3>3, <3>4 DEF ResponseInv, BatchValidateHosts
    <2>7. CacheInv' /\ CacheHidesNothing'
      BY <2>1 DEF BatchValidateHosts, CacheInv, CacheHidesNothing, Matching, FindHosts,
                  Available, AclMatch, LabelMatch, Key
    <2>8. (leased \ InTransit)' = leased \ InTransit
      BY <1>1, <2>1 DEF InTransit
    <2> QED BY <1>2, <2>3, <2>5, <2>6, <2>7, <2>8
            DEF BatchValidateHosts, OrderInv, ReplyInv, accVars
  <1>4. CASE ~ValidHostAssignment(r)
    <2>1. /\ leased' = leased
          /\ response' = [response EXCEPT ![r] = {}]
      BY <1>4 DEF BatchValidateHosts
    <2>2. /\ response' \in [Requests -> SUBSET Hosts]
          /\ response'[r] = {} /\ \A s \in Requests \ {r} : response'[s] = response[s]
      BY <2>1 DEF TypeOK
    <2>3. TypeOK'
      BY <1>1, <1>2, <2>1, <2>2 DEF BatchValidateHosts, TypeOK, accVars
    <2>4. TodoInv'
      BY <1>1, <2>1, <2>2 DEF BatchValidateHosts, TodoInv
    <2>5. ResponseInv'
      <3>1. \A s \in Requests : Suits(s)' = Suits(s)
        BY DEF Suits, AclMatch, LabelMatch
      <3>2. \A s \in Requests \ todo' : s = r \/ s \in Requests \ todo
        BY <1>1
      <3> QED BY <2>1, <2>2, <3>1, <3>2 DEF ResponseInv, BatchValidateHosts
    <2>6. CacheInv' /\ CacheHidesNothing'
      BY <2>1 DEF BatchValidateHosts, CacheInv, CacheHidesNothing, Matching, FindHosts,
                  Available, AclMatch, LabelMatch, Key
    <2>7. (leased \ InTransit)' = leased \ InTransit
      <3>1. r.host \in leased => \E s \in Requests \ {r} : r.host \in response[s]
        BY <1>1 DEF TodoInv
      <3> QED BY <1>1, <2>1, <2>2, <3>1 DEF InTransit
    <2> QED BY <1>2, <2>3, <2>4, <2>5, <2>6, <2>7
            DEF BatchValidateHosts, OrderInv, ReplyInv, accVars
  <1> QED BY <1>3, <1>4

\* The steps that change neither hosts nor responses nor the cache.
LEMMA QuietStep ==
    ASSUME BatchInv, UNCHANGED <<request, useCache, leased, todo, cache, response, waiting, answer>>,
           todo = {}, phase' \notin {"get", "raised"}, phase # "reply",
           order' \in Seq(Requests), OrderInv', at' \in Nat \ {0},
           counts' \in [Requests -> Nat], minDuts' \in [Parents -> Nat],
           phase' \in {"min", "rest", "reply"}
    PROVE  BatchInv' /\ (leased \ InTransit)' = leased \ InTransit
  <1> USE DEF BatchInv
  <1>1. TypeOK'
    BY DEF TypeOK, Validation, Distinct
  <1>2. TodoInv' /\ ResponseInv' /\ ReplyInv'
    <2>1. TodoInv' /\ ReplyInv'
      BY DEF TodoInv, ReplyInv
    <2>2. ResponseInv'
      BY DEF ResponseInv
    <2> QED BY <2>1, <2>2
  <1>3. CacheInv' /\ CacheHidesNothing'
    BY DEF CacheInv, CacheHidesNothing, Matching, FindHosts, Available, AclMatch, LabelMatch, Key
  <1>4. (leased \ InTransit)' = leased \ InTransit
    BY DEF InTransit
  <1> QED BY <1>1, <1>2, <1>3, <1>4

LEMMA BatchRequestsStep ==
    ASSUME BatchInv, BatchRequests
    PROVE  BatchInv' /\ (leased \ InTransit)' = leased \ InTransit
  <1> USE DEF BatchInv
  <1>1. Acquire' = Acquire /\ Acquire \subseteq Requests
    BY RequestsOfBatch DEF BatchRequests, Acquire, Validation, Distinct
  <1>2. order' \in [1..Cardinality(Acquire) -> Acquire]
    BY DEF BatchRequests, Orders
  <1>3. order' \in Seq(Requests) /\ OrderInv'
    BY <1>1, <1>2, FiniteBatch DEF OrderInv
  <1>4. counts' \in [Requests -> Nat]
    BY FiniteBatch DEF BatchRequests
  <1>5. minDuts' \in [Parents -> Nat]
    <2> SUFFICES ASSUME NEW p \in Parents PROVE minDuts'[p] \in Nat
      BY DEF BatchRequests
    <2> DEFINE ofSuite == {r \in Acquire : r.parent = p}
    <2>1. ofSuite # {} => (CHOOSE r \in ofSuite : TRUE) \in Requests
      BY <1>1
    <2>2. minDuts'[p] = IF p = 0 \/ ofSuite = {} THEN 0
                        ELSE (CHOOSE r \in ofSuite : TRUE).minDuts
      BY DEF BatchRequests
    <2> QED BY <2>1, <2>2, RdbAssumption
  <1> QED BY <1>3, <1>4, <1>5, QuietStep DEF BatchRequests

LEMMA AcquireStep ==
    ASSUME BatchInv, phase \in {"min", "rest"}, at \in DOMAIN order, at' = at + 1,
           UNCHANGED <<request, useCache, phase, todo, order, waiting, answer>>,
           counts' \in [Requests -> Nat], minDuts' \in [Parents -> Nat],
           NEW n, AcquireHosts(order[at], n) \/ NoHosts
    PROVE  BatchInv' /\ (leased \ InTransit)' = leased \ InTransit
  <1> USE DEF BatchInv
  <1>1. order[at] \in Requests /\ order[at].host = None
    BY RequestsOfBatch DEF OrderInv
  <1>2. todo = {} /\ todo' = {}
    BY DEF TodoInv
  <1>3. at' \in Nat \ {0} /\ OrderInv'
    BY DEF TypeOK, OrderInv, Acquire, Validation, Distinct
  <1>4. CASE NoHosts
    BY <1>2, <1>3, <1>4, QuietStep DEF NoHosts, TypeOK
  <1>5. CASE AcquireHosts(order[at], n)
    <2>1. /\ leased' \subseteq Hosts
          /\ response' \in [Requests -> SUBSET Hosts]
          /\ cache' \in [Keys -> SUBSET Hosts]
          /\ \A s \in Requests : response'[s] \subseteq leased' \cap Suits(s)
          /\ \A s, t \in Requests : s # t => response'[s] \cap response'[t] = {}
          /\ CacheInv' /\ CacheHidesNothing'
          /\ leased' \ InTransit' = leased \ InTransit
      BY <1>1, <1>2, <1>5, AcquireHostsStep
    <2>2. TypeOK'
      BY <1>2, <1>3, <2>1 DEF TypeOK, Validation, Distinct
    <2>3. TodoInv' /\ ReplyInv'
      BY <1>2 DEF TodoInv, ReplyInv
    <2>4. ResponseInv'
      BY <1>2, <2>1 DEF ResponseInv, Suits, AclMatch, LabelMatch
    <2> QED BY <1>3, <2>1, <2>2, <2>3, <2>4
  <1> QED BY <1>4, <1>5

LEMMA AcquireMinStep ==
    ASSUME BatchInv, AcquireMin
    PROVE  BatchInv' /\ (leased \ InTransit)' = leased \ InTransit
  <1> USE DEF BatchInv
  <1> DEFINE r == order[at]
  <1>1. r \in Requests /\ r.parent \in Parents
    BY RequestsOfBatch DEF AcquireMin, OrderInv
  <1>2. /\ GetMinDuts(r) \in Nat
        /\ GetMinDuts(r) <= counts[r] /\ GetMinDuts(r) <= minDuts[r.parent]
    BY <1>1 DEF GetMinDuts, Least, TypeOK
  <1>3. counts' \in [Requests -> Nat]
    BY <1>1, <1>2 DEF AcquireMin, TypeOK
  <1>4. minDuts' \in [Parents -> Nat]
    BY <1>1, <1>2 DEF AcquireMin, TypeOK
  <1> QED BY <1>3, <1>4, AcquireStep DEF AcquireMin

LEMMA AcquireRestStep ==
    ASSUME BatchInv, AcquireRest
    PROVE  BatchInv' /\ (leased \ InTransit)' = leased \ InTransit
  BY AcquireStep DEF AcquireRest, BatchInv, TypeOK

LEMMA EndMinStep ==
    ASSUME BatchInv, EndMin
    PROVE  BatchInv' /\ (leased \ InTransit)' = leased \ InTransit
  BY QuietStep DEF EndMin, BatchInv, TypeOK, TodoInv, OrderInv, Acquire, Validation, Distinct

LEMMA CheckResponseMapStep ==
    ASSUME BatchInv, CheckResponseMap
    PROVE  BatchInv' /\ (leased \ InTransit)' = leased \ InTransit
  <1>1. todo = {} /\ Validation \subseteq Requests
    BY RequestsOfBatch DEF CheckResponseMap, BatchInv, TodoInv
  <1>2. phase' = "reply"
    BY <1>1 DEF CheckResponseMap, BatchInv, ResponseInv
  <1>3. UNCHANGED <<request, useCache, leased, todo, order, at, counts, minDuts, cache,
                    response, waiting, answer>>
    BY DEF CheckResponseMap, accVars
  <1>4. OrderInv'
    BY <1>3 DEF BatchInv, OrderInv, Acquire, Validation, Distinct
  <1>5. phase = "rest"
    BY DEF CheckResponseMap
  <1> QED BY <1>1, <1>2, <1>3, <1>4, <1>5, QuietStep DEF BatchInv, TypeOK

LEMMA ReplyStep ==
    ASSUME BatchInv, NEW e \in Entries, Reply(e)
    PROVE  /\ BatchInv'
           /\ \/ UNCHANGED <<answer, leased \ InTransit>>
              \/ \E h \in Suits(request[e]) \ (leased \ InTransit) :
                    /\ answer[e] = None
                    /\ answer' = [answer EXCEPT ![e] = h]
                    /\ (leased \ InTransit)' = (leased \ InTransit) \cup {h}
  <1> USE DEF BatchInv
  <1> DEFINE r == request[e]
  <1>1. r \in Requests /\ todo = {} /\ phase = "reply" /\ e \in waiting /\ answer[e] = None
    BY DEF Reply, TypeOK, TodoInv, ReplyInv
  <1>2. CacheInv' /\ CacheHidesNothing'
    BY DEF Reply, CacheInv, CacheHidesNothing, Matching, FindHosts, Available, AclMatch,
           LabelMatch, Key
  <1>3. TodoInv' /\ OrderInv'
    BY <1>1 DEF Reply, TodoInv, OrderInv, Acquire, Validation, Distinct, accVars
  <1>4. CASE response[r] = {}
    <2>1. UNCHANGED <<response, answer, leased>>
      BY <1>4 DEF Reply
    <2>2. TypeOK' /\ ReplyInv'
      BY <1>1, <2>1 DEF Reply, TypeOK, ReplyInv, Validation, Distinct, accVars
    <2>3. ResponseInv'
      BY <1>1, <2>1 DEF Reply, ResponseInv, Suits, AclMatch, LabelMatch
    <2>4. UNCHANGED <<answer, leased \ InTransit>>
      BY <2>1 DEF InTransit
    <2> QED BY <1>1, <1>2, <1>3, <2>2, <2>3, <2>4 DEF Reply
  <1>5. CASE response[r] # {}
    <2>1. PICK h \in response[r] : /\ response' = [response EXCEPT ![r] = @ \ {h}]
                                   /\ answer' = [answer EXCEPT ![e] = h]
      BY <1>5 DEF Reply
    <2>2. h \in Hosts /\ h \in leased /\ h \in Suits(r)
      BY <1>1 DEF TypeOK, ResponseInv
    <2>3. /\ response' \in [Requests -> SUBSET Hosts]
          /\ response'[r] = response[r] \ {h}
          /\ \A s \in Requests \ {r} : response'[s] = response[s]
      BY <1>1, <2>1 DEF TypeOK
    <2>4. answer' \in [Entries -> Hosts \cup {None}]
      BY <2>1, <2>2 DEF TypeOK
    <2>5. TypeOK'
      BY <2>3, <2>4 DEF Reply, TypeOK, Validation, Distinct, accVars
    <2>6. ReplyInv'
      BY <1>1, <2>1 DEF Reply, TypeOK, ReplyInv
    <2>7. ResponseInv'
      BY <1>1, <2>3 DEF Reply, ResponseInv, Suits, AclMatch, LabelMatch
    <2>8. \A s \in Requests \ {r} : h \notin response[s]
      BY <1>1 DEF ResponseInv
    <2>9. h \in InTransit /\ InTransit' = InTransit \ {h}
      BY <1>1, <2>3, <2>8 DEF InTransit
    <2>10. (leased \ InTransit)' = (leased \ InTransit) \cup {h}
      BY <2>2, <2>9 DEF Reply
    <2> QED BY <1>1, <1>2, <1>3, <2>1, <2>2, <2>5, <2>6, <2>7, <2>9, <2>10 DEF Reply
  <1> QED BY <1>4, <1>5

-----------------------------------------------------------------------------
(* Theorems.                                                               *)

LEMMA StepInv ==
    ASSUME BatchInv, [Next]_vars
    PROVE  BatchInv'
  <1>1. CASE Next
    BY <1>1, BatchGetHostsStep, BatchValidateHostsStep, BatchRequestsStep, AcquireMinStep,
       EndMinStep, AcquireRestStep, CheckResponseMapStep, ReplyStep DEF Next
  <1>2. CASE UNCHANGED vars
    <2> USE <1>2 DEF vars, accVars, BatchInv
    <2>1. TypeOK'
      BY DEF TypeOK, Validation, Distinct
    <2>2. TodoInv' /\ ReplyInv'
      BY DEF TodoInv, ReplyInv
    <2>3. ResponseInv'
      BY DEF ResponseInv, Suits, AclMatch, LabelMatch
    <2>4. OrderInv'
      BY DEF OrderInv, Acquire, Validation, Distinct
    <2>5. CacheInv' /\ CacheHidesNothing'
      BY DEF CacheInv, CacheHidesNothing, Matching, FindHosts, Available, AclMatch, LabelMatch, Key
    <2> QED BY <2>1, <2>2, <2>3, <2>4, <2>5
  <1> QED BY <1>1, <1>2

\* Every state of a batch satisfies the invariant: whatever is cached, a response
\* holds hosts leased for it alone.
THEOREM BatchInvariance == Spec => []BatchInv
  BY InitBatchInv, StepInv, PTL DEF Spec

\* The accountant never owes a negative number of hosts, and lines, responses
\* and answers hold hosts only.
THEOREM TypeCorrect == Spec => []TypeOK
  BY BatchInvariance, PTL DEF BatchInv

\* get_response never raises, and no host is in two responses.
THEOREM HostsNeverShared == Spec => []NoHostTwice
  <1>1. BatchInv => NoHostTwice
    BY DEF BatchInv, TodoInv, ResponseInv, NoHostTwice
  <1> QED BY <1>1, BatchInvariance, PTL

\* Caching what is left of a line loses no free host.
THEOREM CacheComplete == Spec => []CacheHidesNothing
  BY BatchInvariance, PTL DEF BatchInv

\* A batch implements HostAcquisition: hosts are granted one by one as entries
\* receive them, all the leasing and caching before is invisible.
THEOREM Refinement == Spec => PromiseKept
  <1> USE DEF PromiseKept
  <1>1. Init => Promise!Init
    <2> SUFFICES ASSUME Init PROVE Promise!Init
      OBVIOUS
    <2>1. InTransit = {}
      BY DEF Init, InTransit
    <2>2. \A r \in Requests : Suits(r) \subseteq Hosts
      BY RdbAssumption DEF Suits
    <2> QED BY <2>1, <2>2 DEF Init, Promise!Init
  <1>2. BatchInv /\ [Next]_vars => [Promise!Next]_Promise!vars
    <2> SUFFICES ASSUME BatchInv, [Next]_vars
                 PROVE  [Promise!Next]_Promise!vars
      OBVIOUS
    <2>1. request' = request
      BY DEF Next, vars, BatchGetHosts, BatchValidateHosts, BatchRequests, AcquireMin, EndMin,
             AcquireRest, CheckResponseMap, Reply
    <2>2. [e \in Entries |-> Suits(request[e])]' = [e \in Entries |-> Suits(request[e])]
      BY <2>1 DEF Suits, AclMatch, LabelMatch
    <2>3. ASSUME UNCHANGED <<answer, leased \ InTransit>>
          PROVE  UNCHANGED Promise!vars
      BY <2>2, <2>3 DEF Promise!vars
    <2>4. ASSUME NEW e \in Entries, Reply(e)
          PROVE  Promise!Next \/ UNCHANGED Promise!vars
      <3>1. request[e] \in Requests
        BY DEF BatchInv, TypeOK
      <3>2. Suits(request[e]) \subseteq Hosts
        BY <3>1, RdbAssumption DEF Suits
      <3> QED BY <2>2, <2>3, <2>4, <3>2, ReplyStep DEF Promise!Next, Promise!Grant
    <2>5. CASE Next
      <3>1. ASSUME ~ \E e \in Entries : Reply(e)
            PROVE  UNCHANGED <<answer, leased \ InTransit>>
        BY <2>5, <3>1, BatchGetHostsStep, BatchValidateHostsStep, BatchRequestsStep,
           AcquireMinStep, EndMinStep, AcquireRestStep, CheckResponseMapStep
           DEF Next, BatchGetHosts, BatchValidateHosts, BatchRequests, AcquireMin, EndMin,
               AcquireRest, CheckResponseMap
      <3> QED BY <2>3, <2>4, <3>1
    <2>6. CASE UNCHANGED vars
      BY <2>3, <2>6 DEF vars, InTransit
    <2> QED BY <2>5, <2>6
  <1> QED BY <1>1, <1>2, BatchInvariance, PTL DEF Spec, Promise!Spec
=============================================================================
