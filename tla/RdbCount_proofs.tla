--------------------------- MODULE RdbCount_proofs ---------------------------
(***************************************************************************)
(* How many hosts a batch leases: never more than there are entries to     *)
(* receive them, and without the cache as many as there are, the most      *)
(* urgent requests first.                                                  *)
(***************************************************************************)
EXTENDS Rdb_proofs

\* the hosts a pass has still to ask for on behalf of a request
Owed(r) ==
    IF phase = "min" \/ (phase = "rest" /\ \E i \in DOMAIN order : i >= at /\ order[i] = r)
    THEN counts[r] ELSE 0

Accounted(r) == Cardinality(response[r]) + Owed(r)

\* hosts in a response and hosts still asked for have entries that wait for them
CountInv == \A r \in Requests : Accounted(r) <= Cardinality(Asking(r) \cap waiting)

\* the accountant starts from empty responses and deals with every request once
AccountantInv ==
    /\ phase \in {"get", "validate"} => \A r \in Acquire : response[r] = {}
    /\ phase \in {"min", "rest"} => order \in Orders

\* without the cache, a request that is not fully accounted for has found no host
\* and never will: hosts are only leased meanwhile
ServedInv ==
    ~useCache =>
        /\ \A k \in Keys : cache[k] = {}
        /\ phase \in {"min", "rest"} \/ (phase = "reply" /\ waiting = Entries) =>
             \A r \in Acquire : FindHosts(r) = {} \/ Cardinality(Asking(r)) <= Accounted(r)

CountingInv == BatchInv /\ CountInv /\ AccountantInv /\ ServedInv

-----------------------------------------------------------------------------
(* Facts about the operators.                                              *)

\* Everything that is counted is finite.
LEMMA FiniteCounts ==
    ASSUME TypeOK
    PROVE  /\ \A r \in Requests : IsFiniteSet(response[r]) /\ Cardinality(response[r]) \in Nat
           /\ \A r \in Requests : /\ IsFiniteSet(Asking(r) \cap waiting)
                                  /\ Cardinality(Asking(r) \cap waiting) \in Nat
           /\ \A r \in Requests : Owed(r) \in Nat /\ Accounted(r) \in Nat
  <1>1. \A r \in Requests : IsFiniteSet(response[r]) /\ Cardinality(response[r]) \in Nat
    BY RdbAssumption, FS_Subset, FS_CardinalityType DEF TypeOK
  <1>2. \A r \in Requests : Asking(r) \cap waiting \in SUBSET Entries
    BY DEF Asking
  <1>3. \A r \in Requests : /\ IsFiniteSet(Asking(r) \cap waiting)
                            /\ Cardinality(Asking(r) \cap waiting) \in Nat
    BY <1>2, RdbAssumption, FS_Subset, FS_CardinalityType
  <1>4. \A r \in Requests : Owed(r) \in Nat
    BY DEF Owed, TypeOK
  <1>5. \A r \in Requests : Accounted(r) \in Nat
    BY <1>1, <1>4 DEF Accounted
  <1> QED BY <1>1, <1>3, <1>4, <1>5

\* The accountant's order lists every request it deals with exactly once.
LEMMA OrderLists ==
    ASSUME TypeOK, order \in Orders
    PROVE  /\ DOMAIN order = 1..Cardinality(Acquire) /\ Cardinality(Acquire) \in Nat
           /\ \A i, j \in DOMAIN order : i # j => order[i] # order[j]
           /\ \A r \in Acquire : \E i \in DOMAIN order : order[i] = r
  <1> DEFINE n == Cardinality(Acquire)
  <1>1. n \in Nat /\ IsFiniteSet(Acquire)
    <2>1. request \in Surjection(Entries, Distinct)
      BY DEF TypeOK, Distinct, Surjection
    <2>2. IsFiniteSet(Distinct)
      BY <2>1, RdbAssumption, FS_Surjection
    <2>3. Acquire \in SUBSET Distinct
      BY DEF Acquire
    <2> QED BY <2>2, <2>3, FS_Subset, FS_CardinalityType
  <1>2. order \in [1..n -> Acquire] /\ DOMAIN order = 1..n
    BY DEF Orders
  <1>3. \A i, j \in 1..n : i # j => order[i] # order[j]
    <2> SUFFICES ASSUME NEW i \in 1..n, NEW j \in 1..n, i # j PROVE order[i] # order[j]
      OBVIOUS
    <2>1. i < j \/ j < i
      BY <1>1
    <2> QED BY <1>2, <2>1 DEF Orders
  <1>4. order \in Injection(1..n, Acquire)
    BY <1>2, <1>3 DEF Injection, IsInjective
  <1>5. Cardinality(1..n) = n
    BY <1>1, FS_Interval
  <1>6. order \in Surjection(1..n, Acquire)
    BY <1>1, <1>4, <1>5, FS_Injection
  <1> QED BY <1>1, <1>2, <1>3, <1>6 DEF Surjection

\* Leasing takes hosts away from the database query.
LEMMA FindHostsShrinks ==
    ASSUME leased \subseteq leased', NEW r \in Requests
    PROVE  FindHosts(r)' \subseteq FindHosts(r)
  BY DEF FindHosts, Available, AclMatch, LabelMatch

\* _acquire_hosts leases at most what it is asked for.  Without the cache it
\* leases exactly that, or all the hosts there are.
LEMMA AcquireHostsCount ==
    ASSUME BatchInv, todo = {}, NEW r \in Requests, NEW n \in Nat, AcquireHosts(r, n)
    PROVE  /\ leased \subseteq leased'
           /\ \A s \in Requests \ {r} : response'[s] = response[s]
           /\ IsFiniteSet(response'[r]) /\ Cardinality(response'[r]) \in Nat
           /\ Cardinality(response'[r]) <= Cardinality(response[r]) + n
           /\ ~useCache => cache' = cache
           /\ ~useCache /\ cache[Key(r)] = {} =>
                 \/ FindHosts(r)' = {}
                 \/ Cardinality(response'[r]) = Cardinality(response[r]) + n
  <1> USE DEF BatchInv
  <1>1. PICK try \in FirstHosts(r, n) :
           /\ leased' = leased \cup try
           /\ response' = [response EXCEPT ![r] = @ \cup (try \ leased)]
           /\ cache' = IF useCache THEN [cache EXCEPT ![Key(r)] = Line(r) \ try] ELSE cache
    BY DEF AcquireHosts, LeaseHosts, SetLine
  <1>2. /\ try \subseteq Line(r) /\ Line(r) \subseteq Hosts
        /\ Cardinality(try) = Least(n, Cardinality(Line(r)))
    BY RequestsOfBatch DEF FirstHosts, Line, FindHosts, Available, TypeOK
  <1>3. IsFiniteSet(Line(r)) /\ Cardinality(Line(r)) \in Nat
    BY <1>2, RdbAssumption, FS_Subset, FS_CardinalityType
  <1>4. IsFiniteSet(try) /\ Cardinality(try) \in Nat /\ Cardinality(try) <= n
    BY <1>2, <1>3, FS_Subset DEF Least
  <1>5. /\ response'[r] = response[r] \cup (try \ leased)
        /\ \A s \in Requests \ {r} : response'[s] = response[s]
    BY <1>1 DEF TypeOK
  <1>6. IsFiniteSet(response[r]) /\ Cardinality(response[r]) \in Nat
    BY FiniteCounts
  <1>7. /\ IsFiniteSet(try \ leased) /\ Cardinality(try \ leased) \in Nat
        /\ Cardinality(try \ leased) <= Cardinality(try)
    <2>1. try \ leased \in SUBSET try
      OBVIOUS
    <2> QED BY <1>4, <2>1, FS_Subset, FS_CardinalityType
  <1>8. /\ IsFiniteSet(response'[r]) /\ Cardinality(response'[r]) \in Nat
        /\ Cardinality(response'[r]) = Cardinality(response[r]) + Cardinality(try \ leased)
    <2>1. response[r] \cap (try \ leased) = {}
      BY DEF ResponseInv
    <2>2. Cardinality(response[r] \cap (try \ leased)) = 0
      BY <2>1, FS_EmptySet
    <2>3. IsFiniteSet(response'[r])
      BY <1>5, <1>6, <1>7, FS_Union
    <2>4. Cardinality(response'[r]) =
             Cardinality(response[r]) + Cardinality(try \ leased) - 0
      BY <1>5, <1>6, <1>7, <2>2, FS_Union
    <2> QED BY <1>6, <1>7, <2>3, <2>4
  <1>9. Cardinality(response'[r]) <= Cardinality(response[r]) + n
    BY <1>4, <1>6, <1>7, <1>8
  <1>10. ASSUME ~useCache, cache[Key(r)] = {}
         PROVE  \/ FindHosts(r)' = {}
                \/ Cardinality(response'[r]) = Cardinality(response[r]) + n
    <2>1. Line(r) = FindHosts(r)
      BY <1>10 DEF Line
    <2>2. try \ leased = try
      BY <1>2, <2>1 DEF FindHosts, Available
    <2>3. CASE n < Cardinality(Line(r))
      BY <1>2, <1>8, <2>2, <2>3 DEF Least
    <2>4. CASE ~(n < Cardinality(Line(r)))
      <3>1. Cardinality(try) = Cardinality(Line(r))
        BY <1>2, <2>4 DEF Least
      <3>2. try \in SUBSET Line(r)
        BY <1>2
      <3>3. try = Line(r)
        BY <1>3, <3>1, <3>2, FS_Subset
      <3> QED BY <1>1, <2>1, <3>3 DEF FindHosts, Available, AclMatch, LabelMatch
    <2> QED BY <2>3, <2>4
  <1> QED BY <1>1, <1>5, <1>8, <1>9, <1>10

\* A step of either pass, for n hosts, pays off n of what its request is owed.
LEMMA PassStep ==
    ASSUME CountingInv, phase \in {"min", "rest"},
           UNCHANGED <<request, useCache, phase, order, waiting>>, TypeOK',
           NEW r \in Requests, NEW n \in Nat, AcquireHosts(r, n) \/ (n = 0 /\ NoHosts),
           Owed(r) = Owed(r)' + n,
           \A s \in Requests \ {r} : Owed(s)' = Owed(s)
    PROVE  CountInv' /\ AccountantInv' /\ ServedInv'
  <1> USE DEF CountingInv, BatchInv
  <1>1. Key(r) \in Keys /\ todo = {}
    BY RequestsOfBatch DEF TodoInv
  <1>2. /\ \A s \in Requests : /\ Cardinality(response[s]) \in Nat /\ Owed(s) \in Nat
                               /\ Cardinality(Asking(s) \cap waiting) \in Nat
    BY FiniteCounts
  <1>3. \A s \in Requests : Owed(s)' \in Nat
    BY DEF Owed, TypeOK
  <1>4. /\ leased \subseteq leased'
        /\ \A s \in Requests \ {r} : response'[s] = response[s]
        /\ Cardinality(response'[r]) \in Nat
        /\ Cardinality(response'[r]) <= Cardinality(response[r]) + n
        /\ ~useCache => cache' = cache
        /\ ~useCache /\ cache[Key(r)] = {} /\ FindHosts(r)' # {} =>
              Cardinality(response'[r]) = Cardinality(response[r]) + n
    <2>1. CASE AcquireHosts(r, n)
      BY <1>1, <2>1, AcquireHostsCount
    <2>2. CASE n = 0 /\ NoHosts
      <3>1. UNCHANGED <<leased, response, cache>> /\ n = 0
        BY <2>2 DEF NoHosts
      <3>2. Cardinality(response[r]) \in Nat
        BY <1>2
      <3>3. Cardinality(response[r]) + 0 = Cardinality(response[r])
        BY <3>2
      <3> QED BY <3>1, <3>2, <3>3
    <2> QED BY <2>1, <2>2
  <1>5. \A s \in Requests : Asking(s)' = Asking(s)
    BY DEF Asking
  <1>6. CountInv'
    <2> SUFFICES ASSUME NEW s \in Requests
                 PROVE  Cardinality(response'[s]) + Owed(s)'
                          <= Cardinality(Asking(s) \cap waiting)
      BY <1>5 DEF CountInv, Accounted
    <2>1. Cardinality(response[s]) + Owed(s) <= Cardinality(Asking(s) \cap waiting)
      BY DEF CountInv, Accounted
    <2>2. CASE s = r
      BY <1>1, <1>2, <1>3, <1>4, <2>1, <2>2
    <2>3. CASE s # r
      BY <1>4, <2>1, <2>3
    <2> QED BY <2>2, <2>3
  <1>7. Acquire' = Acquire /\ Acquire \subseteq Requests
    BY RequestsOfBatch DEF Acquire, Validation, Distinct
  <1>8. AccountantInv'
    BY <1>7 DEF AccountantInv, Orders
  <1>9. ServedInv'
    <2> SUFFICES ASSUME ~useCache
                 PROVE  /\ \A k \in Keys : cache'[k] = {}
                        /\ \A s \in Acquire : FindHosts(s)' = {} \/
                              Cardinality(Asking(s)) <= Cardinality(response'[s]) + Owed(s)'
      BY <1>5, <1>7 DEF ServedInv, Accounted, Keys
    <2>1. \A k \in Keys : cache[k] = {}
      BY DEF ServedInv
    <2>2. ASSUME NEW s \in Acquire, FindHosts(s)' # {}
          PROVE  Cardinality(Asking(s)) <= Cardinality(response'[s]) + Owed(s)'
      <3>1. s \in Requests
        BY <1>7
      <3>2. FindHosts(s) # {}
        BY <1>4, <2>2, <3>1, FindHostsShrinks
      <3>3. Cardinality(Asking(s)) <= Cardinality(response[s]) + Owed(s)
        BY <3>2 DEF ServedInv, Accounted
      <3>4. Cardinality(Asking(s)) \in Nat
        BY <3>1, FiniteBatch
      <3>5. CASE s = r
        <4>1. FindHosts(r)' # {} /\ Owed(s)' = Owed(r)'
          BY <2>2, <3>5 DEF FindHosts, Available, AclMatch, LabelMatch, Owed
        <4>2. Cardinality(response'[r]) = Cardinality(response[r]) + n
          BY <1>1, <1>4, <2>1, <4>1
        <4>3. Cardinality(Asking(s)) <= Cardinality(response[r]) + Owed(r)
          BY <3>3, <3>5
        <4>4. /\ Cardinality(response[r]) \in Nat /\ Owed(r)' \in Nat
              /\ response'[s] = response'[r]
          BY <1>2, <1>3, <3>5
        <4> QED BY <3>4, <4>1, <4>2, <4>3, <4>4
      <3>6. CASE s # r
        BY <1>4, <3>1, <3>3, <3>6
      <3> QED BY <3>5, <3>6
    <2> QED BY <1>4, <2>1, <2>2
  <1> QED BY <1>6, <1>8, <1>9

-----------------------------------------------------------------------------
(* Every step preserves the counts.                                        *)

LEMMA InitCount == Init => CountingInv
  <1> SUFFICES ASSUME Init PROVE CountingInv
    OBVIOUS
  <1>1. BatchInv
    BY InitBatchInv
  <1>2. CountInv
    <2> SUFFICES ASSUME NEW r \in Requests
                 PROVE  Accounted(r) <= Cardinality(Asking(r) \cap waiting)
      BY DEF CountInv
    <2>1. Accounted(r) = 0
      BY FS_EmptySet DEF Init, Accounted, Owed
    <2> QED BY <1>1, <2>1, FiniteCounts DEF BatchInv
  <1>3. AccountantInv /\ ServedInv
    <2>1. Acquire \subseteq Requests
      BY <1>1, RequestsOfBatch DEF BatchInv
    <2> QED BY <2>1 DEF Init, AccountantInv, ServedInv
  <1> QED BY <1>1, <1>2, <1>3 DEF CountingInv

LEMMA BatchGetHostsCount ==
    ASSUME CountingInv, BatchGetHosts
    PROVE  CountInv' /\ AccountantInv' /\ ServedInv'
  <1> USE DEF CountingInv, BatchInv
  <1>1. waiting' = waiting /\ waiting = Entries /\ request' = request
    BY DEF BatchGetHosts, ReplyInv
  <1>2. CountInv'
    <2> SUFFICES ASSUME NEW r \in Requests
                 PROVE  Accounted(r)' <= Cardinality(Asking(r) \cap waiting)
      BY <1>1 DEF CountInv, Asking
    <2>1. Owed(r)' = 0
      BY DEF BatchGetHosts, Owed
    <2>2. /\ IsFiniteSet(Asking(r) \cap waiting)
          /\ Cardinality(Asking(r) \cap waiting) \in Nat
      BY FiniteCounts
    <2>3. CASE r \in Validation
      <3>1. Asking(r) \cap waiting # {}
        BY <1>1, <2>3 DEF Asking, Validation, Distinct
      <3>2. Cardinality(Asking(r) \cap waiting) # 0
        BY <2>2, <3>1, FS_EmptySet
      <3>3. response'[r] = {r.host} \/ response'[r] = {}
        BY DEF BatchGetHosts
      <3>4. Cardinality(response'[r]) \in {0, 1}
        BY <3>3, FS_Singleton, FS_EmptySet
      <3> QED BY <2>1, <2>2, <3>2, <3>4 DEF Accounted
    <2>4. CASE r \notin Validation
      <3>1. Cardinality(response'[r]) = 0
        BY <2>4, FS_EmptySet DEF BatchGetHosts
      <3> QED BY <2>1, <2>2, <3>1 DEF Accounted
    <2> QED BY <2>3, <2>4
  <1>3. AccountantInv'
    BY RequestsOfBatch DEF BatchGetHosts, AccountantInv, Acquire, Validation, Distinct
  <1>4. ServedInv'
    BY DEF BatchGetHosts, ServedInv, Keys
  <1> QED BY <1>2, <1>3, <1>4

LEMMA BatchValidateHostsCount ==
    ASSUME CountingInv, NEW r \in Requests, BatchValidateHosts(r)
    PROVE  CountInv' /\ AccountantInv' /\ ServedInv'
  <1> USE DEF CountingInv, BatchInv
  <1>1. /\ r \in Validation /\ phase = "validate"
        /\ UNCHANGED <<phase, request, useCache, waiting, cache, order, at, counts>>
    BY DEF BatchValidateHosts, TypeOK, accVars
  <1>2. \A s \in Requests : response'[s] = response[s] \/ (s = r /\ response'[s] = {})
    BY DEF BatchValidateHosts, TypeOK
  <1>3. CountInv'
    <2> SUFFICES ASSUME NEW s \in Requests
                 PROVE  Accounted(s)' <= Cardinality(Asking(s) \cap waiting)
      BY <1>1 DEF CountInv, Asking
    <2>1. Owed(s)' = 0 /\ Owed(s) = 0
      BY <1>1 DEF Owed
    <2>2. /\ Cardinality(response[s]) \in Nat /\ Cardinality(Asking(s) \cap waiting) \in Nat
          /\ Cardinality(response[s]) + 0 <= Cardinality(Asking(s) \cap waiting)
      BY <2>1, FiniteCounts DEF CountInv, Accounted
    <2>3. Cardinality(response'[s]) \in {0, Cardinality(response[s])}
      BY <1>2, FS_EmptySet
    <2> QED BY <2>1, <2>2, <2>3 DEF Accounted
  <1>4. AccountantInv'
    BY <1>1, <1>2, RequestsOfBatch DEF AccountantInv, Acquire, Validation, Distinct
  <1>5. ServedInv'
    BY <1>1 DEF ServedInv, Keys
  <1> QED BY <1>3, <1>4, <1>5

LEMMA BatchRequestsCount ==
    ASSUME CountingInv, BatchRequests
    PROVE  CountInv' /\ AccountantInv' /\ ServedInv'
  <1> USE DEF CountingInv, BatchInv
  <1>1. /\ phase = "validate" /\ phase' = "min" /\ waiting = Entries
        /\ UNCHANGED <<request, useCache, leased, cache, response, waiting>>
    BY DEF BatchRequests, ReplyInv
  <1>2. Acquire' = Acquire /\ Acquire \subseteq Requests
    BY RequestsOfBatch, <1>1 DEF Acquire, Validation, Distinct
  <1>3. \A r \in Requests : Asking(r) \cap waiting = Asking(r)
    BY <1>1 DEF Asking
  <1>4. \A r \in Requests : /\ r \in Acquire => Accounted(r)' = Cardinality(Asking(r))
                            /\ r \notin Acquire => Accounted(r)' = Accounted(r)
    <2> SUFFICES ASSUME NEW r \in Requests
                 PROVE  /\ r \in Acquire => Accounted(r)' = Cardinality(Asking(r))
                        /\ r \notin Acquire => Accounted(r)' = Accounted(r)
      OBVIOUS
    <2>1. Owed(r)' = IF r \in Acquire THEN Cardinality(Asking(r)) ELSE 0
      BY <1>1 DEF BatchRequests, Owed
    <2>2. Owed(r) = 0
      BY <1>1 DEF Owed
    <2>3. r \in Acquire => Cardinality(response[r]) = 0
      BY <1>1, FS_EmptySet DEF AccountantInv
    <2>4. Cardinality(Asking(r)) \in Nat
      BY FiniteBatch
    <2> QED BY <1>1, <2>1, <2>2, <2>3, <2>4 DEF Accounted
  <1>5. \A r \in Requests : Cardinality(Asking(r)) \in Nat
    BY FiniteBatch
  <1>6. CountInv'
    <2> SUFFICES ASSUME NEW r \in Requests
                 PROVE  Accounted(r)' <= Cardinality(Asking(r) \cap waiting)
      BY <1>1 DEF CountInv, Asking
    <2> QED BY <1>3, <1>4, <1>5 DEF CountInv
  <1>7. AccountantInv'
    BY <1>1, <1>2 DEF BatchRequests, AccountantInv, Orders
  <1>8. ServedInv'
    <2>1. \A r \in Acquire : Cardinality(Asking(r)') <= Accounted(r)'
      BY <1>1, <1>2, <1>4, <1>5 DEF Asking
    <2> QED BY <1>1, <1>2, <2>1 DEF ServedInv, Keys
  <1> QED BY <1>6, <1>7, <1>8

LEMMA AcquireMinCount ==
    ASSUME CountingInv, AcquireMin
    PROVE  CountInv' /\ AccountantInv' /\ ServedInv'
  <1> USE DEF CountingInv, BatchInv
  <1>1. PICK r \in Requests : r = order[at]
    BY RequestsOfBatch DEF AcquireMin, OrderInv
  <1>2. r.parent \in Parents
    BY RequestsOfBatch
  <1>3. /\ phase = "min" /\ phase' = "min"
        /\ UNCHANGED <<request, useCache, order, waiting>>
        /\ counts' = [counts EXCEPT ![r] = @ - GetMinDuts(r)]
        /\ IF GetMinDuts(r) > 0 THEN AcquireHosts(r, GetMinDuts(r)) ELSE NoHosts
    BY <1>1 DEF AcquireMin
  <1>4. PICK n \in Nat : n = GetMinDuts(r) /\ n <= counts[r]
    BY <1>2 DEF GetMinDuts, Least, TypeOK
  <1>5. Owed(r) = Owed(r)' + n
    <2>1. Owed(r) = counts[r] /\ Owed(r)' = counts[r] - n /\ counts[r] \in Nat
      BY <1>3, <1>4 DEF Owed, TypeOK
    <2> QED BY <1>4, <2>1
  <1>6. \A s \in Requests \ {r} : Owed(s)' = Owed(s)
    BY <1>3, <1>4 DEF Owed, TypeOK
  <1>7. AcquireHosts(r, n) \/ (n = 0 /\ NoHosts)
    BY <1>3, <1>4
  <1>8. TypeOK'
    BY AcquireMinStep
  <1> QED BY <1>3, <1>5, <1>6, <1>7, <1>8, PassStep

LEMMA AcquireRestCount ==
    ASSUME CountingInv, AcquireRest
    PROVE  CountInv' /\ AccountantInv' /\ ServedInv'
  <1> USE DEF CountingInv, BatchInv
  <1>1. PICK r \in Requests : r = order[at]
    BY RequestsOfBatch DEF AcquireRest, OrderInv
  <1>2. /\ phase = "rest" /\ phase' = "rest" /\ at \in DOMAIN order /\ at' = at + 1
        /\ UNCHANGED <<request, useCache, order, waiting, counts>>
        /\ IF counts[r] > 0 THEN AcquireHosts(r, counts[r]) ELSE NoHosts
    BY <1>1 DEF AcquireRest
  <1>3. counts[r] \in Nat /\ (AcquireHosts(r, counts[r]) \/ (counts[r] = 0 /\ NoHosts))
    BY <1>2 DEF TypeOK
  <1>4. /\ DOMAIN order \subseteq Nat /\ at \in Nat
        /\ \A i, j \in DOMAIN order : i # j => order[i] # order[j]
    BY <1>2, OrderLists DEF AccountantInv, TypeOK
  <1>5. Owed(r) = counts[r] /\ Owed(r)' = 0
    <2>1. Owed(r) = counts[r]
      BY <1>1, <1>2, <1>4 DEF Owed
    <2>2. ~ \E i \in DOMAIN order : i >= at + 1 /\ order[i] = r
      BY <1>1, <1>2, <1>4
    <2> QED BY <1>2, <2>1, <2>2 DEF Owed
  <1>6. \A s \in Requests \ {r} : Owed(s)' = Owed(s)
    <2> SUFFICES ASSUME NEW s \in Requests \ {r} PROVE Owed(s)' = Owed(s)
      OBVIOUS
    <2>1. (\E i \in DOMAIN order : i >= at /\ order[i] = s) <=>
          (\E i \in DOMAIN order : i >= at + 1 /\ order[i] = s)
      <3>1. \A i \in DOMAIN order : order[i] = s => (i >= at <=> i >= at + 1)
        BY <1>1, <1>4
      <3> QED BY <3>1
    <2> QED BY <1>2, <2>1 DEF Owed
  <1>7. Owed(r) = Owed(r)' + counts[r]
    BY <1>3, <1>5
  <1>8. TypeOK'
    BY AcquireRestStep
  <1>9. PICK n \in Nat : n = counts[r]
    BY <1>3
  <1> QED BY <1>2, <1>3, <1>6, <1>7, <1>8, <1>9, PassStep

\* The second pass is owed what the first has left.
LEMMA EndMinCount ==
    ASSUME CountingInv, EndMin
    PROVE  CountInv' /\ AccountantInv' /\ ServedInv'
  <1> USE DEF CountingInv, BatchInv
  <1>1. /\ phase = "min" /\ phase' = "rest" /\ at' = 1
        /\ UNCHANGED <<request, useCache, leased, order, counts, cache, response, waiting>>
    BY DEF EndMin
  <1>2. Acquire' = Acquire /\ Acquire \subseteq Requests
    BY <1>1, RequestsOfBatch DEF Acquire, Validation, Distinct
  <1>3. \A i \in DOMAIN order : i \in Nat /\ i >= 1
    BY <1>1, OrderLists DEF AccountantInv
  <1>4. \A r \in Acquire : \E i \in DOMAIN order : order[i] = r
    BY <1>1, OrderLists DEF AccountantInv
  <1>5. \A r \in Requests : Owed(r)' \in {0, Owed(r)}
    BY <1>1 DEF Owed
  <1>6. \A r \in Acquire : Owed(r)' = Owed(r)
    BY <1>1, <1>3, <1>4 DEF Owed
  <1>7. CountInv'
    <2> SUFFICES ASSUME NEW r \in Requests
                 PROVE  Cardinality(response[r]) + Owed(r)' <= Cardinality(Asking(r) \cap waiting)
      BY <1>1 DEF CountInv, Accounted, Asking
    <2>1. /\ Cardinality(response[r]) \in Nat /\ Owed(r) \in Nat
          /\ Cardinality(Asking(r) \cap waiting) \in Nat
      BY FiniteCounts
    <2>2. Cardinality(response[r]) + Owed(r) <= Cardinality(Asking(r) \cap waiting)
      BY DEF CountInv, Accounted
    <2>3. Owed(r)' \in {0, Owed(r)}
      BY <1>5
    <2> QED BY <2>1, <2>2, <2>3
  <1>8. AccountantInv'
    BY <1>1, <1>2 DEF AccountantInv, Orders
  <1>9. ServedInv'
    <2>1. \A r \in Acquire : Accounted(r)' = Accounted(r) /\ Asking(r)' = Asking(r)
      BY <1>1, <1>6 DEF Accounted, Asking
    <2>2. \A r \in Acquire : FindHosts(r)' \subseteq FindHosts(r)
      BY <1>1, <1>2, FindHostsShrinks
    <2>3. ASSUME ~useCache
          PROVE  \A r \in Acquire : FindHosts(r)' = {} \/ Cardinality(Asking(r)') <= Accounted(r)'
      BY <1>1, <2>1, <2>2, <2>3 DEF ServedInv
    <2> QED BY <1>1, <1>2, <2>3 DEF ServedInv, Keys
  <1> QED BY <1>7, <1>8, <1>9

\* After the second pass nothing is owed any more.
LEMMA CheckResponseMapCount ==
    ASSUME CountingInv, CheckResponseMap
    PROVE  CountInv' /\ AccountantInv' /\ ServedInv'
  <1> USE DEF CountingInv, BatchInv
  <1>1. phase' = "reply"
    BY CheckResponseMapStep DEF CheckResponseMap
  <1>2. /\ phase = "rest" /\ at \notin DOMAIN order /\ waiting = Entries
        /\ UNCHANGED <<request, useCache, leased, order, at, counts, cache, response, waiting>>
    BY DEF CheckResponseMap, accVars, ReplyInv
  <1>3. Acquire' = Acquire /\ Acquire \subseteq Requests
    BY <1>2, RequestsOfBatch DEF Acquire, Validation, Distinct
  <1>4. ~ \E i \in DOMAIN order : i >= at
    BY <1>2, OrderLists DEF AccountantInv, TypeOK
  <1>5. \A r \in Requests : Owed(r) = 0 /\ Owed(r)' = 0
    BY <1>1, <1>2, <1>4 DEF Owed
  <1>6. \A r \in Requests : Accounted(r)' = Accounted(r) /\ Asking(r)' = Asking(r)
    BY <1>2, <1>5 DEF Accounted, Asking
  <1>7. CountInv'
    BY <1>2, <1>6 DEF CountInv
  <1>8. AccountantInv'
    BY <1>1 DEF AccountantInv
  <1>9. ServedInv'
    <2>1. \A r \in Acquire : FindHosts(r)' \subseteq FindHosts(r)
      BY <1>2, <1>3, FindHostsShrinks
    <2>2. ASSUME ~useCache
          PROVE  \A r \in Acquire : FindHosts(r)' = {} \/ Cardinality(Asking(r)') <= Accounted(r)'
      BY <1>2, <1>3, <1>6, <2>1, <2>2 DEF ServedInv
    <2> QED BY <1>2, <1>3, <2>2 DEF ServedInv, Keys
  <1> QED BY <1>7, <1>8, <1>9

\* An entry that gets a host stops waiting for it.
LEMMA ReplyCount ==
    ASSUME CountingInv, NEW e \in Entries, Reply(e)
    PROVE  CountInv' /\ AccountantInv' /\ ServedInv'
  <1> USE DEF CountingInv, BatchInv
  <1>1. PICK r \in Requests : r = request[e]
    BY DEF TypeOK
  <1>2. /\ phase = "reply" /\ phase' = "reply" /\ e \in waiting /\ waiting' = waiting \ {e}
        /\ UNCHANGED <<request, useCache, leased, cache>>
        /\ \/ response[r] = {} /\ response' = response
           \/ \E h \in response[r] : response' = [response EXCEPT ![r] = @ \ {h}]
    BY <1>1 DEF Reply
  <1>3. \A s \in Requests : Owed(s)' = 0 /\ Owed(s) = 0 /\ Asking(s)' = Asking(s)
    BY <1>2 DEF Owed, Asking
  <1>4. CountInv'
    <2> SUFFICES ASSUME NEW s \in Requests
                 PROVE  Cardinality(response'[s]) + 0 <= Cardinality(Asking(s) \cap waiting')
      BY <1>3 DEF CountInv, Accounted
    <2>1. /\ IsFiniteSet(response[s]) /\ Cardinality(response[s]) \in Nat
          /\ IsFiniteSet(Asking(s) \cap waiting)
          /\ Cardinality(Asking(s) \cap waiting) \in Nat
      BY FiniteCounts
    <2>2. Cardinality(response[s]) + 0 <= Cardinality(Asking(s) \cap waiting)
      BY <1>3 DEF CountInv, Accounted
    <2>3. Asking(s) \cap waiting' = (Asking(s) \cap waiting) \ {e}
      BY <1>2
    <2>4. Cardinality(Asking(s) \cap waiting') = IF e \in Asking(s) \cap waiting
              THEN Cardinality(Asking(s) \cap waiting) - 1 ELSE Cardinality(Asking(s) \cap waiting)
      BY <2>1, <2>3, FS_RemoveElement
    <2>5. CASE s # r
      <3>1. response'[s] = response[s]
        BY <1>2, <2>5 DEF TypeOK
      <3>2. e \notin Asking(s)
        BY <1>1, <2>5 DEF Asking
      <3> QED BY <2>2, <2>4, <3>1, <3>2
    <2>6. CASE s = r /\ response[r] = {} /\ response' = response
      <3>1. Cardinality(response'[s]) = 0
        BY <2>6, FS_EmptySet
      <3>2. Cardinality(Asking(s) \cap waiting') \in Nat
        <4>1. IsFiniteSet(Asking(s) \cap waiting')
          BY <2>1, <2>3, FS_RemoveElement
        <4> QED BY <4>1, FS_CardinalityType
      <3> QED BY <3>1, <3>2
    <2>7. CASE s = r /\ \E h \in response[r] : response' = [response EXCEPT ![r] = @ \ {h}]
      <3>1. PICK h \in response[s] : response'[s] = response[s] \ {h}
        BY <2>7 DEF TypeOK
      <3>2. Cardinality(response'[s]) = Cardinality(response[s]) - 1
        BY <2>1, <3>1, FS_RemoveElement
      <3>3. e \in Asking(s) \cap waiting
        BY <1>1, <1>2, <2>7 DEF Asking
      <3> QED BY <2>1, <2>2, <2>4, <3>2, <3>3
    <2> QED BY <1>2, <2>5, <2>6, <2>7
  <1>5. AccountantInv'
    BY <1>2 DEF AccountantInv
  <1>6. ServedInv'
    BY <1>2 DEF ServedInv, Keys
  <1> QED BY <1>4, <1>5, <1>6

LEMMA StepCount ==
    ASSUME CountingInv, [Next]_vars
    PROVE  CountingInv'
  <1>1. BatchInv'
    BY StepInv DEF CountingInv
  <1>2. CASE Next
    <2>1. CountInv' /\ AccountantInv' /\ ServedInv'
      BY <1>2, BatchGetHostsCount, BatchValidateHostsCount, BatchRequestsCount, AcquireMinCount,
         EndMinCount, AcquireRestCount, CheckResponseMapCount, ReplyCount DEF Next
    <2> QED BY <1>1, <2>1 DEF CountingInv
  <1>3. CASE UNCHANGED vars
    <2> USE <1>3 DEF vars, accVars
    <2>1. CountInv'
      BY DEF CountingInv, CountInv, Accounted, Owed, Asking
    <2>2. AccountantInv'
      BY DEF CountingInv, AccountantInv, Orders, Acquire, Validation, Distinct
    <2>3. ServedInv'
      BY DEF CountingInv, ServedInv, FindHosts, Available, AclMatch, LabelMatch, Accounted, Owed,
             Asking, Acquire, Validation, Distinct, Keys
    <2> QED BY <1>1, <2>1, <2>2, <2>3 DEF CountingInv
  <1> QED BY <1>2, <1>3

-----------------------------------------------------------------------------
(* Theorems.                                                               *)

LEMMA CountingInvariance == Spec => []CountingInv
  BY InitCount, StepCount, PTL DEF Spec

\* No host stays leased for nobody: when all entries are answered no response
\* holds a host, whatever the cache has offered and the two passes have leased.
THEOREM NoHostLeaks == Spec => []NothingLeaks
  <1>1. CountingInv => NothingLeaks
    <2> SUFFICES ASSUME CountingInv, waiting = {}, NEW r \in Requests
                 PROVE  response[r] = {}
      BY DEF NothingLeaks, InTransit
    <2>1. /\ IsFiniteSet(response[r]) /\ Cardinality(response[r]) \in Nat /\ Owed(r) \in Nat
      BY FiniteCounts DEF CountingInv, BatchInv
    <2>2. Cardinality(Asking(r) \cap waiting) = 0
      <3>1. Asking(r) \cap waiting = {}
        OBVIOUS
      <3> QED BY <3>1, FS_EmptySet
    <2>3. Cardinality(response[r]) + Owed(r) <= 0
      BY <2>2 DEF CountingInv, CountInv, Accounted
    <2>4. Cardinality(response[r]) = 0
      BY <2>1, <2>3
    <2> QED BY <2>1, <2>4, FS_EmptySet
  <1> QED BY <1>1, CountingInvariance, PTL

\* Without the cache a batch leaves no host free that an unserved entry could use.
THEOREM UncachedServes == Spec => []UncachedServesAll
  <1>1. CountingInv => UncachedServesAll
    <2> SUFFICES ASSUME CountingInv, ~useCache, phase = "reply", waiting = Entries,
                        NEW r \in Acquire, Short(r)
                 PROVE  FindHosts(r) = {}
      BY DEF UncachedServesAll
    <2>1. r \in Requests
      BY RequestsOfBatch DEF CountingInv, BatchInv
    <2>2. Cardinality(response[r]) \in Nat /\ Cardinality(Asking(r)) \in Nat
      BY <2>1, FiniteCounts, FiniteBatch DEF CountingInv, BatchInv
    <2>3. Accounted(r) = Cardinality(response[r]) + 0
      BY DEF Accounted, Owed
    <2>4. Accounted(r) < Cardinality(Asking(r))
      BY <2>2, <2>3 DEF Short
    <2>5. Accounted(r) \in Nat
      BY <2>2, <2>3
    <2> QED BY <2>2, <2>4, <2>5 DEF CountingInv, ServedInv
  <1> QED BY <1>1, CountingInvariance, PTL

\* Without the cache the second pass gives no host away that a more urgent
\* request wants: by then that request has had its turn.
THEOREM UncachedUrgentFirst == Spec => UncachedKeepsPriority
  <1>1. CountingInv /\ [Next]_vars =>
          (~useCache /\ phase = "rest" =>
             \A h \in leased' \ leased, r \in Acquire :
                 r.priority > order[at].priority /\ Short(r) => h \notin Suits(r))
    <2> SUFFICES ASSUME CountingInv, [Next]_vars, ~useCache, phase = "rest",
                        NEW h \in leased' \ leased, NEW r \in Acquire,
                        r.priority > order[at].priority, Short(r)
                 PROVE  h \notin Suits(r)
      OBVIOUS
    <2> USE DEF CountingInv, BatchInv
    <2>1. AcquireRest
      BY DEF Next, vars, BatchGetHosts, BatchValidateHosts, BatchRequests, AcquireMin, EndMin,
             CheckResponseMap, Reply
    <2>2. PICK q \in Requests : q = order[at] /\ at \in DOMAIN order
      BY <2>1, RequestsOfBatch DEF AcquireRest, OrderInv
    <2>3. r \in Requests /\ r.host = None
      BY RequestsOfBatch
    <2>4. Suits(r) \subseteq Hosts \ (Locked \cup Invalid) /\ FindHosts(r) = Suits(r) \ leased
      BY <2>3, FindMatching DEF Matching
    <2>5. ~ \E i \in DOMAIN order : i >= at /\ order[i] = r
      <3> SUFFICES ASSUME NEW i \in DOMAIN order, i >= at, order[i] = r PROVE FALSE
        OBVIOUS
      <3>1. i \in Nat /\ at \in Nat /\ order \in Orders
        BY <2>2, OrderLists DEF AccountantInv
      <3>2. q.priority \in Nat /\ r.priority \in Nat /\ r.priority > q.priority
        BY <2>2, <2>3, RdbAssumption
      <3>3. i # at
        BY <2>2, <3>2
      <3>4. at < i
        BY <3>1, <3>3
      <3>5. ~Before(r, q)
        BY <2>2, <3>1, <3>4 DEF Orders
      <3> QED BY <3>2, <3>5 DEF Before
    <2>6. Accounted(r) = Cardinality(response[r]) + 0
      BY <2>5 DEF Accounted, Owed
    <2>7. Cardinality(response[r]) \in Nat /\ Cardinality(Asking(r)) \in Nat
      BY <2>3, FiniteCounts, FiniteBatch
    <2>8. ~(Cardinality(Asking(r)) <= Accounted(r))
      BY <2>6, <2>7 DEF Short
    <2>9. FindHosts(r) = {}
      BY <2>8 DEF ServedInv
    <2> QED BY <2>4, <2>9
  <1> QED BY <1>1, CountingInvariance, PTL DEF Spec, UncachedKeepsPriority
=============================================================================
