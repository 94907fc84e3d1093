--------------------------------- MODULE Rdb ---------------------------------
(***************************************************************************)
(* One batch of host requests in the rdb (scheduler/rdb.py): the host      *)
(* scheduler asks for hosts on behalf of queue entries, and the rdb        *)
(* validates the requests that name a host, then serves the others twice,  *)
(* once for the minimum of each suite and once for the rest, from a cache  *)
(* of matching hosts.  A cached host may have been leased for a request    *)
(* with another cache key meanwhile; only lease() looks at the database.   *)
(* Entries with equal requests share one request, which is counted.        *)
(***************************************************************************)
EXTENDS Integers, Sequences, FiniteSets

CONSTANTS
    Hosts, Entries, None,
    Labels,      \* labels of a host
    Acls,        \* ACL groups of a host
    Locked,      \* hosts locked by a user
    Invalid,     \* one-time hosts
    OnShard,     \* hosts of shards, in the rdb of the master
    Requests,    \* the requests an entry may make
    CacheModes   \* values of RDB/use_cache

ASSUME RdbAssumption ==
    /\ None \notin Hosts
    /\ IsFiniteSet(Hosts) /\ IsFiniteSet(Entries)
    /\ Locked \subseteq Hosts /\ Invalid \subseteq Hosts /\ OnShard \subseteq Hosts
    /\ CacheModes \subseteq BOOLEAN
    /\ \A r \in Requests : /\ r.host \in Hosts \cup {None}
                           /\ r.priority \in Nat /\ r.parent \in Nat /\ r.minDuts \in Nat
    \* get_job_info looks the minimum up by suite
    /\ \A r, s \in Requests : r.parent = s.parent => r.minDuts = s.minDuts

Parents == {r.parent : r \in Requests}
Keys    == {<<r.deps, r.acls>> : r \in Requests}
Key(r)  == <<r.deps, r.acls>>

VARIABLES
    request,    \* what each entry asks for
    useCache,   \* the configuration
    leased,     \* the leased column of afe_hosts
    phase,      \* how far rdb_host_request_dispatcher has come
    todo,       \* validation requests not looked at yet
    order,      \* RequestAccountant.requests
    at,         \* the place in it
    counts,     \* RequestAccountant.requests_to_counts
    minDuts,    \* RequestAccountant.min_duts_map
    cache,      \* lines of the cache; a missing line acts like an empty one
    response,   \* response_map; a request without an entry has no hosts
    waiting,    \* entries whose response has not been yielded
    answer      \* what was yielded for the others

accVars == <<order, at, counts, minDuts>>
vars == <<request, useCache, leased, phase, todo, accVars, cache, response, waiting, answer>>

Distinct   == {request[e] : e \in Entries}
Validation == {r \in Distinct : r.host # None}
Acquire    == Distinct \ Validation
Asking(r)  == {e \in Entries : request[e] = r}

TypeOK ==
    /\ request \in [Entries -> Requests]
    /\ useCache \in BOOLEAN
    /\ leased \subseteq Hosts
    /\ phase \in {"get", "validate", "min", "rest", "raised", "reply"}
    /\ todo \subseteq Validation
    /\ order \in Seq(Requests) /\ at \in Nat \ {0}
    /\ counts \in [Requests -> Nat]
    /\ minDuts \in [Parents -> Nat]
    /\ cache \in [Keys -> SUBSET Hosts]
    /\ response \in [Requests -> SUBSET Hosts]
    /\ waiting \subseteq Entries
    /\ answer \in [Entries -> Hosts \cup {None}]

Init ==
    /\ request \in [Entries -> Requests]
    /\ useCache \in CacheModes
    /\ leased \in SUBSET Hosts
    /\ phase = "get"
    /\ todo = {}
    /\ order = <<>> /\ at = 1
    /\ counts = [r \in Requests |-> 0]
    /\ minDuts = [p \in Parents |-> 0]
    /\ cache = [k \in Keys |-> {}]
    /\ response = [r \in Requests |-> {}]
    /\ waiting = Entries
    /\ answer = [e \in Entries |-> None]

-----------------------------------------------------------------------------
\* the query managers see unleased and unlocked hosts only
Available == Hosts \ (leased \cup Locked)

AclMatch(r, h)   == r.acls \cap Acls[h] # {}
LabelMatch(r, h) == r.deps \subseteq Labels[h]

\* batch_get_hosts: every request for an available host gets it, provisionally
BatchGetHosts ==
    /\ phase = "get"
    /\ response' = [r \in Requests |->
                      IF r \in Validation /\ r.host \in Available THEN {r.host} ELSE {}]
    /\ todo' = {r \in Validation : r.host \in Available}
    /\ phase' = "validate"
    /\ UNCHANGED <<request, useCache, leased, accVars, cache, waiting, answer>>

\* mutant: the lease of an earlier request is not looked at
ValidHostAssignmentLeased(r) ==
    r.host \notin OnShard /\ (AclMatch(r, r.host) \/ r.host \in Invalid) /\ LabelMatch(r, r.host)

\* valid_host_assignment, on the master
ValidHostAssignment(r) ==
    /\ r.host \notin OnShard \cup leased
    /\ AclMatch(r, r.host) \/ r.host \in Invalid
    /\ LabelMatch(r, r.host)

\* the next request by priority is granted its host or dropped
BatchValidateHosts(r) ==
    /\ phase = "validate"
    /\ r \in todo
    /\ \A s \in todo : s.priority <= r.priority
    /\ todo' = todo \ {r}
    /\ IF ValidHostAssignment(r)
       THEN leased' = leased \cup {r.host} /\ UNCHANGED response
       ELSE response' = [response EXCEPT ![r] = {}] /\ UNCHANGED leased
    /\ UNCHANGED <<request, useCache, phase, accVars, cache, waiting, answer>>

-----------------------------------------------------------------------------
\* mutant: sorted without reverse=True
BeforeAscending(r, s) == r.priority < s.priority

\* _batch_requests sorts by priority, then jobs without a suite and old suites
Before(r, s) == r.priority > s.priority \/ (r.priority = s.priority /\ r.parent < s.parent)

Orders == {f \in [1..Cardinality(Acquire) -> Acquire] :
              \A i, j \in DOMAIN f : i < j => f[i] # f[j] /\ ~Before(f[j], f[i])}

\* RequestAccountant.__init__
BatchRequests ==
    /\ phase = "validate" /\ todo = {}
    /\ order' \in Orders
    /\ at' = 1
    /\ counts' = [r \in Requests |-> IF r \in Acquire THEN Cardinality(Asking(r)) ELSE 0]
    /\ minDuts' = [p \in Parents |-> LET ofSuite == {r \in Acquire : r.parent = p} IN
                     IF p = 0 \/ ofSuite = {} THEN 0 ELSE (CHOOSE r \in ofSuite : TRUE).minDuts]
    /\ phase' = "min"
    /\ UNCHANGED <<request, useCache, leased, todo, cache, response, waiting, answer>>

Least(m, n) == IF m < n THEN m ELSE n

\* find_hosts
FindHosts(r) == {h \in Available \ Invalid : AclMatch(r, h) /\ LabelMatch(r, h)}

\* the cached line; a miss and an empty line send _acquire_hosts to the database
Line(r) == IF cache[Key(r)] = {} THEN FindHosts(r) ELSE cache[Key(r)]

Preferred(r, h) == Cardinality(r.preferred \cap Labels[h])

\* mutant: one host per request, however many entries it stands for
FirstHostsSingle(r, n) == {{h} : h \in Line(r)} \cup (IF Line(r) = {} THEN {{}} ELSE {})

\* the first n hosts of a line sorted by preferred labels
FirstHosts(r, n) ==
    {try \in SUBSET Line(r) :
        /\ Cardinality(try) = Least(n, Cardinality(Line(r)))
        /\ \A h \in try, g \in Line(r) \ try : Preferred(r, h) >= Preferred(r, g)}

\* mutant: lease() trusts the leased bit of the cached host
LeaseHostsTrusting(hosts) == hosts

\* lease_hosts: lease() rereads the leased bit and raises if it is set
LeaseHosts(hosts) == hosts \ leased

\* mutant: one host too many is cut off the line
SetLineShort(k, hosts) ==
    IF useCache /\ hosts # {} THEN [cache EXCEPT ![k] = hosts \ {CHOOSE h \in hosts : TRUE}]
    ELSE cache

\* set_line; the hosts passed the checks of _check_line when they were queried,
\* and the leased bits it looks at are as old as that query
SetLine(k, hosts) == IF useCache THEN [cache EXCEPT ![k] = hosts] ELSE cache

\* _acquire_hosts: what is leased of the hosts tried is the response; tried
\* hosts are evicted and the rest of the line is cached
AcquireHosts(r, n) ==
    \E try \in FirstHosts(r, n) :
        /\ leased' = leased \cup try
        /\ response' = [response EXCEPT ![r] = @ \cup LeaseHosts(try)]
        /\ cache' = SetLine(Key(r), Line(r) \ try)

NoHosts == UNCHANGED <<leased, response, cache>>

\* mutant: the number of entries does not matter
GetMinDutsAll(r) == minDuts[r.parent]

\* get_min_duts: what its suite lacks, for as many entries as make the request
GetMinDuts(r) == Least(counts[r], minDuts[r.parent])

\* mutant: hosts of the first pass are asked for again in the second
AcquireMinUncounted ==
    /\ phase = "min" /\ at \in DOMAIN order
    /\ LET r == order[at] IN
         /\ minDuts' = [minDuts EXCEPT ![r.parent] = @ - GetMinDuts(r)]
         /\ IF GetMinDuts(r) > 0 THEN AcquireHosts(r, GetMinDuts(r)) ELSE NoHosts
    /\ at' = at + 1
    /\ UNCHANGED <<request, useCache, phase, todo, order, counts, waiting, answer>>

\* the first pass
AcquireMin ==
    /\ phase = "min"
    /\ at \in DOMAIN order
    /\ LET r == order[at] IN
         /\ counts' = [counts EXCEPT ![r] = @ - GetMinDuts(r)]
         /\ minDuts' = [minDuts EXCEPT ![r.parent] = @ - GetMinDuts(r)]
         /\ IF GetMinDuts(r) > 0 THEN AcquireHosts(r, GetMinDuts(r)) ELSE NoHosts
    /\ at' = at + 1
    /\ UNCHANGED <<request, useCache, phase, todo, order, waiting, answer>>

EndMin ==
    /\ phase = "min"
    /\ at \notin DOMAIN order
    /\ at' = 1
    /\ phase' = "rest"
    /\ UNCHANGED <<request, useCache, leased, todo, order, counts, minDuts, cache, response,
                   waiting, answer>>

\* get_duts and the second pass
AcquireRest ==
    /\ phase = "rest"
    /\ at \in DOMAIN order
    /\ LET r == order[at] IN
         IF counts[r] > 0 THEN AcquireHosts(r, counts[r]) ELSE NoHosts
    /\ at' = at + 1
    /\ UNCHANGED <<request, useCache, phase, todo, order, counts, minDuts, waiting, answer>>

\* get_response; hosts are compared by identity, and only validation requests
\* share the host objects of one query
CheckResponseMap ==
    /\ phase = "rest"
    /\ at \notin DOMAIN order
    /\ phase' = IF \E r, s \in Validation : r # s /\ response[r] \cap response[s] # {}
                THEN "raised" ELSE "reply"
    /\ UNCHANGED <<request, useCache, leased, todo, accVars, cache, response, waiting, answer>>

\* BaseHostRequestManager.response pops a host for each entry in turn
Reply(e) ==
    LET r == request[e] IN
    /\ phase = "reply"
    /\ e \in waiting
    /\ waiting' = waiting \ {e}
    /\ IF response[r] = {} THEN UNCHANGED <<response, answer>>
       ELSE \E h \in response[r] : /\ response' = [response EXCEPT ![r] = @ \ {h}]
                                   /\ answer' = [answer EXCEPT ![e] = h]
    /\ UNCHANGED <<request, useCache, leased, phase, todo, accVars, cache>>

Next ==
    \/ BatchGetHosts \/ BatchRequests \/ AcquireMin \/ EndMin \/ AcquireRest
    \/ CheckResponseMap
    \/ \E r \in Requests : BatchValidateHosts(r)
    \/ \E e \in Entries : Reply(e)

Spec == Init /\ [][Next]_vars

-----------------------------------------------------------------------------
(* Properties.                                                             *)

\* the hosts that fit a request, leased or not
Suits(r) ==
    IF r.host = None
    THEN {h \in Hosts \ (Locked \cup Invalid) : AclMatch(r, h) /\ LabelMatch(r, h)}
    ELSE {h \in {r.host} \ (Locked \cup OnShard) :
             (AclMatch(r, h) \/ h \in Invalid) /\ LabelMatch(r, h)}

\* hosts of responses that no entry has received yet
InTransit == UNION {response[r] : r \in Requests}

Promise == INSTANCE HostAcquisition
           WITH suits <- [e \in Entries |-> Suits(request[e])], leased <- leased \ InTransit

\* The batch implements the promise the host scheduler builds on: every host it
\* yields was free, suits the entry and goes to no other entry, although cached
\* lines offer hosts that were leased meanwhile.
PromiseKept == Promise!Spec

\* _check_response_map: "we never give the same host to different requests", in
\* either pass or from the validation, so that get_response never raises after
\* hosts were leased.
NoHostTwice ==
    /\ phase # "raised"
    /\ phase \in {"min", "rest", "reply"} =>
          \A r, s \in Requests : r # s => response[r] \cap response[s] = {}

\* A host the batch leases reaches an entry: neither pass leases more hosts for a
\* request than there are entries to pop them, and nobody would unlease them soon.
NothingLeaks == waiting = {} => InTransit = {}

\* Evicting tried hosts from a line and caching the rest loses no free host: a
\* later hit still sees every host the database would return.
CacheHidesNothing ==
    \A r \in Requests : cache[Key(r)] # {} => FindHosts(r) \subseteq cache[Key(r)]

Short(r) == Cardinality(response[r]) < Cardinality(Asking(r))

\* Without the cache a batch leaves no host idle that an unserved entry could use,
\* the requests that failed in the first pass included.
UncachedServesAll ==
    ~useCache /\ phase = "reply" /\ waiting = Entries =>
        \A r \in Acquire : Short(r) => FindHosts(r) = {}

\* _batch_requests: the order "ensures against priority inversion".  Without the
\* cache the second pass gives nothing away that a more urgent request wants.
UncachedKeepsPriority ==
    [][~useCache /\ phase = "rest" =>
          \A h \in leased' \ leased, r \in Acquire :
              r.priority > order[at].priority /\ Short(r) => h \notin Suits(r)]_vars
=============================================================================
