--------------------------- MODULE HostAcquisition ---------------------------
(***************************************************************************)
(* What the rdb promises the host scheduler: queue entries that asked for  *)
(* a host receive free hosts that suit them, each host going to one entry, *)
(* which leases it.  JobScheduler takes exactly this for granted.          *)
(***************************************************************************)
CONSTANTS Hosts, Entries, None

VARIABLES
    suits,    \* the hosts an entry could run on
    leased,   \* the hosts that are taken
    answer    \* the host an entry was given

vars == <<suits, leased, answer>>

Init ==
    /\ suits \in [Entries -> SUBSET Hosts]
    /\ leased \in SUBSET Hosts
    /\ answer = [e \in Entries |-> None]

\* acquire_hosts yields a host for an entry
Grant(e, h) ==
    /\ answer[e] = None
    /\ h \in suits[e] \ leased
    /\ answer' = [answer EXCEPT ![e] = h]
    /\ leased' = leased \cup {h}
    /\ UNCHANGED suits

Next == \E e \in Entries, h \in Hosts : Grant(e, h)

Spec == Init /\ [][Next]_vars
=============================================================================
