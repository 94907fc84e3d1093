-------------------------- MODULE MCShardHeartbeat --------------------------
(***************************************************************************)
(* Small instances of ShardHeartbeat.                                      *)
(***************************************************************************)
EXTENDS ShardHeartbeat

CONSTANTS j1, j2, j3, e1, e2, e3, h1

\* jobs with an entry each, or one job with two entries
OwnJob  == [e \in Entries |-> IF e = e1 THEN j1 ELSE IF e = e2 THEN j2 ELSE j3]
OneJob  == [e \in Entries |-> j1]
\* a job that may be aborted, or a host, with failures; two jobs without
SomeLoads == {[jobs |-> {j1}, hosts |-> {}, failures |-> 0],
              [jobs |-> {}, hosts |-> Hosts, failures |-> 0],
              [jobs |-> {j2, j3}, hosts |-> {}, failures |-> MaxFailures]}
NoFailures == {[jobs |-> Jobs, hosts |-> Hosts, failures |-> MaxFailures]}

=============================================================================
