--------------------------- MODULE ShardHeartbeat ---------------------------
(***************************************************************************)
(* A shard runs the jobs and hosts of some boards with a scheduler and a   *)
(* database of its own.  Its shard client repeats one RPC, shard_heartbeat: *)
(* the request uploads the jobs that ended on the shard, the answer brings *)
(* the jobs and hosts the master assigns to it.                            *)
(*                                                                         *)
(* Five actors meet in two databases: on the master the frontend, the      *)
(* scheduler and the RPC handler, on the shard the shard client and the    *)
(* scheduler.  The request or the answer may be lost, and a request the    *)
(* client has given up may be handled later, next to a newer one.          *)
(*                                                                         *)
(* There is one shard.  Boards with one host each are given to the shard   *)
(* and taken from it; the board of the jobs stays with it.                 *)
(***************************************************************************)
EXTENDS Naturals, FiniteSets

CONSTANTS
    Jobs,
    Entries,       \* host queue entries
    JobOf,         \* Entries -> Jobs
    Hosts,
    Statuses,      \* what afe_hosts.status can be
    InitStatus,    \* the status a host has on the master before the shard gets it
    Loads,         \* what there is at the start: jobs to run, hosts with a board of
                   \* the shard, and how many of the failures have happened
    Abortable,     \* entries a user may abort on the master
    MaxUpload,     \* MAX_UPLOAD_JOBS
    MaxFailures,   \* bound: failed heartbeats and crashes of the shard client
    None

EntriesOf(j) == {e \in Entries : JobOf[e] = j}

\* a row of afe_host_queue_entries
Final == {"Completed", "Aborted"}
Row   == [status : {"Queued", "Running"} \cup Final,
          active : BOOLEAN, complete : BOOLEAN, aborted : BOOLEAN]

ASSUME ShardAssumption ==
    /\ JobOf \in [Entries -> Jobs]
    /\ None \notin Hosts \cup Statuses \cup Row
    /\ InitStatus \in Statuses
    /\ Loads \subseteq [jobs : SUBSET Jobs, hosts : SUBSET Hosts, failures : 0..MaxFailures]
    /\ MaxUpload \in Nat \ {0}
    /\ MaxFailures \in Nat

VARIABLES
    mHqe,        \* the master's afe_host_queue_entries
    mJobs,       \* jobs whose shard_id on the master is the shard's
    boardHosts,  \* hosts with a board of the shard
    mHosts,      \* hosts whose shard_id on the master is the shard's
    mStatus,     \* status of hosts on the master; None: no such row
    mLeased,     \* hosts whose leased bit is set on the master
    mAborting,   \* the set_status(ABORTED) in progress on the master, or None
    sHqe,        \* the shard's afe_host_queue_entries; None: no such row
    sJob,        \* shard_id of the shard's afe_jobs: "shard", "null", or None: no row
    sHosts,      \* status of hosts on the shard; None: no such row
    sShard,      \* the shard has the row of itself in its afe_shards
    sEnding,     \* the set_status in progress on the shard, or None
    pc,          \* position of the shard client in do_heartbeat
    packet,      \* the heartbeat packet
    answer,      \* what is left of the answer to process
    snap,        \* the rows a deserialization has read, or None
    rpc,         \* the handlers at work on the master: the awaited, an abandoned one
    failures

masterVars == <<mHqe, mJobs, boardHosts, mHosts, mStatus, mLeased, mAborting>>
shardVars  == <<sHqe, sJob, sHosts, sShard, sEnding>>
clientVars == <<pc, packet, answer, snap>>
vars       == <<masterVars, shardVars, clientVars, rpc, failures>>

Rows   == [Entries -> Row \cup {None}]
Known  == [Hosts -> Statuses \cup {None}]
Packet == [known : SUBSET Jobs, hosts : Known, jobs : SUBSET Jobs, rows : Rows]
Answer == [jobs : SUBSET Jobs, rows : Rows, hosts : Known, incorrect : SUBSET Hosts]
Rpc    == [stage : {"jobs", "hosts", "shard", "reread", "incorrect", "select", "assign", "answer"},
           packet : Packet, answer : Answer,
           todo : SUBSET (Jobs \cup Hosts),  \* what persisting has not come to
           row : [job : Jobs, sharded : BOOLEAN]
                 \cup [host : Hosts, leased : BOOLEAN, sharded : BOOLEAN] \cup {None}]
                                              \* the object it has got and not yet saved

\* the hosts a packet is about
KnownHosts(p) == {h \in Hosts : p.hosts[h] # None}

NoRows    == [e \in Entries |-> None]
NoHosts   == [h \in Hosts |-> None]
NoPacket  == [known |-> {}, hosts |-> NoHosts, jobs |-> {}, rows |-> NoRows]
NoAnswer  == [jobs |-> {}, rows |-> NoRows, hosts |-> NoHosts, incorrect |-> {}]
OldRow    == [status |-> "Completed", active |-> FALSE, complete |-> TRUE, aborted |-> FALSE]
NewRow    == [status |-> "Queued", active |-> FALSE, complete |-> FALSE, aborted |-> FALSE]

HandlerOK(r) ==
    /\ r.stage = "jobs" => /\ r.todo \subseteq Jobs
                           /\ r.row \in [job : Jobs, sharded : BOOLEAN] \cup {None}
    /\ r.stage = "hosts" => /\ r.todo \subseteq KnownHosts(r.packet)
                            /\ r.row \in [host : KnownHosts(r.packet), leased : BOOLEAN,
                                          sharded : BOOLEAN] \cup {None}
    /\ r.stage \notin {"jobs", "hosts"} => r.todo = {} /\ r.row = None
HandlersOK == \A x \in {"awaited", "late"} : rpc[x] # None => HandlerOK(rpc[x])

TypeOK ==
    /\ mHqe \in [Entries -> Row]
    /\ mJobs \subseteq Jobs
    /\ mStatus \in Known /\ sHosts \in Known
    /\ boardHosts \cup mHosts \cup mLeased \subseteq {h \in Hosts : mStatus[h] # None}
    /\ mAborting \in [entry : Entries, sharded : BOOLEAN,
                      step : {"status", "shard_id", "complete"}] \cup {None}
    /\ sHqe \in Rows
    /\ sJob \in [Jobs -> {"shard", "null", None}]
    /\ sEnding \in [entry : {e \in Entries : sHqe[e] # None}, isNull : BOOLEAN,
                    step : {"shard_id", "complete"}] \cup {None}
    /\ pc \in {"known", "upload", "rows", "send", "wait", "mark", "hosts", "jobs", "reset"}
    /\ packet \in Packet
    /\ answer \in Answer
    /\ snap \in [job : Jobs, rows : Rows] \cup {None}
    /\ sShard \in BOOLEAN
    /\ rpc \in [{"awaited", "late"} -> Rpc \cup {None}]
    /\ HandlersOK
    /\ failures \in 0..MaxFailures

\* Jobs are queued on the master; the shard is new and knows nothing.
Init ==
    /\ \E load \in Loads :
          /\ mHqe = [e \in Entries |-> IF JobOf[e] \in load.jobs THEN NewRow ELSE OldRow]
          /\ boardHosts = load.hosts
          /\ mStatus = [h \in Hosts |-> IF h \in load.hosts THEN InitStatus ELSE None]
          /\ failures = load.failures
    /\ mJobs = {} /\ mHosts = {} /\ mLeased = {}
    /\ mAborting = None
    /\ sHqe = NoRows
    /\ sJob = [j \in Jobs |-> None]
    /\ sHosts = NoHosts
    /\ sShard = FALSE
    /\ sEnding = None
    /\ pc = "known"
    /\ packet = NoPacket
    /\ answer = NoAnswer
    /\ snap = None
    /\ rpc = [x \in {"awaited", "late"} |-> None]

-----------------------------------------------------------------------------
(* The master's frontend and scheduler.                                    *)

\* abort_host_queue_entries
Abort(e) ==
    /\ e \in Abortable
    /\ ~mHqe[e].complete /\ ~mHqe[e].aborted
    /\ mHqe' = [mHqe EXCEPT ![e].aborted = TRUE]
    /\ UNCHANGED <<mJobs, boardHosts, mHosts, mStatus, mLeased, mAborting, shardVars, clientVars,
                   rpc, failures>>

\* _find_aborting fetches an aborted entry.  One of a job on the shard is left to
\* the shard unless it is an hour beyond its time-out.
FetchAborted(e) ==
    /\ mHqe[e].aborted /\ ~mHqe[e].complete
    /\ mAborting = None
    /\ mAborting' = [entry |-> e, sharded |-> JobOf[e] \in mJobs, step |-> "status"]
    /\ UNCHANGED <<mHqe, mJobs, boardHosts, mHosts, mStatus, mLeased, shardVars, clientVars,
                   rpc, failures>>

FindAborting(e) == JobOf[e] \notin mJobs /\ FetchAborted(e)
AbortAnyway(e)  == JobOf[e] \in mJobs /\ FetchAborted(e)

\* set_status(ABORTED) writes status and active, ...
AbortOnMaster ==
    /\ mAborting # None /\ mAborting.step = "status"
    /\ mHqe' = [mHqe EXCEPT ![mAborting.entry] = [@ EXCEPT !.status = "Aborted", !.active = FALSE]]
    /\ mAborting' = [mAborting EXCEPT !.step = "shard_id"]
    /\ UNCHANGED <<mJobs, boardHosts, mHosts, mStatus, mLeased, shardVars, clientVars, rpc, failures>>

\* ... then, by the shard_id as it was fetched, shard_id, ...
UnshardOnMaster ==
    /\ mAborting # None /\ mAborting.step = "shard_id"
    /\ mJobs' = IF mAborting.sharded THEN mJobs \ {JobOf[mAborting.entry]} ELSE mJobs
    /\ mAborting' = [mAborting EXCEPT !.step = "complete"]
    /\ UNCHANGED <<mHqe, boardHosts, mHosts, mStatus, mLeased, shardVars, clientVars, rpc, failures>>

\* ... then complete.
CompleteOnMaster ==
    /\ mAborting # None /\ mAborting.step = "complete"
    /\ mHqe' = [mHqe EXCEPT ![mAborting.entry].complete = TRUE]
    /\ mAborting' = None
    /\ UNCHANGED <<mJobs, boardHosts, mHosts, mStatus, mLeased, shardVars, clientVars, rpc, failures>>

\* The rdb of the master leases a host that is not leased, on the shard or not.
Lease(h) ==
    /\ mStatus[h] # None /\ h \notin mLeased
    /\ mLeased' = mLeased \cup {h}
    /\ UNCHANGED <<mHqe, mJobs, boardHosts, mHosts, mStatus, mAborting, shardVars, clientVars,
                   rpc, failures>>

\* set_leased(False, ...) of the master's host scheduler
Release(h) ==
    /\ h \in mLeased
    /\ mLeased' = mLeased \ {h}
    /\ UNCHANGED <<mHqe, mJobs, boardHosts, mHosts, mStatus, mAborting, shardVars, clientVars,
                   rpc, failures>>

\* add_board_to_shard and remove_board_from_shard, for the board of h
AddBoard(h) ==
    /\ mStatus[h] # None /\ h \notin boardHosts
    /\ boardHosts' = boardHosts \cup {h}
    /\ UNCHANGED <<mHqe, mJobs, mHosts, mStatus, mLeased, mAborting, shardVars, clientVars,
                   rpc, failures>>

RemoveBoard(h) ==
    /\ h \in boardHosts
    /\ boardHosts' = boardHosts \ {h}
    /\ mHosts' = mHosts \ {h}
    /\ UNCHANGED <<mHqe, mJobs, mStatus, mLeased, mAborting, shardVars, clientVars,
                   rpc, failures>>

-----------------------------------------------------------------------------
(* The shard's scheduler.                                                  *)

\* an entry becomes active, whatever it waits for
Start(e) ==
    /\ sHqe[e] # None
    /\ sHqe[e].status = "Queued" /\ ~sHqe[e].aborted /\ ~sHqe[e].complete
    /\ sHqe' = [sHqe EXCEPT ![e] = [@ EXCEPT !.status = "Running", !.active = TRUE]]
    /\ UNCHANGED <<masterVars, sJob, sHosts, sShard, sEnding, clientVars, rpc, failures>>

\* set_status(st) for a final status writes status and active, then shard_id, then
\* complete.  update_field goes by the copy of the job read with the entry.
SetStatus(e, st) ==
    /\ sEnding = None
    /\ sHqe[e] # None
    /\ ~sHqe[e].complete
    /\ sHqe' = [sHqe EXCEPT ![e] = [@ EXCEPT !.status = st, !.active = FALSE]]
    /\ sEnding' = [entry |-> e, isNull |-> sJob[JobOf[e]] = "null", step |-> "shard_id"]
    /\ UNCHANGED <<masterVars, sJob, sHosts, sShard, clientVars, rpc, failures>>

Complete(e) == sHqe[e] # None /\ sHqe[e].status = "Running" /\ SetStatus(e, "Completed")

\* _find_aborting on the shard
AbortOnShard(e) == sHqe[e] # None /\ sHqe[e].aborted /\ SetStatus(e, "Aborted")

\* _on_complete: the shard client is to upload the job
OnComplete ==
    /\ sEnding # None /\ sEnding.step = "shard_id"
    /\ sJob' = IF sEnding.isNull THEN sJob
               ELSE [sJob EXCEPT ![JobOf[sEnding.entry]] = "null"]
    /\ sEnding' = [sEnding EXCEPT !.step = "complete"]
    /\ UNCHANGED <<masterVars, sHqe, sHosts, sShard, clientVars, rpc, failures>>

SetComplete ==
    /\ sEnding # None /\ sEnding.step = "complete"
    /\ sHqe' = [sHqe EXCEPT ![sEnding.entry].complete = TRUE]
    /\ sEnding' = None
    /\ UNCHANGED <<masterVars, sJob, sHosts, sShard, clientVars, rpc, failures>>

\* Host.set_status on the shard
SetHostStatus(h, st) ==
    /\ sHosts[h] \notin {None, st}
    /\ sHosts' = [sHosts EXCEPT ![h] = st]
    /\ UNCHANGED <<masterVars, sHqe, sJob, sShard, sEnding, clientVars, rpc, failures>>

-----------------------------------------------------------------------------
(* The shard client: do_heartbeat.                                         *)

Present(j) == {e \in EntriesOf(j) : sHqe[e] # None}

\* _get_known_jobs_and_hosts
ReadKnown ==
    /\ pc = "known"
    /\ packet' = [NoPacket EXCEPT
                     !.known = {j \in Jobs : \E e \in Present(j) : ~sHqe[e].complete},
                     !.hosts = sHosts]
    /\ pc' = "upload"
    /\ UNCHANGED <<masterVars, shardVars, answer, snap, rpc, failures>>

\* Mutant of ReadUpload: shard_id is NULL, whatever the complete bit.
ReadUploadEarly ==
    /\ pc = "upload"
    /\ packet' = [packet EXCEPT !.jobs = {j \in Jobs : sJob[j] = "null" /\ Present(j) # {}}]
    /\ pc' = "rows"
    /\ UNCHANGED <<masterVars, shardVars, answer, snap, rpc, failures>>

\* _get_jobs_to_upload
ReadUpload ==
    /\ pc = "upload"
    /\ packet' = [packet EXCEPT !.jobs = {j \in Jobs : /\ sJob[j] = "null"
                                                       /\ \E e \in Present(j) : sHqe[e].complete}]
    /\ pc' = "rows"
    /\ UNCHANGED <<masterVars, shardVars, answer, snap, rpc, failures>>

\* _get_hqes_for_jobs reads the entries of all these jobs; then the jobs are cut.
ReadRows ==
    /\ pc = "rows"
    /\ \E jobs \in SUBSET packet.jobs :
          /\ Cardinality(jobs) = MaxUpload \/ jobs = packet.jobs
          /\ Cardinality(jobs) <= MaxUpload
          /\ packet' = [packet EXCEPT
                           !.jobs = jobs,
                           !.rows = [e \in Entries |-> IF JobOf[e] \in packet.jobs
                                                       THEN sHqe[e] ELSE None]]
    /\ pc' = "send"
    /\ UNCHANGED <<masterVars, shardVars, answer, snap, rpc, failures>>

\* Mutant of Send: the status of all hosts is reported, not of those the shard knows.
SendAllHosts ==
    /\ pc = "send"
    /\ rpc' = [rpc EXCEPT !["awaited"] =
          [stage |-> IF packet.jobs = {} THEN "hosts" ELSE "jobs", packet |-> packet, answer |-> NoAnswer,
           todo |-> IF packet.jobs = {} THEN Hosts ELSE packet.jobs, row |-> None]]
    /\ pc' = "wait"
    /\ UNCHANGED <<masterVars, shardVars, packet, answer, snap, failures>>

\* Without jobs there are no records to persist.
Send ==
    /\ pc = "send"
    /\ rpc' = [rpc EXCEPT !["awaited"] =
          [stage |-> IF packet.jobs = {} THEN "hosts" ELSE "jobs", packet |-> packet, answer |-> NoAnswer,
           todo |-> IF packet.jobs = {} THEN KnownHosts(packet) ELSE packet.jobs, row |-> None]]
    /\ pc' = "wait"
    /\ UNCHANGED <<masterVars, shardVars, packet, answer, snap, failures>>

\* The RPC fails.  The master may never have seen the request, or goes on with it,
\* as long as there is no older request it still works on.
Abandon ==
    \/ rpc' = [rpc EXCEPT !["awaited"] = None]
    \/ /\ rpc["late"] = None
       /\ rpc["awaited"].stage # "answer"
       /\ rpc' = [rpc EXCEPT !["late"] = rpc["awaited"], !["awaited"] = None]

\* RetryingAFE sends the same packet again, or do_heartbeat returns False.
Fail ==
    /\ pc = "wait" /\ failures < MaxFailures
    /\ Abandon
    /\ \/ pc' = "send" /\ UNCHANGED packet
       \/ pc' = "known" /\ packet' = NoPacket
    /\ failures' = failures + 1
    /\ UNCHANGED <<masterVars, shardVars, answer, snap>>

\* the request x of the master's handlers has got as far as stage
At(x, stage) == rpc[x] # None /\ rpc[x].stage = stage

Receive ==
    /\ pc = "wait" /\ At("awaited", "answer")
    /\ answer' = rpc["awaited"].answer
    /\ rpc' = [rpc EXCEPT !["awaited"] = None]
    /\ pc' = "mark"
    /\ UNCHANGED <<masterVars, shardVars, packet, snap, failures>>

\* _mark_jobs_as_uploaded: the shard is NULL as long as the shard does not know itself
Mark ==
    /\ pc = "mark"
    /\ sJob' = [j \in Jobs |-> IF j \in packet.jobs THEN IF sShard THEN "shard" ELSE "null" ELSE sJob[j]]
    /\ packet' = NoPacket
    /\ pc' = "hosts"
    /\ UNCHANGED <<masterVars, sHqe, sHosts, sShard, sEnding, answer, snap, rpc, failures>>

\* process_heartbeat_response: the hosts of the answer are new to the shard
Received == {h \in Hosts : answer.hosts[h] # None}

Saved(hosts) == [h \in Hosts |-> IF sHosts[h] = None /\ h \in hosts THEN answer.hosts[h] ELSE sHosts[h]]

\* a host or a job comes with the shard's own row
SaveHosts ==
    /\ pc = "hosts"
    /\ sHosts' = Saved(Received)
    /\ sShard' = (sShard \/ Received # {})
    /\ pc' = "jobs"
    /\ UNCHANGED <<masterVars, sHqe, sJob, sEnding, packet, answer, snap, rpc, failures>>

\* An exception is logged: some of the hosts, and the shard's own row or not.
SaveHostsFails ==
    /\ pc = "hosts" /\ Received # {} /\ failures < MaxFailures
    /\ \E saved \in SUBSET Received : sHosts' = Saved(saved)
    /\ sShard' \in {sShard, TRUE}
    /\ pc' = "jobs"
    /\ failures' = failures + 1
    /\ UNCHANGED <<masterVars, sHqe, sJob, sEnding, packet, answer, snap, rpc>>

\* Job.deserialize is a transaction: it reads the rows there are, ...
ReadJob(j) ==
    /\ pc = "jobs" /\ snap = None
    /\ j \in answer.jobs
    /\ snap' = [job |-> j, rows |-> sHqe]
    /\ UNCHANGED <<masterVars, shardVars, pc, packet, answer, rpc, failures>>

\* ... and saves them with all their columns, of which aborted is the master's.
Deserialized(e) ==
    IF snap.rows[e] = None THEN answer.rows[e]
    ELSE [snap.rows[e] EXCEPT !.aborted = answer.rows[e].aborted]

SaveRows(saved) ==
    /\ sHqe' = [e \in Entries |-> IF e \in saved THEN Deserialized(e) ELSE sHqe[e]]
    /\ answer' = [answer EXCEPT !.jobs = @ \ {snap.job}]
    /\ snap' = None

SaveJob ==
    /\ snap # None
    /\ SaveRows(EntriesOf(snap.job))
    /\ sJob' = [sJob EXCEPT ![snap.job] = "shard"]
    /\ sShard' = TRUE
    /\ UNCHANGED <<masterVars, sHosts, sEnding, pc, packet, rpc, failures>>

\* An exception is logged and the transaction committed with what was saved: the
\* job, without its shard, and some of its entries.
SaveJobFails ==
    /\ snap # None /\ failures < MaxFailures
    /\ \E saved \in SUBSET EntriesOf(snap.job) : SaveRows(saved)
    /\ sJob' = [sJob EXCEPT ![snap.job] = IF @ = None THEN "null" ELSE @]
    /\ sShard' \in {sShard, TRUE}
    /\ failures' = failures + 1
    /\ UNCHANGED <<masterVars, sHosts, sEnding, pc, packet, rpc>>

JobsSaved ==
    /\ pc = "jobs" /\ answer.jobs = {}
    /\ pc' = "reset"
    /\ UNCHANGED <<masterVars, shardVars, packet, answer, snap, rpc, failures>>

\* Mutant of Reset: jobs the master has sent are not checked.
ResetHostsOnly ==
    /\ pc = "reset"
    /\ sHosts' = [h \in Hosts |-> IF h \in answer.incorrect THEN None ELSE sHosts[h]]
    /\ answer' = NoAnswer
    /\ pc' = "known"
    /\ UNCHANGED <<masterVars, sHqe, sJob, sShard, sEnding, packet, snap, rpc, failures>>

\* Mutant of Reset: incorrect hosts stay.
ResetJobsOnly ==
    /\ pc = "reset"
    /\ sJob' = [j \in Jobs |-> IF \E e \in Present(j) : answer.rows[e] # None /\ sHqe[e].complete
                               THEN "null" ELSE sJob[j]]
    /\ answer' = NoAnswer
    /\ pc' = "known"
    /\ UNCHANGED <<masterVars, sHqe, sHosts, sShard, sEnding, packet, snap, rpc, failures>>

\* _remove_incorrect_hosts; then jobs the master has sent that are complete here
\* are marked for upload again.
Reset ==
    /\ pc = "reset"
    /\ sHosts' = [h \in Hosts |-> IF h \in answer.incorrect THEN None ELSE sHosts[h]]
    /\ sJob' = [j \in Jobs |-> IF \E e \in Present(j) : answer.rows[e] # None /\ sHqe[e].complete
                               THEN "null" ELSE sJob[j]]
    /\ answer' = NoAnswer
    /\ pc' = "known"
    /\ UNCHANGED <<masterVars, sHqe, sShard, sEnding, packet, snap, rpc, failures>>

\* The client dies, a transaction with it, and is started again.
Crash ==
    /\ pc # "known" /\ failures < MaxFailures
    /\ IF pc = "wait" THEN Abandon ELSE UNCHANGED rpc
    /\ pc' = "known" /\ packet' = NoPacket /\ answer' = NoAnswer /\ snap' = None
    /\ failures' = failures + 1
    /\ UNCHANGED <<masterVars, shardVars>>

-----------------------------------------------------------------------------
(* The master's handler of the RPC, for the awaited or the abandoned       *)
(* request x.                                                              *)

\* persist_records_sent_from_shard gets the row of a job, shard_id with it, ...
GetJob(x, j) ==
    /\ At(x, "jobs") /\ rpc[x].row = None
    /\ j \in rpc[x].todo
    /\ rpc' = [rpc EXCEPT ![x].todo = @ \ {j}, ![x].row = [job |-> j, sharded |-> j \in mJobs]]
    /\ UNCHANGED <<masterVars, shardVars, clientVars, failures>>

\* ... and saves it with all its columns; shard_id is no part of a serialized job.
PersistJob(x) ==
    /\ At(x, "jobs") /\ rpc[x].row # None
    /\ mJobs' = IF rpc[x].row.sharded THEN mJobs \cup {rpc[x].row.job} ELSE mJobs \ {rpc[x].row.job}
    /\ rpc' = [rpc EXCEPT ![x].row = None]
    /\ UNCHANGED <<mHqe, boardHosts, mHosts, mStatus, mLeased, mAborting, shardVars, clientVars,
                   failures>>

\* The entries, of which all columns are sent; those of jobs that were not sent are
\* skipped.
PersistEntries(x) ==
    /\ At(x, "jobs") /\ rpc[x].row = None /\ rpc[x].todo = {}
    /\ LET p == rpc[x].packet IN
          /\ mHqe' = [e \in Entries |-> IF JobOf[e] \in p.jobs /\ p.rows[e] # None
                                        THEN p.rows[e] ELSE mHqe[e]]
          /\ rpc' = [rpc EXCEPT ![x].stage = "hosts", ![x].todo = KnownHosts(p)]
    /\ UNCHANGED <<mJobs, boardHosts, mHosts, mStatus, mLeased, mAborting, shardVars, clientVars,
                   failures>>

\* Mutant of GetHost: the status is not compared.
GetHostOnly(x, h) ==
    /\ At(x, "hosts") /\ rpc[x].row = None
    /\ h \in rpc[x].todo
    /\ rpc' = [rpc EXCEPT ![x].todo = @ \ {h}]
    /\ UNCHANGED <<masterVars, shardVars, clientVars, failures>>

\* shard_heartbeat gets the row of a host the shard knows; if its status is another, ...
GetHost(x, h) ==
    /\ At(x, "hosts") /\ rpc[x].row = None
    /\ h \in rpc[x].todo
    /\ rpc' = [rpc EXCEPT ![x].todo = @ \ {h},
                          ![x].row = IF mStatus[h] = rpc[x].packet.hosts[h] THEN None
                                     ELSE [host |-> h, leased |-> h \in mLeased,
                                           sharded |-> h \in mHosts]]
    /\ UNCHANGED <<masterVars, shardVars, clientVars, failures>>

\* ... it is set, and the row saved with all its columns, leased and shard_id too.
SaveHost(x) ==
    /\ At(x, "hosts") /\ rpc[x].row # None
    /\ LET h == rpc[x].row.host IN
          /\ mStatus' = [mStatus EXCEPT ![h] = rpc[x].packet.hosts[h]]
          /\ mLeased' = IF rpc[x].row.leased THEN mLeased \cup {h} ELSE mLeased \ {h}
          /\ mHosts' = IF rpc[x].row.sharded THEN mHosts \cup {h} ELSE mHosts \ {h}
    /\ rpc' = [rpc EXCEPT ![x].row = None]
    /\ UNCHANGED <<mHqe, mJobs, boardHosts, mAborting, shardVars, clientVars, failures>>

\* Host.assign_to_shard selects hosts; with none it has nothing to assign, and what an
\* abandoned request would read for its answer does not matter.
Selecting(x, hosts) ==
    /\ At(x, "hosts") /\ rpc[x].row = None /\ rpc[x].todo = {}
    /\ rpc' = [rpc EXCEPT
          ![x].stage = IF hosts # {} THEN "shard" ELSE IF x = "late" THEN "select" ELSE "incorrect",
          ![x].answer.hosts = [h \in Hosts |-> IF h \in hosts THEN mStatus[h] ELSE None]]
    /\ UNCHANGED <<masterVars, shardVars, clientVars, failures>>

\* Mutant of SelectHosts: goes by shard_id instead of what the shard knows.
SelectHostsOnce(x) == Selecting(x, boardHosts \ (mLeased \cup mHosts))

\* It selects free ones the shard does not know, ...
SelectHosts(x) ==
    Selecting(x, {h \in boardHosts \ mLeased : rpc[x].packet.hosts[h] = None})

Selected(x) == {h \in Hosts : rpc[x].answer.hosts[h] # None}

\* ... updates the selected that still are free, ...
AssignHosts(x) ==
    /\ At(x, "shard")
    /\ mHosts' = mHosts \cup ((Selected(x) \cap boardHosts) \ mLeased)
    /\ rpc' = IF x = "late" THEN [rpc EXCEPT ![x].stage = "select", ![x].answer = NoAnswer]
              ELSE [rpc EXCEPT ![x].stage = "reread"]
    /\ UNCHANGED <<mHqe, mJobs, boardHosts, mStatus, mLeased, mAborting, shardVars, clientVars,
                   failures>>

\* ... reads the selected that are the shard's, ...
RereadHosts(x) ==
    /\ At(x, "reread")
    /\ rpc' = [rpc EXCEPT
          ![x].stage = "incorrect",
          ![x].answer.hosts = [h \in Hosts |-> IF h \in Selected(x) \cap mHosts THEN mStatus[h] ELSE None]]
    /\ UNCHANGED <<masterVars, shardVars, clientVars, failures>>

\* ... and the known that are not: these are incorrect.
FindIncorrect(x) ==
    /\ At(x, "incorrect")
    /\ rpc' = [rpc EXCEPT
          ![x].stage = "select",
          ![x].answer.incorrect = KnownHosts(rpc[x].packet) \ mHosts]
    /\ UNCHANGED <<masterVars, shardVars, clientVars, failures>>

\* Mutants of Eligible: a job is sent once; a known job is never sent.
EligibleOnce(j, known) ==
    /\ EntriesOf(j) # {} /\ j \notin mJobs
    /\ \A e \in EntriesOf(j) : ~mHqe[e].complete /\ ~mHqe[e].active

EligibleUnknown(j, known) ==
    /\ EntriesOf(j) # {} /\ j \notin known
    /\ \A e \in EntriesOf(j) : ~mHqe[e].complete /\ ~mHqe[e].active

\* SQL_SHARD_JOBS without SQL_JOBS_TO_EXCLUDE
Eligible(j, known) ==
    /\ EntriesOf(j) # {}
    /\ \A e \in EntriesOf(j) : /\ ~mHqe[e].complete /\ ~mHqe[e].active
                               /\ j \in known => mHqe[e].aborted

\* Job.assign_to_shard selects, ...
SelectJobs(x) ==
    /\ At(x, "select")
    /\ rpc' = [rpc EXCEPT ![x].stage = "assign",
                          ![x].answer.jobs = {j \in Jobs : Eligible(j, rpc[x].packet.known)}]
    /\ UNCHANGED <<masterVars, shardVars, clientVars, failures>>

\* ... updates the selected, and reads them again.
AssignJobs(x) ==
    /\ At(x, "assign")
    /\ LET jobs == rpc[x].answer.jobs IN
          /\ mJobs' = mJobs \cup jobs
          /\ rpc' = IF x = "late" THEN [rpc EXCEPT ![x] = None]
                    ELSE [rpc EXCEPT ![x].stage = "answer",
                                     ![x].answer.rows = [e \in Entries |->
                                         IF JobOf[e] \in jobs THEN mHqe[e] ELSE None]]
    /\ UNCHANGED <<mHqe, boardHosts, mHosts, mStatus, mLeased, mAborting, shardVars, clientVars,
                   failures>>

-----------------------------------------------------------------------------
MasterNext ==
    \/ \E e \in Entries : Abort(e) \/ FindAborting(e) \/ AbortAnyway(e)
    \/ AbortOnMaster \/ UnshardOnMaster \/ CompleteOnMaster
    \/ \E h \in Hosts : Lease(h) \/ Release(h) \/ AddBoard(h) \/ RemoveBoard(h)

ShardScheduler ==
    \/ \E e \in Entries : Start(e) \/ Complete(e) \/ AbortOnShard(e)
    \/ OnComplete \/ SetComplete

Client ==
    \/ ReadKnown \/ ReadUpload \/ ReadRows \/ Send \/ Receive \/ Mark \/ SaveHosts
    \/ \E j \in Jobs : ReadJob(j)
    \/ SaveJob \/ JobsSaved \/ Reset

Handler(x) ==
    \/ (\E j \in Jobs : GetJob(x, j)) \/ PersistJob(x) \/ PersistEntries(x)
    \/ (\E h \in Hosts : GetHost(x, h)) \/ SaveHost(x)
    \/ SelectHosts(x) \/ AssignHosts(x) \/ RereadHosts(x) \/ FindIncorrect(x)
    \/ SelectJobs(x) \/ AssignJobs(x)

Next ==
    \/ MasterNext
    \/ ShardScheduler
    \/ \E h \in Hosts, st \in Statuses : SetHostStatus(h, st)
    \/ Client \/ Fail \/ SaveHostsFails \/ SaveJobFails \/ Crash
    \/ \E x \in {"awaited", "late"} : Handler(x)

Spec == Init /\ [][Next]_vars

\* The client is a loop and the awaited request is handled.  The scheduler of the
\* shard is a loop too: a set_status ends, and an aborted entry is found; now and then
\* that happens outside of a transaction of the client, which is short compared to
\* the pause between two heartbeats.  A job may wait or run for ever.
Fairness ==
    /\ WF_vars(Client)
    /\ WF_vars(Handler("awaited"))
    /\ WF_vars(OnComplete) /\ SF_vars(snap = None /\ OnComplete)
    /\ WF_vars(SetComplete) /\ SF_vars(snap = None /\ SetComplete)
    /\ SF_vars(snap = None /\ \E e \in Entries : AbortOnShard(e))

FairSpec == Spec /\ Fairness

-----------------------------------------------------------------------------
(* Properties.                                                             *)

\* The entry is the only one of its job: what the frontend creates for every job of
\* a suite.  Entries of one job are uploaded together, see EntrySynced.
Single(e) == EntriesOf(JobOf[e]) = {e}

Ended(e) == sHqe[e] # None /\ sHqe[e].complete

\* A job that ended on the shard and not on the master is not forgotten: it is marked
\* for upload, or the master sends it again, after which process_heartbeat_response
\* marks it.  It would be forgotten if an intermediate state of it were uploaded,
\* which _get_jobs_to_upload takes care not to do.
NothingForgotten ==
    \A e \in Entries : Ended(e) /\ ~mHqe[e].complete /\ Single(e) =>
        sJob[JobOf[e]] = "null" \/ Eligible(JobOf[e], {})

\* What makes NothingForgotten and CompleteIsFinal true: of a job with one entry only
\* its end is ever uploaded, from _get_jobs_to_upload to the last copy of the packet
\* a handler works on, and so the master has no entry that is active and not complete.
UploadsAreFinal ==
    \A e \in Entries : Single(e) =>
        /\ pc = "rows" /\ JobOf[e] \in packet.jobs => Ended(e)
        /\ pc \in {"send", "wait"} /\ JobOf[e] \in packet.jobs =>
              packet.rows[e] # None /\ packet.rows[e].complete
        /\ \A x \in {"awaited", "late"} :
              rpc[x] # None /\ JobOf[e] \in rpc[x].packet.jobs =>
                  rpc[x].packet.rows[e] # None /\ rpc[x].packet.rows[e].complete
        /\ mHqe[e].active => mHqe[e].complete

\* A job of an answer comes with its entries, and a transaction is about one of them.
AnswersAreWhole ==
    /\ \A e \in Entries : JobOf[e] \in answer.jobs => answer.rows[e] # None
    /\ \A e \in Entries, x \in {"awaited", "late"} :
          At(x, "answer") /\ JobOf[e] \in rpc[x].answer.jobs => rpc[x].answer.rows[e] # None
    /\ snap # None => pc = "jobs" /\ snap.job \in answer.jobs

\* What is on its way between shard and master: an upload (_get_jobs_to_upload) holds a
\* one-entry job only once it has ended, an answer (shard_heartbeat) holds all entries
\* of its jobs.  With the types this is inductive.
ShardInv == TypeOK /\ UploadsAreFinal /\ AnswersAreWhole

\* The end of a job on the master is not undone, by a request that is handled late
\* or twice (persist_records_sent_from_shard saves whatever was sent).
CompleteIsFinal ==
    [][\A e \in Entries : mHqe[e].complete /\ Single(e) => mHqe'[e].complete]_vars

\* The end of a job on the shard reaches the master, with answers lost, requests
\* handled twice and the client restarted.
JobSynced == \A e \in Entries : Single(e) => (Ended(e) ~> mHqe[e].complete)

\* "forgetting something isn't" acceptable: every job gets to the shard, unless it
\* ends before.
JobArrives == \A e \in Entries : <>(sHqe[e] # None \/ mHqe[e].complete)

\* An abort on the master ends the job, the shard having it or not (the master sends
\* an aborted job again, and the shard takes over the aborted bit).
AbortArrives == \A e \in Entries : Single(e) => (mHqe[e].aborted ~> mHqe[e].complete)

\* A host whose board stays with the shard, free on the master, gets there and stays
\* (Host.assign_to_shard).
HostArrives ==
    \A h \in Hosts : <>[](h \in boardHosts \ mLeased) => <>[](sHosts[h] # None)

\* shard_heartbeat is about to save a row of h from when h was the shard's.
Undoing(h) ==
    \E x \in {"awaited", "late"} :
        At(x, "hosts") /\ rpc[x].row # None /\ rpc[x].row.host = h /\ rpc[x].row.sharded

\* Once remove_board_from_shard has taken the board of a host away for good, the host
\* leaves the shard, whatever answers are lost or late, or its shard_id is the shard's
\* again and stays so; and that happens only when shard_heartbeat has got the row of
\* the host before and saves it after.
HostLeaves ==
    /\ \A h \in Hosts : <>[](h \notin boardHosts) => <>[](sHosts[h] = None) \/ <>[](h \in mHosts)
    /\ [][\A h \in Hosts \ (boardHosts \cup mHosts) : h \in mHosts' => Undoing(h)]_vars

\* The status of a host settles on the master to what it is on the shard
\* (shard_heartbeat), even when an abandoned request with an older one comes later.
StatusSynced ==
    \A h \in Hosts, st \in Statuses : <>[](sHosts[h] = st) => <>[](mStatus[h] = st)

\* "If shard_id is None, the job will be synced back to the master" (_on_complete),
\* said of every entry of a job.
EntrySynced == \A e \in Entries : Ended(e) ~> mHqe[e].complete
=============================================================================
