# A TLA+ model of the Autotest job scheduler

Autotest runs tests on a pool of devices under test (hosts). This project models the
part of the repository that decides what happens to which host when: the scheduler
under `src/scheduler/`, and the parts of the frontend it shares a database with. It is a few
long-running processes around one SQL database (two with a shard) and the machines, called
drones, that run the test processes. Each process reads rows, process lists or pidfiles, goes on
computing, and writes single columns back later, without a lock or a transaction around the
whole. Unit tests exercise one process at a time with a frozen database; the orders in which the
processes meet, and the points where one of them dies, are what this project is about.

## Inventory

| component | state | operations | hard behaviour | what makes it correct |
|---|---|---|---|---|
| dispatcher (`monitor_db.py`) | agents by host and by entry, in memory | a tick: garbage, host and job scheduling, special tasks, aborts, agents; recovery at start-up | all memory is lost in a crash; acts on rows fetched earlier in the tick | one agent per host; no running job is lost; an aborted entry ends |
| host queue entries and jobs (`scheduler_models.py`) | rows: status, host, active, complete, aborted | `set_status`, `requeue`, `on_pending`, `abort`, `schedule_pre_job_tasks`, `run_if_ready` | `update_field` skips a write whose cached value is equal, so stale copies leave columns behind | status only moves forward, or back to the queue from a pre-job task |
| agent tasks (`agent_task.py`) | one autoserv process, its monitor | `start`, `poll`, `finished`, `abort`, `recover` | finished row and epilog are different writes | a task row, its agent and its entry agree |
| pre-job and repair tasks (`prejob_task.py`) | special task rows | prolog and epilog of Verify, Cleanup, Reset, Provision, Repair | requeue, repair and retry counting interact | retries run out; a requeued entry leaves nothing behind |
| post-job tasks (`postjob_task.py`) | host status, exit code in a pidfile; a class-level process counter | gather logs, reboot or reset the host, parse results; throttling | host is declared ready and a reset queued in two writes; the counter outlives the tasks it counts | the host is not reused before it was put in order; parsing never blocks for ever |
| host scheduler (`host_scheduler.py`) | acquisitions in memory, leased bit of hosts | lease, acquire, assign, release | assigns to entries fetched before the rdb answered; releases hosts found unused earlier | a leased host serves one entry; a host in use is not released |
| query managers (`query_managers.py`) | none | the joins both schedulers choose their work with | each query sees one moment | what they select is still true when it is used |
| rdb (`rdb*.py`) | host cache, request counts, response map | validate, batch, acquire in two passes, lease, reply | cached hosts may be leased meanwhile; requests are counted, hosts are not | no host answers two requests, no lease is lost, no free host is hidden |
| frontend (`frontend/afe/`) | rows | abort, schedule a special task; the RPC `shard_heartbeat`; boards of a shard | writes at any moment; a late request is handled like a new one | an abort arrives; the end of a job is not undone |
| shard client (`shard/shard_client.py`) | jobs of the shard marked for upload | heartbeat: upload what ended, save what the master assigns | requests and answers are lost or repeated; rows read long before they are marked or saved | no job is forgotten by either side; hosts settle where their board is |
| drone manager, drones (`drone_manager.py`, `drones.py`, `drone_utility.py`) | registered pidfiles with ages; queued commands and kills; what the last refresh has found | refresh, execute, kill, register, drop old pidfiles | process list and pidfiles are read one after the other; processes outlive the dispatcher | a watched pidfile stays registered; commands and kills are carried out in order |
| pidfile monitor (`pidfile_monitor.py`) | pid and exit status last read | attach, poll with double read and time-out, kill | processes that start late, die silently, or end between two reads | no running process is taken for ended, no ended one is watched for ever |
| threaded task queue (`thread_lib.py`) | a thread per drone, result queue | execute, get results | calls in flight when the dispatcher dies | all results are collected |
| periodic cleanup, lucifer, site tests | – | housekeeping, external hand-off, tests proper | – | – |

The components interact through the database (entries, hosts, special tasks) and through
pidfiles on the drones; only the dispatcher talks to the drones. `PROJECT.json` lists each
component with its status, and under `hazards` every place where the code can go wrong in a
way a test would hardly reach.

## Modules

`JobScheduler.tla` models dispatcher, host scheduler and frontend together: their point is
how they interleave, and their interface is the database, so the tables are the shared
variables and each process has its own memory variables.

- *Database*: `hqeStatus, hqeHost, active, complete, aborted` are columns of
  `afe_host_queue_entries`, `hostStatus, leased` of `afe_hosts`. `queued` and `running` are the
  rows of `afe_special_tasks` that are incomplete and not active, or active. `repairs` and
  `provisions` count the rows ever created per entry, saturating at the number at which the
  code stops telling them apart. `exit` is what the autoserv pidfile of an entry says.
- *Dispatcher*: `phase` is the position in `tick` (or in start-up recovery); `agentNew`,
  `agentRun` are agents of special tasks before and after their prolog; `hqeAgent`,
  `hqeStarted` the agents of entries; `todo` the agents not yet ticked; `seen` the rows
  `_find_aborting` fetched; `cont` what is left of a handler that writes in several steps that
  another process can observe.
- *Host scheduler*: `hsPhase`, the acquisitions `hsJobs`, the entry being started `hsEntry`,
  the hosts found unused `hsRelease`.

Every process step that reads or writes the database is one action; a handler is split exactly
where another process could see or change something between two of its writes. The split
points are: the acquisition of the host scheduler, and of each assignment the host (`HsSetHost`), the
active bit (`HsActivate`) and the first task; `on_pending` and
`run_if_ready`, the release query and its update; each row handled by `_find_aborting`; a
task's final row (`cleanup`) and its epilog; the Parsing status, the reboot and the reset of
`GatherLogsTask.epilog`; the four parts of recovery.

`JobSchedulerInv.tla` is the inductive invariant, `MCJobScheduler.tla` gives the small
instances their constant functions, `JobScheduler_proofs.tla` holds the proofs. Exclusivity of hosts
has an invariant and proofs of its own, in `JobSchedulerExcl.tla` and `JobSchedulerExcl_proofs.tla`.

### What is abstracted in JobScheduler

- A job has one entry (`synch_count = 1`); hostless entries are in `DroneManager`.
- Special task rows equal in host, kind and entry are one row.
- `PreJob[e]` is the set of outcomes `_should_run_*` can have for an entry: one kind, or none.
  Cleanup and verify together become a reset (`scheduler_models.py:1215-1223`), so an entry
  never has two; the dirty bit and labels that decide are folded into this set.
- Hosts are not locked or invalid and have no DO_NOT_VERIFY protection; no shards.
- A gather or parse task of an entry without an autoserv process ends at once, as in the code.
- Process limits and running processes are the nondeterministic `SkipAgent`.
- `requeue`, `set_host(None)` and the creation of the repair are one step: the host is leased and
  not Ready, so nobody reacts to the states in between. The Ready status a cleanup epilog
  writes just before Pending is merged with it, for the same reason (the entry is active).
- A finished agent is dropped at once instead of at the end of its tick.
- `recover()` of a gather or parse task whose entry has no autoserv process finishes the task at once and
  runs its epilog without the prolog. The model recovers its agent and leaves the epilog to the next
  `FinishGather` or `FinishParse`: the same writes, somewhat later.
- Recovery of Pending entries (`RecoverPending`) is `on_pending` in one step. If the host scheduler is at work on the
  same entry it makes the same writes, and after a crash between them recovery finds the entry Pending or
  Starting and continues. A Pending entry has a host, so that the exceptions caught there do not occur.
- `schedule_host_job` raises `RDBException` if the entry has another host than the one it is given. The rdb answers
  a request for a host with that host, so the branch is left out.
- `_find_aborted_special_tasks`, `die_on_orphans`, lifetime expiry and the lucifer hand-off are
  not modelled.

`Rdb.tla` models what `JobScheduler` takes for granted in its action `HsAcquire`: one call of
`rdb_host_request_dispatcher` for a batch of entries. `request` is what the entries ask for,
`leased` the column of `afe_hosts`, `order, at, counts, minDuts` the `RequestAccountant`, `cache`
the lines of the `RDBHostCacheManager`, `response` the response map, `waiting` and `answer` what
has been yielded. Its actions follow the call: `BatchGetHosts`, `BatchValidateHosts` (one
request at a time, by priority), `BatchRequests`, `AcquireMin` and `AcquireRest` (the two passes, one
request at a time), `CheckResponseMap`, `Reply` (one entry at a time).

`HostAcquisition.tla` is the abstract specification: an entry is granted a free host that suits it,
and the host is leased. `Rdb` refines it (`PromiseKept`) with `leased` mapped to
the leased hosts that are not in a response any more: a host counts as taken when it is
yielded, so that the batch's intermediate leases are stuttering steps. This is also how
`HsAcquire` treats the call: a function from entries to distinct, unleased, suitable hosts.

`MCRdb.tla` defines the small instances, `Rdb_proofs.tla` holds invariant and proofs, and `RdbCount_proofs.tla`
the ones that count hosts.

### What is abstracted in Rdb

- Who is locked, one-time (invalid) or on a shard is a constant: nothing in a batch changes it.
- A request with the same fields is one request (the code hashes the named tuple); the entries
  that make it are counted.
- Hosts and requests that compare equal in a sort come in any order.
- A missing cache line and an empty one are the same: both send `_acquire_hosts` to the database.
  The conditions `_check_line` asserts hold when the hosts are queried, and it looks at
  attributes as old as that query.
- `_check_response_map` compares host objects by identity. Only the validation requests share
  objects (of one query), so only they can make it raise.
- One process acquires hosts. `inline_host_acquisition` moves acquisition into the dispatcher
  instead of adding a second acquirer; a batch is never interleaved with another one.

`ShardHeartbeat.tla` models one shard and its master. `mHqe, mJobs, mHosts, mStatus, mLeased,
boardHosts` are the master's rows (entries, shard of jobs and hosts, host status and leased bit,
hosts with a board of the shard), `sHqe, sJob, sHosts, sShard` the shard's (`sShard`: its row of itself, which comes with the first
host or job). The variables `mAborting, sEnding` hold what is left of a `set_status` in progress. `pc, packet, answer, snap` are the shard client
inside `do_heartbeat`, and `rpc` the handlers at work on the master: the request the client
waits for and one it has given up, each with what it has still to persist and the row it has got and not yet saved. The steps are the places where somebody else can look:

- *Client*: `ReadKnown`, `ReadUpload`, `ReadRows` (the three queries behind a packet), `Send`,
  `Receive`, `Mark`, `SaveHosts`, `ReadJob` and `SaveJob` (a deserialization reads rows and saves all their
  columns), `JobsSaved`, `Reset`; `Fail`, `SaveHostsFails`, `SaveJobFails` and `Crash` are its failures.
- *Handler of the RPC*: `GetJob` and `PersistJob` (per job: the row is read, then saved with all its columns), `PersistEntries`,
  `GetHost` and `SaveHost` (per host, likewise: `leased` and `shard_id` are written with the status); `SelectHosts`, `AssignHosts`,
  `RereadHosts`, `FindIncorrect` (the four statements of `Host.assign_to_shard`), `SelectJobs`, `AssignJobs`.
- *Master*: `Abort` (frontend), `FindAborting` and `AbortAnyway` (scheduler), with the writes of `set_status`: `AbortOnMaster` (status, active),
  `UnshardOnMaster` (shard_id), `CompleteOnMaster`; `Lease`, `Release` (rdb and host scheduler), `AddBoard`, `RemoveBoard`.
- *Shard's scheduler*: `Start`, `Complete`, `AbortOnShard`, and the two later writes of `set_status`,
  `OnComplete` (shard_id) and `SetComplete`; `SetHostStatus`.

`MCShardHeartbeat.tla` has the instances, `ShardHeartbeat_proofs.tla` the proofs.

### What is abstracted in ShardHeartbeat

- An entry on a shard is Queued, Running or over; everything in between is `JobScheduler`'s. Jobs
  do not name hosts, so removing a host does not touch entries (in the code the delete cascades).
- There is one abandoned request at a time, and it is handled to its end or not at all.
- The entries of a packet are persisted in one step (`PersistEntries`). All their columns are sent, so that nothing the
  handler has read is written back; the rows of jobs and hosts, where this happens, have a step for the read and one for the save.
- `AssignJobs` makes the update and the read that follows it in one step: what an entry may become in between
  (aborted) it may become just before the update.
- The board of the jobs stays with the shard; hosts have a board each, which may move.
- A failed save of a job commits what was saved before it, as `_deserialize_many` does; of hosts whose save
  fails any are saved.
- Host deserialization saves new hosts only: the answer holds hosts the packet did not know, and
  only the client adds hosts.
- Suite keyvals, labels, ACLs and users that come along are left out.

`DroneManager.tla` models what `JobScheduler` takes for granted in its actions that finish tasks: how
the dispatcher knows that a process has ended. Its jobs are hostless ones (an
autoserv, then a parser), which need no host but everything else. Four groups of variables: the
database (`status, aborted`); the drone (`proc`, the processes; `file`, the pidfiles; `linked`, which process
has the present file open; `execute, kill`, the calls in flight, by the life of the dispatcher they
come from); what the refresh in progress or the last one has found (`refresh, scan, first, second`); the memory
of the dispatcher (`agent, running, age, calls, kills, phase, todo`).

- *Drone*: `WritePid`, `Finish`, `Die` are steps of a process, `Spawn` and `Kill` what `drone_utility` does
  with a call, `Scan`, `FirstRead`, `SecondRead` the parts of a refresh.
- *Tick*: `BeginTick` (`trigger_refresh` and scheduling), `SyncRefresh`, `Abort` (per entry), `BeginAgents`,
  `Handle` (per agent: start, poll, throttle, give up, time out), `ExecuteActions`.
- *Crash and recovery*: `Crash`, `Restart`, `SyncRecovery`, `Recover` (per entry), `Recovered`.

`Look` is `PidfileRunMonitor._get_pidfile_info`, and `age` the ages after which `_drop_old_pidfiles` forgets
a pidfile. `MCDroneManager.tla` has the instances, `DroneManager_proofs.tla` the proofs, with `DroneTasks_proofs.tla`
for the limit on parsers and for jobs that fail.

### What is abstracted in DroneManager

- There is one drone; its capacity is the nondeterministic `Postpone`. `_handle_agents` goes by `Agent.started`, which only a tick of
  the Agent sets, so that the Agent of a recovered autoserv (`agent = "recovered"`) may be postponed like a new one although its monitor
  runs, and its pidfile is dropped if that goes on. Parsers are not throttled by the drone. One thread works on a
  drone at a time, so that the threaded task queue is the calls in flight.
- A pidfile holds a pid and then, in one buffered write, exit status and number of failed
  tests. Corrupt pidfiles and pids used again are left out; all pidfiles of one read are
  read at once.
- A life of the dispatcher runs the command of a task at most once (proved: `StartedOnce`), so a process
  is named by task and life.
- Time is the guard of `TimeOut`: a process that will write no pid runs into it, one of
  a task in `Slow` may, the others are faster than `pidfile_timeout_mins`.
- What a refresh has found is cleared in `ExecuteActions`, after the last look, instead of in the
  next `_reset`. `trigger_refresh` and the scheduling behind it are one step: the refresh goes on
  while the dispatcher schedules, and scheduling looks at nothing it has found.
- `on_lost_process` makes a monitor remember that its process is lost. The monitor of the running task
  remembers it (`agent = "lost"`) and does not look at the pidfile again; an abort then kills the process it remembers, here any one
  whose pid was in the pidfile. A paired monitor is evaluated at every look.
- `GatherLogsTask` is left out: a hostless entry goes straight to Parsing.
- `_log_abort` always queues a write next to a kill. Without it the task queue, which skips drones
  without calls (`thread_lib.py:152`), would leave the kill until the next refresh.
- A process is killed by its group from the moment its pid is in the pidfile; autoserv
  writes it shortly before it creates the group.
- A call of a dispatcher that has died goes on or is lost.

## Runs

Each configuration is one question. Bounds in the guards are `MaxRepairLimit`,
`MaxProvisionRetries` (the configuration values of the code, here 1) and `MaxCrashes`; in `ShardHeartbeat`
`MaxFailures` (failed heartbeats and crashes) and `MaxUpload` (`MAX_UPLOAD_JOBS` of the code); in
`DroneManager` `MaxStarts` (how often the dispatcher is started), `MaxParse` and `MaxPidfileRefreshes` (configuration
values). Nothing else is unbounded.

| run | instance | distinct states | shows |
|---|---|---|---|
| `exclusive` | 1 host, 2 entries, one with a reset and one without, reverifies by the frontend | 1.0 M | `OneAgentPerHost`, `OneJobPerHost`, `ActiveHostLeased`: the host never serves two entries, has one agent, and is not released under an active entry |
| `assign` | 2 hosts, 1 metahost entry, provision or reset, aborts at any time | 0.6 M | `TypeOK`, `QueuedEntryIsFree`, `OnePreJobTask`, `HostlessIsIdle`: an entry separated from its host leaves nothing behind; `IInv`, the invariant of the proofs |
| `recovery` | 1 host, 1 entry, every kind of pre-job task, reverifies, host recovery, 1 crash of either process | 0.6 M | `RunningIsWatched`, `StatusForward`: recovery finds every running job, no entry moves back except to the queue |
| `progress` | 1 host, 1 entry, every kind of pre-job task, fair | 24 k | `EntryEnds`, `HostFreed`, `RepairStarts` |
| `abort_ends` | 1 host, 1 entry, aborts, 1 crash, fair | 42 k | `AbortEnds`: an aborted entry ends, wherever the abort or the crash hits it |
| `rdb` | 5 hosts, one locked and one one-time, 3 entries choosing among 7 requests, any hosts leased before, with and without cache | 0.46 M | `PromiseKept`, `NoHostTwice`, `NothingLeaks`, `CacheHidesNothing`; without the cache also `UncachedServesAll` and `UncachedKeepsPriority` |
| `shard` | a job with an abort and a failure, or a host with a failure, or two jobs with one upload per heartbeat and no failure; fair | 0.16 M | `NothingForgotten`, `ShardInv`, `CompleteIsFinal`, `JobSynced`, `JobArrives`, `AbortArrives`, `HostArrives`, `HostLeaves`, `StatusSynced` |
| `drones` | a job with a crash, or one that may be aborted and is slow to write its pid, or one an earlier dispatcher has left running that may be aborted, or two jobs to parse with one parser at a time; fair | 0.18 M | `WatchedIsRegistered`, `CompletedIsEarned`, `ParsedWhenOver`, `ParseLimit`, `DroneInv`, `FailedIsEarned`, `ParseEnds`, `AbortKills` |
| `overlap` | 1 host, 2 entries | violated | `NoOverlap`, in about 36 steps |
| `lost_entry` | 1 host, 1 entry, 1 crash | violated | `LostEntryRequeued`, in about 20 steps |
| `repair_limit` | 1 host, 1 metahost entry | violated | `RepairLimitKept`, in about 50 steps |
| `lost_completion` | 1 job with 2 entries, nothing fails, fair | violated | `EntrySynced` |

Why the bounds are enough. The code of the schedulers treats one entry and one host at a time, so
a conflict needs two parties: two entries on one host (`exclusive`, `overlap`), or one entry and
two hosts (`assign`). A third adds more of the same conflicts. A repair or provision limit of 1
reaches both sides of each comparison, and the counters saturate there. One crash
reaches every position of the tick with every content of the tables; recovery starts from the
tables alone, so that a second crash starts from states of the same kind. In `rdb` three entries
are the least that make a cached line stale (one fills it, one leases from it under another
key, one hits it), and two requests of one suite exhaust its minimum.

In `shard` and `drones` the constant `Loads` lists several small initial situations instead of one large one:
each actor meets each other one in some of them. One job, one failure and one abort make every
pair of client, late handler, master and shard's scheduler overlap at every step; two jobs
are needed only for the limit on uploads. One host and two statuses suffice, because hosts are treated
one by one and only equality of statuses matters. In `drones` one job with one crash reaches
every point a process may be at when its dispatcher dies; `MaxPidfileRefreshes = 0` makes a pidfile old after
two refreshes, so that a throttled job loses its own. The third and later lives of a dispatcher start like the
second, from the database and the drone alone.

Every property of a passing run has a mutant in `PROJECT.json`: an operator of the module, marked
`mutant:`, that changes one definition the way a plausible bug would, and with which TLC finds the
property violated.

Deadlock is checked in all runs but `rdb`: the loops of schedulers, client and dispatcher always
have a next step. A batch of `Rdb` ends when its last entry is answered, so its configuration
switches the check off.

## Fairness

`FairSpec` adds weak fairness of both scheduler loops: `while` loops around `tick` that
nothing but a crash or a requested shutdown ends. Strong fairness of starting and finishing a
task says that an agent that is ticked again and again finds a process slot, and its process
exits, at some tick; the code leaves both to the drones and to autoserv's own time-outs, and the
pidfile monitor turns a process that is gone into a failure. Strong fairness of an acquisition
says the rdb eventually grants an entry a host that is again and again free; with one entry
in these runs no other request can take precedence. Crashes and the frontend have no
fairness.

In `ShardHeartbeat` the client and the handler of the request it waits for are weakly fair: a loop
around `do_heartbeat`, and a request that fails is a `Fail` step, of which there are finitely many.
A `set_status` on the shard that has begun goes on, and an aborted entry is found at
some tick of the shard's scheduler. Strong fairness puts some of these steps outside of the client's
transactions: a deserialization takes moments, the pause between heartbeats (`tick_pause_sec`) minutes. Without this a job
that is aborted again and again could be completed each time between `ReadJob` and `SaveJob`, which
writes the incomplete row back. Nothing makes a job start or complete: jobs may wait or run
for ever, and a board, a lease or an abort may never come.

In `DroneManager` the dispatcher's loop, the calls on the drone and the reads of a refresh are weakly fair, and
so are a process that has started in writing its pid (the alternative is that it dies) and a
parser in ending. An autoserv may run for ever. Strong fairness of `TimeOut` for each job is the
clock: a monitor that finds no process at tick after tick passes the time-out. `AbortKills`
excludes runs in which the dispatcher dies after the abort.

## Findings

Four places where the code does not do what its own comments say; `PROJECT.json` quotes them.

1. *Overlap* (`postjob_task.py:273`). `GatherLogsTask.epilog` sets the host Ready before it queues
   the reset of a failed job. In between the host scheduler can release the host and lease it
   again for the next entry. The dispatcher then starts the reset on a leased host whose
   entry is not active yet, and the entry is activated under it. `query_managers.py:164` says
   the queries make sure "a host isn't being used by two jobs at the same time".
2. *Lost entry* (`monitor_db.py:752`). A task's row is marked complete before its epilog runs. If the
   dispatcher dies between the two, the entry keeps its pre-job status with no task. The check
   after recovery that should requeue it looks for Resetting entries only, though its
   comment speaks of Verifying; Provisioning, Verifying and Cleaning entries stay for ever.
3. *Repair limit* (`prejob_task.py:122`). The repairs of an entry on a host are counted after
   `requeue()` has cleared the host of a metahost entry. The count is 0 and the limit never applies.
4. *Lost completion* (`shard_client.py:269`). `_mark_jobs_as_uploaded` gives the jobs of a packet their
   shard_id back long after their entries were read. If the second entry of a job ends in between,
   the NULL that `_on_complete` has written (or has found and left) is overwritten. The master has the first
   entry complete and does not send the job again, so that `process_heartbeat_response` never re-syncs it,
   and the end of the second entry stays on the shard. "If shard_id is None, the job will be synced back to the
   master", says `scheduler_models.py:691`. Jobs with one entry are safe (`NothingForgotten`, `JobSynced`).

## Proofs

**JobScheduler** (`JobScheduler_proofs.tla`), from `ConstantsAssumption` only: `None` is no host
or entry, and the constant functions have their types. Nothing bounds the number of hosts,
entries, retries or crashes, and aborts, reverifies and crashes are all allowed.

| theorem | states |
|---|---|
| `TypeCorrect` | `TypeOK`; in particular no special task is ever created against a NULL host |
| `QueuedFree` | an entry that waits for a host or is being given one has no pre-job task, agent or epilog |
| `OnePreJob` | an entry has at most one pre-job task, on the host it holds |
| `HostlessIdle` | no agent, task, handler or pending abort works on an entry without a host |
| `RunningWatched` | every Running entry has its agent whenever the dispatcher is up |
| `Invariance` | the conjunction `IInv` behind them |

None of the four invariants is inductive. Whether a step breaks `HostlessIsIdle` depends on
who else may be working on a metahost entry when `requeue()` clears its host; so `MetaInv` ties
the agent of such an entry, the rows fetched by `_find_aborting`, the rest of a split
handler and the host scheduler's pending assignment to the status the entry has. `PhaseInv`
says in which phase those memories exist at all, `HsInv` that the entry being started has left
the pool of waiting entries, and has been given the acquired host before its active bit is written, `TaskInv` that a task whose epilog is pending is gone from the tables
(otherwise recovery could start it again) and that Resetting entries have resets only (which
is what makes `_check_for_unrecovered_verifying_entries` safe). One lemma per action
shows that the action preserves `IInv`, with a step per conjunct that it can disturb.
`RunningWatched` needs a second, smaller induction on top of `IInv`.

**Exclusivity** (`JobSchedulerExcl_proofs.tla`), from the same assumption and `Abortable = {}`: nobody aborts entries
through the frontend. With aborts the first two are false (see the limits below). Either scheduler may crash at
any time and any number of times, and reverifies are allowed; only `OneAgent` excludes crashes (`MaxCrashes = 0`),
after which recovery does create two agents.

| theorem | states |
|---|---|
| `OneJob` | a host never has two active entries |
| `ActiveLeased` | the host of an active entry is leased, whatever list of unused hosts was read before it became active |
| `EntriesForward` | `StatusForward`: the status of an entry moves forward, or back to Queued from a pre-job status |
| `OneAgent` | no two agents work on a host |
| `Exclusivity` | the inductive invariant `XInv` behind them |

`LeaseInv` holds the two statements the theorems are about, but a step that writes an active status, or
releases hosts, keeps it only if everybody who is about to write knows how far the entry has come. Hence the
other parts of `ExclInv`: the agent, the tasks, the open handler and the pending
assignment of an entry fit its status (`EntryInv`), and who will write an active status has
the active bit already (`ActiveInv`); entries are aborted by `_check_queue_entry_statuses` only,
which means that their jobs have begun (`AbortInv`); a host has
one task at work, counting agents, active rows and epilogs, so that recovery finds no second one (`OneTaskInv`).
The subtle one is `RepairInv`: a repair whose failure fails its entry writes the status of an entry that has long been requeued,
so until it has ended nobody may get that host, its entry included; an entry submitted for a host
must therefore keep it (`OwnHostInv`). The proof does not go through the dispatcher's
writes for each part: `WriteMove` classifies once what a write does to an entry (it keeps it, moves it to a later
status, finishes it, or stops it), and each part of the invariant is shown for that classification. For
`OneAgent`, `AgentInv` adds that no entry's agent and no task's agent are on one host.
All parts were also checked by TLC, on the instances of `exclusive` and `recovery` and on larger ones with a metahost, two
hosts or a crash.

**Rdb** (`Rdb_proofs.tla`), from `RdbAssumption`: finite hosts and entries, natural priorities
and minimums, one minimum per suite.

| theorem | states |
|---|---|
| `Refinement` | `Spec => PromiseKept`: the batch implements `HostAcquisition` |
| `HostsNeverShared` | no host is in two responses; `get_response` never raises after leasing |
| `CacheComplete` | a non-empty cache line contains every free host its key matches |
| `TypeCorrect` | `TypeOK`; in particular counts and minimums never become negative |

The inductive invariant `BatchInv` says that a provisional answer is either free or already
granted to a request that was validated (`TodoInv`), that all other answers are leased,
suitable and disjoint (`ResponseInv`), that the accountant holds no validation requests
(`OrderInv`), that lines hold matching hosts only (`CacheInv`) and miss no free one
(`CacheHidesNothing`), and that no entry is answered twice (`ReplyInv`). The step of
`_acquire_hosts` is proved once (`AcquireHostsStep`) and used for both passes. In the refinement
every step but `Reply` stutters, because what it leases is in a response; `Reply` grants.

Three more theorems count (`RdbCount_proofs.tla`, same assumption):

| theorem | states |
|---|---|
| `NoHostLeaks` | `NothingLeaks`: when every entry is answered no leased host is left in a response |
| `UncachedServes` | `UncachedServesAll`: without the cache a request that is short has no free host left |
| `UncachedUrgentFirst` | `UncachedKeepsPriority`: nor does the second pass give away what a more urgent request wants |

`BatchInv` says which hosts are in a response and not how many. Their invariant `CountInv` compares three numbers: the hosts in
a response and those a pass has still to ask for are together at most the entries that wait for the request.
A first pass that did not subtract what it has leased from `counts` would break it. `AccountantInv` says that the accountant deals with every request exactly once,
and `ServedInv` that, without the cache, a request whose numbers do not add up has
found no host: free hosts only get fewer during a batch, so it has missed none.

**ShardHeartbeat** (`ShardHeartbeat_proofs.tla`), from `ShardAssumption`: every entry has a job, `None` is
no row, host or status, limits are natural numbers.

| theorem | states |
|---|---|
| `ShardInvariant` | `ShardInv`, the inductive invariant described below |
| `ShardTypes` | `TypeOK`; in particular the handler never writes the status of a host the master does not have |
| `NothingIsForgotten` | a one-entry job that ended on the shard and not on the master is marked for upload or will be sent again |
| `CompleteStays` | no late or repeated request makes a one-entry job incomplete on the master |

`NothingForgotten` and `CompleteIsFinal` speak about rows, but what breaks them is in flight. `ShardInv` adds
`UploadsAreFinal`: the packet being put together, the packet sent and the copies the handlers work
on contain complete entries only, from the query of `_get_jobs_to_upload` on; therefore the master has no active entry
that is not complete, and a job that is not complete there is still eligible to be sent.
`AnswersAreWhole` says that a job of an answer comes with all its entries, without which `SaveJob` could
write a row that is none.

**DroneManager** (`DroneManager_proofs.tla`), from `DroneAssumption`: finitely many jobs, at least one parser allowed,
natural numbers for the other limits.

| theorem | states |
|---|---|
| `DroneInvariant` | `DroneInv`, the inductive invariant described below |
| `DroneTypes` | `TypeOK`; in particular ages stay below the limit |
| `WatchedStaysRegistered` | the pidfile of a process this dispatcher has started, and of every parser, is never dropped as leaked while its monitor is at work |
| `CompletedEarned` | Completed needs an autoserv that ended with exit status 0 |
| `ParsedOnlyWhenOver` | a dispatcher does not parse the results of an autoserv it has started and that runs (neither aborted nor slow to write its pid) |

The dispatcher concludes from three reads, at different moments, that a process is over. The
inductive invariant `DroneInv` says why it may: commands in flight have no process yet
(`CallsInOrder`), a dispatcher runs a command at most once (`StartedOnce`), what stands in a
pidfile, now or when it was read, is true of some process of the past (`PidfilesTrue`), the list
of processes misses none of this dispatcher's that is still alive (`ScanComplete`, which needs that
`execute_actions` has waited for the commands before the refresh begins), and a
task taken for over stays so (`OverIsOver`). `PidfilesFresh` follows the age of the pidfile of a `Tended` monitor
through the tick: each look resets it, so it is never older than one refresh when
`_drop_old_pidfiles` comes. Nothing of the kind holds for a recovered autoserv, whose Agent may be postponed again and again. The invariant is also checked by TLC on the instance of `drones`.

Two theorems more are in `DroneTasks_proofs.tla`:

| theorem | states |
|---|---|
| `ParsersLimited` | `ParseLimit`: the parsers a dispatcher has started stay within `max_parse_processes`, and one more for every job whose parser an earlier dispatcher had started |
| `FailuresEarned` | `FailedIsEarned`: a job that has passed is written Failed only if its pidfile was dropped while it waited for its parser |

The counter `_num_running_processes` is not the number of parsers: it goes up when a parser is started and down when
a monitor ends, and recovered parsers go down only. `CounterInv` bounds the difference: the parsers this
dispatcher counted are at most the counter and the jobs it was decreased for without having been increased, and these are jobs with an old
parser which this dispatcher has not started again. `MonitorInv` says that a working parser is either
counted or belongs to a job with an old one, never both in the bound (this is where `SeenOver`, that a monitor does not take a
running process for ended, is needed). After a crash the counter is gone, but what was started goes on, so `DownInv` keeps the bound itself.
For `FailuresEarned`, `FilesKept` says that the exit status of a process of this dispatcher stays in the pidfile (nobody else opens or
removes it), and `PassedIsKnown` follows the registration of that pidfile from the look that ended autoserv to the refresh before the
parser's first tick: until then it cannot grow old, and what is registered at the read has been read.

## What is only model-checked

Liveness (`EntryEnds`, `HostFreed`, `RepairStarts`, `AbortEnds`; `JobSynced`, `JobArrives`, `AbortArrives`, `HostArrives`,
`HostLeaves`, `StatusSynced`; `ParseEnds`, `AbortKills`) is out of the prover's reach: it rests on fairness and `ENABLED`.
Every invariant and every other action property that a passing run checks is stated by a theorem.
`OneJobPerHost`, `ActiveHostLeased` and `StatusForward` are proved without aborts; `OneAgentPerHost` without
aborts and crashes. With aborts `StatusForward` is not checked either.

The limits of what holds, found while choosing the runs' constants:

- With aborts and reverifies together `OneJobPerHost` and `ActiveHostLeased` fail: an entry
  aborted while it is being assigned is written Aborted by the dispatcher from a stale row,
  which leaves its active bit, and then Pending by the host scheduler.
- With a crash and a reverify `OneAgentPerHost` fails: recovery does not look at the host when
  it recreates agents.
- With an abort and a crash `RepairStarts` fails: a host left Resetting is not in the list of
  `_reverify_remaining_hosts`.
- With aborts `HostFreed` fails: an entry aborted while Cleaning, or between activation and its
  first task, leaves its host leased.
- The host scheduler dying between the active bit and the first task leaves the entry
  active and Queued until it is aborted.
- With the cache a request that fell short in the first pass of `Rdb` is not served in the second although
  free hosts are left: it tries only as many hosts of its line as it needs, one of them may be leased
  meanwhile, and `get_duts` does not ask again (`rdb_utils.py:171`; its docstring, `rdb_utils.py:102`, takes
  that for impossible). So `UncachedServesAll` and `UncachedKeepsPriority` are about batches without the cache.
- A host the shard has is leased on the master all the same: `find_hosts` and `lease()` do not look at the shard.
- A host whose board is taken from the shard need not leave it. `shard_heartbeat` gets the row of a host and, if the
  status has changed, saves all its columns (`rpc_interface.py:2087-2090`); a `remove_board_from_shard` in between is
  undone, and the host is the shard's for good, since nobody compares boards again. `HostLeaves` therefore says that the host leaves
  the shard or that its shard_id was restored, and restored in this way only. The comment on atomicity in `remove_board_from_shard`
  (`rpc_interface.py:2196-2198`) is about its own statements.
- Of a job with several entries a late packet can set an entry back on the master, and an abort of some of
  the entries does not reach a shard that knows the job. The properties of `ShardHeartbeat` are about jobs with one
  entry (`Single`), which is what suites create.
- A dispatcher that dies between the start of a process and the write of its pid starts the task again:
  `ParsedWhenOver`, `ParseLimit` and `FailedIsEarned` leave out tasks an earlier dispatcher has started (`OnlyNow`).
- A parser recovered after a restart was not counted but is counted down, and lets one more than `max_parse_processes` run;
  `ParseLimit` allows for it.
- A job that passed ends Failed when the pidfile of its autoserv is dropped while the job waits for its parser
  (`FailedIsEarned` says that this is the only way): nothing looks at a paired pidfile in the meantime.
- The pidfile of a recovered autoserv whose Agent finds no room on the drone for `max_pidfile_refreshes` ticks
  (`monitor_db.py:1208`) is dropped, and the running autoserv is then taken for a process that was never started.
  `WatchedIsRegistered` leaves recovered autoservs out, and `ParsedWhenOver` is about the ones a dispatcher has started itself.
- An abort that comes before the pid is written, or that dies with the dispatcher, kills nothing, and the
  results are parsed while autoserv runs.

Three of these limits sit badly with lines of the repository. `rdb_utils.py:102` takes the shortfall of a cached request for impossible.
`query_managers.py:164-167`, quoted above for *Overlap*, wants no host used by two jobs at once, which aborts together with reverifies
bring about as well. `postjob_task.py:109` says that the parsing task "maintains its own process limit", and after a restart it
lets more parsers run. They are listed here and not as findings of their own: the first two come through the races that `hazards` describes, and the third is bounded
by `ParseLimit`. Of the others no line promises the opposite. `HostFreed` and `RepairStarts` are checked without aborts.

## Not modelled

- Jobs with `synch_count > 1`: Pending entries that wait for each other, `stop_if_necessary`, groups.
- `_find_aborted_special_tasks`, `die_on_orphans`, the lucifer hand-off (disabled unless configured, and the work goes to
  an external program), lifetime expiry.
- The suite recorder of the host scheduler (`minimum DUTs` across ticks); `Rdb` has the minimums of one batch.
- Several drones: the choice by load, the collection of the threads' exceptions, result copying.
- Periodic cleanup: time-outs of jobs reach the models as aborts, the rest is housekeeping.
- Client, server and site tests, and the libraries that drive devices: most of the repository's lines.
  They are I/O against hardware and share no state with the scheduler beyond exit status and pidfile.

## Plan

Done: the core (`JobScheduler`), host acquisition (`Rdb`, `HostAcquisition`), shards (`ShardHeartbeat`), processes, pidfiles and the
limit on parsers (`DroneManager`); in that order because exclusivity of hosts is what the rest relies on. Next, most important first:

1. Jobs with `synch_count > 1`: entries become Pending in two processes, each counting the others.
2. The suite recorder of the host scheduler across ticks, over `Rdb`'s minimums.
3. Special task aborts in `JobScheduler`, and the composition of `JobScheduler` with the promise of `DroneManager` (a process
   taken for over is over) as an abstract specification.

Theorems worth proving next: exclusivity with aborts but without reverifies, if TLC confirms it on larger instances; that
`HsAcquire` of `JobScheduler` takes only steps `HostAcquisition` allows, which would close the gap between the
two modules; and the inductive invariants behind liveness (a throttled parser's counter returns below the limit, an abort row is
found again), so that the temporal properties rest on more than the small instances.
