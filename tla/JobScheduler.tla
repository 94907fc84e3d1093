---------------------------- MODULE JobScheduler ----------------------------
(***************************************************************************)
(* The life of host queue entries (HQEs) in the Autotest job scheduler.    *)
(* Three processes share the AFE database:                                 *)
(*   - the dispatcher (scheduler/monitor_db.py), which ticks for ever and  *)
(*     runs special tasks and jobs through in-memory agents;               *)
(*   - the stand-alone host scheduler (scheduler/host_scheduler.py), which *)
(*     leases hosts, hands them to queued entries and releases them;       *)
(*   - the web frontend, which aborts entries and asks for reverifies.     *)
(* Every process reads rows, goes on computing, and writes single columns  *)
(* later, so what it acts on may be stale.  Jobs are asynchronous here     *)
(* (synch_count = 1, one entry per job).  Special tasks are rows equal in  *)
(* host, kind and entry only once: no property tells duplicates apart.     *)
(***************************************************************************)
EXTENDS Naturals, FiniteSets

CONSTANTS
    Hosts,                \* the devices under test
    Entries,              \* the host queue entries
    None,                 \* the SQL NULL
    MetaHost,             \* entries submitted for a label, not for a host
    HostOf,               \* the host a non-metahost entry is submitted for
    PreJob,               \* pre-job task kinds an entry may need, None included
    RunReset,             \* entries whose job has run_reset
    RebootAfter,          \* job.reboot_after of an entry
    MaxRepairLimit,       \* scheduler_config max_repair_limit
    MaxProvisionRetries,  \* scheduler_config max_provision_retries
    Abortable,            \* entries that may be aborted
    Reverifies,           \* hosts the frontend may ask to reverify
    RecoverHosts,         \* the --recover-hosts option
    MaxCrashes            \* bound: crashes of either scheduler process

PreJobKinds == {"Verify", "Cleanup", "Reset", "Provision"}
Kinds       == PreJobKinds \cup {"Repair"}

ASSUME ConstantsAssumption ==
    /\ None \notin Hosts \cup Entries
    /\ MetaHost \subseteq Entries
    /\ HostOf \in [Entries -> Hosts \cup {None}]
    /\ \A e \in Entries : e \in MetaHost <=> HostOf[e] = None
    /\ PreJob \in [Entries -> SUBSET (PreJobKinds \cup {None})]
    /\ RunReset \subseteq Entries
    /\ RebootAfter \in [Entries -> {"Never", "IfAllTestsPassed", "Always"}]
    /\ MaxRepairLimit \in Nat
    /\ MaxProvisionRetries \in Nat
    /\ Abortable \subseteq Entries
    /\ Reverifies \subseteq Hosts
    /\ RecoverHosts \in BOOLEAN
    /\ MaxCrashes \in Nat

\* client/common_lib/host_queue_entry_states.py (Parsing is not active)
ActiveStatuses   == {"Starting", "Resetting", "Verifying", "Provisioning",
                     "Pending", "Running", "Gathering", "Cleaning"}
CompleteStatuses == {"Aborted", "Completed", "Failed"}
Statuses         == ActiveStatuses \cup CompleteStatuses \cup {"Queued", "Parsing"}
HostStatuses     == {"Ready", "Verifying", "Cleaning", "Resetting", "Provisioning",
                     "Repairing", "Repair Failed", "Pending", "Running"}

\* a row of afe_special_tasks
Task == [host : Hosts, kind : Kinds, hqe : Entries \cup {None}]
SpecialTask(h, k, e) == [host |-> h, kind |-> k, hqe |-> e]

VARIABLES
    \* the database
    hqeStatus, hqeHost, active, complete, aborted,  \* afe_host_queue_entries
    hostStatus, leased,                             \* afe_hosts
    queued, running,       \* afe_special_tasks: not yet active, active
    repairs, provisions,   \* rows of past and present repairs and provisions
    exit,                  \* what the autoserv pidfile of an entry says
    \* the dispatcher's memory
    phase, agentNew, agentRun, hqeAgent, hqeStarted, seen, todo, cont,
    \* the host scheduler's memory
    hsPhase, hsJobs, hsEntry, hsRelease,
    crashes

entryVars == <<hqeStatus, hqeHost, active, complete, aborted>>
hostVars  == <<hostStatus, leased>>
taskVars  == <<queued, running, repairs, provisions>>
agentVars == <<agentNew, agentRun, hqeAgent, hqeStarted>>
dispVars  == <<phase, agentNew, agentRun, hqeAgent, hqeStarted, seen, todo, cont>>
hsVars    == <<hsPhase, hsJobs, hsEntry, hsRelease>>
vars      == <<entryVars, hostVars, taskVars, exit, dispVars, hsVars, crashes>>

Phases   == {"down", "pending", "unrecovered", "reverify",
             "running", "special", "find", "aborting", "handle"}
HsPhases == {"lease", "acquire", "assign", "activate", "prejob", "run", "unlease"}
Conts    == [op : {"epilog"}, task : Task, ok : BOOLEAN]
            \cup [op : {"run", "reboot", "reset"}, hqe : Entries]

NotSeen == [status |-> "none", active |-> FALSE]

DbTypes ==
    /\ hqeStatus \in [Entries -> Statuses]
    /\ hqeHost \in [Entries -> Hosts \cup {None}]
    /\ active \subseteq Entries /\ complete \subseteq Entries /\ aborted \subseteq Entries
    /\ hostStatus \in [Hosts -> HostStatuses]
    /\ leased \subseteq Hosts
    /\ queued \subseteq Task /\ running \subseteq Task
    /\ repairs \in [Entries -> [Hosts -> 0..MaxRepairLimit]]
    /\ provisions \in [Entries -> 0..(MaxProvisionRetries + 1)]
    /\ exit \in [Entries -> {"none", "ok", "fail", "signal"}]

DispatcherTypes ==
    /\ phase \in Phases
    /\ agentNew \subseteq Task /\ agentRun \subseteq Task
    /\ hqeAgent \in [Entries -> {"none", "queue", "gather", "parse"}]
    /\ hqeStarted \subseteq Entries
    /\ seen \in [Entries -> [status : Statuses \cup {"none"}, active : BOOLEAN]]
    /\ todo \subseteq Task \cup Entries
    /\ cont \in Conts \cup {None}

HostSchedulerTypes ==
    /\ hsPhase \in HsPhases
    /\ hsJobs \in [Entries -> Hosts \cup {None}]
    /\ hsEntry \in Entries \cup {None}
    /\ hsRelease \subseteq Hosts

\* Every column and every piece of memory keeps its type; no special task is
\* ever created against the NULL host of an entry that lost its host.
TypeOK == DbTypes /\ DispatcherTypes /\ HostSchedulerTypes /\ crashes \in 0..MaxCrashes

Init ==
    /\ hqeStatus = [e \in Entries |-> "Queued"]
    /\ hqeHost = HostOf
    /\ active = {} /\ complete = {} /\ aborted = {}
    /\ hostStatus = [h \in Hosts |-> "Ready"]
    /\ leased = {}
    /\ queued = {} /\ running = {}
    /\ repairs = [e \in Entries |-> [h \in Hosts |-> 0]]
    /\ provisions = [e \in Entries |-> 0]
    /\ exit = [e \in Entries |-> "none"]
    /\ phase = "running"
    /\ agentNew = {} /\ agentRun = {}
    /\ hqeAgent = [e \in Entries |-> "none"]
    /\ hqeStarted = {}
    /\ seen = [e \in Entries |-> NotSeen]
    /\ todo = {} /\ cont = None
    /\ hsPhase = "lease"
    /\ hsJobs = [e \in Entries |-> None]
    /\ hsEntry = None
    /\ hsRelease = {}
    /\ crashes = 0

-----------------------------------------------------------------------------
(* Queries and writes shared by the processes.                             *)

\* HostQueueEntry.set_status by a process whose copy of the row is current
SetStatus(e, s) ==
    /\ hqeStatus' = [hqeStatus EXCEPT ![e] = s]
    /\ active' = IF s \in ActiveStatuses THEN active \cup {e} ELSE active \ {e}
    /\ complete' = IF s \in CompleteStatuses THEN complete \cup {e} ELSE complete \ {e}

SetHostStatus(h, s) == hostStatus' = [hostStatus EXCEPT ![h] = s]

ActiveOn(h) == {e \in active : hqeHost[e] = h}

\* mutant: a task with an entry waits for that entry to be active
RunnableStrict(t) ==
    t \in queued /\ IF t.hqe = None THEN ActiveOn(t.host) = {} ELSE t.hqe \in ActiveOn(t.host)

\* get_prioritized_special_tasks: not blocked by another entry's active use
Runnable(t) == t \in queued /\ (ActiveOn(t.host) = {} \/ t.hqe \in ActiveOn(t.host))

Priority(k) == CASE k = "Repair" -> 1 [] k = "Cleanup" -> 2 [] k = "Verify" -> 3
                 [] k = "Reset" -> 4 [] k = "Provision" -> 5

TaskAgents == agentNew \cup agentRun

\* host_has_agent: parsing agents do not register their host
HostHasAgent(h) ==
    \/ \E t \in TaskAgents : t.host = h
    \/ \E e \in Entries : hqeAgent[e] \in {"queue", "gather"} /\ hqeHost[e] = h

\* mutant: recovery forgets running jobs
HandledStatusesShort == {"Starting", "Gathering", "Parsing"}

HandledStatuses == {"Starting", "Running", "Gathering", "Parsing"}
\* mutant: a Gathering entry gets a QueueTask
AgentKindAgain(s) == IF s = "Parsing" THEN "parse" ELSE "queue"

AgentKind(s) == CASE s \in {"Starting", "Running"} -> "queue"
                  [] s = "Gathering" -> "gather"
                  [] s = "Parsing" -> "parse"

\* the rows left when those of an entry, or of an entry on a host, are completed
Without(tasks, e) == {q \in tasks : q.hqe # e}
WithoutOn(tasks, e, h) == {q \in tasks : ~(q.hqe = e /\ q.host = h)}

Least(m, n) == IF m < n THEN m ELSE n

-----------------------------------------------------------------------------
(* The frontend.                                                           *)

\* abort_host_queue_entries; also what job timeouts and request_abort do
AbortHqe(e) ==
    /\ e \in Abortable
    /\ e \notin complete \cup aborted
    /\ aborted' = aborted \cup {e}
    /\ UNCHANGED <<hqeStatus, hqeHost, active, complete, hostVars, taskVars, exit,
                   dispVars, hsVars, crashes>>

\* schedule_special_task: a verify of a host, unless one is queued already
ReverifyHost(h) ==
    /\ h \in Reverifies
    /\ ~ \E t \in queued : t.host = h /\ t.kind = "Verify"
    /\ queued' = queued \cup {SpecialTask(h, "Verify", None)}
    /\ UNCHANGED <<entryVars, hostVars, running, repairs, provisions, exit,
                   dispVars, hsVars, crashes>>

-----------------------------------------------------------------------------
(* The host scheduler: lease, acquire and assign, release; for ever.       *)

HsLease ==
    /\ hsPhase = "lease"
    /\ leased' = leased \cup {t.host : t \in {r \in queued : Runnable(r) /\ r.hqe = None}}
    /\ hsPhase' = "acquire"
    /\ UNCHANGED <<entryVars, hostStatus, taskVars, exit, dispVars, hsJobs, hsEntry,
                   hsRelease, crashes>>

Pending(e) == hqeStatus[e] = "Queued" /\ e \notin active \cup complete \cup aborted

\* mutant: one host answers two requests
AcquisitionsShared ==
    {f \in [Entries -> Hosts \cup {None}] :
        \A e \in Entries : f[e] # None =>
            Pending(e) /\ f[e] \notin leased /\ hqeHost[e] \in {None, f[e]}}

\* what the rdb may answer: distinct unleased hosts, the entry's own if it has one
Acquisitions ==
    {f \in [Entries -> Hosts \cup {None}] :
        /\ \A e \in Entries : f[e] # None =>
              /\ Pending(e)
              /\ f[e] \notin leased
              /\ hqeHost[e] \in {None, f[e]}
        /\ \A d, e \in Entries : d # e /\ f[d] # None => f[d] # f[e]}

HsAcquire ==
    /\ hsPhase = "acquire"
    /\ hsJobs' \in Acquisitions
    /\ leased' = leased \cup {hsJobs'[e] : e \in {d \in Entries : hsJobs'[d] # None}}
    /\ hsPhase' = "assign"
    /\ UNCHANGED <<entryVars, hostStatus, taskVars, exit, dispVars, hsEntry,
                   hsRelease, crashes>>

\* mutant: set_host is forgotten
HsSetHostNot(e) ==
    /\ hsPhase = "assign" /\ hsJobs[e] # None /\ hqeHost[e] = None
    /\ hsEntry' = e /\ hsPhase' = "activate"
    /\ UNCHANGED <<entryVars, hostVars, taskVars, exit, dispVars, hsJobs, hsRelease, crashes>>

\* schedule_host_job; nothing rereads the row the host was acquired for.  An entry without
\* a host gets it first, ...
HsSetHost(e) ==
    /\ hsPhase = "assign"
    /\ hsJobs[e] # None /\ hqeHost[e] = None
    /\ hqeHost' = [hqeHost EXCEPT ![e] = hsJobs[e]]
    /\ hsEntry' = e
    /\ hsPhase' = "activate"
    /\ UNCHANGED <<hqeStatus, active, complete, aborted, hostVars, taskVars, exit, dispVars,
                   hsJobs, hsRelease, crashes>>

\* mutant: the active bit is left to the first task
HsActivateLate(e) ==
    /\ hsJobs[e] # None
    /\ (hsPhase = "assign" /\ hqeHost[e] # None) \/ (hsPhase = "activate" /\ hsEntry = e)
    /\ hsJobs' = [hsJobs EXCEPT ![e] = None]
    /\ hsEntry' = e /\ hsPhase' = "prejob"
    /\ UNCHANGED <<entryVars, hostVars, taskVars, exit, dispVars, hsRelease, crashes>>

\* ... then the active bit is written.
HsActivate(e) ==
    /\ hsJobs[e] # None
    /\ (hsPhase = "assign" /\ hqeHost[e] # None) \/ (hsPhase = "activate" /\ hsEntry = e)
    /\ active' = active \cup {e}
    /\ hsJobs' = [hsJobs EXCEPT ![e] = None]
    /\ hsEntry' = e
    /\ hsPhase' = "prejob"
    /\ UNCHANGED <<hqeStatus, hqeHost, complete, aborted, hostVars, taskVars, exit, dispVars,
                   hsRelease, crashes>>

\* mutant: a reset is queued besides the provision
HsPreJobTwice(k) ==
    /\ hsPhase = "prejob" /\ k \in PreJob[hsEntry] \ {None}
    /\ queued' = queued \cup {SpecialTask(hqeHost[hsEntry], kind, hsEntry) : kind \in {k, "Reset"}}
    /\ hsEntry' = None /\ hsPhase' = "assign"
    /\ UNCHANGED <<entryVars, hostVars, running, repairs, provisions, exit, dispVars, hsJobs,
                   hsRelease, crashes>>

\* Job.schedule_pre_job_tasks queues one task ...
HsPreJob(k) ==
    LET e == hsEntry IN
    /\ hsPhase = "prejob"
    /\ k \in PreJob[e] \ {None}
    /\ queued' = queued \cup {SpecialTask(hqeHost[e], k, e)}
    /\ provisions' = IF k = "Provision"
                     THEN [provisions EXCEPT ![e] = Least(@ + 1, MaxProvisionRetries + 1)]
                     ELSE provisions
    /\ hsEntry' = None
    /\ hsPhase' = "assign"
    /\ UNCHANGED <<entryVars, hostVars, running, repairs, exit, dispVars, hsJobs,
                   hsRelease, crashes>>

\* ... or, when none is needed, calls on_pending.  Its copy of the row says
\* active and not complete, so update_field writes the status column only.
HsOnPending ==
    LET e == hsEntry IN
    /\ hsPhase = "prejob"
    /\ None \in PreJob[e]
    /\ hqeStatus' = [hqeStatus EXCEPT ![e] = "Pending"]
    /\ SetHostStatus(hqeHost[e], "Pending")
    /\ hsPhase' = "run"
    /\ UNCHANGED <<hqeHost, active, complete, aborted, leased, taskVars, exit, dispVars,
                   hsJobs, hsEntry, hsRelease, crashes>>

\* run_if_ready counts the Pending entries in the database
HsRun ==
    LET e == hsEntry IN
    /\ hsPhase = "run"
    /\ hqeStatus' = IF hqeStatus[e] = "Pending"
                    THEN [hqeStatus EXCEPT ![e] = "Starting"] ELSE hqeStatus
    /\ hsEntry' = None
    /\ hsPhase' = "assign"
    /\ UNCHANGED <<hqeHost, active, complete, aborted, hostVars, taskVars, exit, dispVars,
                   hsJobs, hsRelease, crashes>>

\* mutant: active entries are not looked at
UnusedIgnoringJobs(h) ==
    h \in leased /\ hostStatus[h] = "Ready" /\ \A t \in queued \cup running : t.host # h

Unused(h) ==
    /\ h \in leased
    /\ hostStatus[h] = "Ready"
    /\ ActiveOn(h) = {}
    /\ \A t \in queued \cup running : t.host # h

\* _release_hosts: the query ...
HsFindUnused ==
    /\ hsPhase = "assign"
    /\ \A e \in Entries : hsJobs[e] = None
    /\ hsRelease' = {h \in Hosts : Unused(h)}
    /\ hsPhase' = "unlease"
    /\ UNCHANGED <<entryVars, hostVars, taskVars, exit, dispVars, hsJobs, hsEntry, crashes>>

\* ... and the update of the hosts it returned
HsUnlease ==
    /\ hsPhase = "unlease"
    /\ leased' = leased \ hsRelease
    /\ hsRelease' = {}
    /\ hsPhase' = "lease"
    /\ UNCHANGED <<entryVars, hostStatus, taskVars, exit, dispVars, hsJobs, hsEntry, crashes>>

HsCrash ==
    /\ crashes < MaxCrashes
    /\ crashes' = crashes + 1
    /\ hsPhase' = "lease"
    /\ hsJobs' = [e \in Entries |-> None]
    /\ hsEntry' = None
    /\ hsRelease' = {}
    /\ UNCHANGED <<entryVars, hostVars, taskVars, exit, dispVars>>

-----------------------------------------------------------------------------
(* The dispatcher's tick, first half: agents for what the tables ask for.  *)

\* _schedule_running_host_queue_entries: one agent per entry that needs one;
\* an entry whose host already has an agent is skipped as malformed
ScheduleRunning ==
    /\ phase = "running"
    /\ hqeAgent' = [e \in Entries |->
          IF /\ hqeAgent[e] = "none"
             /\ hqeStatus[e] \in HandledStatuses
             /\ hqeStatus[e] # "Parsing" => ~HostHasAgent(hqeHost[e])
          THEN AgentKind(hqeStatus[e]) ELSE hqeAgent[e]]
    /\ phase' = "special"
    /\ UNCHANGED <<entryVars, hostVars, taskVars, exit, agentNew, agentRun, hqeStarted,
                   seen, todo, cont, hsVars, crashes>>

\* mutant: agents of the host are not looked at
SchedulableBusy(h) == {t \in queued : t.host = h /\ Runnable(t) /\ h \in leased}

\* _schedule_special_tasks: by priority, one agent per leased host without one
Schedulable(h) == {t \in queued : t.host = h /\ Runnable(t) /\ h \in leased
                                  /\ ~HostHasAgent(h)}

ScheduleSpecial ==
    /\ phase = "special"
    /\ \E pick \in [Hosts -> queued \cup {None}] :
          /\ \A h \in Hosts :
                IF Schedulable(h) = {} THEN pick[h] = None
                ELSE /\ pick[h] \in Schedulable(h)
                     /\ \A t \in Schedulable(h) : Priority(pick[h].kind) <= Priority(t.kind)
          /\ agentNew' = agentNew \cup ({pick[h] : h \in Hosts} \ {None})
    /\ phase' = "find"
    /\ UNCHANGED <<entryVars, hostVars, taskVars, exit, agentRun, hqeAgent, hqeStarted,
                   seen, todo, cont, hsVars, crashes>>

-----------------------------------------------------------------------------
(* Aborting.                                                               *)

\* _find_aborting fetches every row first ...
FindAborting ==
    /\ phase = "find"
    /\ seen' = [e \in Entries |->
                  IF e \in aborted \ complete
                  THEN [status |-> hqeStatus[e], active |-> e \in active] ELSE NotSeen]
    /\ phase' = "aborting"
    /\ UNCHANGED <<entryVars, hostVars, taskVars, exit, agentVars, todo, cont, hsVars, crashes>>

\* agents registered for an entry; a repair is not
AgentsFor(e) == {t \in TaskAgents : t.hqe = e /\ t.kind # "Repair"}

\* the tables after the queued tasks of e are marked complete and its task
\* agents are aborted, which finishes their rows
DropTasks(e, new) ==
    /\ queued' = Without(queued, e) \cup new
    /\ running' = running \ AgentsFor(e)
    /\ agentNew' = agentNew \ AgentsFor(e)
    /\ agentRun' = agentRun \ AgentsFor(e)
    /\ UNCHANGED <<repairs, provisions>>

\* mutant: the complete bit is forgotten
SetAbortedIncomplete(e) ==
    /\ hqeStatus' = [hqeStatus EXCEPT ![e] = "Aborted"]
    /\ active' = IF seen[e].active THEN active \ {e} ELSE active
    /\ exit' = [exit EXCEPT ![e] = "none"]
    /\ UNCHANGED complete

\* HostQueueEntry.abort ends in set_status(Aborted): update_field leaves the
\* active column alone when the copy fetched earlier says it is not set.
\* Nobody looks at the pidfile of the entry again.
SetAborted(e) ==
    /\ hqeStatus' = [hqeStatus EXCEPT ![e] = "Aborted"]
    /\ active' = IF seen[e].active THEN active \ {e} ELSE active
    /\ complete' = complete \cup {e}
    /\ exit' = [exit EXCEPT ![e] = "none"]

Seen(e) ==
    /\ phase = "aborting"
    /\ seen[e] # NotSeen
    /\ seen' = [seen EXCEPT ![e] = NotSeen]
    /\ UNCHANGED <<phase, todo, cont, hqeHost, aborted, leased, hsVars, crashes>>

\* a QueueTask is killed and leaves its entry to the log gathering
AbortQueueTask(e) ==
    /\ hqeAgent[e] = "queue"
    /\ Seen(e)
    /\ DropTasks(e, {})
    /\ SetHostStatus(hqeHost[e], "Running")
    /\ hqeStatus' = [hqeStatus EXCEPT ![e] = "Gathering"]
    /\ active' = active \cup {e}
    /\ exit' = [exit EXCEPT ![e] = IF e \in hqeStarted THEN "signal" ELSE "none"]
    /\ hqeAgent' = [hqeAgent EXCEPT ![e] = "none"]
    /\ hqeStarted' = hqeStarted \ {e}
    /\ UNCHANGED complete

\* post-job tasks ignore aborts: the entry will end as Aborted anyway
AbortPostJob(e) ==
    /\ hqeAgent[e] # "queue"
    /\ seen[e].status \in {"Gathering", "Parsing"}
    /\ Seen(e)
    /\ DropTasks(e, {})
    /\ UNCHANGED <<hqeStatus, active, complete, exit, hostStatus, hqeAgent, hqeStarted>>

AbortStarting(e) ==
    /\ hqeAgent[e] # "queue"
    /\ seen[e].status \in {"Starting", "Pending", "Running"}
    /\ Seen(e)
    /\ DropTasks(e, {})
    /\ SetHostStatus(hqeHost[e], "Ready")
    /\ SetAborted(e)
    /\ UNCHANGED <<hqeAgent, hqeStarted>>

\* the task that puts the host of an aborted pre-job task back in order; an
\* entry that is Queued or Cleaning gets none
AfterAbort(e) ==
    CASE seen[e].status \in {"Verifying", "Resetting"} -> {SpecialTask(hqeHost[e], "Cleanup", None)}
      [] seen[e].status = "Provisioning" -> {SpecialTask(hqeHost[e], "Repair", None)}
      [] OTHER -> {}

AbortPreJob(e) ==
    /\ hqeAgent[e] # "queue"
    /\ seen[e].status \notin {"Gathering", "Parsing", "Starting", "Pending", "Running"}
    /\ Seen(e)
    /\ DropTasks(e, AfterAbort(e))
    /\ SetAborted(e)
    /\ UNCHANGED <<hostStatus, hqeAgent, hqeStarted>>

HandleAborted ==
    /\ phase = "aborting"
    /\ \A e \in Entries : seen[e] = NotSeen
    /\ todo' = TaskAgents \cup {e \in Entries : hqeAgent[e] # "none"}
    /\ phase' = "handle"
    /\ UNCHANGED <<entryVars, hostVars, taskVars, exit, agentVars, seen, cont, hsVars, crashes>>

-----------------------------------------------------------------------------
(* _handle_agents: every agent is ticked once.  A handler that writes in   *)
(* several steps leaves the rest of its work in cont.                      *)

Handling(x) ==
    /\ phase = "handle"
    /\ cont = None
    /\ x \in todo
    /\ todo' = todo \ {x}
    /\ UNCHANGED <<phase, seen, leased, hsVars, crashes>>

\* no process slot free, or the process of the agent has not exited yet
SkipAgent(x) ==
    /\ Handling(x)
    /\ UNCHANGED <<entryVars, hostStatus, taskVars, exit, agentVars, cont>>

\* mutant: a provision shows as a reset
StatusOfReset(k) == IF k = "Repair" THEN "Repairing" ELSE "Resetting"

StatusOf(k) == CASE k = "Verify" -> "Verifying"   [] k = "Cleanup" -> "Cleaning"
                 [] k = "Reset" -> "Resetting"    [] k = "Provision" -> "Provisioning"
                 [] k = "Repair" -> "Repairing"

\* remove_special_tasks in the prologs of VerifyTask and ResetTask
Removed(t) ==
    {q \in queued : /\ q.host = t.host /\ q.hqe = None
                    /\ \/ t.kind = "Verify" /\ q.kind = "Verify"
                       \/ t.kind = "Reset" /\ q.kind \in {"Cleanup", "Verify", "Reset"}}

\* prolog of a special task; activate() saves the row, whatever became of it
StartTask(t) ==
    /\ t \in agentNew
    /\ Handling(t)
    /\ agentNew' = agentNew \ {t}
    /\ agentRun' = agentRun \cup {t}
    /\ queued' = (queued \ {t}) \ Removed(t)
    /\ running' = running \cup {t}
    /\ SetHostStatus(t.host, StatusOf(t.kind))
    /\ IF t.hqe # None /\ t.kind # "Repair"
       THEN SetStatus(t.hqe, StatusOf(t.kind))
       ELSE UNCHANGED <<hqeStatus, active, complete>>
    /\ UNCHANGED <<hqeHost, aborted, repairs, provisions, exit, hqeAgent, hqeStarted, cont>>

\* the process exited: cleanup() finishes the row, the epilog goes on in cont
FinishTask(t, ok) ==
    /\ t \in agentRun
    /\ Handling(t)
    /\ agentRun' = agentRun \ {t}
    /\ running' = running \ {t}
    /\ cont' = [op |-> "epilog", task |-> t, ok |-> ok]
    /\ UNCHANGED <<entryVars, hostStatus, queued, repairs, provisions, exit, agentNew,
                   hqeAgent, hqeStarted>>

InEpilog(ok) ==
    /\ phase = "handle"
    /\ cont # None
    /\ cont.op = "epilog" /\ cont.ok = ok
    /\ UNCHANGED <<phase, agentVars, seen, todo, aborted, leased, exit, hsVars, crashes>>

\* _should_pending
ShouldPending(t) == t.hqe # None /\ \A q \in queued : ~(q.host = t.host /\ q.hqe = t.hqe)

\* a pre-job task succeeded and its entry has no other one queued: on_pending
EpilogOnPending ==
    /\ InEpilog(TRUE)
    /\ cont.task.kind # "Repair"
    /\ ShouldPending(cont.task)
    /\ SetStatus(cont.task.hqe, "Pending")
    /\ SetHostStatus(hqeHost[cont.task.hqe], "Pending")
    /\ cont' = [op |-> "run", hqe |-> cont.task.hqe]
    /\ UNCHANGED <<hqeHost, taskVars>>

\* mutant: the host keeps the status of the task
EpilogReadyForgotten ==
    /\ InEpilog(TRUE)
    /\ cont.task.kind = "Repair" \/ ~ShouldPending(cont.task)
    /\ cont' = None
    /\ UNCHANGED <<hqeStatus, hqeHost, active, complete, hostStatus, taskVars>>

\* a special task succeeded otherwise; a provision leaves the host as it is
EpilogReady ==
    /\ InEpilog(TRUE)
    /\ cont.task.kind = "Repair" \/ ~ShouldPending(cont.task)
    /\ IF cont.task.kind = "Provision" THEN UNCHANGED hostStatus
       ELSE SetHostStatus(cont.task.host, "Ready")
    /\ cont' = None
    /\ UNCHANGED <<hqeStatus, hqeHost, active, complete, taskVars>>

\* run_if_ready of a one-entry job
RunIfReady ==
    /\ phase = "handle"
    /\ cont # None
    /\ cont.op = "run"
    /\ SetStatus(cont.hqe, "Starting")
    /\ cont' = None
    /\ UNCHANGED <<hqeHost, aborted, hostVars, taskVars, exit, phase, agentVars, seen, todo,
                   hsVars, crashes>>

PrejobFailed(t) == InEpilog(FALSE) /\ cont' = None /\ cont.task = t /\ t.kind # "Repair"

\* PreJobTask.epilog without an entry: repair the host
EpilogRepair(t) ==
    /\ PrejobFailed(t)
    /\ t.hqe = None
    /\ queued' = queued \cup {SpecialTask(t.host, "Repair", None)}
    /\ UNCHANGED <<hqeStatus, hqeHost, active, complete, hostStatus, running, repairs, provisions>>

\* mutant: an entry out of retries loses its host too
HostAfterFailureAlways(e) == IF e \in MetaHost THEN None ELSE hqeHost[e]

\* self.queue_entry.host_id when the repairs are counted, after requeue()
HostAfterFailure(e) ==
    IF provisions[e] <= MaxProvisionRetries /\ e \in MetaHost THEN None ELSE hqeHost[e]

\* mutant: the query finds no repair
PreviousRepairsNever(e) == 0

\* the repairs of this entry on its host; no row has a NULL host
PreviousRepairs(e) ==
    IF HostAfterFailure(e) = None THEN 0 ELSE repairs[e][HostAfterFailure(e)]

\* ... with an entry below the repair limit: requeue or fail it, repair the host
EpilogRequeue(t) ==
    LET e == t.hqe IN
    /\ PrejobFailed(t)
    /\ e # None
    /\ PreviousRepairs(e) < MaxRepairLimit
    /\ hqeHost' = [hqeHost EXCEPT ![e] = HostAfterFailure(e)]
    /\ IF provisions[e] > MaxProvisionRetries
       THEN /\ SetStatus(e, "Parsing")
            /\ queued' = Without(queued, e) \cup {SpecialTask(t.host, "Repair", e)}
            /\ running' = Without(running, e)
       ELSE /\ SetStatus(e, "Queued")
            /\ queued' = WithoutOn(queued, e, t.host) \cup {SpecialTask(t.host, "Repair", e)}
            /\ running' = WithoutOn(running, e, t.host)
    /\ repairs' = [repairs EXCEPT ![e][t.host] = Least(@ + 1, MaxRepairLimit)]
    /\ UNCHANGED <<hostStatus, provisions>>

\* ... with an entry at the repair limit: the host is dead.  _fail_queue_entry
\* spares a metahost entry that was requeued
EpilogGiveUp(t) ==
    LET e == t.hqe IN
    /\ PrejobFailed(t)
    /\ e # None
    /\ PreviousRepairs(e) >= MaxRepairLimit
    /\ IF HostAfterFailure(e) = None
       THEN /\ SetStatus(e, "Queued")
            /\ queued' = WithoutOn(queued, e, t.host)
            /\ running' = WithoutOn(running, e, t.host)
       ELSE /\ SetStatus(e, "Parsing")
            /\ queued' = Without(queued, e)
            /\ running' = Without(running, e)
    /\ hqeHost' = [hqeHost EXCEPT ![e] = HostAfterFailure(e)]
    /\ SetHostStatus(t.host, "Repair Failed")
    /\ UNCHANGED <<repairs, provisions>>

\* RepairTask.epilog after a failure; the entry is failed only while Queued
RepairFailed ==
    LET t == cont.task IN
    /\ InEpilog(FALSE)
    /\ t.kind = "Repair"
    /\ SetHostStatus(t.host, "Repair Failed")
    /\ IF t.hqe # None /\ t.hqe \notin MetaHost /\ hqeStatus[t.hqe] = "Queued"
       THEN /\ SetStatus(t.hqe, "Parsing")
            /\ queued' = Without(queued, t.hqe)
            /\ running' = Without(running, t.hqe)
       ELSE UNCHANGED <<hqeStatus, active, complete, queued, running>>
    /\ cont' = None
    /\ UNCHANGED <<hqeHost, repairs, provisions>>

-----------------------------------------------------------------------------
(* Jobs: QueueTask, then GatherLogsTask, then FinalReparseTask.            *)

\* _check_queue_entry_statuses requests an abort and goes on
CheckStatuses(e, valid) ==
    aborted' = IF ~valid /\ e \notin complete THEN aborted \cup {e} ELSE aborted

HostIn(e, allowed) == hostStatus[hqeHost[e]] \in allowed

StartQueueTask(e) ==
    /\ hqeAgent[e] = "queue" /\ e \notin hqeStarted
    /\ Handling(e)
    /\ CheckStatuses(e, hqeStatus[e] \in {"Starting", "Running"} /\ HostIn(e, {"Pending", "Running"}))
    /\ SetStatus(e, "Running")
    /\ SetHostStatus(hqeHost[e], "Running")
    /\ hqeStarted' = hqeStarted \cup {e}
    /\ UNCHANGED <<hqeHost, taskVars, exit, agentNew, agentRun, hqeAgent, cont>>

FinishQueueTask(e, code) ==
    /\ hqeAgent[e] = "queue" /\ e \in hqeStarted
    /\ Handling(e)
    /\ SetStatus(e, "Gathering")
    /\ SetHostStatus(hqeHost[e], "Running")
    /\ exit' = [exit EXCEPT ![e] = code]
    /\ hqeAgent' = [hqeAgent EXCEPT ![e] = "none"]
    /\ hqeStarted' = hqeStarted \ {e}
    /\ UNCHANGED <<hqeHost, aborted, taskVars, agentNew, agentRun, cont>>

\* GatherLogsTask.run collects crash logs only when autoserv was signalled
StartGather(e) ==
    /\ hqeAgent[e] = "gather" /\ e \notin hqeStarted /\ exit[e] = "signal"
    /\ Handling(e)
    /\ CheckStatuses(e, hqeStatus[e] = "Gathering" /\ HostIn(e, {"Running"}))
    /\ hqeStarted' = hqeStarted \cup {e}
    /\ UNCHANGED <<hqeStatus, hqeHost, active, complete, hostStatus, taskVars, exit,
                   agentNew, agentRun, hqeAgent, cont>>

\* ... and otherwise finishes at once; epilog, first write
FinishGather(e) ==
    /\ hqeAgent[e] = "gather"
    /\ Handling(e)
    /\ \/ e \in hqeStarted /\ UNCHANGED aborted
       \/ /\ e \notin hqeStarted /\ exit[e] # "signal"
          /\ CheckStatuses(e, hqeStatus[e] = "Gathering" /\ HostIn(e, {"Running"}))
    /\ SetStatus(e, "Parsing")
    /\ cont' = [op |-> "reboot", hqe |-> e]
    /\ hqeAgent' = [hqeAgent EXCEPT ![e] = "none"]
    /\ hqeStarted' = hqeStarted \ {e}
    /\ UNCHANGED <<hqeHost, hostStatus, taskVars, exit, agentNew, agentRun>>

FinalSuccess(e) == e \notin aborted /\ exit[e] = "ok"

ResetAfterFailure(e, failed) == e \notin RunReset /\ (~FinalSuccess(e) \/ failed)

DoReboot(e, failed) ==
    \/ e \in aborted
    \/ RebootAfter[e] = "Always"
    \/ RebootAfter[e] = "IfAllTestsPassed" /\ FinalSuccess(e) /\ ~failed
    \/ failed /\ ~ResetAfterFailure(e, failed)

\* _reboot_hosts: queue a cleanup or declare the host ready; failed says
\* whether the pidfile reports failed tests
GatherReboot(failed) ==
    LET e == cont.hqe IN
    /\ phase = "handle"
    /\ cont # None
    /\ cont.op = "reboot"
    /\ exit[e] = "none" => ~failed
    /\ IF DoReboot(e, failed)
       THEN /\ queued' = queued \cup {SpecialTask(hqeHost[e], "Cleanup", None)}
            /\ UNCHANGED hostStatus
       ELSE /\ SetHostStatus(hqeHost[e], "Ready")
            /\ UNCHANGED queued
    /\ cont' = IF ResetAfterFailure(e, failed) THEN [op |-> "reset", hqe |-> e] ELSE None
    /\ UNCHANGED <<entryVars, leased, running, repairs, provisions, exit, phase, agentVars,
                   seen, todo, hsVars, crashes>>

\* _reset_after_failure
GatherReset ==
    /\ phase = "handle"
    /\ cont # None
    /\ cont.op = "reset"
    /\ queued' = queued \cup {SpecialTask(hqeHost[cont.hqe], "Reset", None)}
    /\ cont' = None
    /\ UNCHANGED <<entryVars, hostVars, running, repairs, provisions, exit, phase, agentVars,
                   seen, todo, hsVars, crashes>>

StartParse(e) ==
    /\ hqeAgent[e] = "parse" /\ e \notin hqeStarted /\ exit[e] # "none"
    /\ Handling(e)
    /\ CheckStatuses(e, hqeStatus[e] = "Parsing")
    /\ hqeStarted' = hqeStarted \cup {e}
    /\ UNCHANGED <<hqeStatus, hqeHost, active, complete, hostStatus, taskVars, exit,
                   agentNew, agentRun, hqeAgent, cont>>

\* without an autoserv process there is nothing to parse: it finishes at once
FinishParse(e) ==
    /\ hqeAgent[e] = "parse"
    /\ Handling(e)
    /\ \/ e \in hqeStarted /\ UNCHANGED aborted
       \/ e \notin hqeStarted /\ exit[e] = "none" /\ CheckStatuses(e, hqeStatus[e] = "Parsing")
    /\ SetStatus(e, IF e \in aborted' THEN "Aborted"
                    ELSE IF exit[e] = "ok" THEN "Completed" ELSE "Failed")
    /\ exit' = [exit EXCEPT ![e] = "none"]
    /\ hqeAgent' = [hqeAgent EXCEPT ![e] = "none"]
    /\ hqeStarted' = hqeStarted \ {e}
    /\ UNCHANGED <<hqeHost, hostStatus, taskVars, agentNew, agentRun, cont>>

EndTick ==
    /\ phase = "handle"
    /\ todo = {} /\ cont = None
    /\ phase' = "running"
    /\ UNCHANGED <<entryVars, hostVars, taskVars, exit, agentVars, seen, todo, cont,
                   hsVars, crashes>>

-----------------------------------------------------------------------------
(* A crash of the dispatcher loses its memory; the processes it started    *)
(* and their pidfiles stay.                                                *)

Crash ==
    /\ crashes < MaxCrashes
    /\ crashes' = crashes + 1
    /\ phase' = "down"
    /\ agentNew' = {} /\ agentRun' = {}
    /\ hqeAgent' = [e \in Entries |-> "none"]
    /\ hqeStarted' = {}
    /\ seen' = [e \in Entries |-> NotSeen]
    /\ todo' = {} /\ cont' = None
    /\ UNCHANGED <<entryVars, hostVars, taskVars, exit, hsVars>>

\* processes that recover() can find again: the dispatcher may have died before
\* execute_actions launched them
Recoverable == running \cup {e \in Entries : hqeStatus[e] \in {"Running", "Gathering", "Parsing"}}

RecoverTasks(found) ==
    /\ phase = "down"
    /\ agentRun' = running \cap found
    /\ agentNew' = running \ found
    /\ hqeAgent' = [e \in Entries |-> IF hqeStatus[e] \in HandledStatuses
                                      THEN AgentKind(hqeStatus[e]) ELSE "none"]
    /\ hqeStarted' = Entries \cap found
    /\ phase' = "pending"
    /\ UNCHANGED <<entryVars, hostVars, taskVars, exit, seen, todo, cont, hsVars, crashes>>

HasAgent(e) == hqeAgent[e] # "none" \/ AgentsFor(e) # {}

\* _recover_pending_entries calls on_pending again
RecoverPending ==
    LET again == {e \in Entries : hqeStatus[e] = "Pending" /\ ~HasAgent(e)} IN
    /\ phase = "pending"
    /\ hqeStatus' = [e \in Entries |-> IF e \in again THEN "Starting" ELSE hqeStatus[e]]
    /\ active' = active \cup again
    /\ complete' = complete \ again
    /\ hostStatus' = [h \in Hosts |-> IF \E e \in again : hqeHost[e] = h
                                      THEN "Pending" ELSE hostStatus[h]]
    /\ phase' = "unrecovered"
    /\ UNCHANGED <<hqeHost, aborted, leased, taskVars, exit, agentVars, seen, todo, cont,
                   hsVars, crashes>>

\* _check_for_unrecovered_verifying_entries: Resetting, but no task to show for it
CheckUnrecovered ==
    LET lost == {e \in Entries :
                   /\ hqeStatus[e] = "Resetting"
                   /\ \A t \in queued \cup running :
                        t.hqe = e => t.kind \notin {"Cleanup", "Verify", "Reset"}} IN
    /\ phase = "unrecovered"
    /\ hqeStatus' = [e \in Entries |-> IF e \in lost THEN "Queued" ELSE hqeStatus[e]]
    /\ active' = active \ lost
    /\ complete' = complete \ lost
    /\ hostStatus' = [h \in Hosts |-> IF \E e \in lost : hqeHost[e] = h
                                      THEN "Ready" ELSE hostStatus[h]]
    /\ phase' = "reverify"
    /\ UNCHANGED <<hqeHost, aborted, leased, taskVars, exit, agentVars, seen, todo, cont,
                   hsVars, crashes>>

\* _reverify_remaining_hosts, and _recover_hosts when asked to
ReverifyHosts ==
    LET left == {h \in Hosts :
                   /\ \/ hostStatus[h] \in {"Repairing", "Verifying", "Cleaning", "Provisioning"}
                      \/ RecoverHosts /\ hostStatus[h] = "Repair Failed"
                   /\ ~HostHasAgent(h)
                   /\ \A t \in queued : t.host # h} IN
    /\ phase = "reverify"
    /\ queued' = queued \cup {SpecialTask(h, "Reset", None) : h \in left}
    /\ phase' = "running"
    /\ UNCHANGED <<entryVars, hostVars, running, repairs, provisions, exit, agentVars, seen,
                   todo, cont, hsVars, crashes>>

-----------------------------------------------------------------------------
Frontend == (\E e \in Entries : AbortHqe(e)) \/ (\E h \in Hosts : ReverifyHost(h))

HostScheduler ==
    \/ HsLease \/ HsAcquire \/ HsOnPending \/ HsRun \/ HsFindUnused \/ HsUnlease
    \/ \E e \in Entries : HsSetHost(e) \/ HsActivate(e)
    \/ \E k \in PreJobKinds : HsPreJob(k)

Aborting == \E e \in Entries : AbortQueueTask(e) \/ AbortPostJob(e) \/ AbortStarting(e)
                               \/ AbortPreJob(e)

Epilog == EpilogOnPending \/ EpilogReady \/ RepairFailed
          \/ \E t \in Task : EpilogRepair(t) \/ EpilogRequeue(t) \/ EpilogGiveUp(t)

Handle ==
    \/ \E x \in todo : SkipAgent(x)
    \/ \E t \in agentNew : StartTask(t)
    \/ \E t \in agentRun, ok \in BOOLEAN : FinishTask(t, ok)
    \/ Epilog \/ RunIfReady \/ GatherReset
    \/ \E failed \in BOOLEAN : GatherReboot(failed)
    \/ \E e \in Entries : StartQueueTask(e) \/ StartGather(e) \/ FinishGather(e)
                          \/ StartParse(e) \/ FinishParse(e)
    \/ \E e \in Entries, code \in {"ok", "fail", "signal"} : FinishQueueTask(e, code)

Recovery == (\E found \in SUBSET Recoverable : RecoverTasks(found))
            \/ RecoverPending \/ CheckUnrecovered \/ ReverifyHosts

Dispatcher == ScheduleRunning \/ ScheduleSpecial \/ FindAborting \/ Aborting
              \/ HandleAborted \/ Handle \/ EndTick \/ Recovery

Next == Frontend \/ HostScheduler \/ Dispatcher \/ Crash \/ HsCrash

Spec == Init /\ [][Next]_vars

\* every loop goes on, and no slot or process is withheld for ever
Fairness ==
    /\ WF_vars(HostScheduler) /\ WF_vars(Dispatcher)
    /\ \A h \in Hosts :
        /\ SF_vars(\E t \in agentNew : t.host = h /\ StartTask(t))
        /\ SF_vars(\E t \in agentRun, ok \in BOOLEAN : t.host = h /\ FinishTask(t, ok))
    /\ \A e \in Entries :
        /\ SF_vars(HsAcquire /\ hsJobs'[e] # None)
        /\ SF_vars(StartQueueTask(e) \/ StartGather(e) \/ StartParse(e))
        /\ SF_vars(\E code \in {"ok", "fail", "signal"} : FinishQueueTask(e, code))
        /\ SF_vars(FinishGather(e) \/ FinishParse(e))

FairSpec == Spec /\ Fairness

-----------------------------------------------------------------------------
(* Properties.                                                             *)

\* the special tasks anybody still works on: rows, agents, an open epilog
EpilogTasks == IF cont = None \/ cont.op # "epilog" THEN {} ELSE {cont.task}
OpenTasks   == queued \cup running \cup TaskAgents \cup EpilogTasks

\* those an entry waits for before its job can start
PreJobTasks  == {t \in OpenTasks : t.hqe # None /\ t.kind # "Repair"}
HasPreJob(e) == \E t \in PreJobTasks : t.hqe = e

\* An entry waiting for a host, or being given one, has no pre-job task left
\* anywhere: PreJobTask.epilog cancels "any remaining pre-job tasks ...
\* otherwise we'll be left in a state where a queued HQE has special tasks".
QueuedEntryIsFree ==
    \A e \in Entries : Pending(e) \/ hsJobs[e] # None \/ hsEntry = e => ~HasPreJob(e)

\* An entry has at most one pre-job task at a time, against the host it holds:
\* the one schedule_host_job creates is gone before the next activation.
OnePreJobTask ==
    /\ \A s, t \in PreJobTasks : s.hqe = t.hqe => s = t
    /\ \A t \in PreJobTasks : hqeHost[t.hqe] = t.host

\* requeue() takes the host of a metahost entry away; no agent, special task,
\* epilog or pending abort that would dereference entry.host is left behind.
HostlessIsIdle ==
    \A e \in Entries : hqeHost[e] = None =>
        /\ e \in MetaHost
        /\ hqeStatus[e] \in {"Queued", "Aborted"}
        /\ hqeAgent[e] = "none"
        /\ ~HasPreJob(e)
        /\ hsEntry # e
        /\ seen[e].status \in {"none", "Queued", "Aborted"}
        /\ cont # None /\ cont.op # "epilog" => cont.hqe # e

\* Two active entries never hold the same host: a host is leased before an entry
\* is activated on it and unleased only when no entry is active on it.
OneJobPerHost ==
    \A d, e \in active : d # e => hqeHost[d] # hqeHost[e]

\* The host of an active entry stays leased: _release_hosts never takes back a
\* host between its query and its update while an entry is being started on it.
ActiveHostLeased == \A e \in active : hqeHost[e] \in leased

\* add_agent_task: "in practice we never see > 1 agent/task per host at any time"
OneAgentPerHost ==
    \A h \in Hosts : Cardinality({t \in TaskAgents : t.host = h} \cup
        {e \in Entries : hqeAgent[e] \in {"queue", "gather"} /\ hqeHost[e] = h}) <= 1

\* get_overlapping_jobs finds nothing: "make sure a host isn't being used by two
\* jobs at the same time", stand-alone special tasks included.
NoOverlap ==
    \A h \in Hosts : Cardinality((ActiveOn(h) \ complete) \cup
                                 {t \in running : t.host = h /\ t.hqe = None}) <= 1

\* how far an entry has come
Rank(s) == CASE s = "Queued" -> 0
             [] s \in {"Verifying", "Cleaning", "Resetting", "Provisioning"} -> 1
             [] s = "Pending" -> 2
             [] s = "Starting" -> 3
             [] s = "Running" -> 4
             [] s = "Gathering" -> 5
             [] s = "Parsing" -> 6
             [] s \in CompleteStatuses -> 7

\* An entry only moves forward, or from a pre-job task back to the queue: no
\* crash, recovery or stale write ever runs a job again or reopens a result.
StatusForward ==
    [][\A e \in Entries : \/ Rank(hqeStatus'[e]) >= Rank(hqeStatus[e])
                          \/ Rank(hqeStatus[e]) = 1 /\ hqeStatus'[e] = "Queued"]_vars

\* Unless the dispatcher is down, a Running entry has the agent that polls its
\* autoserv process, whoever was writing the row when the dispatcher crashed.
RunningIsWatched ==
    phase # "down" => \A e \in Entries : hqeStatus[e] = "Running" => hqeAgent[e] = "queue"

\* _check_for_unrecovered_verifying_entries: an entry in a pre-job status that
\* has no task left was put back to the queue, so that it "can restart from the
\* beginning and proceed correctly".
LostEntryRequeued ==
    phase = "reverify" =>
        \A e \in Entries : Rank(hqeStatus[e]) = 1 => HasPreJob(e)

\* PreJobTask.epilog: "The number of repair jobs is limited to the specific HQE
\* and host": no repair is queued for an entry beyond max_repair_limit on a host.
RepairLimitKept ==
    [][\A e \in Entries, h \in Hosts :
          /\ repairs[e][h] = MaxRepairLimit
          /\ SpecialTask(h, "Repair", e) \in queued'
          => SpecialTask(h, "Repair", e) \in queued]_vars

\* Every entry ends, for good: whatever fails, the retries and repairs of a
\* non-metahost entry run out.
EntryEnds == \A e \in Entries : <>[](e \in complete)

\* An aborted entry ends, whatever the dispatcher and the host scheduler were
\* doing with it, a crash of either included.
AbortEnds == \A e \in Entries : e \in aborted ~> [](e \in complete)

\* A leased host comes back to the pool or is declared dead.
HostFreed == \A h \in Hosts : h \in leased ~> (h \notin leased \/ hostStatus[h] = "Repair Failed")

\* A queued repair gets its host, though the entry it was queued for has been requeued,
\* has failed or runs elsewhere meanwhile: RepairTask registers the host only.
RepairStarts ==
    \A h \in Hosts : (\E t \in queued : t.host = h /\ t.kind = "Repair")
                     ~> hostStatus[h] = "Repairing"
=============================================================================
