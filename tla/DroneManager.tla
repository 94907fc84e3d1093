---------------------------- MODULE DroneManager ----------------------------
(***************************************************************************)
(* The dispatcher runs its jobs as processes of a drone it can only see    *)
(* through the drone manager: once a tick a refresh returns the process    *)
(* list and the contents of the pidfiles it has registered, and at the end *)
(* of the tick the queued commands and kills are sent.  A process writes   *)
(* its pid into its pidfile when it has started and its exit status before *)
(* it ends, whenever it gets there.                                        *)
(*                                                                         *)
(* The jobs are hostless ones, each with one entry: an autoserv process    *)
(* (HostlessQueueTask), then a parser (FinalReparseTask, of which at most  *)
(* max_parse_processes may run).  There is one drone.  The dispatcher may  *)
(* die at any time; the call it has in flight may go on without it.        *)
(***************************************************************************)
EXTENDS Integers, FiniteSets

CONSTANTS
    Jobs,
    Abortable,           \* jobs a user may abort
    Slow,                \* tasks whose process may need longer than
                         \* pidfile_timeout_mins to write its pid
    MaxParse,            \* max_parse_processes
    MaxPidfileRefreshes, \* max_pidfile_refreshes
    MaxStarts,           \* bound: how often the dispatcher is started
    Loads,               \* what there is at the start: jobs to run, jobs an earlier
                         \* dispatcher has left running, jobs to parse, and how
                         \* often the dispatcher has been started
    None

ASSUME DroneAssumption ==
    /\ Abortable \subseteq Jobs
    /\ Slow \subseteq Jobs \X {"autoserv", "parse"}
    /\ IsFiniteSet(Jobs)
    /\ MaxParse \in Nat \ {0}
    /\ MaxPidfileRefreshes \in Nat
    /\ MaxStarts \in Nat
    /\ Loads \subseteq [run : SUBSET Jobs, left : SUBSET Jobs, parse : SUBSET Jobs, starts : 0..(MaxStarts - 1)]
    /\ None \notin Int /\ None \notin {"passed", "failed"}

VARIABLES
    \* the database
    status,     \* status of the entry of a job
    aborted,    \* its aborted bit
    \* the drone
    proc,       \* state of the processes
    file,       \* contents of the pidfiles
    linked,     \* processes whose open pidfile is the one file shows
    execute,    \* execute_command calls in flight, by the life they come from
    kill,       \* kill_processes calls in flight
    refresh,    \* progress of the refresh call
    \* the dispatcher and its drone manager
    life,       \* how often the dispatcher has been started
    phase,      \* the step of the tick
    todo,       \* jobs the step has still to look at
    agent,      \* the agent of a job's entry, and what its task has done
    running,    \* FinalReparseTask._num_running_processes
    age,        \* _registered_pidfile_info: age of a registered pidfile, or None
    scan,       \* _process_set
    first,      \* _pidfiles
    second,     \* _pidfiles_second_read
    calls,      \* tasks with a queued execute_command
    kills       \* _processes_to_kill

dbVars     == <<status, aborted>>
droneVars  == <<proc, file, linked, execute, kill>>
viewVars   == <<refresh, scan, first, second>>
memoryVars == <<agent, running, age, calls, kills>>
vars == <<dbVars, droneVars, viewVars, memoryVars, life, phase, todo>>

Lives == 0..MaxStarts
Tasks == Jobs \X {"autoserv", "parse"}
Procs == Tasks \X Lives         \* a life runs the command of a task at most once
Autoserv(j) == <<j, "autoserv">>
Parse(j)    == <<j, "parse">>

Exit   == {"passed", "failed"}              \* exit status 0 and any other
Alive  == {"starting", "logged"}            \* logged: has written its pid
Ended  == {"Completed", "Failed", "Aborted"}

\* The task of an agent has a monitor: it has been started (watching) or it was
\* recovered.  A recovered task is in an Agent that has not been ticked yet, and its
\* monitor may have found that the process is lost.
Monitors == {"watching", "recovered", "lost"}
NoFile == [pid |-> None, code |-> None]
Contents == [pid : Lives \cup {None}, code : Exit \cup {None}]
Unseen == [t \in Tasks |-> NoFile]

TypeOK ==
    /\ status \in [Jobs -> {"Queued", "Starting", "Running", "Parsing"} \cup Ended]
    /\ aborted \in [Jobs -> BOOLEAN]
    /\ proc \in [Procs -> {"none", "died"} \cup Alive \cup Exit]
    /\ file \in [Tasks -> Contents]
    /\ linked \subseteq Procs
    /\ execute \in [Lives -> SUBSET Tasks] /\ kill \in [Lives -> SUBSET Procs]
    /\ refresh \in {"none", "scan", "first", "second", "done"}
    /\ life \in Lives
    /\ phase \in {"sync", "aborting", "agents", "execute", "down", "restart", "recover"}
    /\ todo \subseteq Jobs
    /\ agent \in [Jobs -> {"none", "new", "throttled"} \cup Monitors]
    /\ running \in Int
    /\ age \in [Tasks -> 0..(MaxPidfileRefreshes + 1) \cup {None}]
    /\ scan \subseteq Procs
    /\ first \in [Tasks -> Contents] /\ second \in [Tasks -> Contents]
    /\ calls \subseteq Tasks
    /\ kills \subseteq Procs

\* The autoserv an earlier dispatcher has left behind: a job to parse has one that has
\* ended, a job left Running has one that runs, or had none started.
Left(j, alive) ==
    CASE status[j] = "Parsing" -> "passed"
      [] status[j] = "Running" /\ j \in alive -> "logged"
      [] OTHER -> "none"

\* The dispatcher is about to start.
Init ==
    /\ \E load \in Loads, alive \in SUBSET Jobs :
          /\ alive \subseteq load.left
          /\ status = [j \in Jobs |-> CASE j \in load.run -> "Queued"
                                        [] j \in load.left \ load.run -> "Running"
                                        [] j \in load.parse \ (load.run \cup load.left) -> "Parsing"
                                        [] OTHER -> "Aborted"]
          /\ proc = [p \in Procs |-> IF p[1][2] = "autoserv" /\ p[2] = 0 THEN Left(p[1][1], alive) ELSE "none"]
          /\ life = load.starts
    /\ file = [t \in Tasks |-> CASE proc[<<t, 0>>] = "passed" -> [pid |-> 0, code |-> "passed"]
                                  [] proc[<<t, 0>>] = "logged" -> [pid |-> 0, code |-> None]
                                  [] OTHER -> NoFile]
    /\ linked = {p \in Procs : proc[p] = "logged"}
    /\ aborted = [j \in Jobs |-> FALSE]
    /\ execute = [l \in Lives |-> {}] /\ kill = [l \in Lives |-> {}]
    /\ phase = "down"
    /\ todo = {}
    /\ agent = [j \in Jobs |-> "none"]
    /\ running = 0
    /\ age = [t \in Tasks |-> None]
    /\ calls = {} /\ kills = {}
    /\ refresh = "none"
    /\ scan = {} /\ first = Unseen /\ second = Unseen

-----------------------------------------------------------------------------
(* The drone: the processes, and drone_utility at work on a call.          *)

\* open_file
WritePid(p) ==
    /\ proc[p] = "starting"
    /\ proc' = [proc EXCEPT ![p] = "logged"]
    /\ file' = [file EXCEPT ![p[1]] = [pid |-> p[2], code |-> None]]
    /\ linked' = linked \cup {p}
    /\ UNCHANGED <<dbVars, execute, kill, viewVars, memoryVars, life, phase, todo>>

\* close_file.  Two processes that have opened the same file write their exit
\* status to the same place, behind the pid of the last one to open it.
Finish(p) ==
    /\ proc[p] = "logged"
    /\ \E code \in Exit :
          /\ proc' = [proc EXCEPT ![p] = code]
          /\ file' = IF p \in linked THEN [file EXCEPT ![p[1]].code = code] ELSE file
    /\ linked' = linked \ {p}
    /\ UNCHANGED <<dbVars, execute, kill, viewVars, memoryVars, life, phase, todo>>

\* A process is gone without having written an exit status.
Die(p) ==
    /\ proc[p] \in Alive
    /\ proc' = [proc EXCEPT ![p] = "died"]
    /\ linked' = linked \ {p}
    /\ UNCHANGED <<dbVars, file, execute, kill, viewVars, memoryVars, life, phase, todo>>

\* DroneUtility.execute_command: a pidfile that exists is removed.
Spawn(l, t) ==
    /\ t \in execute[l]
    /\ execute' = [execute EXCEPT ![l] = @ \ {t}]
    /\ file' = [file EXCEPT ![t] = NoFile]
    /\ linked' = {p \in linked : p[1] # t}
    /\ proc' = [proc EXCEPT ![<<t, l>>] = "starting"]
    /\ UNCHANGED <<dbVars, kill, viewVars, memoryVars, life, phase, todo>>

\* DroneUtility.kill_processes, which execute_queued_calls puts behind the other
\* calls.  SIGKILL leaves no exit status; a process that got SIGTERM may write one.
Kill(l) ==
    /\ kill[l] # {}
    /\ execute[l] = {}
    /\ kill' = [kill EXCEPT ![l] = {}]
    /\ \E graceful \in SUBSET {p \in kill[l] : proc[p] = "logged"} :
          /\ proc' = [p \in Procs |-> CASE p \in graceful -> "failed"
                                        [] p \in kill[l] \ graceful /\ proc[p] \in Alive -> "died"
                                        [] OTHER -> proc[p]]
          /\ file' = [t \in Tasks |-> IF \E p \in graceful \cap linked : p[1] = t
                                      THEN [file[t] EXCEPT !.code = "failed"] ELSE file[t]]
    /\ linked' = linked \ kill[l]
    /\ UNCHANGED <<dbVars, execute, viewVars, memoryVars, life, phase, todo>>

\* ProcessRefresher: the processes are listed first, then the pidfiles are read twice.
Scan ==
    /\ refresh = "scan"
    /\ refresh' = "first"
    /\ scan' = {p \in Procs : proc[p] \in Alive}
    /\ UNCHANGED <<dbVars, droneVars, first, second, memoryVars, life, phase, todo>>

ReadPidfiles == [t \in Tasks |-> IF age[t] = None THEN NoFile ELSE file[t]]

FirstRead ==
    /\ refresh = "first"
    /\ refresh' = "second"
    /\ first' = ReadPidfiles
    /\ UNCHANGED <<dbVars, droneVars, scan, second, memoryVars, life, phase, todo>>

SecondRead ==
    /\ refresh = "second"
    /\ refresh' = "done"
    /\ second' = ReadPidfiles
    /\ UNCHANGED <<dbVars, droneVars, scan, first, memoryVars, life, phase, todo>>

Drone ==
    \/ \E p \in Procs : WritePid(p) \/ Finish(p) \/ Die(p)
    \/ \E l \in Lives : Kill(l) \/ \E t \in Tasks : Spawn(l, t)
    \/ Scan \/ FirstRead \/ SecondRead

-----------------------------------------------------------------------------
(* The pidfile monitor.                                                    *)

\* PidfileRunMonitor._get_pidfile_info, without the time-out
Look(t) ==
    IF first[t].pid = None                   THEN "no process"
    ELSE IF first[t].code # None             THEN first[t].code
    ELSE IF <<t, first[t].pid>> \in scan     THEN "running"
    ELSE IF second[t].code # None            THEN second[t].code
    ELSE IF second[t].pid = None             THEN "vanished"
    ELSE "lost"

HasProcess(t) == Look(t) \notin {"no process", "vanished"}
HasExited(t)  == Look(t) \notin {"no process", "running"}

\* mutant: a look does not reset the age
TouchNothing(T) == age

\* register_pidfile and _reset_pidfile_age, for the pidfiles T; every look at a
\* registered pidfile resets its age
Register(T) == [t \in Tasks |-> IF t \in T THEN 0 ELSE age[t]]
Touch(T)    == [t \in Tasks |-> IF t \in T /\ age[t] # None THEN 0 ELSE age[t]]
Forget(j)   == [t \in Tasks |-> IF t[1] = j THEN None ELSE age[t]]

-----------------------------------------------------------------------------
(* The tasks.                                                              *)

\* the task of a job's agent
Task(j) == IF status[j] = "Parsing" THEN Parse(j) ELSE Autoserv(j)

\* set_status with a final status, whose _on_complete unregisters the pidfiles
End(j, s) ==
    /\ status' = [status EXCEPT ![j] = s]
    /\ agent' = [agent EXCEPT ![j] = "none"]
    /\ age' = Forget(j)

\* mutant: only a bad exit status of autoserv is a failure
FinalStatusLenient(j) ==
    IF aborted[j] THEN "Aborted"
    ELSE IF Look(Autoserv(j)) # "failed" THEN "Completed" ELSE "Failed"
\* mutant: the exit status of the parser decides
FinalStatusOfParser(j) ==
    IF aborted[j] THEN "Aborted"
    ELSE IF Look(Parse(j)) = "passed" THEN "Completed" ELSE "Failed"

\* PostJobTask._final_status
FinalStatus(j) ==
    IF aborted[j] THEN "Aborted"
    ELSE IF Look(Autoserv(j)) = "passed" THEN "Completed" ELSE "Failed"

\* HostlessQueueTask: finished or aborted
FinishAutoserv(j) ==
    /\ status' = [status EXCEPT ![j] = "Parsing"]
    /\ agent' = [agent EXCEPT ![j] = "none"]

\* mutant: the counter is not decremented
FinishParseUncounted(j, n) == End(j, FinalStatus(j)) /\ running' = running

\* FinalReparseTask.finished; the counter goes down when there is a monitor
FinishParse(j, n) ==
    /\ End(j, FinalStatus(j))
    /\ running' = running - n

\* _can_start_agent finds no room on the drone for an Agent that is not started: one
\* that was recovered is not looked at either.  A parser counts no processes.
Postpone(j) ==
    /\ agent[j] \in {"new", "recovered", "lost"} /\ status[j] # "Parsing"
    /\ UNCHANGED <<dbVars, memoryVars>>

\* poll starts the task and ticks it: the new monitor looks at what this tick's
\* refresh has read
StartAutoserv(j) ==
    /\ agent[j] = "new" /\ status[j] # "Parsing"
    /\ calls' = calls \cup {Autoserv(j)}
    /\ age' = Register({Autoserv(j)})
    /\ IF HasExited(Autoserv(j))
       THEN FinishAutoserv(j)
       ELSE /\ status' = [status EXCEPT ![j] = "Running"]
            /\ agent' = [agent EXCEPT ![j] = "watching"]
    /\ UNCHANGED <<aborted, running, kills>>

\* A monitor that has lost its process does not look at the pidfile again.
PollAutoserv(j) ==
    /\ agent[j] \in Monitors /\ status[j] = "Running"
    /\ age' = IF agent[j] = "lost" THEN age ELSE Touch({Autoserv(j)})
    /\ IF agent[j] = "lost" \/ HasExited(Autoserv(j))
       THEN FinishAutoserv(j)
       ELSE agent' = [agent EXCEPT ![j] = "watching"] /\ UNCHANGED status
    /\ UNCHANGED <<aborted, running, calls, kills>>

\* SelfThrottledPostJobTask: prolog registers the pidfiles, then the task waits
\* for the number of parsers to go down.
Throttle(j) ==
    /\ agent[j] \in {"new", "throttled"} /\ status[j] = "Parsing"
    /\ running >= MaxParse
    /\ agent' = [agent EXCEPT ![j] = "throttled"]
    /\ age' = IF agent[j] = "new" THEN Register({Autoserv(j), Parse(j)}) ELSE age
    /\ UNCHANGED <<dbVars, running, calls, kills>>

\* _check_paired_results_exist fails: there is nothing to parse.
NoResults(j) ==
    /\ agent[j] \in {"new", "throttled"} /\ status[j] = "Parsing"
    /\ running < MaxParse
    /\ ~HasProcess(Autoserv(j))
    /\ FinishParse(j, 0)
    /\ UNCHANGED <<aborted, calls, kills>>

\* mutant: the counter is not incremented
StartParseUncounted(j) ==
    /\ agent[j] \in {"new", "throttled"} /\ status[j] = "Parsing"
    /\ running < MaxParse
    /\ HasProcess(Autoserv(j))
    /\ calls' = calls \cup {Parse(j)}
    /\ agent' = [agent EXCEPT ![j] = "watching"]
    /\ age' = Register({Autoserv(j), Parse(j)})
    /\ UNCHANGED <<dbVars, running, kills>>
StartParse(j) ==
    /\ agent[j] \in {"new", "throttled"} /\ status[j] = "Parsing"
    /\ running < MaxParse
    /\ HasProcess(Autoserv(j))
    /\ calls' = calls \cup {Parse(j)}
    /\ IF agent[j] = "new" /\ HasExited(Parse(j))
       THEN FinishParse(j, 0)
       ELSE /\ running' = running + 1
            /\ agent' = [agent EXCEPT ![j] = "watching"]
            /\ age' = Register({Autoserv(j), Parse(j)})
            /\ UNCHANGED status
    /\ UNCHANGED <<aborted, kills>>

PollParse(j) ==
    /\ agent[j] \in Monitors /\ status[j] = "Parsing"
    /\ IF agent[j] = "lost" \/ HasExited(Parse(j))
       THEN FinishParse(j, 1)
       ELSE /\ agent' = [agent EXCEPT ![j] = "watching"]
            /\ age' = Touch({Parse(j)})
            /\ UNCHANGED <<status, running>>
    /\ UNCHANGED <<aborted, calls, kills>>

\* A pid will never be read from the pidfile of t: it is not registered, or nobody is
\* left to write one.
NoPidComes(t) ==
    \/ age[t] = None
    \/ /\ file[t].pid = None
       /\ t \notin calls
       /\ \A l \in Lives : t \notin execute[l] /\ proc[<<t, l>>] # "starting"

\* _handle_no_process: no pid within pidfile_timeout_mins
TimeOut(j) ==
    /\ agent[j] \in {"watching", "recovered"}
    /\ Look(Task(j)) = "no process"
    /\ Task(j) \in Slow \/ NoPidComes(Task(j))
    /\ IF status[j] = "Parsing"
       THEN FinishParse(j, 1)
       ELSE FinishAutoserv(j) /\ age' = Touch({Autoserv(j)}) /\ UNCHANGED running
    /\ UNCHANGED <<aborted, calls, kills>>

-----------------------------------------------------------------------------
(* The tick.                                                               *)

\* abort_host_queue_entries of the frontend
RequestAbort(j) ==
    /\ j \in Abortable
    /\ status[j] \notin Ended
    /\ ~aborted[j]
    /\ aborted' = [aborted EXCEPT ![j] = TRUE]
    /\ UNCHANGED <<status, droneVars, viewVars, memoryVars, life, phase, todo>>

\* mutant: leaked pidfiles are kept
StartRefreshOfAll(a) ==
    /\ age' = [t \in Tasks |-> IF a[t] = None THEN None ELSE a[t] + 1]
    /\ refresh' = "scan"

\* trigger_refresh with ages a: _drop_old_pidfiles, and the refresh call
StartRefresh(a) ==
    /\ age' = [t \in Tasks |-> IF a[t] = None \/ a[t] > MaxPidfileRefreshes THEN None ELSE a[t] + 1]
    /\ refresh' = "scan"

\* mutant: the tick begins without waiting for execute_actions
BeginTickEarly ==
    /\ phase = "execute"
    /\ phase' = "sync"
    /\ StartRefresh(age)
    /\ LET new == {j \in Jobs : status[j] = "Queued" /\ ~aborted[j]}
           unhandled == {j \in Jobs : status[j] \in {"Running", "Parsing"} /\ agent[j] = "none"}
       IN  /\ status' = [j \in Jobs |-> IF j \in new THEN "Starting" ELSE status[j]]
           /\ agent' = [j \in Jobs |-> IF j \in new \cup unhandled THEN "new" ELSE agent[j]]
    /\ UNCHANGED <<aborted, droneVars, scan, first, second, running, calls, kills, life, todo>>

\* execute_actions is back from the drone and the next tick begins: trigger_refresh
\* and, while the refresh is under way, _schedule_running_host_queue_entries and
\* _schedule_new_jobs
BeginTick ==
    /\ phase = "execute"
    /\ execute[life] = {} /\ kill[life] = {}
    /\ phase' = "sync"
    /\ StartRefresh(age)
    /\ LET new == {j \in Jobs : status[j] = "Queued" /\ ~aborted[j]}
           unhandled == {j \in Jobs : status[j] \in {"Running", "Parsing"} /\ agent[j] = "none"}
       IN  /\ status' = [j \in Jobs |-> IF j \in new THEN "Starting" ELSE status[j]]
           /\ agent' = [j \in Jobs |-> IF j \in new \cup unhandled THEN "new" ELSE agent[j]]
    /\ UNCHANGED <<aborted, droneVars, scan, first, second, running, calls, kills, life, todo>>

\* sync_refresh; then _find_aborting fetches the aborted entries.
SyncRefresh ==
    /\ phase = "sync"
    /\ refresh = "done"
    /\ phase' = "aborting"
    /\ refresh' = "none"
    /\ todo' = {j \in Jobs : aborted[j] /\ status[j] \notin Ended}
    /\ UNCHANGED <<dbVars, droneVars, scan, first, second, memoryVars, life>>

\* The agents' abort and HostQueueEntry.abort.  A process whose pid is known is
\* killed; _log_abort queues calls for its drone, so execute_actions does not skip it.
\* A monitor that has lost its process has kept it: some process that had its pid in
\* the file.
Abort(j) ==
    /\ phase = "aborting" /\ j \in todo
    /\ todo' = todo \ {j}
    /\ \/ status[j] = "Parsing" /\ UNCHANGED <<status, agent, age, kills>>
       \/ status[j] \in {"Queued", "Starting"} /\ End(j, "Aborted") /\ UNCHANGED kills
       \/ /\ status[j] = "Running"
          /\ FinishAutoserv(j)
          /\ \/ agent[j] = "new" /\ UNCHANGED <<age, kills>>
             \/ /\ agent[j] = "lost" /\ UNCHANGED age
                /\ \E l \in Lives : /\ proc[<<Autoserv(j), l>>] \notin {"none", "starting"}
                                   /\ kills' = kills \cup {<<Autoserv(j), l>>}
             \/ /\ agent[j] \in {"watching", "recovered"}
                /\ age' = Touch({Autoserv(j)})
                /\ kills' = IF HasProcess(Autoserv(j))
                            THEN kills \cup {<<Autoserv(j), first[Autoserv(j)].pid>>} ELSE kills
    /\ UNCHANGED <<aborted, droneVars, viewVars, running, calls, life, phase>>

\* _handle_agents
BeginAgents ==
    /\ phase = "aborting" /\ todo = {}
    /\ phase' = "agents"
    /\ todo' = {j \in Jobs : agent[j] # "none"}
    /\ UNCHANGED <<dbVars, droneVars, viewVars, memoryVars, life>>

Handle(j) ==
    /\ phase = "agents" /\ j \in todo
    /\ todo' = todo \ {j}
    /\ \/ Postpone(j) \/ StartAutoserv(j) \/ PollAutoserv(j)
       \/ Throttle(j) \/ NoResults(j) \/ StartParse(j) \/ PollParse(j)
       \/ TimeOut(j)
    /\ UNCHANGED <<droneVars, viewVars, life, phase>>

\* mutant: the kills for a drone without other calls are cleared
ExecuteActionsSkipping ==
    /\ phase = "agents" /\ todo = {}
    /\ phase' = "execute"
    /\ execute' = [execute EXCEPT ![life] = calls]
    /\ kill' = [kill EXCEPT ![life] = IF calls = {} THEN {} ELSE kills]
    /\ calls' = {} /\ kills' = {}
    /\ scan' = {} /\ first' = Unseen /\ second' = Unseen
    /\ UNCHANGED <<dbVars, proc, file, linked, refresh, agent, running, age, life, todo>>

\* execute_actions sends what is queued.  What the refresh has found is not looked
\* at again (_reset).
ExecuteActions ==
    /\ phase = "agents" /\ todo = {}
    /\ phase' = "execute"
    /\ execute' = [execute EXCEPT ![life] = calls]
    /\ kill' = [kill EXCEPT ![life] = kills]
    /\ calls' = {} /\ kills' = {}
    /\ scan' = {} /\ first' = Unseen /\ second' = Unseen
    /\ UNCHANGED <<dbVars, proc, file, linked, refresh, agent, running, age, life, todo>>

-----------------------------------------------------------------------------
(* Crash and recovery.                                                     *)

\* The dispatcher dies; the call in flight goes on or is lost with it.
Crash ==
    /\ phase # "down"
    /\ life < MaxStarts
    /\ phase' = "down"
    /\ \/ UNCHANGED <<execute, kill>>
       \/ execute' = [execute EXCEPT ![life] = {}] /\ kill' = [kill EXCEPT ![life] = {}]
    /\ todo' = {}
    /\ agent' = [j \in Jobs |-> "none"]
    /\ running' = 0
    /\ age' = [t \in Tasks |-> None]
    /\ calls' = {} /\ kills' = {}
    /\ refresh' = "none"
    /\ scan' = {} /\ first' = Unseen /\ second' = Unseen
    /\ UNCHANGED <<dbVars, proc, file, linked, life>>

\* _recover_processes: tasks for the entries in the database, their pidfiles
\* registered, and a refresh
Restart ==
    /\ phase = "down"
    /\ phase' = "restart"
    /\ life' = life + 1
    /\ LET recovered == {j \in Jobs : status[j] \in {"Starting", "Running", "Parsing"}}
           pidfiles  == {t \in Tasks : /\ t[1] \in recovered
                                       /\ t[2] = "parse" => status[t[1]] = "Parsing"}
       IN  /\ agent' = [j \in Jobs |-> IF j \in recovered THEN "new" ELSE "none"]
           /\ StartRefresh(Register(pidfiles))
    /\ UNCHANGED <<dbVars, droneVars, scan, first, second, running, calls, kills, todo>>

SyncRecovery ==
    /\ phase = "restart"
    /\ refresh = "done"
    /\ phase' = "recover"
    /\ refresh' = "none"
    /\ todo' = {j \in Jobs : agent[j] # "none"}
    /\ UNCHANGED <<dbVars, droneVars, scan, first, second, memoryVars, life>>

\* AgentTask.recover: a task whose process is not found waits to be started normally.
Recover(j) ==
    /\ phase = "recover" /\ j \in todo
    /\ todo' = todo \ {j}
    /\ IF status[j] = "Parsing" /\ ~HasProcess(Autoserv(j))
       THEN FinishParse(j, 0)
       ELSE /\ agent' = [agent EXCEPT ![j] = IF ~HasProcess(Task(j)) THEN "new"
                                             ELSE IF Look(Task(j)) = "lost" THEN "lost" ELSE "recovered"]
            /\ age' = Touch({Autoserv(j), Task(j)})
            /\ UNCHANGED <<status, running>>
    /\ UNCHANGED <<aborted, droneVars, viewVars, calls, kills, life, phase>>

\* execute_actions finds nothing to send.
Recovered ==
    /\ phase = "recover" /\ todo = {}
    /\ phase' = "execute"
    /\ scan' = {} /\ first' = Unseen /\ second' = Unseen
    /\ UNCHANGED <<dbVars, droneVars, refresh, memoryVars, life, todo>>

Dispatcher ==
    \/ BeginTick \/ SyncRefresh \/ BeginAgents \/ ExecuteActions
    \/ Restart \/ SyncRecovery \/ Recovered
    \/ \E j \in Jobs : Abort(j) \/ Handle(j) \/ Recover(j)

Next ==
    \/ Drone \/ Dispatcher \/ Crash
    \/ \E j \in Jobs : RequestAbort(j)

Spec == Init /\ [][Next]_vars

\* The dispatcher's loop, the drone's calls and the parsers go on; a process that lives
\* writes its pid, and time passes.  An autoserv may run for ever.
FairSpec ==
    /\ Spec
    /\ WF_vars(Dispatcher)
    /\ WF_vars(Scan \/ FirstRead \/ SecondRead)
    /\ WF_vars(\E l \in Lives : Kill(l) \/ \E t \in Tasks : Spawn(l, t))
    /\ WF_vars(\E p \in Procs : WritePid(p))
    /\ WF_vars(\E j \in Jobs, l \in Lives : Finish(<<Parse(j), l>>))
    /\ \A j \in Jobs : SF_vars(Handle(j) /\ TimeOut(j))

-----------------------------------------------------------------------------
(* Properties.                                                             *)

\* the dispatchers of earlier lives have not run the command of t
OnlyNow(t) == \A l \in 0..(life - 1) : proc[<<t, l>>] = "none" /\ t \notin execute[l]

Live(t) == {l \in Lives : proc[<<t, l>>] \in Alive}

\* this dispatcher has not run the command of t
Unstarted(t) == t \notin calls \cup execute[life] /\ proc[<<t, life>>] = "none"

\* An agent whose monitor is looked at in every tick: a parser's, and one that has
\* started its autoserv itself.
Tended(j) == agent[j] \in Monitors /\ (status[j] = "Parsing" \/ ~Unstarted(Autoserv(j)))

\* A pidfile with a monitor that waits for it stays registered: it is not dropped as
\* leaked, for an unregistered pidfile reads as one without a process.  This holds of a
\* process the dispatcher has started itself and of every parser; the pidfile of a
\* recovered autoserv is dropped when its Agent is postponed for long enough.
WatchedIsRegistered == \A j \in Jobs : Tended(j) => age[Task(j)] # None

\* A job is Completed only if an autoserv of it has ended with exit status 0,
\* whatever was lost, restarted or timed out on the way.
CompletedIsEarned ==
    \A j \in Jobs : status[j] = "Completed" => \E l \in Lives : proc[<<Autoserv(j), l>>] = "passed"

\* The results of a job are parsed when its autoserv is gone: the dispatcher does not
\* take a process for ended that it has started itself and that runs.  An abort kills
\* an autoserv only once its pid is known.
ParsedWhenOver ==
    \A j \in Jobs :
       /\ Autoserv(j) \notin Slow
       /\ ~aborted[j]
       /\ OnlyNow(Autoserv(j))
       /\ Parse(j) \in calls \cup execute[life] \/ proc[<<Parse(j), life>>] # "none"
       => Live(Autoserv(j)) = {}

\* SelfThrottledPostJobTask "maintains its own process limit": the parsers a dispatcher
\* has started are at most max_parse_processes, and one more for every job whose parser
\* an earlier dispatcher had started (such a parser is not counted up but counted down).
ParseLimit ==
    Cardinality({j \in Jobs : Parse(j) \notin Slow /\ proc[<<Parse(j), life>>] \in Alive})
       <= MaxParse + Cardinality({j \in Jobs : ~OnlyNow(Parse(j))})

\* A job that has passed fails only when the pidfile of its autoserv was dropped as
\* leaked while the job waited for its parser.
FailedIsEarned ==
    [][\A j \in Jobs :
          /\ Autoserv(j) \notin Slow
          /\ status[j] \notin Ended /\ status'[j] = "Failed"
          /\ OnlyNow(Autoserv(j)) /\ proc[<<Autoserv(j), life>>] = "passed"
          => agent[j] # "new" /\ age[Autoserv(j)] = None]_vars

\* A job whose autoserv is over gets its final status: the throttled parsers get their
\* turn, and a parser that never writes its pid is given up.
ParseEnds == \A j \in Jobs : status[j] = "Parsing" ~> status[j] \in Ended

\* An abort reaches an autoserv whose pid is in its pidfile, unless the dispatcher dies.
AbortKills ==
    \A j \in Jobs :
       ( /\ phase = "execute"
         /\ status[j] = "Running" /\ aborted[j]
         /\ file[Autoserv(j)].pid = life /\ OnlyNow(Autoserv(j)) )
       ~> (Live(Autoserv(j)) = {} \/ phase = "down")

-----------------------------------------------------------------------------
(* The inductive invariant behind the theorems.                            *)

\* What is sent and when; a command in flight has no process yet.
CallsInOrder ==
    /\ phase = "down" => life < MaxStarts
    /\ calls # {} => phase = "agents"
    /\ execute[life] # {} => phase \in {"execute", "down"}
    /\ refresh # "none" => phase \in {"sync", "restart"}
    /\ phase \in {"restart", "recover"} => \A t \in Tasks : proc[<<t, life>>] = "none"
    /\ \A t \in calls : proc[<<t, life>>] = "none"
    /\ \A l \in Lives : \A t \in execute[l] : proc[<<t, l>>] = "none"
    /\ \A l \in Lives : l > life => execute[l] = {} /\ \A t \in Tasks : proc[<<t, l>>] = "none"

\* A dispatcher starts a task at most once.
Once(j) ==
    /\ status[j] \in {"Queued", "Starting"} => Unstarted(Autoserv(j))
    /\ status[j] \in {"Queued", "Starting", "Running"} => Unstarted(Parse(j))
    /\ agent[j] \in {"new", "recovered", "lost"} /\ status[j] = "Running" => Unstarted(Autoserv(j))
    /\ phase # "down" /\ status[j] = "Parsing" /\ agent[j] \in {"none", "new", "throttled"}
          => Unstarted(Parse(j))
    /\ phase # "down" /\ status[j] = "Running" => agent[j] # "none"
    /\ agent[j] # "none" => status[j] \in {"Starting", "Running", "Parsing"}
    /\ phase = "recover" /\ j \in todo => agent[j] # "none"
StartedOnce == \A j \in Jobs : Once(j)

\* Pidfiles, and what has been read of them, tell the truth about the past.
True(c, t) ==
    /\ c.pid # None => proc[<<t, c.pid>>] \notin {"none", "starting"}
    /\ c.code # None => \E l \in Lives : proc[<<t, l>>] = c.code
PidfilesTrue ==
    /\ \A t \in Tasks : True(file[t], t) /\ True(first[t], t) /\ True(second[t], t)
    /\ \A t \in Tasks : OnlyNow(t) /\ proc[<<t, life>>] = "logged" => file[t].pid # None

\* The process list has every process of this dispatcher that is still alive.
ScanComplete ==
    refresh \in {"first", "second", "done"} \/ phase \in {"aborting", "agents", "recover"}
       => \A t \in Tasks : proc[<<t, life>>] \in Alive => <<t, life>> \in scan

\* The entries about to be aborted are those a user has aborted.
AbortsAsked == phase = "aborting" => \A j \in todo : aborted[j]

\* An autoserv taken for ended has ended.
Over(j) ==
    /\ Autoserv(j) \notin Slow /\ ~aborted[j] /\ OnlyNow(Autoserv(j))
    /\ status[j] \in {"Parsing"} \cup Ended \/ agent[j] = "lost"
    => Autoserv(j) \notin calls \cup execute[life] /\ proc[<<Autoserv(j), life>>] \notin Alive
OverIsOver == \A j \in Jobs : Over(j)

\* The pidfile of a monitor that is looked at in every tick is registered, and fresh
\* once this tick has looked at it.
Fresh(j) ==
    /\ Tended(j) => age[Task(j)] # None
    /\ /\ Tended(j)
       /\ phase = "execute" \/ (phase \in {"agents", "recover"} /\ j \notin todo)
       => age[Task(j)] = 0
    /\ phase \in {"restart", "recover"} /\ agent[j] # "none" => age[Task(j)] # None
PidfilesFresh == \A j \in Jobs : Fresh(j)

\* What the dispatcher has sent and read (calls, pidfiles, process list) and what its
\* agents take it to say agree with the processes there are, at every step of a tick
\* and of a restart.  It is inductive; WatchedIsRegistered, CompletedIsEarned and
\* ParsedWhenOver follow from it.
DroneInv ==
    /\ TypeOK /\ CallsInOrder /\ StartedOnce /\ PidfilesTrue /\ ScanComplete /\ AbortsAsked
    /\ OverIsOver /\ PidfilesFresh /\ CompletedIsEarned

=============================================================================
